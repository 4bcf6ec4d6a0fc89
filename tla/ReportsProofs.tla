---------------------------- MODULE ReportsProofs ----------------------------
(***************************************************************************)
(* Proofs about the force feedback that MCReports puts beside the codec:   *)
(* WindowsPid, for any number of effect blocks and any durations, delays,  *)
(* loop counts and bounds.                                                 *)
(***************************************************************************)
EXTENDS MCReports, SequenceTheorems, FiniteSetTheorems, WellFoundedInduction, TLAPS

\* What the driver may queue.
AllReports ==
  [id : {"create"}] \cup [id : {"free"}, block : Pid!Blocks]
    \cup [id : {"operation"}, block : Pid!Blocks, operation : {"start", "solo", "stop"}, loops : Nat \ {0}]
    \cup [id : {"control"}, command : Pid!Controls]
    \cup [id : {"set"}, block : Pid!Blocks, duration : Nat, delay : Nat]
    \cup [id : {"magnitude"}, block : Pid!Blocks, force : 0..1] \cup [id : {"gain"}, gain : 0..1]

\* An effect, as the client keeps it.
EffectStates ==
  [force : 0..1, duration : Nat, infinite : BOOLEAN, delay : Nat, operated : Nat, start : Nat,
   end : Nat \cup {-1}, loops : Nat \ {0}, running : BOOLEAN, started : BOOLEAN]

\* What the host asked of a block.
Plans == [run : Nat \cup {-1}, delay : Nat, duration : Nat, loops : Nat \ {0}]

\* A product of natural numbers is one.
LEMMA NatTimes == ASSUME NEW m \in Nat, NEW n \in Nat PROVE m * n \in Nat
  OBVIOUS

\* What the steps of an effect leave it: an effect.
LEMMA EffectKept ==
  ASSUME NEW e \in EffectStates, NEW t \in Nat
  PROVE  /\ Pid!Stopped(e) \in EffectStates
         /\ Pid!Scheduled(e) \in EffectStates
         /\ Pid!Expired(e, t) \in EffectStates
         /\ \A loops \in Nat \ {0} : Pid!Started(e, loops, t) \in EffectStates
         /\ Pid!Rescheduled(e, t) \in EffectStates
         /\ \A pause \in Nat : Pid!Shifted(e, pause) \in EffectStates
<1>1. ASSUME NEW x \in EffectStates PROVE Pid!Stopped(x) \in EffectStates
  BY DEF Pid!Stopped, Pid!None, EffectStates
<1>2. ASSUME NEW x \in EffectStates PROVE Pid!Scheduled(x) \in EffectStates
  <2>1. x.duration * x.loops \in Nat
    BY NatTimes DEF EffectStates
  <2>2. x.start + x.duration * x.loops \in Nat
    BY <2>1 DEF EffectStates
  <2> DEFINE end == IF x.infinite \/ x.loops = Pid!Infinite THEN Pid!None
                      ELSE x.start + x.duration * x.loops
  <2>3. end \in Nat \cup {-1}
    BY <2>2 DEF Pid!None
  <2>4. Pid!Scheduled(x) = [x EXCEPT !.end = end]
    BY DEF Pid!Scheduled
  <2> HIDE DEF end
  <2>. QED BY <2>3, <2>4 DEF EffectStates
<1>3. ASSUME NEW x \in EffectStates PROVE Pid!Expired(x, t) \in EffectStates
  <2> DEFINE begun == x.started \/ t >= x.start
  <2>1. [x EXCEPT !.started = begun] \in EffectStates
    <3>1. begun \in BOOLEAN
      BY Zenon
    <3> HIDE DEF begun
    <3> QED BY <3>1 DEF EffectStates
  <2>. QED BY <1>1, <2>1 DEF Pid!Expired
<1>4. ASSUME NEW loops \in Nat \ {0} PROVE Pid!Started(e, loops, t) \in EffectStates
  <2> DEFINE begun == e.delay = 0
             start == t + e.delay
             x == [e EXCEPT !.running = TRUE, !.operated = t, !.started = begun,
                            !.start = start, !.loops = loops]
  <2>1. x \in EffectStates
    <3>1. begun \in BOOLEAN /\ start \in Nat
      BY DEF EffectStates
    <3> HIDE DEF begun, start
    <3> QED BY <3>1 DEF EffectStates
  <2>2. Pid!Started(e, loops, t) = Pid!Scheduled(x)
    BY DEF Pid!Started
  <2>. QED BY <1>2, <2>1, <2>2
<1>5. Pid!Rescheduled(e, t) \in EffectStates
  <2> DEFINE start == IF e.started THEN e.start ELSE e.operated + e.delay
             begun == e.started \/ t >= start
             x == [e EXCEPT !.start = start, !.started = begun]
  <2>1. start \in Nat
    BY DEF EffectStates
  <2>2. Pid!Rescheduled(e, t) = IF ~e.running THEN e ELSE Pid!Expired(Pid!Scheduled(x), t)
    BY DEF Pid!Rescheduled
  <2>3. x \in EffectStates
    <3>1. begun \in BOOLEAN
      BY Zenon
    <3> HIDE DEF start, begun
    <3> QED BY <2>1, <3>1 DEF EffectStates
  <2> HIDE DEF x
  <2>. QED BY <1>2, <1>3, <2>2, <2>3
<1>6. ASSUME NEW pause \in Nat PROVE Pid!Shifted(e, pause) \in EffectStates
  <2> DEFINE operated == e.operated + pause
             start == e.start + pause
             end == IF e.end = Pid!None THEN Pid!None ELSE e.end + pause
  <2>1. operated \in Nat /\ start \in Nat /\ end \in Nat \cup {-1}
    BY DEF EffectStates, Pid!None
  <2>2. Pid!Shifted(e, pause) = IF e.running
          THEN [e EXCEPT !.operated = operated, !.start = start, !.end = end] ELSE e
    BY DEF Pid!Shifted
  <2> HIDE DEF operated, start, end
  <2>. QED BY <2>1, <2>2 DEF EffectStates
<1>. QED BY <1>1, <1>2, <1>3, <1>4, <1>5, <1>6

\* When an effect ends by its schedule.
EndOf(e) == IF e.infinite \/ e.loops = Pid!Infinite THEN Pid!None ELSE e.start + e.duration * e.loops

\* It has ended by then.
Ends(e, t) == e.end # Pid!None /\ t >= e.end

\* What is scheduled is what was planned.
Follows(e, p, t) ==
  /\ ~e.infinite => e.duration # Pid!Infinite
  /\ IF e.running
       THEN /\ t >= e.operated /\ p.run = t - e.operated
            /\ e.start = e.operated + p.delay
            /\ p.duration = (IF e.infinite THEN Pid!Infinite ELSE e.duration) /\ p.loops = e.loops
            /\ e.end = EndOf(e)
            /\ e.started => t >= e.start
       ELSE p = Pid!NoPlan \/ Pid!Over(p)

\* Nor is anything past its end.
Current(e, p, t) == Follows(e, p, t) /\ ~Pid!Over(p)

\* A plan is cleared when it is over.
Fresh(p) == IF Pid!Over(p) THEN Pid!NoPlan ELSE p

\* A plan is over when the effect that follows it ends, and plays from its
\* start until then.
LEMMA OverIsEnd ==
  ASSUME NEW e \in EffectStates, NEW p \in Plans, NEW t \in Nat, Follows(e, p, t), e.running
  PROVE  /\ Pid!Over(p) <=> Ends(e, t)
         /\ Pid!Playing(p) <=> (t >= e.start /\ ~Ends(e, t))
         /\ p.run >= p.delay <=> t >= e.start
         /\ p # Pid!NoPlan
<1> DEFINE length == e.duration * e.loops
<1>1. length \in Nat
  BY NatTimes DEF EffectStates
<1>2. p.run >= p.delay <=> t >= e.start
  BY DEF Follows, EffectStates, Plans
<1>3. CASE e.infinite \/ e.loops = Pid!Infinite
  <2>1. e.end = Pid!None /\ ~Ends(e, t)
    BY <1>3 DEF Follows, EndOf, Ends
  <2>2. p.duration = Pid!Infinite \/ p.loops = Pid!Infinite
    BY <1>3 DEF Follows
  <2>3. Pid!Playing(p) <=> t >= e.start
    BY <1>2, <2>2 DEF Pid!Playing
  <2>4. ~Pid!Over(p)
    BY <1>2, <2>3 DEF Pid!Over
  <2>. QED BY <1>2, <2>1, <2>3, <2>4 DEF Follows, Pid!NoPlan, EffectStates
<1>4. CASE ~(e.infinite \/ e.loops = Pid!Infinite)
  <2>1. e.end = e.start + length /\ p.duration = e.duration /\ p.loops = e.loops
        /\ p.duration # Pid!Infinite /\ p.loops # Pid!Infinite
    BY <1>4 DEF Follows, EndOf
  <2>2. p.duration * p.loops = length
    BY <2>1
  <2>3. Ends(e, t) <=> t >= e.start + length
    BY <1>1, <2>1 DEF Ends, Pid!None, EffectStates
  <2>4. p.run < p.delay + p.duration * p.loops <=> t < e.start + length
    <3> HIDE DEF length
    <3>1. p.run = t - e.operated /\ e.start = e.operated + p.delay
      BY DEF Follows
    <3>2. p.run \in Int /\ p.delay \in Nat /\ e.operated \in Nat /\ e.start \in Nat
      BY DEF EffectStates, Plans
    <3>3. p.run < p.delay + length <=> t < e.start + length
      BY <1>1, <3>1, <3>2
    <3>. QED BY <2>2, <3>3
  <2>5. Pid!Playing(p) <=> t >= e.start /\ t < e.start + length
    BY <1>2, <2>1, <2>4, Zenon DEF Pid!Playing
  <2>6. t < e.start + length <=> ~(t >= e.start + length)
    <3> HIDE DEF length
    <3> QED BY <1>1 DEF EffectStates
  <2>7. t >= e.start + length => t >= e.start
    <3> HIDE DEF length
    <3> QED BY <1>1 DEF EffectStates
  <2>8. p # Pid!NoPlan
    BY DEF Follows, Pid!NoPlan, EffectStates
  <2>. QED BY <1>2, <2>3, <2>5, <2>6, <2>7, <2>8, Zenon DEF Pid!Over
<1>. QED BY <1>3, <1>4

\* An effect still follows its plan when it is expired, at a time that may be old.
LEMMA ExpiredFollows ==
  ASSUME NEW e \in EffectStates, NEW p \in Plans, NEW t \in Nat, NEW u \in Nat, u <= t,
         Follows(e, p, t)
  PROVE  Follows(Pid!Expired(e, u), p, t)
<1>1. CASE ~e.running
  BY <1>1 DEF Pid!Expired
<1>2. CASE e.running /\ Ends(e, u)
  <2>1. Pid!Expired(e, u) = Pid!Stopped(e)
    BY <1>2 DEF Pid!Expired, Ends
  <2>2. Ends(e, t)
    BY <1>2 DEF Ends, EffectStates
  <2>3. Pid!Over(p)
    BY <1>2, <2>2, OverIsEnd
  <2>. QED BY <2>1, <2>3 DEF Follows, Pid!Stopped, EffectStates
<1>3. CASE e.running /\ ~Ends(e, u)
  <2> DEFINE begun == e.started \/ u >= e.start
             x == [e EXCEPT !.started = begun]
  <2>1. Pid!Expired(e, u) = x
    BY <1>3 DEF Pid!Expired, Ends
  <2>2. begun => t >= e.start
    BY <1>3 DEF Follows, EffectStates
  <2> HIDE DEF begun
  <2>3. /\ x.infinite = e.infinite /\ x.duration = e.duration /\ x.running = e.running
        /\ x.operated = e.operated /\ x.start = e.start /\ x.loops = e.loops
        /\ x.end = e.end /\ x.started = begun
    BY DEF EffectStates
  <2>4. Follows(x, p, t)
    <3> HIDE DEF x
    <3> QED BY <1>3, <2>2, <2>3 DEF Follows, EndOf
  <2>. QED BY <2>1, <2>4
<1>. QED BY <1>1, <1>2, <1>3

\* Expired at the time, it is started if its start has come, and its plan, cleared
\* when it is over, is current.
LEMMA ExpiredCurrent ==
  ASSUME NEW e \in EffectStates, NEW p \in Plans, NEW t \in Nat, Follows(e, p, t)
  PROVE  /\ Current(Pid!Expired(e, t), Fresh(p), t)
         /\ Pid!Expired(e, t).running => (t >= Pid!Expired(e, t).start => Pid!Expired(e, t).started)
<1>0. PICK x : x = Pid!Expired(e, t)
  OBVIOUS
<1>1. Follows(x, p, t) /\ x \in EffectStates
  BY <1>0, ExpiredFollows, EffectKept
<1>2. ASSUME x.running PROVE Current(x, Fresh(p), t) /\ (t >= x.start => x.started)
  <2>1. e.running /\ ~Ends(e, t) /\ x.end = e.end
    BY <1>0, <1>2 DEF Pid!Expired, Pid!Stopped, Ends, EffectStates
  <2>2. ~Pid!Over(p)
    BY <2>1, OverIsEnd
  <2>3. t >= x.start => x.started
    BY <1>0, <2>1 DEF Pid!Expired, Ends, EffectStates
  <2>. QED BY <1>1, <2>2, <2>3 DEF Current, Fresh
<1>3. ASSUME ~x.running PROVE Current(x, Fresh(p), t)
  <2>1. ~Pid!Over(Pid!NoPlan)
    BY DEF Pid!Over, Pid!NoPlan
  <2>2. p = Pid!NoPlan \/ Pid!Over(p)
    BY <1>1, <1>3 DEF Follows
  <2>3. Fresh(p) = Pid!NoPlan
    BY <2>2 DEF Fresh
  <2>4. Follows(x, Pid!NoPlan, t)
    BY <1>1, <1>3 DEF Follows
  <2>. QED BY <2>1, <2>3, <2>4 DEF Current
<1>. QED BY <1>0, <1>2, <1>3

\* Without a plan nothing is over, and what is stopped or cleared has none.
LEMMA StoppedCurrent ==
  ASSUME NEW e \in EffectStates, ~e.infinite => e.duration # Pid!Infinite, NEW t
  PROVE  /\ Current(Pid!Stopped(e), Pid!NoPlan, t)
         /\ Current(Pid!NoEffect, Pid!NoPlan, t)
<1>1. ~Pid!Over(Pid!NoPlan)
  BY DEF Pid!Over, Pid!NoPlan
<1>2. Follows(Pid!Stopped(e), Pid!NoPlan, t)
  BY DEF Follows, Pid!Stopped, EffectStates
<1>3. Follows(Pid!NoEffect, Pid!NoPlan, t)
  BY DEF Follows, Pid!NoEffect
<1>. QED BY <1>1, <1>2, <1>3 DEF Current

\* A plan may change with what is not scheduled.
LEMMA ForceCurrent ==
  ASSUME NEW e \in EffectStates, NEW p, NEW t, NEW force \in 0..1, Current(e, p, t)
  PROVE  Current([e EXCEPT !.force = force], p, t)
<1>1. PICK x : x = [e EXCEPT !.force = force]
  OBVIOUS
<1>2. /\ x.infinite = e.infinite /\ x.duration = e.duration /\ x.running = e.running
      /\ x.operated = e.operated /\ x.start = e.start /\ x.loops = e.loops
      /\ x.end = e.end /\ x.started = e.started
  BY <1>1 DEF EffectStates
<1>3. Current(x, p, t)
  BY <1>2 DEF Current, Follows, EndOf
<1>. QED BY <1>1, <1>3

\* Started, an effect follows the plan the host asked for.
LEMMA StartedFollows ==
  ASSUME NEW e \in EffectStates, ~e.infinite => e.duration # Pid!Infinite,
         NEW t \in Nat, NEW loops \in Nat \ {0}
  PROVE  Follows(Pid!Started(e, loops, t),
                 [run |-> 0, delay |-> e.delay, loops |-> loops,
                  duration |-> IF e.infinite THEN Pid!Infinite ELSE e.duration], t)
<1>1. PICK x : x = Pid!Started(e, loops, t)
  OBVIOUS
<1>2. PICK y : y = [e EXCEPT !.running = TRUE, !.operated = t, !.started = e.delay = 0,
                             !.start = t + e.delay, !.loops = loops]
  OBVIOUS
<1>3. PICK p : p = [run |-> 0, delay |-> e.delay, loops |-> loops,
                    duration |-> IF e.infinite THEN Pid!Infinite ELSE e.duration]
  OBVIOUS
<1>4. /\ y.infinite = e.infinite /\ y.duration = e.duration /\ y.running
      /\ y.operated = t /\ y.start = t + e.delay /\ y.loops = loops
      /\ y.started <=> e.delay = 0
  BY <1>2 DEF EffectStates
<1>5. x = [y EXCEPT !.end = EndOf(y)]
  BY <1>1, <1>2 DEF Pid!Started, Pid!Scheduled, EndOf
<1>6. /\ x.infinite = y.infinite /\ x.duration = y.duration /\ x.running = y.running
      /\ x.operated = y.operated /\ x.start = y.start /\ x.loops = y.loops
      /\ x.started = y.started /\ x.end = EndOf(y)
  BY <1>2, <1>5 DEF EffectStates
<1>7. EndOf(x) = EndOf(y)
  BY <1>6 DEF EndOf
<1>8. /\ p.run = 0 /\ p.delay = e.delay /\ p.loops = loops
      /\ p.duration = IF e.infinite THEN Pid!Infinite ELSE e.duration
  BY <1>3
<1>9. e.delay \in Nat
  BY DEF EffectStates
<1>10. Follows(x, p, t)
  BY <1>4, <1>6, <1>7, <1>8, <1>9 DEF Follows
<1>. QED BY <1>1, <1>3, <1>10

\* Shifted by a pause, an effect follows its plan, for which no tick passed.
LEMMA ShiftedFollows ==
  ASSUME NEW e \in EffectStates, NEW p \in Plans, NEW t \in Nat, NEW u \in Nat, t <= u,
         Follows(e, p, t)
  PROVE  Follows(Pid!Shifted(e, u - t), p, u)
<1>1. CASE ~e.running
  BY <1>1 DEF Pid!Shifted, Follows
<1>2. CASE e.running
  <2>1. PICK x : x = Pid!Shifted(e, u - t)
    OBVIOUS
  <2>2. PICK d \in Nat : d = u - t
    OBVIOUS
  <2>3. /\ x.infinite = e.infinite /\ x.duration = e.duration /\ x.running = e.running
        /\ x.operated = e.operated + d /\ x.start = e.start + d /\ x.loops = e.loops
        /\ x.started = e.started
        /\ x.end = IF e.end = Pid!None THEN Pid!None ELSE e.end + d
    BY <1>2, <2>1, <2>2 DEF Pid!Shifted, EffectStates
  <2>4. x.end = EndOf(x)
    <3>1. PICK length \in Nat : length = e.duration * e.loops
      BY NatTimes DEF EffectStates
    <3>2. EndOf(x) = IF e.infinite \/ e.loops = Pid!Infinite THEN Pid!None
                                                            ELSE e.start + d + length
      BY <2>3, <3>1 DEF EndOf
    <3>3. e.end = IF e.infinite \/ e.loops = Pid!Infinite THEN Pid!None ELSE e.start + length
      BY <1>2, <3>1 DEF Follows, EndOf
    <3>4. e.start \in Nat
      BY DEF EffectStates
    <3>. QED BY <2>2, <2>3, <3>1, <3>2, <3>3, <3>4 DEF Pid!None
  <2>5. /\ e.operated \in Nat /\ e.start \in Nat /\ p.delay \in Nat /\ p.run \in Int
    BY DEF EffectStates, Plans
  <2>6. Follows(x, p, u)
    BY <1>2, <2>2, <2>3, <2>4, <2>5 DEF Follows
  <2>. QED BY <2>1, <2>6
<1>. QED BY <1>1, <1>2

\* An effect, and a plan, with what a set report says.
SetEffect(e, duration, delay) ==
  [e EXCEPT !.duration = duration, !.infinite = duration = Pid!Infinite, !.delay = delay]

SetPlan(p, duration, delay) ==
  IF p # Pid!NoPlan THEN [p EXCEPT !.duration = duration, !.delay = IF p.run >= @ THEN @ ELSE delay]
                    ELSE p

\* SetEffect, and rescheduled if it runs, an effect follows the plan with what was set.
LEMMA SetFollows ==
  ASSUME NEW e \in EffectStates, NEW p \in Plans, NEW t \in Nat, NEW duration \in Nat,
         NEW delay \in Nat, Current(e, p, t), e.running => (t >= e.start => e.started)
  PROVE  /\ Follows(Pid!Rescheduled(SetEffect(e, duration, delay), t), SetPlan(p, duration, delay), t)
         /\ SetEffect(e, duration, delay) \in EffectStates
<1>1. PICK y : y = SetEffect(e, duration, delay)
  OBVIOUS
<1>2. PICK q : q = SetPlan(p, duration, delay)
  OBVIOUS
<1>3. y \in EffectStates
  <2>1. PICK infinite : infinite = (duration = Pid!Infinite)
    OBVIOUS
  <2>2. infinite \in BOOLEAN
    BY <2>1
  <2>. QED BY <1>1, <2>1, <2>2 DEF EffectStates, SetEffect
<1>4. /\ y.duration = duration /\ (y.infinite <=> duration = Pid!Infinite) /\ y.delay = delay
      /\ y.running = e.running /\ y.started = e.started /\ y.operated = e.operated
      /\ y.start = e.start /\ y.loops = e.loops
  BY <1>1 DEF EffectStates, SetEffect
<1>5. CASE ~e.running
  <2>1. p = Pid!NoPlan
    BY <1>5 DEF Current, Follows
  <2>2. q = p /\ Pid!Rescheduled(y, t) = y
    BY <1>2, <1>4, <1>5, <2>1 DEF SetPlan, Pid!Rescheduled
  <2>3. Follows(y, p, t)
    BY <1>4, <1>5, <2>1 DEF Follows
  <2>. QED BY <1>1, <1>2, <1>3, <2>2, <2>3
<1>6. CASE e.running
  <2>1. Follows(e, p, t)
    BY DEF Current
  <2>2. p # Pid!NoPlan /\ (p.run >= p.delay <=> t >= e.start) /\ (e.started <=> t >= e.start)
    BY <1>6, <2>1, OverIsEnd DEF Follows
  <2>3. PICK start : start = IF e.started THEN e.start ELSE e.operated + delay
    OBVIOUS
  <2>4. PICK begun \in BOOLEAN : begun <=> e.started \/ t >= start
    BY Zenon
  <2>5. PICK x : x = [y EXCEPT !.start = start, !.started = begun]
    OBVIOUS
  <2>6. start \in Nat
    BY <2>3 DEF EffectStates
  <2>7. x \in EffectStates
    BY <1>3, <2>5, <2>6 DEF EffectStates
  <2>8. Pid!Rescheduled(y, t) = Pid!Expired(Pid!Scheduled(x), t)
    <3>1. begun = (y.started \/ t >= start)
      BY <1>3, <1>4, <2>4, Zenon DEF EffectStates
    <3>2. x = [y EXCEPT !.start = start, !.started = @ \/ t >= start]
      BY <2>5, <3>1
    <3>. QED BY <1>4, <1>6, <2>3, <3>2, Zenon DEF Pid!Rescheduled
  <2>9. PICK z : z = Pid!Scheduled(x)
    OBVIOUS
  <2>10. z \in EffectStates
    BY <2>7, <2>9, EffectKept
  <2>11. /\ z.duration = duration /\ (z.infinite <=> duration = Pid!Infinite)
         /\ z.running /\ z.started = begun /\ z.operated = e.operated /\ z.start = start
         /\ z.loops = e.loops /\ z.end = EndOf(x) /\ EndOf(x) = EndOf(z)
    <3>1. z = [x EXCEPT !.end = EndOf(x)]
      BY <2>9 DEF Pid!Scheduled, EndOf
    <3>2. /\ x.duration = y.duration /\ x.infinite = y.infinite
          /\ x.running = y.running /\ x.started = begun /\ x.operated = y.operated
          /\ x.start = start /\ x.loops = y.loops
      BY <1>3, <2>5 DEF EffectStates
    <3>3. /\ z.duration = x.duration /\ z.infinite = x.infinite
          /\ z.running = x.running /\ z.started = x.started /\ z.operated = x.operated
          /\ z.start = x.start /\ z.loops = x.loops /\ z.end = EndOf(x)
      BY <2>7, <3>1 DEF EffectStates
    <3>4. EndOf(x) = EndOf(z)
      BY <3>3 DEF EndOf
    <3>. QED BY <1>4, <1>6, <3>2, <3>3, <3>4
  <2>12. /\ q.run = p.run /\ q.loops = p.loops /\ q.duration = duration
         /\ q.delay = IF p.run >= p.delay THEN p.delay ELSE delay
    BY <1>2, <2>2 DEF SetPlan, Plans
  <2>13. q \in Plans
    BY <1>2 DEF SetPlan, Plans
  <2>14. Follows(z, q, t)
    <3>1. z.start = z.operated + q.delay
      BY <1>6, <2>1, <2>2, <2>3, <2>11, <2>12 DEF Follows
    <3>2. z.started => t >= z.start
      BY <1>6, <2>1, <2>2, <2>3, <2>4, <2>11 DEF Follows
    <3>. QED BY <1>6, <2>1, <2>11, <2>12, <3>1, <3>2 DEF Follows
  <2>15. Follows(Pid!Expired(z, t), q, t)
    BY <2>10, <2>13, <2>14, ExpiredFollows
  <2>. QED BY <1>1, <1>2, <1>3, <2>8, <2>9, <2>15
<1>. QED BY <1>5, <1>6

\* The records of the device, the driver and the two threads.
DeviceStates == [gain : 0..1, enabled : BOOLEAN, pause : Nat \cup {-1}, last : Nat]

DriverStates == [block : Nat, paused : BOOLEAN, enabled : BOOLEAN, playing : BOOLEAN]
OutputStates == [pc : {"idle", "locked", "notify", "callback"}, strength : Nat \cup {-1}]
TimerStates == [pc : {"top", "now", "advance", "callback", "wait"}, strength : Nat \cup {-1},
                now : Nat, next : Nat \cup {-1}]

\* The types that matter for what is felt.
PidShape ==
  /\ now \in Nat /\ events \in Seq(AllReports)
  /\ effects \in [Pid!Blocks -> EffectStates] /\ plan \in [Pid!Blocks -> Plans]
  /\ device \in DeviceStates /\ device.pause <= now
  /\ output \in OutputStates
  /\ timer \in TimerStates
  /\ timer.now <= now /\ (output.pc = "locked" => events # <<>>)
  /\ callback \in BOOLEAN /\ deviceOpen \in BOOLEAN /\ notified \in BOOLEAN /\ early \in BOOLEAN
  /\ missed \in BOOLEAN /\ felt \in Nat
  /\ allocated \subseteq Pid!Blocks
  /\ state \in DriverStates

\* The time as far as effects run.
Reached == IF device.pause = Pid!None THEN now ELSE device.pause

\* Every effect is scheduled as the host planned it, unless an effect was
\* started or changed in a pause; in a pause no running effect is over.
PlansFollowed ==
  ~early => \A b \in Pid!Blocks :
    /\ Follows(effects[b], plan[b], Reached)
    /\ device.pause # Pid!None /\ effects[b].running => ~Pid!Over(plan[b])

\* The plans, those that are over cleared.
Plain == [b \in Pid!Blocks |-> Fresh(plan[b])]

\* What each report does.
LEMMA AfterOther ==
  ASSUME NEW r, NEW es, r.id \in {"create", "gain"}
  PROVE  Pid!EffectsAfter(r, es, now) = es /\ Pid!PlanAfter(r) = Plain
  BY DEF Pid!EffectsAfter, Pid!PlanAfter, Plain, Fresh

\* Freed, a block has no effect and no plan.
LEMMA AfterFree ==
  ASSUME NEW r, NEW es, r.id = "free"
  PROVE  /\ Pid!EffectsAfter(r, es, now) = [es EXCEPT ![r.block] = Pid!NoEffect]
         /\ Pid!PlanAfter(r) = [Plain EXCEPT ![r.block] = Pid!NoPlan]
  BY DEF Pid!EffectsAfter, Pid!PlanAfter, Plain, Fresh

\* A magnitude changes the force and no plan.
LEMMA AfterMagnitude ==
  ASSUME NEW r, NEW es, r.id = "magnitude"
  PROVE  /\ Pid!EffectsAfter(r, es, now) = [es EXCEPT ![r.block] = [@ EXCEPT !.force = r.force]]
         /\ Pid!PlanAfter(r) = Plain
  BY DEF Pid!EffectsAfter, Pid!PlanAfter, Plain, Fresh

\* Set, an effect is rescheduled and so is its plan.
LEMMA AfterSet ==
  ASSUME NEW r, NEW es, r.id = "set", r.block \in Pid!Blocks, plan \in [Pid!Blocks -> Plans]
  PROVE  /\ Pid!EffectsAfter(r, es, now) =
              [es EXCEPT ![r.block] = Pid!Rescheduled(SetEffect(@, r.duration, r.delay), now)]
         /\ Pid!PlanAfter(r) = [Plain EXCEPT ![r.block] = SetPlan(@, r.duration, r.delay)]
<1>1. Pid!EffectsAfter(r, es, now) =
        [es EXCEPT ![r.block] = Pid!Rescheduled(SetEffect(@, r.duration, r.delay), now)]
  BY DEF Pid!EffectsAfter, SetEffect
<1>2. Plain \in [Pid!Blocks -> Plans]
  BY DEF Plain, Fresh, Pid!NoPlan, Plans, Pid!Infinite
<1>3. CASE Plain[r.block] # Pid!NoPlan
  <2>1. Pid!PlanAfter(r) = [Plain EXCEPT ![r.block].duration = r.duration,
             ![r.block].delay = IF Plain[r.block].run >= @ THEN @ ELSE r.delay]
    BY <1>3 DEF Pid!PlanAfter, Plain, Fresh
  <2>. QED BY <1>1, <1>2, <1>3, <2>1 DEF SetPlan, Plans
<1>4. CASE Plain[r.block] = Pid!NoPlan
  <2>1. Pid!PlanAfter(r) = Plain
    BY <1>4 DEF Pid!PlanAfter, Plain, Fresh
  <2>. QED BY <1>1, <1>2, <1>4, <2>1 DEF SetPlan
<1>. QED BY <1>3, <1>4

\* Operated, a block starts or stops, and a solo stops the others.
LEMMA AfterOperation ==
  ASSUME NEW r, NEW es, r.id = "operation"
  PROVE  \E others :
           /\ others = IF r.operation = "solo" THEN [b \in Pid!Blocks |-> Pid!Stopped(es[b])] ELSE es
           /\ Pid!EffectsAfter(r, es, now) =
                [others EXCEPT ![r.block] = IF r.operation = "stop" THEN Pid!Stopped(@)
                                            ELSE Pid!Started(@, r.loops, now)]
  BY DEF Pid!EffectsAfter

\* Stopped, a block has no plan.
LEMMA PlanStopped ==
  ASSUME NEW r, r.id = "operation", r.operation = "stop"
  PROVE  Pid!PlanAfter(r) = [Plain EXCEPT ![r.block] = Pid!NoPlan]
  BY DEF Pid!PlanAfter, Plain, Fresh

\* Started, it has the plan of its effect, and after a solo it alone has one.
LEMMA PlanStarted ==
  ASSUME NEW r, r.id = "operation", r.operation # "stop"
  PROVE  Pid!PlanAfter(r) =
           [b \in Pid!Blocks |->
             IF b = r.block THEN [run |-> 0, delay |-> effects[b].delay, loops |-> r.loops,
                duration |-> IF effects[b].infinite THEN Pid!Infinite ELSE effects[b].duration]
             ELSE IF r.operation = "solo" THEN Pid!NoPlan ELSE Plain[b]]
  BY DEF Pid!PlanAfter, Plain, Fresh

\* What a command does to effects and plans.
LEMMA AfterControl ==
  ASSUME NEW r, NEW es, r.id = "control"
  PROVE  /\ Pid!EffectsAfter(r, es, now) =
              IF r.command = "stop_all" THEN [b \in Pid!Blocks |-> Pid!Stopped(es[b])]
              ELSE IF r.command = "reset" THEN [b \in Pid!Blocks |-> Pid!NoEffect]
              ELSE IF r.command = "continue" /\ device.pause # Pid!None
                THEN [b \in Pid!Blocks |-> Pid!Shifted(es[b], now - device.pause)]
              ELSE es
         /\ Pid!PlanAfter(r) = IF r.command \in {"stop_all", "reset"} THEN [b \in Pid!Blocks |-> Pid!NoPlan]
                               ELSE Plain
<1>1. CASE r.command = "stop_all"
  BY <1>1 DEF Pid!EffectsAfter, Pid!PlanAfter, Plain, Fresh
<1>2. CASE r.command = "reset"
  BY <1>2 DEF Pid!EffectsAfter, Pid!PlanAfter, Plain, Fresh
<1>3. CASE r.command = "continue" /\ device.pause # Pid!None
  BY <1>3 DEF Pid!EffectsAfter, Pid!PlanAfter, Plain, Fresh
<1>4. CASE ~(r.command \in {"stop_all", "reset"} \/ (r.command = "continue" /\ device.pause # Pid!None))
  BY <1>4 DEF Pid!EffectsAfter, Pid!PlanAfter, Plain, Fresh
<1>. QED BY <1>1, <1>2, <1>3, <1>4

\* Apart from commands, only the gain changes the device.
LEMMA DeviceOther ==
  ASSUME NEW r, r.id # "control"
  PROVE  Pid!DeviceAfter(r, now) = IF r.id = "gain" THEN [device EXCEPT !.gain = r.gain] ELSE device
  BY DEF Pid!DeviceAfter

\* A report leaves effects, plans and the device what they are.
LEMMA HandledShape ==
  ASSUME PidShape, NEW r \in AllReports, NEW es \in [Pid!Blocks -> EffectStates]
  PROVE  /\ Pid!EffectsAfter(r, es, now) \in [Pid!Blocks -> EffectStates]
         /\ Pid!PlanAfter(r) \in [Pid!Blocks -> Plans]
         /\ Pid!DeviceAfter(r, now) \in DeviceStates
         /\ Pid!DeviceAfter(r, now).pause <= now
<1>0. /\ now \in Nat /\ effects \in [Pid!Blocks -> EffectStates] /\ plan \in [Pid!Blocks -> Plans]
      /\ device \in DeviceStates /\ device.pause <= now
  BY DEF PidShape
<1>1. Pid!NoEffect \in EffectStates /\ Pid!NoPlan \in Plans
  BY DEF Pid!NoEffect, Pid!NoPlan, EffectStates, Plans, Pid!None, Pid!Infinite
<1>2. Plain \in [Pid!Blocks -> Plans]
  BY <1>0, <1>1 DEF Plain, Fresh
<1>3. \A b \in Pid!Blocks : Pid!Stopped(es[b]) \in EffectStates
  BY <1>0, EffectKept
<1>4. CASE r.id \in {"create", "gain"}
  <2>1. Pid!EffectsAfter(r, es, now) = es /\ Pid!PlanAfter(r) = Plain
    BY <1>4, AfterOther
  <2>2. Pid!DeviceAfter(r, now) = IF r.id = "gain" THEN [device EXCEPT !.gain = r.gain] ELSE device
    BY <1>4, DeviceOther
  <2>3. r.id = "gain" => r.gain \in 0..1
    BY <1>4 DEF AllReports
  <2>. QED BY <1>0, <1>2, <2>1, <2>2, <2>3 DEF DeviceStates
<1>5. CASE r.id \in {"free", "magnitude", "set", "operation"}
  <2>1. r.block \in Pid!Blocks
    BY <1>5 DEF AllReports
  <2>2. Pid!DeviceAfter(r, now) = device
    BY <1>5, DeviceOther
  <2>3. CASE r.id = "free"
    BY <1>0, <1>1, <1>2, <2>1, <2>2, <2>3, AfterFree
  <2>4. CASE r.id = "magnitude"
    <3>1. r.force \in 0..1
      BY <2>4 DEF AllReports
    <3>2. [es[r.block] EXCEPT !.force = r.force] \in EffectStates
      BY <2>1, <3>1 DEF EffectStates
    <3>. QED BY <1>0, <1>2, <2>1, <2>2, <2>4, <3>2, AfterMagnitude
  <2>5. CASE r.id = "set"
    <3>1. r.duration \in Nat /\ r.delay \in Nat
      BY <2>5 DEF AllReports
    <3>2. PICK infinite \in BOOLEAN : infinite = (r.duration = Pid!Infinite)
      OBVIOUS
    <3>3. SetEffect(es[r.block], r.duration, r.delay) \in EffectStates
      BY <2>1, <3>1, <3>2 DEF EffectStates, SetEffect
    <3>4. Pid!Rescheduled(SetEffect(es[r.block], r.duration, r.delay), now) \in EffectStates
      BY <1>0, <3>3, EffectKept
    <3>5. SetPlan(Plain[r.block], r.duration, r.delay) \in Plans
      BY <1>2, <2>1, <3>1 DEF SetPlan, Plans
    <3>. QED BY <1>0, <1>2, <2>1, <2>2, <2>5, <3>4, <3>5, AfterSet
  <2>6. CASE r.id = "operation"
    <3>1. r.loops \in Nat \ {0}
      BY <2>6 DEF AllReports
    <3>2. Pid!EffectsAfter(r, es, now) \in [Pid!Blocks -> EffectStates]
      <4>1. PICK others :
              /\ others = IF r.operation = "solo" THEN [b \in Pid!Blocks |-> Pid!Stopped(es[b])] ELSE es
              /\ Pid!EffectsAfter(r, es, now) =
                   [others EXCEPT ![r.block] = IF r.operation = "stop" THEN Pid!Stopped(@)
                                               ELSE Pid!Started(@, r.loops, now)]
        BY <1>0, <2>6, AfterOperation
      <4>2. others \in [Pid!Blocks -> EffectStates]
        BY <1>3, <4>1
      <4>3. /\ Pid!Stopped(others[r.block]) \in EffectStates
            /\ Pid!Started(others[r.block], r.loops, now) \in EffectStates
        BY <1>0, <2>1, <3>1, <4>2, EffectKept
      <4>. QED BY <2>1, <4>1, <4>2, <4>3
    <3>3. Pid!PlanAfter(r) \in [Pid!Blocks -> Plans]
      <4>1. CASE r.operation = "stop"
        BY <1>0, <1>1, <1>2, <2>1, <2>6, <4>1, PlanStopped
      <4>2. CASE r.operation # "stop"
        <5>1. ASSUME NEW b \in Pid!Blocks
              PROVE  [run |-> 0, delay |-> effects[b].delay, loops |-> r.loops,
                duration |-> IF effects[b].infinite THEN Pid!Infinite ELSE effects[b].duration] \in Plans
          BY <1>0, <3>1 DEF Plans, EffectStates, Pid!Infinite
        <5>. QED BY <1>0, <1>1, <1>2, <2>6, <4>2, <5>1, PlanStarted
      <4>. QED BY <4>1, <4>2
    <3>. QED BY <1>0, <2>2, <3>2, <3>3
  <2>. QED BY <1>5, <2>3, <2>4, <2>5, <2>6
<1>6. CASE r.id = "control"
  <2>1. r.command \in Pid!Controls
    BY <1>6 DEF AllReports
  <2>2. Pid!EffectsAfter(r, es, now) \in [Pid!Blocks -> EffectStates]
    <3>1. CASE r.command = "continue" /\ device.pause # Pid!None
      <4>1. now - device.pause \in Nat
        BY <1>0, <3>1 DEF DeviceStates, Pid!None
      <4>2. \A b \in Pid!Blocks : Pid!Shifted(es[b], now - device.pause) \in EffectStates
        BY <1>0, <4>1, EffectKept
      <4>. QED BY <1>6, <3>1, <4>2, AfterControl
    <3>2. CASE ~(r.command = "continue" /\ device.pause # Pid!None)
      <4>1. \/ Pid!EffectsAfter(r, es, now) = es
            \/ Pid!EffectsAfter(r, es, now) = [b \in Pid!Blocks |-> Pid!NoEffect]
            \/ Pid!EffectsAfter(r, es, now) = [b \in Pid!Blocks |-> Pid!Stopped(es[b])]
        BY <1>6, <3>2, AfterControl
      <4>. QED BY <1>1, <1>3, <4>1
    <3>. QED BY <3>1, <3>2
  <2>4. Pid!PlanAfter(r) \in [Pid!Blocks -> Plans]
    BY <1>0, <1>1, <1>2, <1>6, AfterControl
  <2>5. Pid!DeviceAfter(r, now) \in DeviceStates /\ Pid!DeviceAfter(r, now).pause <= now
    <3>1. CASE r.command = "pause"
      <4>1. PICK pause \in Nat : pause = (IF device.pause = Pid!None THEN now ELSE device.pause) /\ pause <= now
        BY <1>0 DEF DeviceStates, Pid!None
      <4>2. Pid!DeviceAfter(r, now) = [device EXCEPT !.pause = pause]
        BY <1>6, <3>1, <4>1 DEF Pid!DeviceAfter
      <4>. QED BY <1>0, <4>1, <4>2 DEF DeviceStates
    <3>2. CASE r.command # "pause"
      <4>1. \/ Pid!DeviceAfter(r, now) \in {device, [device EXCEPT !.enabled = TRUE]}
            \/ Pid!DeviceAfter(r, now) \in {[device EXCEPT !.enabled = FALSE], [device EXCEPT !.pause = -1],
                                            [device EXCEPT !.gain = 1, !.enabled = TRUE, !.pause = -1]}
        BY <1>6, <2>1, <3>2 DEF Pid!DeviceAfter, Pid!Controls, Pid!None
      <4>2. /\ [device EXCEPT !.enabled = TRUE] \in DeviceStates
            /\ [device EXCEPT !.enabled = TRUE].pause = device.pause
        BY <1>0 DEF DeviceStates
      <4>4. /\ [device EXCEPT !.enabled = FALSE] \in DeviceStates
            /\ [device EXCEPT !.enabled = FALSE].pause = device.pause
        BY <1>0 DEF DeviceStates
      <4>5. /\ [device EXCEPT !.pause = -1] \in DeviceStates
            /\ [device EXCEPT !.pause = -1].pause = -1
        BY <1>0 DEF DeviceStates
      <4>6. /\ [device EXCEPT !.gain = 1, !.enabled = TRUE, !.pause = -1] \in DeviceStates
            /\ [device EXCEPT !.gain = 1, !.enabled = TRUE, !.pause = -1].pause = -1
        <5>1. PICK gain \in 0..1, enabled \in BOOLEAN, pause \in Nat \cup {-1} :
                gain = 1 /\ enabled = TRUE /\ pause = -1
          BY 1 \in 0..1, TRUE \in BOOLEAN, -1 \in Nat \cup {-1}, Zenon
        <5>2. [device EXCEPT !.gain = gain, !.enabled = enabled, !.pause = pause] \in DeviceStates
          BY <1>0 DEF DeviceStates
        <5>3. [device EXCEPT !.gain = gain, !.enabled = enabled, !.pause = pause].pause = pause
          BY <1>0 DEF DeviceStates
        <5>. QED BY <5>1, <5>2, <5>3
      <4>3. -1 <= now
        BY <1>0
      <4>. QED BY <1>0, <4>1, <4>2, <4>3, <4>4, <4>5, <4>6
    <3>. QED BY <3>1, <3>2
  <2>. QED BY <2>2, <2>4, <2>5
<1>7. r.id \in {"create", "gain", "free", "magnitude", "set", "operation", "control"}
  BY DEF AllReports
<1>. QED BY <1>4, <1>5, <1>6, <1>7

\* Expired, every effect follows its plan, cleared when it is over.
LEMMA Refreshed ==
  ASSUME PidShape, ~early, PlansFollowed, NEW b \in Pid!Blocks
  PROVE  LET e == Pid!ExpireEffects(effects, now)[b] IN
         /\ e \in EffectStates /\ Plain[b] \in Plans
         /\ Current(e, Plain[b], Reached)
         /\ device.pause = Pid!None => (e.running => (now >= e.start => e.started))
         /\ e.delay = effects[b].delay /\ e.duration = effects[b].duration
         /\ e.infinite = effects[b].infinite
<1>0. /\ now \in Nat /\ effects[b] \in EffectStates /\ plan[b] \in Plans
      /\ device \in DeviceStates
  BY DEF PidShape
<1>1. /\ Follows(effects[b], plan[b], Reached)
      /\ device.pause # Pid!None /\ effects[b].running => ~Pid!Over(plan[b])
  BY DEF PlansFollowed
<1>2. Pid!NoPlan \in Plans /\ Plain[b] = Fresh(plan[b])
  BY DEF Pid!NoPlan, Plans, Pid!None, Pid!Infinite, Plain
<1>3. Plain[b] \in Plans
  BY <1>0, <1>2 DEF Fresh
<1>4. PICK e : e = Pid!ExpireEffects(effects, now)[b]
  OBVIOUS
<1>5. CASE device.pause = Pid!None
  <2>1. e = Pid!Expired(effects[b], now) /\ Reached = now
    BY <1>4, <1>5 DEF Pid!ExpireEffects, Reached
  <2>2. e \in EffectStates
    BY <1>0, <2>1, EffectKept
  <2>3. Current(e, Plain[b], Reached) /\ (e.running => (now >= e.start => e.started))
    BY <1>0, <1>1, <1>2, <2>1, ExpiredCurrent
  <2>4. /\ e.delay = effects[b].delay /\ e.duration = effects[b].duration
        /\ e.infinite = effects[b].infinite
    BY <1>0, <2>1 DEF Pid!Expired, Pid!Stopped, EffectStates
  <2>. QED BY <1>3, <1>4, <2>2, <2>3, <2>4
<1>6. CASE device.pause # Pid!None
  <2>1. e = effects[b]
    BY <1>4, <1>6 DEF Pid!ExpireEffects
  <2>2. ~Pid!Over(Pid!NoPlan)
    BY DEF Pid!Over, Pid!NoPlan
  <2>3. Current(e, Plain[b], Reached)
    <3>1. CASE effects[b].running
      BY <1>1, <1>2, <1>6, <2>1, <3>1 DEF Current, Fresh
    <3>2. CASE ~effects[b].running
      <4>1. Fresh(plan[b]) = Pid!NoPlan
        BY <1>1, <3>2 DEF Follows, Fresh
      <4>2. Follows(e, Pid!NoPlan, Reached)
        BY <1>1, <2>1, <3>2 DEF Follows
      <4>. QED BY <1>2, <2>2, <4>1, <4>2 DEF Current
    <3>. QED BY <3>1, <3>2
  <2>. QED BY <1>0, <1>3, <1>4, <1>6, <2>1, <2>3
<1>. QED BY <1>5, <1>6

\* Handled, a report leaves what is scheduled as planned, unless it starts or
\* changes an effect in a pause.
LEMMA HandledFollows ==
  ASSUME PidShape, ~early, PlansFollowed, NEW r \in AllReports,
         ~(device.pause # Pid!None /\ \E b \in Pid!Blocks :
             r.id \in {"set", "operation"} /\ r.block = b /\ Pid!PlanAfter(r)[b] # Pid!NoPlan),
         NEW b \in Pid!Blocks
  PROVE  LET d == Pid!DeviceAfter(r, now)
             e == Pid!EffectsAfter(r, Pid!ExpireEffects(effects, now), now)[b]
             p == Pid!PlanAfter(r)[b]
         IN /\ Follows(e, p, IF d.pause = Pid!None THEN now ELSE d.pause)
            /\ d.pause # Pid!None /\ e.running => ~Pid!Over(p)
<1>0. /\ now \in Nat /\ device \in DeviceStates /\ plan \in [Pid!Blocks -> Plans]
      /\ device.pause <= now
  BY DEF PidShape
<1>1. PICK es : es = Pid!ExpireEffects(effects, now)
  OBVIOUS
<1>2. \A x \in Pid!Blocks :
         /\ es[x] \in EffectStates /\ Plain[x] \in Plans
         /\ Current(es[x], Plain[x], Reached)
         /\ device.pause = Pid!None => (es[x].running => (now >= es[x].start => es[x].started))
         /\ es[x].delay = effects[x].delay /\ es[x].duration = effects[x].duration
         /\ es[x].infinite = effects[x].infinite
  BY <1>1, Refreshed
<1>3. PICK e : e = Pid!EffectsAfter(r, es, now)[b]
  OBVIOUS
<1>4. PICK p : p = Pid!PlanAfter(r)[b]
  OBVIOUS
<1>5. PICK d : d = Pid!DeviceAfter(r, now)
  OBVIOUS
<1>6. PICK t : t = IF d.pause = Pid!None THEN now ELSE d.pause
  OBVIOUS
<1> DEFINE Good == Follows(e, p, t) /\ (d.pause # Pid!None /\ e.running => ~Pid!Over(p))
<1>7. Current(e, p, t) => Good
  BY DEF Current
<1>8. \A x \in Pid!Blocks : /\ ~es[x].infinite => es[x].duration # Pid!Infinite
                            /\ Current(Pid!Stopped(es[x]), Pid!NoPlan, t)
                            /\ Current(Pid!NoEffect, Pid!NoPlan, t)
  BY <1>2, StoppedCurrent DEF Current, Follows
<1>9. Plain = [x \in Pid!Blocks |-> Plain[x]] /\ es = [x \in Pid!Blocks |-> es[x]]
  <2>1. effects = [x \in Pid!Blocks |-> effects[x]]
    BY DEF PidShape
  <2>. QED BY <1>1, <2>1 DEF Plain, Pid!ExpireEffects
<1>10. r.id # "control" => d.pause = device.pause /\ t = Reached
  <2>1. ASSUME r.id # "control" PROVE d.pause = device.pause
    <3>1. d = device \/ d = [device EXCEPT !.gain = r.gain]
      BY <1>5, <2>1, DeviceOther
    <3>. QED BY <1>0, <3>1 DEF DeviceStates
  <2>. QED BY <1>6, <2>1 DEF Reached
<1>11. CASE r.id \in {"create", "gain"}
  <2>1. e = es[b] /\ p = Plain[b]
    BY <1>3, <1>4, <1>11, AfterOther
  <2>. QED BY <1>1, <1>2, <1>3, <1>4, <1>5, <1>6, <1>7, <1>10, <1>11, <2>1
<1>12. CASE r.id = "free"
  <2>1. r.block \in Pid!Blocks
    BY <1>12 DEF AllReports
  <2>2. /\ e = IF b = r.block THEN Pid!NoEffect ELSE es[b]
        /\ p = IF b = r.block THEN Pid!NoPlan ELSE Plain[b]
    BY <1>3, <1>4, <1>9, <1>12, <2>1, AfterFree
  <2>3. Current(e, p, t)
    BY <1>2, <1>8, <1>10, <1>12, <2>2
  <2>. QED BY <1>1, <1>3, <1>4, <1>5, <1>6, <1>7, <2>3
<1>13. CASE r.id = "magnitude"
  <2>1. r.block \in Pid!Blocks /\ r.force \in 0..1
    BY <1>13 DEF AllReports
  <2>2. /\ e = IF b = r.block THEN [es[b] EXCEPT !.force = r.force] ELSE es[b]
        /\ p = Plain[b]
    <3>1. PICK new : new = [es[r.block] EXCEPT !.force = r.force]
      OBVIOUS
    <3>2. Pid!EffectsAfter(r, es, now) = [es EXCEPT ![r.block] = new]
      BY <1>13, <3>1, AfterMagnitude
    <3>3. e = IF b = r.block THEN new ELSE es[b]
      BY <1>3, <1>9, <2>1, <3>2
    <3>. QED BY <1>4, <1>13, <3>1, <3>3, AfterMagnitude
  <2>3. Current(e, p, t)
    BY <1>2, <1>10, <1>13, <2>1, <2>2, ForceCurrent
  <2>. QED BY <1>1, <1>3, <1>4, <1>5, <1>6, <1>7, <2>3
<1>14. CASE r.id = "set"
  <2>1. r.block \in Pid!Blocks /\ r.duration \in Nat /\ r.delay \in Nat
    BY <1>14 DEF AllReports
  <2>2. /\ e = IF b = r.block THEN Pid!Rescheduled(SetEffect(es[b], r.duration, r.delay), now) ELSE es[b]
        /\ p = IF b = r.block THEN SetPlan(Plain[b], r.duration, r.delay) ELSE Plain[b]
    BY <1>0, <1>3, <1>4, <1>9, <1>14, <2>1, AfterSet
  <2>3. CASE b # r.block
    <3>1. Current(e, p, t)
      BY <1>2, <1>10, <1>14, <2>2, <2>3
    <3>. QED BY <1>1, <1>3, <1>4, <1>5, <1>6, <1>7, <3>1
  <2>4. CASE b = r.block /\ device.pause = Pid!None
    <3>1. t = now /\ Reached = now /\ d.pause = Pid!None
      BY <1>6, <1>10, <1>14, <2>4 DEF Reached
    <3>2. Follows(Pid!Rescheduled(SetEffect(es[b], r.duration, r.delay), now),
                  SetPlan(Plain[b], r.duration, r.delay), now)
      BY <1>0, <1>2, <2>1, <2>4, <3>1, SetFollows
    <3>3. Follows(e, p, t)
      BY <2>2, <2>4, <3>1, <3>2
    <3>. QED BY <1>1, <1>3, <1>4, <1>5, <1>6, <3>1, <3>3
  <2>5. CASE b = r.block /\ device.pause # Pid!None
    <3>1. p = Pid!NoPlan
      BY <1>4, <1>14, <2>5
    <3>2. Plain[b] = Pid!NoPlan
      <4>1. CASE es[b].running
        <5>1. Plain[b].run # -1
          BY <1>0, <1>2, <4>1 DEF Current, Follows, Reached, EffectStates, DeviceStates, Pid!None
        <5>2. Plain[b] # Pid!NoPlan
          BY <5>1 DEF Pid!NoPlan
        <5>3. p.run = Plain[b].run
          BY <1>2, <2>1, <2>2, <2>5, <5>2 DEF SetPlan, Plans
        <5>. QED BY <3>1, <5>1, <5>3 DEF Pid!NoPlan
      <4>2. CASE ~es[b].running
        BY <1>2, <4>2 DEF Current, Follows
      <4>. QED BY <4>1, <4>2
    <3>3. ~es[b].running
      <4>1. es[b].running => Plain[b].run # -1
        BY <1>0, <1>2 DEF Current, Follows, Reached, EffectStates, DeviceStates, Pid!None
      <4>. QED BY <3>2, <4>1 DEF Pid!NoPlan
    <3>4. PICK y : y = SetEffect(es[b], r.duration, r.delay)
      OBVIOUS
    <3>5. /\ ~y.running /\ y.duration = r.duration
          /\ y.infinite <=> r.duration = Pid!Infinite
      BY <1>2, <3>3, <3>4 DEF SetEffect, EffectStates
    <3>6. e = y
      BY <2>2, <2>5, <3>4, <3>5 DEF Pid!Rescheduled
    <3>7. Follows(e, p, t) /\ ~e.running
      BY <3>1, <3>5, <3>6 DEF Follows
    <3>. QED BY <1>1, <1>3, <1>4, <1>5, <1>6, <3>7
  <2>. QED BY <2>3, <2>4, <2>5
<1>15. CASE r.id = "operation"
  <2>1. r.block \in Pid!Blocks /\ r.operation \in {"start", "solo", "stop"} /\ r.loops \in Nat \ {0}
    BY <1>15 DEF AllReports
  <2>2. PICK others :
          /\ others = IF r.operation = "solo" THEN [x \in Pid!Blocks |-> Pid!Stopped(es[x])] ELSE es
          /\ Pid!EffectsAfter(r, es, now) =
               [others EXCEPT ![r.block] = IF r.operation = "stop" THEN Pid!Stopped(@)
                                           ELSE Pid!Started(@, r.loops, now)]
    BY <1>15, AfterOperation
  <2>3. /\ others = [x \in Pid!Blocks |-> others[x]]
        /\ \A x \in Pid!Blocks : others[x] = IF r.operation = "solo" THEN Pid!Stopped(es[x]) ELSE es[x]
    <3>1. CASE r.operation = "solo"
      <4>1. others = [x \in Pid!Blocks |-> Pid!Stopped(es[x])]
        BY <2>2, <3>1
      <4>. QED BY <3>1, <4>1
    <3>2. CASE r.operation # "solo"
      <4>1. others = es
        BY <2>2, <3>2
      <4>. QED BY <1>9, <3>2, <4>1
    <3>. QED BY <3>1, <3>2
  <2>4. e = IF b # r.block THEN others[b]
            ELSE IF r.operation = "stop" THEN Pid!Stopped(others[b])
            ELSE Pid!Started(others[b], r.loops, now)
    <3>1. PICK new : new = IF r.operation = "stop" THEN Pid!Stopped(others[r.block])
                           ELSE Pid!Started(others[r.block], r.loops, now)
      OBVIOUS
    <3>2. Pid!EffectsAfter(r, es, now) = [others EXCEPT ![r.block] = new]
      BY <2>2, <3>1
    <3>3. e = IF b # r.block THEN others[b] ELSE new
      BY <1>3, <2>1, <2>3, <3>2
    <3>. QED BY <3>1, <3>3
  <2>5. CASE r.operation = "stop"
    <3>1. p = IF b = r.block THEN Pid!NoPlan ELSE Plain[b]
      BY <1>4, <1>9, <1>15, <2>1, <2>5, PlanStopped
    <3>2. Current(e, p, t)
      BY <1>2, <1>8, <1>10, <1>15, <2>3, <2>4, <2>5, <3>1
    <3>. QED BY <1>1, <1>3, <1>4, <1>5, <1>6, <1>7, <3>2
  <2>6. CASE r.operation # "stop" /\ b # r.block
    <3>1. p = IF r.operation = "solo" THEN Pid!NoPlan ELSE Plain[b]
      BY <1>4, <1>15, <2>6, PlanStarted
    <3>2. Current(e, p, t)
      BY <1>2, <1>8, <1>10, <1>15, <2>3, <2>4, <2>6, <3>1
    <3>. QED BY <1>1, <1>3, <1>4, <1>5, <1>6, <1>7, <3>2
  <2>7. CASE r.operation # "stop" /\ b = r.block
    <3>1. p = [run |-> 0, delay |-> effects[b].delay, loops |-> r.loops,
               duration |-> IF effects[b].infinite THEN Pid!Infinite ELSE effects[b].duration]
      BY <1>4, <1>15, <2>7, PlanStarted
    <3>2. device.pause = Pid!None
      <4>1. p.run = 0
        BY <3>1
      <4>2. p # Pid!NoPlan
        BY <4>1 DEF Pid!NoPlan
      <4>. QED BY <1>4, <1>15, <2>7, <4>2
    <3>3. t = now /\ d.pause = Pid!None
      BY <1>6, <1>10, <1>15, <3>2
    <3>4. PICK y : y = others[b]
      OBVIOUS
    <3>5. y \in EffectStates /\ y.delay = effects[b].delay /\ y.duration = effects[b].duration
          /\ y.infinite = effects[b].infinite
      <4>1. CASE r.operation = "solo"
        <5>1. y = Pid!Stopped(es[b])
          BY <2>3, <3>4, <4>1
        <5>2. y \in EffectStates
          BY <1>0, <1>2, <5>1, EffectKept
        <5>. QED BY <1>2, <5>1, <5>2 DEF Pid!Stopped, EffectStates
      <4>2. CASE r.operation # "solo"
        BY <1>2, <2>3, <3>4, <4>2
      <4>. QED BY <4>1, <4>2
    <3>6. ~y.infinite => y.duration # Pid!Infinite
      BY <1>2, <1>8, <3>5
    <3>7. Follows(Pid!Started(y, r.loops, now),
                  [run |-> 0, delay |-> y.delay, loops |-> r.loops,
                   duration |-> IF y.infinite THEN Pid!Infinite ELSE y.duration], now)
      BY <1>0, <2>1, <3>5, <3>6, StartedFollows
    <3>8. e = Pid!Started(y, r.loops, now)
      BY <2>4, <2>7, <3>4
    <3>9. Follows(e, p, t)
      BY <3>1, <3>3, <3>5, <3>7, <3>8
    <3>. QED BY <1>1, <1>3, <1>4, <1>5, <1>6, <3>3, <3>9
  <2>. QED BY <2>5, <2>6, <2>7
<1>16. CASE r.id = "control"
  <2>1. /\ Pid!EffectsAfter(r, es, now) =
              IF r.command = "stop_all" THEN [x \in Pid!Blocks |-> Pid!Stopped(es[x])]
              ELSE IF r.command = "reset" THEN [x \in Pid!Blocks |-> Pid!NoEffect]
              ELSE IF r.command = "continue" /\ device.pause # Pid!None
                THEN [x \in Pid!Blocks |-> Pid!Shifted(es[x], now - device.pause)]
              ELSE es
        /\ Pid!PlanAfter(r) = IF r.command \in {"stop_all", "reset"} THEN [x \in Pid!Blocks |-> Pid!NoPlan]
                              ELSE Plain
    BY <1>16, AfterControl
  <2>2. CASE r.command \in {"stop_all", "reset"}
    <3>1. p = Pid!NoPlan /\ e \in {Pid!Stopped(es[b]), Pid!NoEffect}
      BY <1>3, <1>4, <2>1, <2>2
    <3>2. Current(e, p, t)
      BY <1>8, <3>1
    <3>. QED BY <1>1, <1>3, <1>4, <1>5, <1>6, <1>7, <3>2
  <2>3. CASE r.command = "continue" /\ device.pause # Pid!None
    <3>1. p = Plain[b] /\ e = Pid!Shifted(es[b], now - device.pause)
      BY <1>3, <1>4, <2>1, <2>3
    <3>2. d.pause = Pid!None /\ t = now
      <4>1. d = [device EXCEPT !.pause = Pid!None]
        BY <1>5, <1>16, <2>3 DEF Pid!DeviceAfter
      <4>. QED BY <1>0, <1>6, <4>1 DEF DeviceStates
    <3>3. device.pause \in Nat /\ Reached = device.pause
      BY <1>0, <2>3 DEF DeviceStates, Pid!None, Reached
    <3>4. Follows(es[b], Plain[b], device.pause)
      BY <1>2, <3>3 DEF Current
    <3>5. Follows(Pid!Shifted(es[b], now - device.pause), Plain[b], now)
      BY <1>0, <1>2, <3>3, <3>4, ShiftedFollows
    <3>. QED BY <1>1, <1>3, <1>4, <1>5, <1>6, <3>1, <3>2, <3>5
  <2>4. CASE ~(r.command \in {"stop_all", "reset"} \/ (r.command = "continue" /\ device.pause # Pid!None))
    <3>1. p = Plain[b] /\ e = es[b]
      BY <1>3, <1>4, <2>1, <2>4
    <3>2. t = Reached
      <4>1. CASE r.command = "pause"
        <5>1. d = [device EXCEPT !.pause = IF @ = Pid!None THEN now ELSE @]
          BY <1>5, <1>16, <4>1 DEF Pid!DeviceAfter
        <5>2. d.pause = IF device.pause = Pid!None THEN now ELSE device.pause
          BY <1>0, <5>1 DEF DeviceStates
        <5>. QED BY <1>0, <1>6, <5>2 DEF Reached
      <4>2. CASE r.command # "pause"
        <5>1. \/ d = device \/ d = [device EXCEPT !.enabled = TRUE]
              \/ d = [device EXCEPT !.enabled = FALSE]
              \/ d = [device EXCEPT !.pause = Pid!None] /\ device.pause = Pid!None
          BY <1>5, <1>16, <2>4, <4>2 DEF Pid!DeviceAfter
        <5>2. d.pause = device.pause
          BY <1>0, <5>1 DEF DeviceStates
        <5>. QED BY <1>6, <5>2 DEF Reached
      <4>. QED BY <4>1, <4>2
    <3>3. Current(e, p, t)
      BY <1>2, <3>1, <3>2
    <3>. QED BY <1>1, <1>3, <1>4, <1>5, <1>6, <1>7, <3>3
  <2>. QED BY <2>2, <2>3, <2>4
<1>17. r.id \in {"create", "gain", "free", "magnitude", "set", "operation", "control"}
  BY DEF AllReports
<1>. QED BY <1>11, <1>12, <1>13, <1>14, <1>15, <1>16, <1>17

\* FiniteSetsExt, which WindowsPid extends, has the usual cardinality.
LEMMA SameCardinality == \A S : Pid!Cardinality(S) = Cardinality(S)
  BY DEF Pid!Cardinality, Cardinality

\* Felt is a number of blocks.
LEMMA StrengthNat ==
  ASSUME Pid!PidAssumption, NEW es, NEW d, NEW t
  PROVE  Pid!Strength(es, d, t) \in Nat
<1> DEFINE loud == {b \in Pid!Blocks : /\ es[b].running /\ es[b].started /\ t >= es[b].start /\ es[b].force = 1}
<1>1. IsFiniteSet(Pid!Blocks)
  BY FS_Interval DEF Pid!PidAssumption, Pid!Blocks
<1>2. IsFiniteSet(loud)
  BY <1>1, FS_Subset
<1>3. Cardinality(loud) \in Nat
  BY <1>2, FS_CardinalityType
<1>4. Pid!Cardinality(loud) \in Nat
  BY <1>3, SameCardinality
<1>5. Pid!Strength(es, d, t) = IF ~d.enabled \/ d.pause # Pid!None \/ d.gain = 0 THEN 0 ELSE Pid!Cardinality(loud)
  BY DEF Pid!Strength
<1> HIDE DEF loud
<1>. QED BY <1>4, <1>5

\* A set of numbers has a least one.
LEMMA LeastNumber ==
  ASSUME NEW S, S \subseteq Nat, S # {}
  PROVE  Pid!Min(S) \in S /\ \A n \in S : Pid!Min(S) <= n
<1> DEFINE order == {ss \in Nat \X Nat : ss[1] < ss[2]}
<1>1. IsWellFoundedOn(order, Nat)
  BY NatLessThanWellFounded DEF OpToRel
<1>2. PICK x \in S : \A y \in S : ~(<<y, x>> \in order)
  <2> HIDE DEF order
  <2>. QED BY <1>1, WFMin
<1>3. \A y \in S : x <= y
  <2>1. SUFFICES ASSUME NEW y \in S, ~(x <= y) PROVE FALSE
    OBVIOUS
  <2>2. y \in Nat /\ x \in Nat /\ y < x
    BY <2>1
  <2>3. <<y, x>> \in order
    BY <2>2
  <2>. QED BY <1>2, <2>3
<1>. QED BY <1>3 DEF Pid!Min

\* When an effect next starts or ends.
NextDue(e) == IF e.started THEN e.end ELSE e.start

\* The next transition is a time, no later than any effect's.
LEMMA NextIsLeast ==
  ASSUME NEW es \in [Pid!Blocks -> EffectStates], NEW d
  PROVE  /\ Pid!NextTransition(es, d) \in Nat \cup {-1}
         /\ d.pause = Pid!None => \A b \in Pid!Blocks : es[b].running /\ NextDue(es[b]) # Pid!None =>
              Pid!NextTransition(es, d) \in Nat /\ Pid!NextTransition(es, d) <= NextDue(es[b])
<1> DEFINE times == {NextDue(es[b]) : b \in {x \in Pid!Blocks : es[x].running /\ NextDue(es[x]) # Pid!None}}
<1>1. Pid!NextTransition(es, d) = IF d.pause # Pid!None \/ times = {} THEN Pid!None ELSE Pid!Min(times)
  BY DEF Pid!NextTransition, NextDue
<1>2. times \subseteq Nat
  BY DEF NextDue, EffectStates, Pid!None
<1>3. times # {} => Pid!Min(times) \in times /\ \A n \in times : Pid!Min(times) <= n
  <2> HIDE DEF times
  <2>. QED BY <1>2, LeastNumber
<1>4. Pid!NextTransition(es, d) \in Nat \cup {-1}
  <2> HIDE DEF times
  <2>. QED BY <1>1, <1>2, <1>3 DEF Pid!None
<1>5. ASSUME d.pause = Pid!None, NEW b \in Pid!Blocks, es[b].running, NextDue(es[b]) # Pid!None
      PROVE  /\ Pid!NextTransition(es, d) \in Nat
             /\ Pid!NextTransition(es, d) <= NextDue(es[b])
  <2>1. NextDue(es[b]) \in times
    BY <1>5
  <2> HIDE DEF times
  <2>. QED BY <1>1, <1>2, <1>3, <1>5, <2>1
<1>. QED BY <1>4, <1>5

\* Expired, effects are effects.
LEMMA ExpiredShape ==
  ASSUME PidShape, NEW t \in Nat
  PROVE  Pid!ExpireEffects(effects, t) \in [Pid!Blocks -> EffectStates]
<1>1. effects \in [Pid!Blocks -> EffectStates]
  BY DEF PidShape
<1>2. \A b \in Pid!Blocks : Pid!Expired(effects[b], t) \in EffectStates
  BY <1>1, EffectKept
<1>. QED BY <1>1, <1>2 DEF Pid!ExpireEffects

\* A state in which a behaviour may start: nothing is spoken, and nothing runs.
Starts == Pid!Init \/ Pid!Prepared

LEMMA StartsStill ==
  ASSUME Starts, Pid!PidAssumption
  PROVE  /\ effects \in [Pid!Blocks -> EffectStates]
         /\ \A b \in Pid!Blocks : /\ ~effects[b].running /\ ~effects[b].started
                                  /\ ~effects[b].infinite => effects[b].duration # Pid!Infinite
         /\ plan = [b \in Pid!Blocks |-> Pid!NoPlan]
         /\ now = 0 /\ allocated \subseteq Pid!Blocks /\ state = Pid!Powered /\ events = <<>>
         /\ device = [gain |-> 1, enabled |-> TRUE, pause |-> Pid!None, last |-> 0]
         /\ callback \in BOOLEAN /\ deviceOpen = TRUE /\ output = Pid!Idle
         /\ \E pc \in {"top", "wait"} :
              timer = [pc |-> pc, strength |-> Pid!None, now |-> 0, next |-> Pid!None]
         /\ notified = FALSE /\ felt = 0 /\ early = FALSE /\ missed = FALSE
<1>0. /\ Pid!NoEffect \in EffectStates
      /\ ~Pid!NoEffect.running /\ ~Pid!NoEffect.started /\ Pid!NoEffect.infinite
  BY DEF Pid!NoEffect, EffectStates, Pid!None
<1>1. CASE Pid!Init
  BY <1>0, <1>1 DEF Pid!Init
<1>2. CASE Pid!Prepared
  <2>1. PICK d \in Durations, s \in Delays :
          effects = [b \in Pid!Blocks |-> IF b # 1 THEN Pid!NoEffect ELSE [Pid!NoEffect EXCEPT
                       !.force = 1, !.duration = d, !.infinite = d = Pid!Infinite, !.delay = s]]
    BY <1>2 DEF Pid!Prepared
  <2>2. d \in Nat /\ s \in Nat /\ {1} \subseteq Pid!Blocks
    BY DEF Pid!PidAssumption, Pid!Blocks
  <2>3. PICK e : e = [Pid!NoEffect EXCEPT !.force = 1, !.duration = d, !.infinite = d = Pid!Infinite, !.delay = s]
    OBVIOUS
  <2>4. e \in EffectStates /\ ~e.running /\ ~e.started /\ (~e.infinite => e.duration # Pid!Infinite)
    <3>1. PICK infinite \in BOOLEAN : infinite = (d = Pid!Infinite)
      OBVIOUS
    <3>2. e = [Pid!NoEffect EXCEPT !.force = 1, !.duration = d, !.infinite = infinite, !.delay = s]
      BY <2>3, <3>1
    <3>3. PICK none \in EffectStates : none = Pid!NoEffect /\ ~none.running /\ ~none.started
      BY <1>0
    <3>4. e = [none EXCEPT !.force = 1, !.duration = d, !.infinite = infinite, !.delay = s]
      BY <3>2, <3>3
    <3>5. e \in EffectStates
      <4>1. ASSUME NEW x \in EffectStates, NEW m \in Nat, NEW n \in Nat, NEW i \in BOOLEAN
            PROVE  [x EXCEPT !.force = 1, !.duration = m, !.infinite = i, !.delay = n] \in EffectStates
        <5>1. PICK y : y = [x EXCEPT !.force = 1]
          OBVIOUS
        <5>2. y \in EffectStates
          BY <5>1 DEF EffectStates
        <5>3. PICK z : z = [y EXCEPT !.duration = m, !.delay = n]
          OBVIOUS
        <5>4. z \in EffectStates
          BY <5>2, <5>3 DEF EffectStates
        <5>5. [z EXCEPT !.infinite = i] \in EffectStates
          BY <5>4 DEF EffectStates
        <5>6. [x EXCEPT !.force = 1, !.duration = m, !.infinite = i, !.delay = n] = [z EXCEPT !.infinite = i]
          BY <5>1, <5>3 DEF EffectStates
        <5>. QED BY <5>5, <5>6
      <4>. QED BY <2>2, <3>4, <4>1
    <3>6. e.running = none.running /\ e.started = none.started
      BY <3>4 DEF EffectStates
    <3>7. e.duration = d /\ e.infinite = infinite
      BY <3>4 DEF EffectStates
    <3>. QED BY <3>1, <3>3, <3>5, <3>6, <3>7
  <2>5. effects = [b \in Pid!Blocks |-> IF b # 1 THEN Pid!NoEffect ELSE e]
    BY <2>1, <2>3
  <2>6. /\ effects \in [Pid!Blocks -> EffectStates]
        /\ \A b \in Pid!Blocks : /\ ~effects[b].running /\ ~effects[b].started
                                 /\ ~effects[b].infinite => effects[b].duration # Pid!Infinite
    BY <1>0, <2>4, <2>5
  <2>. QED BY <1>2, <2>2, <2>6 DEF Pid!Prepared
<1>. QED BY <1>1, <1>2 DEF Starts

\* The types hold at the start.
LEMMA InitShape == Pid!PidAssumption /\ Starts => PidShape
<1>1. SUFFICES ASSUME Pid!PidAssumption, Starts PROVE PidShape
  OBVIOUS
<1>2. Pid!NoPlan \in Plans
  BY DEF Pid!NoPlan, Plans, Pid!None, Pid!Infinite
<1>3. /\ effects \in [Pid!Blocks -> EffectStates] /\ plan \in [Pid!Blocks -> Plans]
      /\ events \in Seq(AllReports) /\ now = 0
  BY <1>1, <1>2, StartsStill
<1>4. /\ device \in DeviceStates /\ device.pause = -1
  <2>1. device = [gain |-> 1, enabled |-> TRUE, pause |-> Pid!None, last |-> 0]
    BY <1>1, StartsStill
  <2>. QED BY <2>1 DEF DeviceStates, Pid!None
<1>5. /\ output \in OutputStates
      /\ timer \in TimerStates
      /\ timer.now = 0 /\ output.pc = "idle"
  BY <1>1, StartsStill DEF Pid!Idle, Pid!None, OutputStates, TimerStates
<1>6. state \in DriverStates
  <2>1. state = Pid!Powered
    BY <1>1, StartsStill
  <2>. QED BY <2>1 DEF Pid!Powered, DriverStates
<1>7. /\ callback \in BOOLEAN /\ deviceOpen \in BOOLEAN /\ notified \in BOOLEAN /\ early \in BOOLEAN
      /\ missed \in BOOLEAN /\ felt \in Nat /\ allocated \subseteq Pid!Blocks
  BY <1>1, StartsStill
<1>. QED BY <1>3, <1>4, <1>5, <1>6, <1>7 DEF PidShape

\* A report is queued; the client is as it was.
LEMMA QueueShape ==
  ASSUME PidShape, NEW r \in AllReports, Pid!Queue(r), UNCHANGED Pid!driverFrame,
         allocated' \subseteq Pid!Blocks,
         state' \in DriverStates
  PROVE  PidShape'
<1>1. events' \in Seq(AllReports) /\ events' # <<>>
  BY DEF PidShape, Pid!Queue
<1>. QED BY <1>1 DEF PidShape, Pid!driverFrame, Pid!clientVars

\* What the driver queues for the client.
LEMMA ReportsOf ==
  ASSUME Pid!PidAssumption, PidShape
  PROVE  /\ [id |-> "create"] \in AllReports
         /\ \A b \in Pid!Blocks :
              /\ [id |-> "free", block |-> b] \in AllReports
              /\ \A o \in {"start", "solo", "stop"}, n \in Loops :
                   [id |-> "operation", block |-> b, operation |-> o, loops |-> n] \in AllReports
              /\ \A d \in Durations, s \in Delays :
                   [id |-> "set", block |-> b, duration |-> d, delay |-> s] \in AllReports
              /\ \A f \in 0..1 : [id |-> "magnitude", block |-> b, force |-> f] \in AllReports
         /\ \A c \in Pid!Controls : [id |-> "control", command |-> c] \in AllReports
         /\ \A g \in 0..1 : [id |-> "gain", gain |-> g] \in AllReports
<1>1. Loops \subseteq Nat \ {0} /\ Durations \subseteq Nat /\ Delays \subseteq Nat
  BY DEF Pid!PidAssumption
<1>. QED BY <1>1 DEF AllReports

\* A step of the driver: it queues a report.
DriverSteps ==
  \/ \E type \in {"valid", "invalid"} : Pid!CreateEffect(type)
  \/ \E b \in Pid!Blocks : Pid!FreeEffect(b)
  \/ \E b \in Pid!Blocks, loops \in Loops, o \in {"start", "solo", "stop"} : Pid!Operate(b, o, loops)
  \/ \E command \in Pid!Controls : Pid!Control(command)
  \/ Pid!PassOn

\* A step of the driver keeps the types and leaves the client alone.
LEMMA DriverShape ==
  ASSUME Pid!PidAssumption, PidShape, DriverSteps
  PROVE  /\ PidShape' /\ UNCHANGED Pid!driverFrame /\ deviceOpen
         /\ \E r \in AllReports : events' = Append(events, r)
<1>0. allocated \subseteq Pid!Blocks /\ state \in DriverStates /\ events \in Seq(AllReports)
  BY DEF PidShape, DriverStates
<1>1. ASSUME NEW r \in AllReports, Pid!Queue(r), UNCHANGED Pid!driverFrame,
             allocated' \subseteq Pid!Blocks, state' \in DriverStates
      PROVE  /\ PidShape' /\ UNCHANGED Pid!driverFrame /\ deviceOpen
             /\ \E x \in AllReports : events' = Append(events, x)
  BY <1>1, QueueShape DEF DriverStates, Pid!Queue
<1>2. ASSUME NEW type \in {"valid", "invalid"}, Pid!CreateEffect(type)
      PROVE  /\ PidShape' /\ UNCHANGED Pid!driverFrame /\ deviceOpen
             /\ \E x \in AllReports : events' = Append(events, x)
  <2>1. Pid!Queue([id |-> "create"]) /\ UNCHANGED <<state, Pid!driverFrame>>
    BY <1>2 DEF Pid!CreateEffect
  <2>2. allocated' \subseteq Pid!Blocks
    <3> DEFINE free == Pid!Blocks \ allocated
    <3>1. allocated' = allocated \/ (free # {} /\ allocated' = allocated \cup {Pid!Min(free)})
      BY <1>2 DEF Pid!CreateEffect
    <3>2. free \subseteq Nat
      BY DEF Pid!Blocks, Pid!PidAssumption
    <3>3. free # {} => Pid!Min(free) \in free
      <4> HIDE DEF free
      <4>. QED BY <3>2, LeastNumber
    <3>. QED BY <1>0, <3>1, <3>3
  <2>. QED BY <1>0, <1>1, <2>1, <2>2, ReportsOf
<1>3. ASSUME NEW b \in Pid!Blocks, Pid!FreeEffect(b)
      PROVE  /\ PidShape' /\ UNCHANGED Pid!driverFrame /\ deviceOpen
             /\ \E x \in AllReports : events' = Append(events, x)
  <2>1. Pid!Queue([id |-> "free", block |-> b]) /\ UNCHANGED Pid!driverFrame /\ allocated' = allocated \ {b}
    BY <1>3 DEF Pid!FreeEffect
  <2>2. state' \in DriverStates
    BY <1>0, <1>3 DEF Pid!FreeEffect, DriverStates
  <2>. QED BY <1>0, <1>1, <2>1, <2>2, ReportsOf
<1>4. ASSUME NEW b \in Pid!Blocks, NEW n \in Loops, NEW o \in {"start", "solo", "stop"}, Pid!Operate(b, o, n)
      PROVE  /\ PidShape' /\ UNCHANGED Pid!driverFrame /\ deviceOpen
             /\ \E x \in AllReports : events' = Append(events, x)
  <2>1. /\ Pid!Queue([id |-> "operation", block |-> b, operation |-> o, loops |-> n])
        /\ UNCHANGED Pid!driverFrame /\ allocated' = allocated
    BY <1>4 DEF Pid!Operate
  <2>2. state' \in DriverStates
    <3>1. PICK playing \in BOOLEAN : playing = (o # "stop")
      BY (o # "stop") \in BOOLEAN
    <3>2. state' = [state EXCEPT !.block = b, !.playing = playing] /\ b \in Nat
      BY <1>4, <3>1 DEF Pid!Operate, Pid!Blocks
    <3>. QED BY <1>0, <3>2 DEF DriverStates
  <2>. QED BY <1>0, <1>1, <2>1, <2>2, ReportsOf
<1>5. ASSUME NEW c \in Pid!Controls, Pid!Control(c)
      PROVE  /\ PidShape' /\ UNCHANGED Pid!driverFrame /\ deviceOpen
             /\ \E x \in AllReports : events' = Append(events, x)
  <2>1. /\ Pid!Queue([id |-> "control", command |-> c])
        /\ UNCHANGED Pid!driverFrame /\ allocated' \in {{}, allocated}
    BY <1>5 DEF Pid!Control
  <2>2. state' \in DriverStates
    <3>1. state' = Pid!Controlled(state, c)
      BY <1>5 DEF Pid!Control
    <3>2. \/ state' \in {[state EXCEPT !.enabled = TRUE], [state EXCEPT !.enabled = FALSE]}
          \/ state' \in {[state EXCEPT !.paused = TRUE], [state EXCEPT !.paused = FALSE]}
          \/ state' = [state EXCEPT !.block = 0, !.playing = FALSE]
          \/ state' = Pid!Powered
      BY <3>1 DEF Pid!Controls, Pid!Controlled
    <3>3. /\ [state EXCEPT !.enabled = TRUE] \in DriverStates /\ [state EXCEPT !.enabled = FALSE] \in DriverStates
          /\ [state EXCEPT !.paused = TRUE] \in DriverStates /\ [state EXCEPT !.paused = FALSE] \in DriverStates
          /\ Pid!Powered \in DriverStates
      BY <1>0 DEF DriverStates, Pid!Powered
    <3>4. [state EXCEPT !.block = 0, !.playing = FALSE] \in DriverStates
      BY <1>0 DEF DriverStates
    <3>. QED BY <3>2, <3>3, <3>4
  <2>. QED BY <1>0, <1>1, <2>1, <2>2, ReportsOf
<1>6. ASSUME Pid!PassOn
      PROVE  /\ PidShape' /\ UNCHANGED Pid!driverFrame /\ deviceOpen
             /\ \E x \in AllReports : events' = Append(events, x)
  <2>1. UNCHANGED Pid!driverFrame /\ allocated' = allocated /\ state' = state
    BY <1>6 DEF Pid!PassOn, Pid!driverVars
  <2>2. \E r \in AllReports : Pid!Queue(r)
    BY <1>0, <1>6, ReportsOf DEF Pid!PassOn
  <2>. QED BY <1>0, <1>1, <2>1, <2>2
<1>. QED BY <1>2, <1>3, <1>4, <1>5, <1>6 DEF DriverSteps

\* Every step keeps the types.
LEMMA ShapeStep ==
  ASSUME Pid!PidAssumption, PidShape, [Pid!Next]_Pid!vars
  PROVE  PidShape'
<1>0. /\ now \in Nat /\ events \in Seq(AllReports)
      /\ effects \in [Pid!Blocks -> EffectStates] /\ plan \in [Pid!Blocks -> Plans]
      /\ device \in DeviceStates /\ device.pause <= now
      /\ output \in OutputStates
      /\ timer \in TimerStates
      /\ timer.now <= now /\ (output.pc = "locked" => events # <<>>)
  BY DEF PidShape
<1>1. CASE DriverSteps
  BY <1>1, DriverShape
<1>2. CASE Pid!TakeEvent
  BY <1>2 DEF Pid!TakeEvent, PidShape, OutputStates, Pid!outputFrame, Pid!driverVars,
    Pid!clientVars, Pid!None
<1>3. CASE Pid!HandleReport
  <2>1. /\ output.pc = "locked" /\ events' = Tail(events)
        /\ UNCHANGED <<notified, felt, now, Pid!driverVars, callback, deviceOpen, timer>>
    BY <1>3 DEF Pid!HandleReport, Pid!outputFrame
  <2>2. Head(events) \in AllReports /\ Tail(events) \in Seq(AllReports)
    BY <1>0, <2>1
  <2>3. CASE ~deviceOpen \/ ~callback
    <3>1. /\ output' = Pid!Idle /\ missed' = TRUE /\ UNCHANGED <<effects, device, plan, early>>
      BY <1>3, <2>3 DEF Pid!HandleReport, Pid!clientVars
    <3>. QED BY <2>1, <2>2, <3>1 DEF PidShape, OutputStates, Pid!Idle, Pid!None, Pid!driverVars
  <2>4. CASE ~(~deviceOpen \/ ~callback)
    <3>1. PICK r : r = Head(events)
      OBVIOUS
    <3>2. PICK es : es = Pid!ExpireEffects(effects, now)
      OBVIOUS
    <3>3. PICK strength : strength = Pid!Strength(Pid!EffectsAfter(r, es, now), Pid!DeviceAfter(r, now), now)
      OBVIOUS
    <3>4. /\ effects' = Pid!EffectsAfter(r, es, now) /\ plan' = Pid!PlanAfter(r) /\ missed' = missed
          /\ \/ device' = Pid!DeviceAfter(r, now) /\ output' = [pc |-> "notify", strength |-> Pid!None]
             \/ /\ device' = [Pid!DeviceAfter(r, now) EXCEPT !.last = strength]
                /\ output' = [pc |-> "notify", strength |-> strength]
      BY <1>3, <2>4, <3>1, <3>2, <3>3 DEF Pid!HandleReport
    <3>5. early' \in BOOLEAN
      BY <1>3, <2>4, Zenon DEF Pid!HandleReport
    <3>6. strength \in Nat
      BY <3>3, StrengthNat
    <3>7. /\ effects' \in [Pid!Blocks -> EffectStates] /\ plan' \in [Pid!Blocks -> Plans]
          /\ Pid!DeviceAfter(r, now) \in DeviceStates /\ Pid!DeviceAfter(r, now).pause <= now
      BY <1>0, <2>2, <3>1, <3>2, <3>4, ExpiredShape, HandledShape
    <3>8. device' \in DeviceStates /\ device'.pause = Pid!DeviceAfter(r, now).pause
      BY <3>4, <3>6, <3>7 DEF DeviceStates
    <3>9. /\ output' \in OutputStates
          /\ output'.pc = "notify"
      BY <3>4, <3>6 DEF Pid!None, OutputStates
    <3>. QED BY <2>1, <2>2, <3>4, <3>5, <3>7, <3>8, <3>9 DEF PidShape, Pid!driverVars
  <2>. QED BY <2>3, <2>4
<1>4. CASE Pid!NotifyTimer
  BY <1>4 DEF Pid!NotifyTimer, PidShape, OutputStates, Pid!outputFrame, Pid!driverVars,
    Pid!clientVars
<1>5. CASE Pid!CallBack
  BY <1>5 DEF Pid!CallBack, PidShape, OutputStates, Pid!outputFrame, Pid!driverVars,
    Pid!clientVars, Pid!Idle, Pid!None
<1>6. CASE Pid!ReadGeneration
  BY <1>6 DEF Pid!ReadGeneration, PidShape, TimerStates, Pid!timerFrame, Pid!driverVars,
    Pid!clientVars
<1>7. CASE Pid!ReadClock
  <2>1. timer' = [timer EXCEPT !.pc = "advance", !.now = now]
    BY <1>7 DEF Pid!ReadClock
  <2>2. /\ timer' \in TimerStates
        /\ timer'.now = now
    BY <1>0, <2>1 DEF TimerStates
  <2>. QED BY <1>0, <1>7, <2>2 DEF Pid!ReadClock, PidShape, TimerStates, Pid!timerFrame,
    Pid!driverVars, Pid!clientVars
<1>8. CASE Pid!Advance
  <2>1. UNCHANGED <<now, Pid!driverVars, events, callback, deviceOpen, output, plan, early, missed, notified, felt>>
    BY <1>8 DEF Pid!Advance, Pid!timerFrame
  <2>2. CASE ~deviceOpen
    <3>1. timer' = [timer EXCEPT !.pc = "wait", !.now = 0] /\ UNCHANGED <<effects, device>>
      BY <1>8, <2>2 DEF Pid!Advance, Pid!clientVars
    <3>2. /\ timer' \in TimerStates
          /\ timer'.now = 0
      BY <1>0, <3>1 DEF TimerStates
    <3>. QED BY <1>0, <2>1, <3>1, <3>2 DEF PidShape, Pid!driverVars
  <2>3. CASE deviceOpen
    <3>1. PICK es : es = Pid!ExpireEffects(effects, timer.now)
      OBVIOUS
    <3>2. PICK strength : strength = Pid!Strength(es, device, timer.now)
      OBVIOUS
    <3>3. PICK spoken : spoken = IF callback /\ strength # device.last THEN strength ELSE Pid!None
      OBVIOUS
    <3>4. PICK next : next = Pid!NextTransition(es, device)
      OBVIOUS
    <3>5. /\ effects' = es /\ device' = [device EXCEPT !.last = strength]
          /\ timer' = [timer EXCEPT !.pc = "callback", !.now = 0, !.next = next, !.strength = spoken]
      BY <1>8, <2>3, <3>1, <3>2, <3>3, <3>4 DEF Pid!Advance
    <3>6. es \in [Pid!Blocks -> EffectStates]
      BY <1>0, <3>1, ExpiredShape DEF TimerStates
    <3>7. strength \in Nat
      BY <3>2, StrengthNat
    <3>8. spoken \in Nat \cup {-1} /\ next \in Nat \cup {-1}
      BY <3>3, <3>4, <3>6, <3>7, NextIsLeast DEF Pid!None
    <3>9. device' \in DeviceStates /\ device'.pause = device.pause
      BY <1>0, <3>5, <3>7 DEF DeviceStates
    <3>10. /\ timer' \in TimerStates
           /\ timer'.now = 0
      BY <1>0, <3>5, <3>8 DEF TimerStates
    <3>. QED BY <1>0, <2>1, <3>5, <3>6, <3>9, <3>10 DEF PidShape, Pid!driverVars
  <2>. QED BY <2>2, <2>3
<1>9. CASE Pid!TimerCallsBack
  BY <1>9 DEF Pid!TimerCallsBack, PidShape, TimerStates, Pid!timerFrame, Pid!driverVars,
    Pid!clientVars, Pid!None
<1>10. CASE Pid!WakeUp
  BY <1>10 DEF Pid!WakeUp, PidShape, TimerStates, Pid!timerFrame, Pid!driverVars, Pid!clientVars,
    Pid!None
<1>11. CASE Pid!SetCallback
  BY <1>11 DEF Pid!SetCallback, PidShape, Pid!driverVars, Pid!clientVars
<1>12. CASE Pid!CloseDevice
  <2>1. events' \in Seq(AllReports) /\ output.pc # "locked"
    BY <1>12 DEF Pid!CloseDevice
  <2>2. /\ deviceOpen' = FALSE /\ notified' = TRUE
        /\ UNCHANGED <<now, allocated, state, effects, device, callback, output, timer, felt, plan, early, missed>>
    BY <1>12 DEF Pid!CloseDevice, Pid!driverVars, Pid!clientVars
  <2>3. output'.pc # "locked"
    BY <2>1, <2>2
  <2>. QED BY ONLY PidShape, <2>1, <2>2, <2>3 DEF PidShape
<1>13. CASE Pid!Tick
  <2>1. plan' \in [Pid!Blocks -> Plans]
    <3>1. ASSUME NEW b \in Pid!Blocks PROVE [plan[b] EXCEPT !.run = @ + 1] \in Plans
      <4>0. plan[b].run \in Nat \cup {-1}
        BY <1>0 DEF Plans
      <4>1. PICK run \in Nat : run = plan[b].run + 1
        BY <4>0
      <4>2. [plan[b] EXCEPT !.run = run] \in Plans
        BY <1>0, <4>1 DEF Plans
      <4>. QED BY <4>1, <4>2
    <3>. QED BY <1>0, <1>13, <3>1 DEF Pid!Tick
  <2>2. /\ now' = now + 1
        /\ UNCHANGED <<allocated, state, events, effects, device, callback, deviceOpen, output, timer, notified,
                       felt, early, missed>>
    BY <1>13 DEF Pid!Tick, Pid!driverVars, Pid!clientVars
  <2>3. now' \in Nat /\ device.pause <= now' /\ timer.now <= now'
    BY <1>0, <2>2 DEF DeviceStates, TimerStates
  <2>. QED BY <2>1, <2>2, <2>3 DEF PidShape
<1>14. CASE UNCHANGED Pid!vars
  BY <1>14 DEF Pid!vars, PidShape, Pid!driverVars, Pid!clientVars
<1>. QED BY <1>1, <1>2, <1>3, <1>4, <1>5, <1>6, <1>7, <1>8, <1>9, <1>10, <1>11, <1>12, <1>13, <1>14
         DEF Pid!Next, DriverSteps

\* What is not about a report, nor about the timer, leaves what is felt alone.
Apart ==
  \/ DriverSteps \/ Pid!TakeEvent \/ (Pid!HandleReport /\ ~(deviceOpen /\ callback)) \/ Pid!NotifyTimer
  \/ Pid!CallBack \/ Pid!ReadGeneration \/ Pid!ReadClock \/ (Pid!Advance /\ ~deviceOpen)
  \/ Pid!TimerCallsBack \/ Pid!WakeUp \/ Pid!SetCallback \/ Pid!CloseDevice \/ UNCHANGED Pid!vars

\* Every other step handles a report, advances the timer or is a tick.
LEMMA ApartSteps ==
  ASSUME [Pid!Next]_Pid!vars
  PROVE  Apart \/ (Pid!HandleReport /\ deviceOpen /\ callback) \/ (Pid!Advance /\ deviceOpen) \/ Pid!Tick
  BY DEF Pid!Next, Apart, DriverSteps

\* Those steps leave effects and plans alone.
LEMMA ApartSame ==
  ASSUME Pid!PidAssumption, PidShape, Apart
  PROVE  UNCHANGED <<now, effects, device, plan, early>>
<1>1. CASE DriverSteps
  BY <1>1, DriverShape DEF Pid!driverFrame, Pid!clientVars
<1>2. CASE Pid!TakeEvent
  BY <1>2 DEF Pid!TakeEvent, Pid!outputFrame, Pid!clientVars
<1>3. CASE Pid!HandleReport /\ ~(deviceOpen /\ callback)
  BY <1>3 DEF Pid!HandleReport, Pid!outputFrame, Pid!clientVars, PidShape
<1>4. CASE Pid!NotifyTimer
  BY <1>4 DEF Pid!NotifyTimer, Pid!outputFrame, Pid!clientVars
<1>5. CASE Pid!CallBack
  BY <1>5 DEF Pid!CallBack, Pid!outputFrame, Pid!clientVars
<1>6. CASE Pid!ReadGeneration
  BY <1>6 DEF Pid!ReadGeneration, Pid!timerFrame, Pid!clientVars
<1>7. CASE Pid!ReadClock
  BY <1>7 DEF Pid!ReadClock, Pid!timerFrame, Pid!clientVars
<1>8. CASE Pid!Advance /\ ~deviceOpen
  BY <1>8 DEF Pid!Advance, Pid!timerFrame, Pid!clientVars, PidShape
<1>9. CASE Pid!TimerCallsBack
  BY <1>9 DEF Pid!TimerCallsBack, Pid!timerFrame, Pid!clientVars
<1>10. CASE Pid!WakeUp
  BY <1>10 DEF Pid!WakeUp, Pid!timerFrame, Pid!clientVars
<1>11. CASE Pid!SetCallback
  BY <1>11 DEF Pid!SetCallback, Pid!clientVars
<1>12. CASE Pid!CloseDevice
  BY <1>12 DEF Pid!CloseDevice, Pid!clientVars
<1>13. CASE UNCHANGED Pid!vars
  BY <1>13 DEF Pid!vars, Pid!clientVars
<1>. QED BY <1>1, <1>2, <1>3, <1>4, <1>5, <1>6, <1>7, <1>8, <1>9, <1>10, <1>11, <1>12, <1>13
         DEF Apart

\* A report handled: the device but for what it was spoken last.
LEMMA Handled ==
  ASSUME Pid!PidAssumption, PidShape, Pid!HandleReport, deviceOpen, callback
  PROVE  \E r \in AllReports, d \in DeviceStates, strength \in Nat :
           /\ output.pc = "locked" /\ events # <<>> /\ r = Head(events) /\ events' = Tail(events)
           /\ d = Pid!DeviceAfter(r, now)
           /\ effects' = Pid!EffectsAfter(r, Pid!ExpireEffects(effects, now), now)
           /\ plan' = Pid!PlanAfter(r)
           /\ \/ device' = d /\ output' = [pc |-> "notify", strength |-> Pid!None]
              \/ /\ device' = [d EXCEPT !.last = strength]
                 /\ output' = [pc |-> "notify", strength |-> strength]
           /\ device'.pause = d.pause /\ d.last = device.last /\ d.pause <= now
           /\ early' <=> (early \/ (device.pause # Pid!None /\ \E b \in Pid!Blocks :
                r.id \in {"set", "operation"} /\ r.block = b /\ Pid!PlanAfter(r)[b] # Pid!NoPlan))
           /\ UNCHANGED <<missed, notified, felt, now, allocated, load, state, callback, deviceOpen, timer>>
<1>0. now \in Nat /\ events \in Seq(AllReports) /\ device \in DeviceStates /\ early \in BOOLEAN
  BY DEF PidShape
<1>1. /\ output.pc = "locked" /\ events' = Tail(events)
      /\ UNCHANGED <<missed, notified, felt, now, allocated, load, state, callback, deviceOpen, timer>>
  BY DEF Pid!HandleReport, Pid!outputFrame, Pid!driverVars
<1>2. PICK r : r = Head(events)
  OBVIOUS
<1>3. PICK es : es = Pid!ExpireEffects(effects, now)
  OBVIOUS
<1>4. PICK d : d = Pid!DeviceAfter(r, now)
  OBVIOUS
<1>5. PICK strength : strength = Pid!Strength(Pid!EffectsAfter(r, es, now), d, now)
  OBVIOUS
<1>6. r \in AllReports /\ strength \in Nat /\ events # <<>>
  <2>1. events # <<>>
    BY <1>1 DEF PidShape
  <2>. QED BY <1>0, <1>2, <1>5, <2>1, StrengthNat
<1>7. es \in [Pid!Blocks -> EffectStates]
  BY <1>0, <1>3, ExpiredShape
<1>8. d \in DeviceStates /\ d.pause <= now
  BY <1>4, <1>6, <1>7, HandledShape
<1>9. d.last = device.last
  <2>1. \/ d \in {device, [device EXCEPT !.gain = r.gain], [device EXCEPT !.enabled = TRUE]}
        \/ d = [device EXCEPT !.enabled = FALSE]
        \/ d = [device EXCEPT !.gain = 1, !.enabled = TRUE, !.pause = Pid!None]
        \/ d = [device EXCEPT !.pause = IF @ = Pid!None THEN now ELSE @]
        \/ d = [device EXCEPT !.pause = Pid!None]
    <3>1. CASE r.id # "control"
      BY <1>4, <3>1, DeviceOther
    <3>2. CASE r.id = "control"
      BY <1>4, <3>2 DEF Pid!DeviceAfter
    <3>. QED BY <3>1, <3>2
  <2>. QED BY <1>0, <2>1 DEF DeviceStates
<1>10. /\ effects' = Pid!EffectsAfter(r, es, now) /\ plan' = Pid!PlanAfter(r)
       /\ \/ device' = d /\ output' = [pc |-> "notify", strength |-> Pid!None]
          \/ /\ device' = [d EXCEPT !.last = strength]
             /\ output' = [pc |-> "notify", strength |-> strength]
  BY <1>2, <1>3, <1>4, <1>5 DEF Pid!HandleReport
<1>11. device'.pause = d.pause
  BY <1>8, <1>10 DEF DeviceStates
<1>12. early' <=> (early \/ (device.pause # Pid!None /\ \E b \in Pid!Blocks :
                r.id \in {"set", "operation"} /\ r.block = b /\ plan'[b] # Pid!NoPlan))
  BY <1>2, Zenon DEF Pid!HandleReport
<1>13. early' <=> (early \/ (device.pause # Pid!None /\ \E b \in Pid!Blocks :
                r.id \in {"set", "operation"} /\ r.block = b /\ Pid!PlanAfter(r)[b] # Pid!NoPlan))
  BY <1>10, <1>12, Zenon
<1> HIDE <1>12
<1>. QED BY <1>1, <1>2, <1>3, <1>4, <1>6, <1>8, <1>9, <1>10, <1>11, <1>13, Zenon

\* The timer's thread, at its own time.
LEMMA Advanced ==
  ASSUME Pid!PidAssumption, PidShape, Pid!Advance, deviceOpen
  PROVE  \E strength \in Nat :
           /\ timer.pc = "advance" /\ output.pc = "idle"
           /\ effects' = Pid!ExpireEffects(effects, timer.now)
           /\ strength = Pid!Strength(effects', device, timer.now)
           /\ device' = [device EXCEPT !.last = strength]
           /\ timer' = [timer EXCEPT !.pc = "callback", !.now = 0,
                          !.next = Pid!NextTransition(effects', device),
                          !.strength = IF callback /\ strength # device.last THEN strength ELSE Pid!None]
           /\ UNCHANGED <<notified, felt, now, allocated, load, state, events, callback, deviceOpen, output,
                          plan, early, missed>>
<1>1. PICK strength \in Nat : strength = Pid!Strength(Pid!ExpireEffects(effects, timer.now), device, timer.now)
  BY StrengthNat
<1>2. output.pc = "idle"
  BY DEF Pid!Advance, Pid!DispatchLocked, PidShape, OutputStates
<1>. QED BY <1>1, <1>2, Zenon DEF Pid!Advance, Pid!timerFrame, Pid!driverVars

\* A plan that ran and is over stays over.
LEMMA OverStays ==
  ASSUME NEW p \in Plans, Pid!Over(p)
  PROVE  Pid!Over([p EXCEPT !.run = @ + 1])
<1>1. PICK q : q = [p EXCEPT !.run = @ + 1]
  OBVIOUS
<1>2. q.run = p.run + 1 /\ q.delay = p.delay /\ q.duration = p.duration /\ q.loops = p.loops
  BY <1>1 DEF Plans
<1>3. PICK end : end = p.delay + p.duration * p.loops
  OBVIOUS
<1>4. end \in Nat
  <2>1. p.duration * p.loops \in Nat
    BY NatTimes DEF Plans
  <2>. QED BY <1>3, <2>1 DEF Plans
<1>5. p.run >= p.delay /\ p.duration # Pid!Infinite /\ p.loops # Pid!Infinite /\ ~(p.run < end)
  BY <1>3, Zenon DEF Pid!Over, Pid!Playing
<1>6. q.run >= q.delay /\ ~(q.run < end)
  BY <1>2, <1>4, <1>5 DEF Plans
<1>7. Pid!Over(q)
  BY <1>2, <1>3, <1>5, <1>6, Zenon DEF Pid!Over, Pid!Playing
<1>. QED BY <1>1, <1>7

\* What is scheduled stays what was planned.
LEMMA PlansStep ==
  ASSUME Pid!PidAssumption, PidShape, PlansFollowed, [Pid!Next]_Pid!vars
  PROVE  PlansFollowed'
<1>0. /\ now \in Nat /\ effects \in [Pid!Blocks -> EffectStates] /\ plan \in [Pid!Blocks -> Plans]
      /\ device \in DeviceStates /\ device.pause <= now /\ timer.now \in Nat /\ timer.now <= now
  BY DEF PidShape, TimerStates
<1>1. CASE Apart
  BY <1>1, ApartSame DEF PlansFollowed, Reached
<1>2. CASE Pid!HandleReport /\ deviceOpen /\ callback
  <2>1. PICK r \in AllReports, d \in DeviceStates :
           /\ d = Pid!DeviceAfter(r, now)
           /\ effects' = Pid!EffectsAfter(r, Pid!ExpireEffects(effects, now), now)
           /\ plan' = Pid!PlanAfter(r)
           /\ device'.pause = d.pause /\ now' = now
           /\ early' <=> (early \/ (device.pause # Pid!None /\ \E b \in Pid!Blocks :
                r.id \in {"set", "operation"} /\ r.block = b /\ Pid!PlanAfter(r)[b] # Pid!NoPlan))
    BY <1>2, Handled
  <2>2. SUFFICES ASSUME ~early', NEW b \in Pid!Blocks
                 PROVE  /\ Follows(effects'[b], plan'[b], Reached')
                        /\ device'.pause # Pid!None /\ effects'[b].running => ~Pid!Over(plan'[b])
    BY Zenon DEF PlansFollowed
  <2>3. ~early /\ ~(device.pause # Pid!None /\ \E x \in Pid!Blocks :
             r.id \in {"set", "operation"} /\ r.block = x /\ Pid!PlanAfter(r)[x] # Pid!NoPlan)
    BY <2>1, <2>2, Zenon
  <2>4. Reached' = IF d.pause = Pid!None THEN now ELSE d.pause
    BY <2>1 DEF Reached
  <2>5. /\ Follows(effects'[b], plan'[b], IF d.pause = Pid!None THEN now ELSE d.pause)
        /\ d.pause # Pid!None /\ effects'[b].running => ~Pid!Over(plan'[b])
    BY <2>1, <2>2, <2>3, HandledFollows
  <2>. QED BY <2>1, <2>4, <2>5
<1>3. CASE Pid!Advance /\ deviceOpen
  <2>1. /\ effects' = Pid!ExpireEffects(effects, timer.now) /\ device'.pause = device.pause
        /\ UNCHANGED <<now, plan, early>>
    BY <1>0, <1>3, Advanced DEF DeviceStates
  <2>2. SUFFICES ASSUME ~early', NEW b \in Pid!Blocks
                 PROVE  /\ Follows(effects'[b], plan'[b], Reached')
                        /\ device'.pause # Pid!None /\ effects'[b].running => ~Pid!Over(plan'[b])
    BY Zenon DEF PlansFollowed
  <2>3. /\ Follows(effects[b], plan[b], Reached)
        /\ device.pause # Pid!None /\ effects[b].running => ~Pid!Over(plan[b])
    BY <2>1, <2>2 DEF PlansFollowed
  <2>4. Reached' = Reached
    BY <2>1 DEF Reached
  <2>5. CASE device.pause = Pid!None
    <3>1. effects'[b] = Pid!Expired(effects[b], timer.now) /\ Reached = now
      BY <2>1, <2>5 DEF Pid!ExpireEffects, Reached
    <3>2. Follows(effects'[b], plan[b], now)
      BY <1>0, <2>3, <3>1, ExpiredFollows
    <3>. QED BY <2>1, <2>4, <2>5, <3>1, <3>2
  <2>6. CASE device.pause # Pid!None
    <3>1. effects' = effects
      BY <2>1, <2>6 DEF Pid!ExpireEffects
    <3>. QED BY <2>1, <2>3, <2>4, <3>1
  <2>. QED BY <2>5, <2>6
<1>4. CASE Pid!Tick
  <2>1. /\ now' = now + 1 /\ UNCHANGED <<effects, device, early>>
        /\ plan' = [b \in Pid!Blocks |-> IF plan[b] = Pid!NoPlan \/ device.pause # Pid!None THEN plan[b]
                               ELSE [plan[b] EXCEPT !.run = @ + 1]]
    BY <1>4 DEF Pid!Tick, Pid!clientVars
  <2>2. SUFFICES ASSUME ~early', NEW b \in Pid!Blocks
                 PROVE  /\ Follows(effects'[b], plan'[b], Reached')
                        /\ device'.pause # Pid!None /\ effects'[b].running => ~Pid!Over(plan'[b])
    BY Zenon DEF PlansFollowed
  <2>3. /\ Follows(effects[b], plan[b], Reached)
        /\ device.pause # Pid!None /\ effects[b].running => ~Pid!Over(plan[b])
    BY <2>1, <2>2 DEF PlansFollowed
  <2>4. CASE device.pause # Pid!None
    <3>1. plan'[b] = plan[b] /\ Reached' = Reached
      BY <2>1, <2>4 DEF Reached
    <3>. QED BY <2>1, <2>3, <3>1
  <2>5. CASE device.pause = Pid!None
    <3>1. Reached = now /\ Reached' = now + 1
      BY <2>1, <2>5 DEF Reached
    <3>2. CASE ~effects[b].running
      <4>1. plan[b] = Pid!NoPlan \/ Pid!Over(plan[b])
        BY <2>3, <3>2 DEF Follows
      <4>2. plan'[b] = Pid!NoPlan \/ Pid!Over(plan'[b])
        BY <1>0, <2>1, <2>5, <4>1, OverStays
      <4>3. Follows(effects[b], plan'[b], Reached')
        BY <2>3, <3>2, <4>2 DEF Follows
      <4>. QED BY <2>1, <3>2, <4>3
    <3>3. CASE effects[b].running
      <4>1. plan[b] # Pid!NoPlan
        BY <1>0, <2>3, <3>1, <3>3, OverIsEnd
      <4>2. plan'[b] = [plan[b] EXCEPT !.run = @ + 1]
        BY <2>1, <2>5, <4>1
      <4>3. /\ plan'[b].run = plan[b].run + 1 /\ plan'[b].delay = plan[b].delay
            /\ plan'[b].duration = plan[b].duration /\ plan'[b].loops = plan[b].loops
        BY <1>0, <4>2 DEF Plans
      <4>4. /\ effects[b].operated \in Nat /\ effects[b].start \in Nat
        BY <1>0 DEF EffectStates
      <4>5. Follows(effects[b], plan'[b], now + 1)
        BY <1>0, <2>3, <3>1, <3>3, <4>3, <4>4 DEF Follows
      <4>. QED BY <2>1, <2>5, <3>1, <4>5
    <3>. QED BY <3>2, <3>3
  <2>. QED BY <2>4, <2>5
<1>. QED BY <1>1, <1>2, <1>3, <1>4, ApartSteps

\* Before there is a callback, nothing runs and nothing was felt.
NothingYet ==
  ~callback => /\ \A b \in Pid!Blocks : ~effects[b].running /\ plan[b] = Pid!NoPlan
               /\ device.last = 0 /\ felt = 0

\* The device's last strength is what the application was spoken, or is being spoken.
ToldLast ==
  /\ output.pc # "idle" => timer.pc # "callback"
  /\ output.pc \in {"idle", "locked"} => output.strength = Pid!None
  /\ timer.pc # "callback" => timer.strength = Pid!None
  /\ IF output.strength # Pid!None THEN output.strength = device.last
     ELSE IF timer.strength # Pid!None THEN timer.strength = device.last ELSE felt = device.last

\* Nothing is felt of effects that do not run.
LEMMA SilentStrength ==
  ASSUME NEW es, NEW d, NEW t, \A b \in Pid!Blocks : ~es[b].running
  PROVE  Pid!Strength(es, d, t) = 0
<1>1. {b \in Pid!Blocks : /\ es[b].running /\ es[b].started /\ t >= es[b].start /\ es[b].force = 1} = {}
  OBVIOUS
<1>2. Pid!Cardinality({}) = 0
  BY SameCardinality, FS_EmptySet
<1>. QED BY <1>1, <1>2 DEF Pid!Strength

\* Those steps say nothing new, unless they call back.
LEMMA ApartThreads ==
  ASSUME Pid!PidAssumption, PidShape, ToldLast, Apart, ~Pid!CallBack, ~Pid!TimerCallsBack
  PROVE  /\ felt' = felt /\ output'.strength = output.strength /\ timer'.strength = timer.strength
         /\ output'.pc = output.pc \/ (output.pc = "idle" /\ timer.pc # "callback" /\ output'.pc = "locked")
            \/ (output.pc = "locked" /\ output'.pc = "idle")
            \/ (output.pc = "notify" /\ output'.pc = "callback")
         /\ timer'.pc = timer.pc \/ (timer.pc # "callback" /\ timer'.pc # "callback")
<1>0. output \in OutputStates /\ timer \in TimerStates
  BY DEF PidShape
<1>1. CASE UNCHANGED <<felt, output, timer>>
  BY <1>1
<1>2. DriverSteps \/ Pid!SetCallback \/ Pid!CloseDevice \/ UNCHANGED Pid!vars => UNCHANGED <<felt, output, timer>>
  BY DriverShape DEF Pid!driverFrame, Pid!SetCallback, Pid!CloseDevice, Pid!vars
<1>3. CASE Pid!TakeEvent
  <2>1. output.pc = "idle" /\ timer.pc # "callback" /\ output' = [pc |-> "locked", strength |-> Pid!None]
        /\ UNCHANGED <<felt, timer>>
    BY <1>3 DEF Pid!TakeEvent, Pid!outputFrame, Pid!DispatchLocked
  <2>. QED BY <2>1 DEF ToldLast
<1>4. CASE Pid!HandleReport /\ ~(deviceOpen /\ callback)
  <2>1. output.pc = "locked" /\ output' = Pid!Idle /\ UNCHANGED <<felt, timer>>
    BY <1>4 DEF Pid!HandleReport, Pid!outputFrame, PidShape
  <2>. QED BY <2>1 DEF ToldLast, Pid!Idle
<1>5. CASE Pid!NotifyTimer
  <2>1. output.pc = "notify" /\ output' = [output EXCEPT !.pc = "callback"] /\ UNCHANGED <<felt, timer>>
    BY <1>5 DEF Pid!NotifyTimer, Pid!outputFrame
  <2>. QED BY <1>0, <2>1 DEF OutputStates
<1>6. CASE Pid!ReadGeneration \/ Pid!ReadClock \/ (Pid!Advance /\ ~deviceOpen) \/ Pid!WakeUp
  <2>1. UNCHANGED <<felt, output>> /\ timer.pc # "callback"
    BY <1>6 DEF Pid!ReadGeneration, Pid!ReadClock, Pid!Advance, Pid!WakeUp, Pid!timerFrame
  <2>2. \/ timer' = [timer EXCEPT !.pc = "now"] \/ timer' = [timer EXCEPT !.pc = "advance", !.now = now]
        \/ timer' = [timer EXCEPT !.pc = "wait", !.now = 0]
        \/ timer' = [timer EXCEPT !.pc = "top", !.next = Pid!None]
    BY <1>6 DEF Pid!ReadGeneration, Pid!ReadClock, Pid!Advance, Pid!WakeUp, PidShape
  <2>. QED BY <1>0, <2>1, <2>2 DEF TimerStates
<1>. QED BY <1>1, <1>2, <1>3, <1>4, <1>5, <1>6 DEF Apart

\* And what they call back with is the last strength.
LEMMA ApartFelt ==
  ASSUME Pid!PidAssumption, PidShape, ToldLast, Apart
  PROVE  felt' \in {felt, device.last}
<1>0. output \in OutputStates
  BY DEF PidShape
<1>1. CASE Pid!CallBack
  <2>1. felt' = IF output.strength # Pid!None THEN output.strength ELSE felt
    BY <1>1 DEF Pid!CallBack
  <2>. QED BY <2>1 DEF ToldLast
<1>2. CASE Pid!TimerCallsBack
  <2>1. timer.pc = "callback" /\ felt' = IF timer.strength # Pid!None THEN timer.strength ELSE felt
    BY <1>2 DEF Pid!TimerCallsBack
  <2>. QED BY <1>0, <2>1 DEF ToldLast, OutputStates
<1>3. CASE ~Pid!CallBack /\ ~Pid!TimerCallsBack
  BY <1>3, ApartThreads
<1>. QED BY <1>1, <1>2, <1>3

\* Nothing runs before there is a callback.
LEMMA NothingStep ==
  ASSUME Pid!PidAssumption, PidShape, NothingYet, ToldLast, [Pid!Next]_Pid!vars
  PROVE  NothingYet'
<1>1. SUFFICES ASSUME ~callback'
               PROVE  /\ \A b \in Pid!Blocks : ~effects'[b].running /\ plan'[b] = Pid!NoPlan
                      /\ device'.last = 0 /\ felt' = 0
  BY DEF NothingYet
<1>2. ~callback
  BY <1>1 DEF Pid!Next, Pid!CreateEffect, Pid!FreeEffect, Pid!Operate, Pid!Control, Pid!PassOn,
    Pid!driverFrame,
     Pid!TakeEvent, Pid!HandleReport, Pid!NotifyTimer, Pid!CallBack, Pid!outputFrame,
     Pid!ReadGeneration,
     Pid!ReadClock, Pid!Advance, Pid!TimerCallsBack, Pid!WakeUp, Pid!timerFrame, Pid!SetCallback,
     Pid!CloseDevice, Pid!Tick, Pid!vars
<1>3. /\ \A b \in Pid!Blocks : ~effects[b].running /\ plan[b] = Pid!NoPlan
      /\ device.last = 0 /\ felt = 0
  BY <1>2 DEF NothingYet
<1>4. CASE Apart
  <2>1. UNCHANGED <<effects, device, plan>>
    BY <1>4, ApartSame
  <2>2. felt' = 0
    <3>1. felt' \in {felt, device.last}
      BY <1>4, ApartFelt
    <3>. QED BY <1>3, <3>1
  <2>. QED BY <1>3, <2>1, <2>2
<1>5. CASE Pid!HandleReport /\ deviceOpen /\ callback
  BY <1>2, <1>5
<1>6. CASE Pid!Advance /\ deviceOpen
  <2>1. PICK strength \in Nat :
           /\ effects' = Pid!ExpireEffects(effects, timer.now)
           /\ strength = Pid!Strength(effects', device, timer.now)
           /\ device' = [device EXCEPT !.last = strength]
           /\ felt' = felt /\ plan' = plan
    BY <1>6, Advanced
  <2>2. \A b \in Pid!Blocks : ~effects'[b].running
    BY <1>3, <2>1 DEF Pid!ExpireEffects, Pid!Expired
  <2>3. strength = 0
    BY <2>1, <2>2, SilentStrength
  <2>4. device'.last = 0
    BY <2>1, <2>3 DEF PidShape, DeviceStates
  <2>. QED BY <1>3, <2>1, <2>2, <2>4
<1>7. CASE Pid!Tick
  BY <1>3, <1>7 DEF Pid!Tick, Pid!clientVars
<1>. QED BY <1>4, <1>5, <1>6, <1>7, ApartSteps

\* What is spoken was the last strength.
LEMMA ToldStep ==
  ASSUME Pid!PidAssumption, PidShape, NothingYet, ToldLast, [Pid!Next]_Pid!vars
  PROVE  ToldLast'
<1>0. output \in OutputStates /\ timer \in TimerStates /\ device \in DeviceStates
  BY DEF PidShape
<1>1. /\ output.pc # "idle" => timer.pc # "callback"
      /\ output.pc \in {"idle", "locked"} => output.strength = Pid!None
      /\ timer.pc # "callback" => timer.strength = Pid!None
      /\ IF output.strength # Pid!None THEN output.strength = device.last
         ELSE IF timer.strength # Pid!None THEN timer.strength = device.last ELSE felt = device.last
  BY DEF ToldLast
<1>2. CASE Apart
  <2>1. device' = device
    BY <1>2, ApartSame
  <2>2. CASE Pid!CallBack
    <3>1. output.pc = "callback" /\ output' = Pid!Idle /\ timer' = timer
          /\ felt' = IF output.strength # Pid!None THEN output.strength ELSE felt
      BY <2>2 DEF Pid!CallBack, Pid!outputFrame
    <3>2. timer.strength = Pid!None /\ felt' = device.last
      BY <1>1, <3>1
    <3>. QED BY <1>1, <2>1, <3>1, <3>2 DEF ToldLast, Pid!Idle
  <2>3. CASE Pid!TimerCallsBack
    <3>1. /\ timer.pc = "callback" /\ output' = output
          /\ timer' = [timer EXCEPT !.pc = "wait", !.strength = Pid!None]
          /\ felt' = IF timer.strength # Pid!None THEN timer.strength ELSE felt
      BY <2>3 DEF Pid!TimerCallsBack, Pid!timerFrame
    <3>2. output.pc = "idle" /\ output.strength = Pid!None /\ felt' = device.last
      BY <1>0, <1>1, <3>1 DEF OutputStates
    <3>3. timer'.pc = "wait" /\ timer'.strength = Pid!None
      BY <1>0, <3>1 DEF TimerStates
    <3>. QED BY <2>1, <3>1, <3>2, <3>3 DEF ToldLast
  <2>4. CASE ~Pid!CallBack /\ ~Pid!TimerCallsBack
    <3>1. /\ felt' = felt /\ output'.strength = output.strength /\ timer'.strength = timer.strength
          /\ output'.pc = output.pc \/ (output.pc = "idle" /\ timer.pc # "callback" /\ output'.pc = "locked")
             \/ (output.pc = "locked" /\ output'.pc = "idle")
             \/ (output.pc = "notify" /\ output'.pc = "callback")
          /\ timer'.pc = timer.pc \/ (timer.pc # "callback" /\ timer'.pc # "callback")
      BY <1>2, <2>4, ApartThreads
    <3>2. /\ output'.pc # "idle" => timer'.pc # "callback"
          /\ output'.pc \in {"idle", "locked"} => output'.strength = Pid!None
          /\ timer'.pc # "callback" => timer'.strength = Pid!None
      BY <1>1, <3>1
    <3>. QED BY <1>1, <2>1, <3>1, <3>2 DEF ToldLast
  <2>. QED BY <2>2, <2>3, <2>4
<1>3. CASE Pid!HandleReport /\ deviceOpen /\ callback
  <2>1. PICK d \in DeviceStates, strength \in Nat :
           /\ output.pc = "locked"
           /\ \/ device' = d /\ output' = [pc |-> "notify", strength |-> Pid!None]
              \/ /\ device' = [d EXCEPT !.last = strength]
                 /\ output' = [pc |-> "notify", strength |-> strength]
           /\ d.last = device.last
           /\ UNCHANGED <<felt, timer>>
    BY <1>3, Handled
  <2>2. timer.pc # "callback" /\ timer.strength = Pid!None /\ felt = device.last
    BY <1>1, <2>1
  <2>3. CASE device' = d /\ output' = [pc |-> "notify", strength |-> Pid!None]
    BY <2>1, <2>2, <2>3 DEF ToldLast
  <2>4. CASE device' = [d EXCEPT !.last = strength] /\ output' = [pc |-> "notify", strength |-> strength]
    <3>1. output'.pc = "notify" /\ output'.strength = strength /\ strength # Pid!None
      BY <2>4 DEF Pid!None
    <3>2. device'.last = strength
      BY <2>4 DEF DeviceStates
    <3>. QED BY <2>1, <2>2, <3>1, <3>2 DEF ToldLast
  <2>. QED BY <2>1, <2>3, <2>4
<1>4. CASE Pid!Advance /\ deviceOpen
  <2>1. PICK strength \in Nat :
           /\ timer.pc = "advance" /\ output.pc = "idle"
           /\ effects' = Pid!ExpireEffects(effects, timer.now)
           /\ strength = Pid!Strength(effects', device, timer.now)
           /\ device' = [device EXCEPT !.last = strength]
           /\ timer' = [timer EXCEPT !.pc = "callback", !.now = 0,
                          !.next = Pid!NextTransition(effects', device),
                          !.strength = IF callback /\ strength # device.last THEN strength ELSE Pid!None]
           /\ UNCHANGED <<felt, output, callback, plan>>
    BY <1>4, Advanced
  <2>2. timer'.pc = "callback"
        /\ timer'.strength = IF callback /\ strength # device.last THEN strength ELSE Pid!None
    BY <1>0, <2>1 DEF TimerStates
  <2>3. device'.last = strength
    BY <1>0, <2>1 DEF DeviceStates
  <2>4. output.strength = Pid!None /\ felt = device.last
    BY <1>1, <2>1
  <2>5. CASE callback /\ strength # device.last
    <3>1. timer'.strength = strength /\ strength # Pid!None
      BY <2>2, <2>5 DEF Pid!None
    <3>. QED BY <2>1, <2>2, <2>3, <2>4, <3>1 DEF ToldLast
  <2>6. CASE ~(callback /\ strength # device.last)
    <3>1. timer'.strength = Pid!None
      BY <2>2, <2>6
    <3>2. strength = device.last
      <4>1. CASE callback
        BY <2>6, <4>1
      <4>2. CASE ~callback
        <5>1. \A b \in Pid!Blocks : ~effects'[b].running
          BY <2>1, <4>2 DEF NothingYet, Pid!ExpireEffects, Pid!Expired
        <5>2. strength = 0
          BY <2>1, <5>1, SilentStrength
        <5>. QED BY <4>2, <5>2 DEF NothingYet
      <4>. QED BY <4>1, <4>2
    <3>. QED BY <2>1, <2>2, <2>3, <2>4, <3>1, <3>2 DEF ToldLast
  <2>. QED BY <2>5, <2>6
<1>5. CASE Pid!Tick
  BY <1>5 DEF Pid!Tick, Pid!clientVars, ToldLast
<1>. QED BY <1>2, <1>3, <1>4, <1>5, ApartSteps

\* What plays, by the marks of the effects.
Sounding(es) == {b \in Pid!Blocks : es[b].running /\ es[b].started /\ es[b].force = 1}

\* What is felt by those marks.
Base(es, d) == IF ~d.enabled \/ d.pause # Pid!None \/ d.gain = 0 THEN 0 ELSE Pid!Cardinality(Sounding(es))

\* While nobody has notified it, the timer waits for the next transition, and what
\* the device did last is by the marks of the effects; before it marks them, what is
\* marked had started by its time.
TimerKnows ==
  ~early /\ deviceOpen /\ ~notified /\ output.pc # "notify" =>
    /\ timer.pc \in {"callback", "wait"} =>
         timer.next = Pid!NextTransition(effects, device) /\ device.last = Base(effects, device)
    /\ timer.pc = "advance" => \A b \in Pid!Blocks :
         effects[b].running /\ effects[b].started => effects[b].start <= timer.now

\* The timer's view survives every step: a step that changes the transitions
\* notifies it.
LEMMA TimerStep ==
  ASSUME Pid!PidAssumption, PidShape, PlansFollowed, TimerKnows, [Pid!Next]_Pid!vars
  PROVE  TimerKnows'
<1>0. /\ output \in OutputStates /\ timer \in TimerStates /\ device \in DeviceStates /\ now \in Nat
      /\ effects \in [Pid!Blocks -> EffectStates] /\ device.pause <= now
  BY DEF PidShape
<1>1. CASE Apart
  <2>0. UNCHANGED <<effects, device, early, now>>
    BY <1>1, ApartSame
  <2>1. CASE DriverSteps \/ Pid!SetCallback \/ UNCHANGED Pid!vars
    <3>1. UNCHANGED <<deviceOpen, notified, output, timer>>
      BY <2>1, DriverShape DEF Pid!driverFrame, Pid!SetCallback, Pid!vars
    <3>. QED BY <2>0, <3>1 DEF TimerKnows, Base
  <2>2. CASE Pid!TakeEvent \/ (Pid!HandleReport /\ ~(deviceOpen /\ callback)) \/ Pid!CallBack
    <3>1. UNCHANGED <<deviceOpen, notified, timer>> /\ output.pc # "notify"
      BY <2>2 DEF Pid!TakeEvent, Pid!HandleReport, Pid!CallBack, Pid!outputFrame
    <3>. QED BY <2>0, <3>1 DEF TimerKnows, Base
  <2>3. CASE Pid!NotifyTimer
    BY <2>3 DEF Pid!NotifyTimer, TimerKnows
  <2>4. CASE Pid!ReadGeneration \/ Pid!WakeUp
    <3>1. timer'.pc \in {"now", "top"}
      BY <1>0, <2>4 DEF Pid!ReadGeneration, Pid!WakeUp, TimerStates
    <3>. QED BY <3>1 DEF TimerKnows
  <2>5. CASE Pid!ReadClock
    <3>1. timer'.pc = "advance" /\ timer'.now = now
      BY <1>0, <2>5 DEF Pid!ReadClock, TimerStates
    <3>2. SUFFICES ASSUME ~early', NEW b \in Pid!Blocks, effects[b].running, effects[b].started
                   PROVE  effects[b].start <= now
      BY <2>0, <3>1 DEF TimerKnows
    <3>3. Follows(effects[b], plan[b], Reached)
      BY <2>0, <3>2 DEF PlansFollowed
    <3>4. Reached >= effects[b].start
      BY <3>2, <3>3 DEF Follows
    <3>. QED BY <1>0, <3>4 DEF Reached, DeviceStates, EffectStates, Pid!None
  <2>6. CASE Pid!Advance /\ ~deviceOpen
    BY <2>6 DEF Pid!Advance, Pid!timerFrame, TimerKnows
  <2>7. CASE Pid!TimerCallsBack
    <3>1. /\ timer.pc = "callback" /\ timer'.pc = "wait" /\ timer'.next = timer.next
          /\ UNCHANGED <<deviceOpen, notified, output>>
      BY <1>0, <2>7 DEF Pid!TimerCallsBack, Pid!timerFrame, TimerStates
    <3>. QED BY <2>0, <3>1 DEF TimerKnows, Base
  <2>8. CASE Pid!CloseDevice
    BY <2>8 DEF Pid!CloseDevice, TimerKnows
  <2>. QED BY <1>1, <2>1, <2>2, <2>3, <2>4, <2>5, <2>6, <2>7, <2>8 DEF Apart
<1>2. CASE Pid!HandleReport /\ deviceOpen /\ callback
  <2>1. output'.pc = "notify"
    BY <1>2 DEF Pid!HandleReport
  <2>. QED BY <2>1 DEF TimerKnows
<1>3. CASE Pid!Advance /\ deviceOpen
  <2>1. PICK strength \in Nat :
           /\ timer.pc = "advance" /\ output.pc = "idle"
           /\ effects' = Pid!ExpireEffects(effects, timer.now)
           /\ strength = Pid!Strength(effects', device, timer.now)
           /\ device' = [device EXCEPT !.last = strength]
           /\ timer' = [timer EXCEPT !.pc = "callback", !.now = 0,
                          !.next = Pid!NextTransition(effects', device),
                          !.strength = IF callback /\ strength # device.last THEN strength ELSE Pid!None]
           /\ UNCHANGED <<notified, output, deviceOpen, early>>
    BY <1>3, Advanced
  <2>2. timer'.pc = "callback" /\ timer'.next = Pid!NextTransition(effects', device)
    BY <1>0, <2>1 DEF TimerStates
  <2>3. /\ device'.last = strength /\ device'.pause = device.pause
        /\ device'.enabled = device.enabled /\ device'.gain = device.gain
    BY <1>0, <2>1 DEF DeviceStates
  <2>4. Pid!NextTransition(effects', device') = Pid!NextTransition(effects', device)
    BY <2>3 DEF Pid!NextTransition
  <2>5. SUFFICES ASSUME ~early, ~notified PROVE strength = Base(effects', device)
    BY <1>3, <2>1, <2>2, <2>3, <2>4 DEF TimerKnows, Base
  <2>6. \A b \in Pid!Blocks : effects[b].running /\ effects[b].started => effects[b].start <= timer.now
    BY <1>3, <2>1, <2>5 DEF TimerKnows
  <2>7. CASE device.pause # Pid!None
    BY <2>1, <2>7 DEF Pid!Strength, Base
  <2>8. CASE device.pause = Pid!None
    <3>1. ASSUME NEW b \in Pid!Blocks
          PROVE  effects'[b].running /\ effects'[b].started => timer.now >= effects'[b].start
      <4>1. effects'[b] = Pid!Expired(effects[b], timer.now) /\ effects[b] \in EffectStates
        BY <1>0, <2>1, <2>8 DEF Pid!ExpireEffects
      <4>2. effects'[b].running /\ effects'[b].started =>
              /\ effects[b].running /\ effects'[b].start = effects[b].start
              /\ effects[b].started \/ timer.now >= effects[b].start
        BY <4>1 DEF Pid!Expired, Pid!Stopped, EffectStates
      <4>. QED BY <1>0, <2>6, <4>1, <4>2 DEF EffectStates, TimerStates
    <3>2. {b \in Pid!Blocks : /\ effects'[b].running /\ effects'[b].started /\ timer.now >= effects'[b].start
                              /\ effects'[b].force = 1} = Sounding(effects')
      BY <3>1 DEF Sounding
    <3>. QED BY <2>1, <3>2 DEF Pid!Strength, Base
  <2>. QED BY <2>7, <2>8
<1>4. CASE Pid!Tick
  BY <1>4 DEF Pid!Tick, Pid!clientVars, TimerKnows, Base
<1>. QED BY <1>1, <1>2, <1>3, <1>4, ApartSteps

-----------------------------------------------------------------------------
\* The last of the reports on their way that say something of it.
Leads(es, says, yes, v, w) ==
  \/ \E i \in 1..Len(es) : /\ es[i] \in says /\ w = (es[i] \in yes)
                           /\ \A j \in (i + 1)..Len(es) : es[j] \notin says
  \/ w = v /\ \A j \in 1..Len(es) : es[j] \notin says

\* A report queued says the last word, if it says something...
LEMMA LeadsAppend ==
  ASSUME NEW R, NEW es \in Seq(R), NEW r, NEW says, NEW yes, NEW v, NEW w, Leads(es, says, yes, v, w)
  PROVE  Leads(Append(es, r), says, yes, v, IF r \in says THEN r \in yes ELSE w)
<1> DEFINE l == Append(es, r)
<1>1. /\ Len(l) = Len(es) + 1 /\ l[Len(es) + 1] = r /\ Len(es) \in Nat
      /\ \A i \in 1..Len(es) : l[i] = es[i]
  OBVIOUS
<1> HIDE DEF l
<1>2. CASE r \in says
  <2>1. Len(l) \in 1..Len(l) /\ l[Len(l)] = r /\ (Len(l) + 1)..Len(l) = {}
    BY <1>1
  <2>2. Leads(l, says, yes, v, r \in yes)
    BY <1>2, <2>1 DEF Leads
  <2>. QED BY <1>2, <2>2 DEF l
<1>3. CASE r \notin says
  <2>1. CASE \E i \in 1..Len(es) : /\ es[i] \in says /\ w = (es[i] \in yes)
                                  /\ \A j \in (i + 1)..Len(es) : es[j] \notin says
    <3>1. PICK i \in 1..Len(es) : /\ es[i] \in says /\ w = (es[i] \in yes)
                                  /\ \A j \in (i + 1)..Len(es) : es[j] \notin says
      BY <2>1
    <3>2. i \in 1..Len(l) /\ l[i] = es[i]
      BY <1>1
    <3>3. \A j \in (i + 1)..Len(l) : l[j] \notin says
      <4>1. ASSUME NEW j \in (i + 1)..Len(l) PROVE l[j] \notin says
        <5>1. CASE j = Len(es) + 1
          BY <1>1, <1>3, <5>1
        <5>2. CASE j # Len(es) + 1
          <6>1. j \in (i + 1)..Len(es) /\ j \in 1..Len(es)
            BY <1>1, <5>2
          <6>. QED BY <1>1, <3>1, <6>1
        <5>. QED BY <5>1, <5>2
      <4>. QED BY <4>1
    <3>4. Leads(l, says, yes, v, w)
      BY <3>1, <3>2, <3>3 DEF Leads
    <3>. QED BY <1>3, <3>4 DEF l
  <2>2. CASE w = v /\ \A j \in 1..Len(es) : es[j] \notin says
    <3>1. \A j \in 1..Len(l) : l[j] \notin says
      <4>1. ASSUME NEW j \in 1..Len(l) PROVE l[j] \notin says
        <5>1. CASE j = Len(es) + 1
          BY <1>1, <1>3, <5>1
        <5>2. CASE j # Len(es) + 1
          BY <1>1, <2>2, <5>2
        <5>. QED BY <5>1, <5>2
      <4>. QED BY <4>1
    <3>2. Leads(l, says, yes, v, w)
      BY <2>2, <3>1 DEF Leads
    <3>. QED BY <1>3, <3>2 DEF l
  <2>. QED BY <2>1, <2>2 DEF Leads
<1>. QED BY <1>2, <1>3

\* ... and one handled was the first.
LEMMA LeadsTail ==
  ASSUME NEW R, NEW es \in Seq(R), es # <<>>, NEW says, NEW yes, NEW v, NEW w, Leads(es, says, yes, v, w)
  PROVE  Leads(Tail(es), says, yes, IF Head(es) \in says THEN Head(es) \in yes ELSE v, w)
<1> DEFINE l == Tail(es)
<1>1. /\ Len(es) \in Nat /\ Len(es) > 0 /\ Len(l) = Len(es) - 1 /\ Head(es) = es[1]
      /\ \A i \in 1..Len(l) : l[i] = es[i + 1]
  OBVIOUS
<1>2. PICK u : u = IF Head(es) \in says THEN Head(es) \in yes ELSE v
  OBVIOUS
<1> HIDE DEF l
<1>3. CASE w = v /\ \A j \in 1..Len(es) : es[j] \notin says
  <2>1. u = v
    BY <1>1, <1>2, <1>3
  <2>2. \A j \in 1..Len(l) : l[j] \notin says
    BY <1>1, <1>3
  <2>3. Leads(l, says, yes, u, w)
    BY <1>3, <2>1, <2>2 DEF Leads
  <2>. QED BY <1>2, <2>3 DEF l
<1>4. CASE \E i \in 1..Len(es) : /\ es[i] \in says /\ w = (es[i] \in yes)
                                /\ \A j \in (i + 1)..Len(es) : es[j] \notin says
  <2>1. PICK i \in 1..Len(es) : /\ es[i] \in says /\ w = (es[i] \in yes)
                                /\ \A j \in (i + 1)..Len(es) : es[j] \notin says
    BY <1>4
  <2>2. CASE i = 1
    <3>1. w = u
      BY <1>1, <1>2, <2>1, <2>2
    <3>2. \A j \in 1..Len(l) : l[j] \notin says
      BY <1>1, <2>1, <2>2
    <3>3. Leads(l, says, yes, u, w)
      BY <3>1, <3>2 DEF Leads
    <3>. QED BY <1>2, <3>3 DEF l
  <2>3. CASE i # 1
    <3>1. i - 1 \in 1..Len(l) /\ l[i - 1] = es[i]
      BY <1>1, <2>3
    <3>2. \A j \in ((i - 1) + 1)..Len(l) : l[j] \notin says
      <4>1. ASSUME NEW j \in ((i - 1) + 1)..Len(l) PROVE l[j] \notin says
        <5>1. j \in 1..Len(l) /\ j + 1 \in (i + 1)..Len(es)
          BY <1>1
        <5>. QED BY <1>1, <2>1, <5>1
      <4>. QED BY <4>1
    <3>3. Leads(l, says, yes, u, w)
      BY <2>1, <3>1, <3>2 DEF Leads
    <3>. QED BY <1>2, <3>3 DEF l
  <2>. QED BY <2>2, <2>3
<1>. QED BY <1>3, <1>4 DEF Leads

\* The reports of some commands; those that start a block, and that stop it.
Command(commands) == [id : {"control"}, command : commands]

Starting(b) == [id : {"operation"}, block : {b}, operation : {"start", "solo"}, loops : Nat \ {0}]

Freeing(b) == [id : {"free"}, block : {b}] \cup Command({"reset"})

\* The pause of the device, after the reports on their way, is the driver's, the
\* actuators are, and a freed block does not run.
PauseLeads(es, pause, paused) ==
  Leads(es, Command({"pause", "continue", "reset"}), Command({"pause"}), pause # Pid!None, paused)

EnabledLeads(es, actuators, enabled) ==
  Leads(es, Command({"enable", "disable", "reset"}), Command({"enable", "reset"}), actuators, enabled)

FreeLeads(es, b, running) ==
  \E v \in BOOLEAN : (running => v) /\ Leads(es, Starting(b) \cup Freeing(b), Starting(b), v, FALSE)

\* What the driver says is what the client will say when it has heard all reports.
DriverLeads ==
  deviceOpen /\ ~missed =>
    /\ PauseLeads(events, device.pause, state.paused)
    /\ EnabledLeads(events, device.enabled, state.enabled)
    /\ \A b \in Pid!Blocks \ allocated : FreeLeads(events, b, effects[b].running)

\* The reports of these sets, by their fields.
LEMMA WhichReport ==
  ASSUME NEW r \in AllReports
  PROVE  /\ \A commands : r \in Command(commands) <=> r.id = "control" /\ r.command \in commands
         /\ \A b : r \in Starting(b) <=> r.id = "operation" /\ r.block = b /\ r.operation \in {"start", "solo"}
         /\ \A b : r \in Freeing(b) <=> \/ r.id = "free" /\ r.block = b
                                        \/ r.id = "control" /\ r.command = "reset"
<1>1. r.id \in {"create", "gain", "free", "magnitude", "set", "operation", "control"}
  BY DEF AllReports
<1>2. r.id = "control" => r \in [id : {"control"}, command : Pid!Controls]
  BY DEF AllReports
<1>3. r.id = "free" => r \in [id : {"free"}, block : Pid!Blocks]
  BY DEF AllReports
<1>4. r.id = "operation" =>
        r \in [id : {"operation"}, block : Pid!Blocks, operation : {"start", "solo", "stop"}, loops : Nat \ {0}]
  BY DEF AllReports
<1>5. ASSUME NEW commands PROVE r \in Command(commands) <=> r.id = "control" /\ r.command \in commands
  BY <1>2 DEF Command
<1>6. ASSUME NEW b
      PROVE  r \in Starting(b) <=> r.id = "operation" /\ r.block = b /\ r.operation \in {"start", "solo"}
  BY <1>4 DEF Starting
<1>7. ASSUME NEW b
      PROVE  r \in Freeing(b) <=> \/ r.id = "free" /\ r.block = b
                                  \/ r.id = "control" /\ r.command = "reset"
  <2>1. r \in [id : {"free"}, block : {b}] <=> r.id = "free" /\ r.block = b
    BY <1>3
  <2>. QED BY <1>5, <2>1 DEF Freeing
<1>. QED BY <1>5, <1>6, <1>7

\* A report that says something of it leads, whatever was said before.
LEMMA LeadsLast ==
  ASSUME NEW R, NEW es \in Seq(R), NEW r, NEW says, NEW yes, NEW v, r \in says
  PROVE  Leads(Append(es, r), says, yes, v, r \in yes)
<1> DEFINE l == Append(es, r)
<1>1. Len(l) \in 1..Len(l) /\ l[Len(l)] = r /\ (Len(l) + 1)..Len(l) = {}
  OBVIOUS
<1> HIDE DEF l
<1>2. Leads(l, says, yes, v, r \in yes)
  BY <1>1 DEF Leads
<1>. QED BY <1>2 DEF l

\* The driver has what it queues.
DriverTells(r) ==
  /\ state'.paused = IF r \in Command({"pause", "continue", "reset"}) THEN r \in Command({"pause"}) ELSE state.paused
  /\ state'.enabled = IF r \in Command({"enable", "disable", "reset"}) THEN r \in Command({"enable", "reset"})
                      ELSE state.enabled
  /\ \A b \in Pid!Blocks \ allocated' :
       \/ b \notin allocated /\ r \notin Starting(b) /\ r \notin Freeing(b)
       \/ r \in Freeing(b) /\ r \notin Starting(b)

\* Every step of the driver queues the report of what it did.
LEMMA DriverTold ==
  ASSUME Pid!PidAssumption, PidShape, DriverSteps
  PROVE  \E r \in AllReports : events' = Append(events, r) /\ DriverTells(r)
<1>0. allocated \subseteq Pid!Blocks /\ state \in DriverStates
  BY DEF PidShape
<1>1. ASSUME NEW type \in {"valid", "invalid"}, Pid!CreateEffect(type)
      PROVE  \E r \in AllReports : events' = Append(events, r) /\ DriverTells(r)
  <2>1. PICK r \in AllReports : r = [id |-> "create"]
    BY ReportsOf
  <2>2. events' = Append(events, r) /\ state' = state
    BY <1>1, <2>1 DEF Pid!CreateEffect, Pid!Queue
  <2>3. allocated \subseteq allocated'
    BY <1>1 DEF Pid!CreateEffect
  <2>4. r.id = "create"
    BY <2>1
  <2>. QED BY <2>2, <2>3, <2>4, WhichReport DEF DriverTells
<1>2. ASSUME NEW x \in Pid!Blocks, Pid!FreeEffect(x)
      PROVE  \E r \in AllReports : events' = Append(events, r) /\ DriverTells(r)
  <2>1. PICK r \in AllReports : r = [id |-> "free", block |-> x]
    BY ReportsOf
  <2>2. events' = Append(events, r) /\ state'.paused = state.paused /\ state'.enabled = state.enabled
    BY <1>0, <1>2, <2>1 DEF Pid!FreeEffect, Pid!Queue, DriverStates
  <2>3. allocated' = allocated \ {x}
    BY <1>2 DEF Pid!FreeEffect
  <2>4. r.id = "free" /\ r.block = x
    BY <2>1
  <2>. QED BY <2>2, <2>3, <2>4, WhichReport DEF DriverTells
<1>3. ASSUME NEW x \in Pid!Blocks, NEW n \in Loops, NEW o \in {"start", "solo", "stop"}, Pid!Operate(x, o, n)
      PROVE  \E r \in AllReports : events' = Append(events, r) /\ DriverTells(r)
  <2>1. PICK r \in AllReports : r = [id |-> "operation", block |-> x, operation |-> o, loops |-> n]
    BY ReportsOf
  <2>2. events' = Append(events, r) /\ state'.paused = state.paused /\ state'.enabled = state.enabled
    BY <1>0, <1>3, <2>1 DEF Pid!Operate, Pid!Queue, DriverStates
  <2>3. allocated' = allocated /\ x \in allocated
    BY <1>3 DEF Pid!Operate
  <2>4. r.id = "operation" /\ r.block = x
    BY <2>1
  <2>. QED BY <2>2, <2>3, <2>4, WhichReport DEF DriverTells
<1>4. ASSUME NEW c \in Pid!Controls, Pid!Control(c)
      PROVE  \E r \in AllReports : events' = Append(events, r) /\ DriverTells(r)
  <2>1. PICK r \in AllReports : r = [id |-> "control", command |-> c]
    BY ReportsOf
  <2>2. events' = Append(events, r) /\ state' = Pid!Controlled(state, c)
    BY <1>4, <2>1 DEF Pid!Control, Pid!Queue
  <2>3. allocated' = IF c = "reset" THEN {} ELSE allocated
    BY <1>4 DEF Pid!Control
  <2>4. r.id = "control" /\ r.command = c
    BY <2>1
  <2>7. \/ c = "enable" /\ state' = [state EXCEPT !.enabled = TRUE]
        \/ c = "disable" /\ state' = [state EXCEPT !.enabled = FALSE]
        \/ c = "stop_all" /\ state' = [state EXCEPT !.block = 0, !.playing = FALSE]
        \/ c = "reset" /\ state' = Pid!Powered
        \/ c = "pause" /\ state' = [state EXCEPT !.paused = TRUE]
        \/ c = "continue" /\ state' = [state EXCEPT !.paused = FALSE]
    BY <2>2 DEF Pid!Controlled, Pid!Controls
  <2>5. state'.paused = IF c \in {"pause", "continue", "reset"} THEN c = "pause" ELSE state.paused
    <3>1. \/ c \in {"enable", "disable", "stop_all"} /\ state'.paused = state.paused
          \/ c \in {"reset", "continue"} /\ state'.paused = FALSE
          \/ c = "pause" /\ state'.paused = TRUE
      <4>1. CASE c = "enable" /\ state' = [state EXCEPT !.enabled = TRUE]
        BY <1>0, <4>1 DEF DriverStates
      <4>2. CASE c = "disable" /\ state' = [state EXCEPT !.enabled = FALSE]
        BY <1>0, <4>2 DEF DriverStates
      <4>3. CASE c = "stop_all" /\ state' = [state EXCEPT !.block = 0, !.playing = FALSE]
        BY <1>0, <4>3 DEF DriverStates
      <4>4. CASE c = "reset" /\ state' = Pid!Powered
        BY <4>4 DEF Pid!Powered
      <4>5. CASE c = "pause" /\ state' = [state EXCEPT !.paused = TRUE]
        BY <1>0, <4>5 DEF DriverStates
      <4>6. CASE c = "continue" /\ state' = [state EXCEPT !.paused = FALSE]
        BY <1>0, <4>6 DEF DriverStates
      <4>. QED BY <2>7, <4>1, <4>2, <4>3, <4>4, <4>5, <4>6
    <3>2. CASE c = "pause"
      <4>1. (c = "pause") = TRUE
        BY <3>2
      <4>. QED BY <3>1, <3>2, <4>1
    <3>3. CASE c # "pause"
      <4>1. (c = "pause") = FALSE
        BY <3>3
      <4>. QED BY <3>1, <3>3, <4>1
    <3>. QED BY <3>2, <3>3
  <2>6. state'.enabled = IF c \in {"enable", "disable", "reset"} THEN c \in {"enable", "reset"} ELSE state.enabled
    <3>1. \/ c \in {"pause", "continue", "stop_all"} /\ state'.enabled = state.enabled
          \/ c = "disable" /\ state'.enabled = FALSE
          \/ c \in {"enable", "reset"} /\ state'.enabled = TRUE
      <4>1. CASE c = "enable" /\ state' = [state EXCEPT !.enabled = TRUE]
        BY <1>0, <4>1 DEF DriverStates
      <4>2. CASE c = "disable" /\ state' = [state EXCEPT !.enabled = FALSE]
        BY <1>0, <4>2 DEF DriverStates
      <4>3. CASE c = "stop_all" /\ state' = [state EXCEPT !.block = 0, !.playing = FALSE]
        BY <1>0, <4>3 DEF DriverStates
      <4>4. CASE c = "reset" /\ state' = Pid!Powered
        BY <4>4 DEF Pid!Powered
      <4>5. CASE c = "pause" /\ state' = [state EXCEPT !.paused = TRUE]
        BY <1>0, <4>5 DEF DriverStates
      <4>6. CASE c = "continue" /\ state' = [state EXCEPT !.paused = FALSE]
        BY <1>0, <4>6 DEF DriverStates
      <4>. QED BY <2>7, <4>1, <4>2, <4>3, <4>4, <4>5, <4>6
    <3>2. CASE c \in {"enable", "reset"}
      <4>1. (c \in {"enable", "reset"}) = TRUE
        BY <3>2
      <4>. QED BY <3>1, <3>2, <4>1
    <3>3. CASE c \notin {"enable", "reset"}
      <4>1. (c \in {"enable", "reset"}) = FALSE
        BY <3>3
      <4>. QED BY <3>1, <3>3, <4>1
    <3>. QED BY <3>2, <3>3
  <2>. QED BY <2>2, <2>3, <2>4, <2>5, <2>6, WhichReport DEF DriverTells
<1>5. ASSUME Pid!PassOn
      PROVE  \E r \in AllReports : events' = Append(events, r) /\ DriverTells(r)
  <2>1. allocated' = allocated /\ state' = state
    BY <1>5 DEF Pid!PassOn, Pid!driverVars
  <2>2. PICK r \in AllReports : events' = Append(events, r) /\ r.id \in {"set", "magnitude", "gain"}
    BY <1>0, <1>5, ReportsOf DEF Pid!PassOn, Pid!Queue
  <2>. QED BY <2>1, <2>2, WhichReport DEF DriverTells
<1>. QED BY <1>1, <1>2, <1>3, <1>4, <1>5 DEF DriverSteps

\* No report but a start makes a block run, and one that frees it stops it.
LEMMA HandledRunning ==
  ASSUME Pid!PidAssumption, PidShape, NEW r \in AllReports, NEW b \in Pid!Blocks,
         Pid!EffectsAfter(r, Pid!ExpireEffects(effects, now), now)[b].running
  PROVE  r \in Starting(b) \/ (effects[b].running /\ r \notin Freeing(b))
<1>0. /\ effects \in [Pid!Blocks -> EffectStates] /\ now \in Nat /\ plan \in [Pid!Blocks -> Plans]
  BY DEF PidShape
<1>1. PICK es : es = Pid!ExpireEffects(effects, now)
  OBVIOUS
<1>2. /\ es \in [Pid!Blocks -> EffectStates]
      /\ es[b].running => effects[b].running
  <2>1. es[b] \in {effects[b], Pid!Expired(effects[b], now)}
    BY <1>1 DEF Pid!ExpireEffects
  <2>2. es[b].running => effects[b].running
    BY <2>1 DEF Pid!Expired
  <2>. QED BY <1>0, <1>1, <2>2, ExpiredShape
<1>3. ~Pid!NoEffect.running /\ \A x \in EffectStates : ~Pid!Stopped(x).running
  BY DEF Pid!NoEffect, Pid!Stopped, EffectStates
<1>4. PICK e : e = Pid!EffectsAfter(r, es, now)[b] /\ e.running
  BY <1>1
<1>5. CASE r.id \in {"create", "gain"}
  <2>1. e = es[b]
    BY <1>4, <1>5, AfterOther
  <2>. QED BY <1>2, <1>4, <1>5, <2>1, WhichReport
<1>6. CASE r.id = "free"
  <2>1. r.block \in Pid!Blocks
    BY <1>6 DEF AllReports
  <2>2. e = IF b = r.block THEN Pid!NoEffect ELSE es[b]
    BY <1>2, <1>4, <1>6, <2>1, AfterFree
  <2>. QED BY <1>2, <1>3, <1>4, <1>6, <2>2, WhichReport
<1>7. CASE r.id = "magnitude"
  <2>1. r.block \in Pid!Blocks
    BY <1>7 DEF AllReports
  <2>2. PICK new : new = [es[r.block] EXCEPT !.force = r.force]
    OBVIOUS
  <2>3. Pid!EffectsAfter(r, es, now) = [es EXCEPT ![r.block] = new]
    BY <1>7, <2>2, AfterMagnitude
  <2>4. e = IF b = r.block THEN new ELSE es[b]
    BY <1>2, <1>4, <2>1, <2>3
  <2>5. new.running = es[r.block].running
    BY <1>2, <2>1, <2>2 DEF EffectStates
  <2>. QED BY <1>2, <1>4, <1>7, <2>4, <2>5, WhichReport
<1>8. CASE r.id = "set"
  <2>1. r.block \in Pid!Blocks
    BY <1>8 DEF AllReports
  <2>2. PICK y : y = SetEffect(es[r.block], r.duration, r.delay)
    OBVIOUS
  <2>3. e = IF b = r.block THEN Pid!Rescheduled(y, now) ELSE es[b]
    BY <1>0, <1>2, <1>4, <1>8, <2>1, <2>2, AfterSet
  <2>4. y.running = es[r.block].running
    BY <1>2, <2>1, <2>2 DEF SetEffect, EffectStates
  <2>5. Pid!Rescheduled(y, now).running => y.running
    BY DEF Pid!Rescheduled
  <2>. QED BY <1>2, <1>4, <1>8, <2>3, <2>4, <2>5, WhichReport
<1>9. CASE r.id = "operation"
  <2>1. r.block \in Pid!Blocks /\ r.operation \in {"start", "solo", "stop"}
    BY <1>9 DEF AllReports
  <2>2. PICK others :
          /\ others = IF r.operation = "solo" THEN [x \in Pid!Blocks |-> Pid!Stopped(es[x])] ELSE es
          /\ Pid!EffectsAfter(r, es, now) =
               [others EXCEPT ![r.block] = IF r.operation = "stop" THEN Pid!Stopped(@)
                                           ELSE Pid!Started(@, r.loops, now)]
    BY <1>9, AfterOperation
  <2>3. /\ others = [x \in Pid!Blocks |-> others[x]]
        /\ \A x \in Pid!Blocks : others[x] \in {Pid!Stopped(es[x]), es[x]}
    <3>1. CASE r.operation = "solo"
      <4>1. others = [x \in Pid!Blocks |-> Pid!Stopped(es[x])]
        BY <2>2, <3>1
      <4>. QED BY <4>1
    <3>2. CASE r.operation # "solo"
      BY <1>2, <2>2, <3>2
    <3>. QED BY <3>1, <3>2
  <2>4. CASE b # r.block
    <3>1. e = others[b]
      BY <1>4, <2>1, <2>2, <2>3, <2>4
    <3>. QED BY <1>2, <1>3, <1>4, <1>9, <2>3, <3>1, WhichReport
  <2>5. CASE b = r.block /\ r.operation # "stop"
    BY <1>9, <2>1, <2>5, WhichReport
  <2>6. CASE b = r.block /\ r.operation = "stop"
    <3>1. e = Pid!Stopped(others[b])
      BY <1>4, <2>1, <2>2, <2>3, <2>6
    <3>2. others[b] \in EffectStates
      BY <1>0, <1>2, <2>3, EffectKept
    <3>. QED BY <1>3, <1>4, <3>1, <3>2
  <2>. QED BY <2>4, <2>5, <2>6
<1>10. CASE r.id = "control"
  <2>1. e \in {Pid!Stopped(es[b]), Pid!NoEffect, Pid!Shifted(es[b], now - device.pause), es[b]}
        /\ (r.command = "reset" => e = Pid!NoEffect)
    BY <1>4, <1>10, AfterControl
  <2>2. Pid!Shifted(es[b], now - device.pause).running => es[b].running
    BY DEF Pid!Shifted
  <2>. QED BY <1>2, <1>3, <1>4, <1>10, <2>1, <2>2, WhichReport
<1>11. r.id \in {"create", "gain", "free", "magnitude", "set", "operation", "control"}
  BY DEF AllReports
<1>. QED BY <1>5, <1>6, <1>7, <1>8, <1>9, <1>10, <1>11

\* What a command does to the device.
LEMMA Commanded ==
  ASSUME PidShape, NEW r \in AllReports
  PROVE  LET d == Pid!DeviceAfter(r, now) IN
         /\ (d.pause # Pid!None) = (IF r \in Command({"pause", "continue", "reset"})
                                 THEN r \in Command({"pause"}) ELSE device.pause # Pid!None)
         /\ d.enabled = IF r \in Command({"enable", "disable", "reset"}) THEN r \in Command({"enable", "reset"})
                       ELSE device.enabled
<1>0. device \in DeviceStates /\ now \in Nat
  BY DEF PidShape
<1>1. PICK d : d = Pid!DeviceAfter(r, now)
  OBVIOUS
<1>2. CASE r.id # "control"
  <2>1. d = device \/ d = [device EXCEPT !.gain = r.gain]
    BY <1>1, <1>2, DeviceOther
  <2>2. d.pause = device.pause /\ d.enabled = device.enabled
    BY <1>0, <2>1 DEF DeviceStates
  <2>. QED BY <1>1, <1>2, <2>2, WhichReport
<1>3. CASE r.id = "control"
  <2>1. r.command \in Pid!Controls
    BY <1>3 DEF AllReports
  <2>2. \/ r.command = "enable" /\ d = [device EXCEPT !.enabled = TRUE]
        \/ r.command = "disable" /\ d = [device EXCEPT !.enabled = FALSE]
        \/ r.command = "reset" /\ d = [device EXCEPT !.gain = 1, !.enabled = TRUE, !.pause = Pid!None]
        \/ r.command = "pause" /\ d = [device EXCEPT !.pause = IF @ = Pid!None THEN now ELSE @]
        \/ r.command = "continue" /\ d = [device EXCEPT !.pause = Pid!None]
        \/ r.command = "stop_all" /\ d = device
    BY <1>1, <1>3, <2>1 DEF Pid!DeviceAfter, Pid!Controls
  <2>4. d.pause = IF r.command = "pause" THEN (IF device.pause = Pid!None THEN now ELSE device.pause)
                  ELSE IF r.command \in {"reset", "continue"} THEN Pid!None ELSE device.pause
    BY <1>0, <2>2 DEF DeviceStates
  <2>5. d.enabled = IF r.command = "disable" THEN FALSE
                    ELSE IF r.command \in {"enable", "reset"} THEN TRUE ELSE device.enabled
    BY <1>0, <2>2 DEF DeviceStates
  <2>3. /\ (d.pause # Pid!None) = (IF r.command \in {"pause", "continue", "reset"} THEN r.command = "pause"
                                  ELSE device.pause # Pid!None)
        /\ d.enabled = IF r.command \in {"enable", "disable", "reset"} THEN r.command \in {"enable", "reset"}
                      ELSE device.enabled
    <3>1. (d.pause # Pid!None) <=> (IF r.command \in {"pause", "continue", "reset"} THEN r.command = "pause"
                                  ELSE device.pause # Pid!None)
      BY <1>0, <2>4 DEF Pid!None
    <3>2. d.enabled = IF r.command \in {"enable", "disable", "reset"} THEN r.command \in {"enable", "reset"}
                      ELSE device.enabled
      <4>1. CASE r.command \in {"enable", "reset"}
        <5>1. (r.command \in {"enable", "reset"}) = TRUE
          BY <4>1
        <5>. QED BY <2>5, <4>1, <5>1
      <4>2. CASE r.command \notin {"enable", "reset"}
        <5>1. (r.command \in {"enable", "reset"}) = FALSE
          BY <4>2
        <5>. QED BY <2>5, <4>2, <5>1
      <4>. QED BY <4>1, <4>2
    <3>. QED BY <3>1, <3>2
  <2>. QED BY <1>1, <1>3, <2>3, WhichReport
<1>. QED BY <1>2, <1>3

\* What the driver says stays ahead of the client, step by step.
LEMMA LeadsStep ==
  ASSUME Pid!PidAssumption, PidShape, DriverLeads, [Pid!Next]_Pid!vars
  PROVE  DriverLeads'
<1>0. /\ events \in Seq(AllReports) /\ state \in DriverStates /\ device \in DeviceStates
      /\ effects \in [Pid!Blocks -> EffectStates]
  BY DEF PidShape
<1>1. SUFFICES ASSUME deviceOpen', ~missed'
               PROVE  /\ PauseLeads(events', device'.pause, state'.paused)
                      /\ EnabledLeads(events', device'.enabled, state'.enabled)
                      /\ \A b \in Pid!Blocks \ allocated' : FreeLeads(events', b, effects'[b].running)
  BY DEF DriverLeads
<1>2. CASE DriverSteps
  <2>1. UNCHANGED <<deviceOpen, missed, effects, device>>
    BY <1>2, DriverShape DEF Pid!driverFrame, Pid!clientVars
  <2>2. PICK r \in AllReports : events' = Append(events, r) /\ DriverTells(r)
    BY <1>2, DriverTold
  <2>3. /\ PauseLeads(events, device.pause, state.paused)
        /\ EnabledLeads(events, device.enabled, state.enabled)
        /\ \A b \in Pid!Blocks \ allocated : FreeLeads(events, b, effects[b].running)
    BY <1>1, <2>1 DEF DriverLeads
  <2>4. PauseLeads(events', device'.pause, state'.paused)
    BY <1>0, <2>1, <2>2, <2>3, LeadsAppend DEF PauseLeads, DriverTells
  <2>5. EnabledLeads(events', device'.enabled, state'.enabled)
    BY <1>0, <2>1, <2>2, <2>3, LeadsAppend DEF EnabledLeads, DriverTells
  <2>6. ASSUME NEW b \in Pid!Blocks \ allocated' PROVE FreeLeads(events', b, effects'[b].running)
    <3>1. PICK says : says = Starting(b) \cup Freeing(b)
      OBVIOUS
    <3>2. CASE b \notin allocated /\ r \notin Starting(b) /\ r \notin Freeing(b)
      <4>1. PICK v \in BOOLEAN : (effects[b].running => v) /\ Leads(events, says, Starting(b), v, FALSE)
        BY <2>3, <2>6, <3>1, <3>2 DEF FreeLeads
      <4>2. r \notin says
        BY <3>1, <3>2
      <4>3. Leads(events', says, Starting(b), v, FALSE)
        BY <1>0, <2>2, <4>1, <4>2, LeadsAppend
      <4>. QED BY <2>1, <3>1, <4>1, <4>3 DEF FreeLeads
    <3>3. CASE r \in Freeing(b) /\ r \notin Starting(b)
      <4>1. r \in says /\ (r \in Starting(b)) = FALSE
        BY <3>1, <3>3
      <4>3. Leads(events', says, Starting(b), TRUE, r \in Starting(b))
        BY <1>0, <2>2, <4>1, LeadsLast
      <4>2. Leads(events', says, Starting(b), TRUE, FALSE)
        BY <4>1, <4>3, Zenon
      <4>. QED BY <3>1, <4>2 DEF FreeLeads
    <3>. QED BY <2>2, <2>6, <3>2, <3>3 DEF DriverTells
  <2>. QED BY <2>4, <2>5, <2>6
<1>3. CASE Pid!HandleReport /\ deviceOpen /\ callback
  <2>1. PICK r \in AllReports, d \in DeviceStates, strength \in Nat :
           /\ events # <<>> /\ r = Head(events) /\ events' = Tail(events)
           /\ d = Pid!DeviceAfter(r, now)
           /\ effects' = Pid!EffectsAfter(r, Pid!ExpireEffects(effects, now), now)
           /\ device' = d \/ device' = [d EXCEPT !.last = strength]
           /\ UNCHANGED <<missed, allocated, state, deviceOpen, now>>
    BY <1>3, Handled
  <2>2. device'.pause = d.pause /\ device'.enabled = d.enabled
    BY <2>1 DEF DeviceStates
  <2>3. /\ PauseLeads(events, device.pause, state.paused)
        /\ EnabledLeads(events, device.enabled, state.enabled)
        /\ \A b \in Pid!Blocks \ allocated : FreeLeads(events, b, effects[b].running)
    BY <1>1, <2>1 DEF DriverLeads
  <2>4. /\ (d.pause # Pid!None) = (IF r \in Command({"pause", "continue", "reset"})
                                 THEN r \in Command({"pause"}) ELSE device.pause # Pid!None)
        /\ d.enabled = IF r \in Command({"enable", "disable", "reset"}) THEN r \in Command({"enable", "reset"})
                       ELSE device.enabled
    BY <2>1, Commanded
  <2>5. PauseLeads(events', device'.pause, state'.paused)
    <3>1. Leads(events', Command({"pause", "continue", "reset"}), Command({"pause"}),
                IF r \in Command({"pause", "continue", "reset"}) THEN r \in Command({"pause"})
                ELSE device.pause # Pid!None, state.paused)
      BY <1>0, <2>1, <2>3, LeadsTail DEF PauseLeads
    <3>. QED BY <2>1, <2>2, <2>4, <3>1 DEF PauseLeads
  <2>6. EnabledLeads(events', device'.enabled, state'.enabled)
    <3>1. Leads(events', Command({"enable", "disable", "reset"}), Command({"enable", "reset"}),
                IF r \in Command({"enable", "disable", "reset"}) THEN r \in Command({"enable", "reset"})
                ELSE device.enabled, state.enabled)
      BY <1>0, <2>1, <2>3, LeadsTail DEF EnabledLeads
    <3>. QED BY <2>1, <2>2, <2>4, <3>1 DEF EnabledLeads
  <2>7. ASSUME NEW b \in Pid!Blocks \ allocated' PROVE FreeLeads(events', b, effects'[b].running)
    <3>1. PICK says : says = Starting(b) \cup Freeing(b)
      OBVIOUS
    <3>2. PICK v \in BOOLEAN : (effects[b].running => v) /\ Leads(events, says, Starting(b), v, FALSE)
      BY <2>1, <2>3, <2>7, <3>1 DEF FreeLeads
    <3>3. PICK u : u = IF r \in says THEN r \in Starting(b) ELSE v
      OBVIOUS
    <3>4. Leads(events', says, Starting(b), u, FALSE)
      BY <1>0, <2>1, <3>2, <3>3, LeadsTail
    <3>5. u \in BOOLEAN
      <4>1. CASE r \in says /\ r \in Starting(b)
        <5>1. (r \in Starting(b)) = TRUE
          BY <4>1
        <5>. QED BY <3>3, <4>1, <5>1
      <4>2. CASE r \in says /\ r \notin Starting(b)
        <5>1. (r \in Starting(b)) = FALSE
          BY <4>2
        <5>. QED BY <3>3, <4>2, <5>1
      <4>3. CASE r \notin says
        BY <3>2, <3>3, <4>3
      <4>. QED BY <4>1, <4>2, <4>3
    <3>6. effects'[b].running => u
      <4>1. effects'[b].running => r \in Starting(b) \/ (effects[b].running /\ r \notin Freeing(b))
        BY <2>1, <2>7, HandledRunning
      <4>. QED BY <3>1, <3>2, <3>3, <4>1
    <3>. QED BY <3>1, <3>4, <3>5, <3>6 DEF FreeLeads
  <2>. QED BY <2>5, <2>6, <2>7
<1>4. CASE Pid!Advance /\ deviceOpen
  <2>1. PICK strength \in Nat :
           /\ effects' = Pid!ExpireEffects(effects, timer.now)
           /\ device' = [device EXCEPT !.last = strength]
           /\ UNCHANGED <<events, allocated, state, deviceOpen, missed>>
    BY <1>4, Advanced
  <2>2. device'.pause = device.pause /\ device'.enabled = device.enabled
    BY <1>0, <2>1 DEF DeviceStates
  <2>3. \A b \in Pid!Blocks : effects'[b].running => effects[b].running
    BY <2>1 DEF Pid!ExpireEffects, Pid!Expired
  <2>4. /\ PauseLeads(events, device.pause, state.paused)
        /\ EnabledLeads(events, device.enabled, state.enabled)
        /\ \A b \in Pid!Blocks \ allocated : FreeLeads(events, b, effects[b].running)
    BY <1>1, <2>1 DEF DriverLeads
  <2>5. ASSUME NEW b \in Pid!Blocks \ allocated' PROVE FreeLeads(events', b, effects'[b].running)
    BY <2>1, <2>3, <2>4, <2>5 DEF FreeLeads
  <2>. QED BY <2>1, <2>2, <2>4, <2>5
<1>5. CASE Pid!HandleReport /\ ~(deviceOpen /\ callback)
  BY <1>1, <1>5 DEF Pid!HandleReport
<1>6. CASE Pid!CloseDevice
  BY <1>1, <1>6 DEF Pid!CloseDevice
<1>7. ASSUME UNCHANGED <<events, allocated, state, deviceOpen, missed, effects, device>>
      PROVE  /\ PauseLeads(events', device'.pause, state'.paused)
             /\ EnabledLeads(events', device'.enabled, state'.enabled)
             /\ \A b \in Pid!Blocks \ allocated' : FreeLeads(events', b, effects'[b].running)
  <2>1. /\ PauseLeads(events, device.pause, state.paused)
        /\ EnabledLeads(events, device.enabled, state.enabled)
        /\ \A b \in Pid!Blocks \ allocated : FreeLeads(events, b, effects[b].running)
    BY <1>1, <1>7 DEF DriverLeads
  <2>. QED BY <1>7, <2>1
<1>8. CASE Pid!TakeEvent \/ Pid!NotifyTimer \/ Pid!CallBack
  <2>1. UNCHANGED <<events, allocated, state, deviceOpen, missed, effects, device>>
    BY <1>8 DEF Pid!TakeEvent, Pid!NotifyTimer, Pid!CallBack, Pid!outputFrame, Pid!driverVars,
      Pid!clientVars
  <2>. QED BY <1>7, <2>1
<1>9. CASE Pid!ReadGeneration \/ Pid!ReadClock \/ (Pid!Advance /\ ~deviceOpen) \/ Pid!TimerCallsBack \/ Pid!WakeUp
  <2>1. UNCHANGED <<events, allocated, state, deviceOpen, missed, effects, device>>
    BY <1>9 DEF Pid!ReadGeneration, Pid!ReadClock, Pid!Advance, Pid!TimerCallsBack, Pid!WakeUp,
       Pid!timerFrame, Pid!driverVars, Pid!clientVars
  <2>. QED BY <1>7, <2>1
<1>10. CASE Pid!SetCallback \/ Pid!Tick \/ UNCHANGED Pid!vars
  <2>1. UNCHANGED <<events, allocated, state, deviceOpen, missed, effects, device>>
    BY <1>10 DEF Pid!SetCallback, Pid!Tick, Pid!vars, Pid!driverVars, Pid!clientVars
  <2>. QED BY <1>7, <2>1
<1>. QED BY <1>2, <1>3, <1>4, <1>5, <1>6, <1>8, <1>9, <1>10, ApartSteps DEF Apart

-----------------------------------------------------------------------------
\* The inductive invariant.
PidInv == PidShape /\ PlansFollowed /\ NothingYet /\ ToldLast /\ TimerKnows /\ DriverLeads

\* It holds at the start...
LEMMA PidInitially == Pid!PidAssumption /\ Starts => PidInv
<1>1. SUFFICES ASSUME Pid!PidAssumption, Starts PROVE PidInv
  OBVIOUS
<1>2. PidShape
  BY <1>1, InitShape
<1>3. \A b \in Pid!Blocks : /\ ~effects[b].running /\ ~effects[b].started /\ plan[b] = Pid!NoPlan
                            /\ ~effects[b].infinite => effects[b].duration # Pid!Infinite
  BY <1>1, StartsStill
<1>5. PlansFollowed
  BY <1>3 DEF PlansFollowed, Follows
<1>6. NothingYet /\ ToldLast
  BY <1>1, <1>3, StartsStill DEF NothingYet, ToldLast, Pid!Idle
<1>8. TimerKnows
  <2>1. Pid!NextTransition(effects, device) = Pid!None
    BY <1>3 DEF Pid!NextTransition
  <2>2. Sounding(effects) = {}
    BY <1>3 DEF Sounding
  <2>3. Base(effects, device) = 0
    BY <2>2, SameCardinality, FS_EmptySet DEF Base
  <2>. QED BY <1>1, <1>3, <2>1, <2>3, StartsStill DEF TimerKnows
<1>7. DriverLeads
  <2>1. /\ events = <<>> /\ device.pause = Pid!None /\ device.enabled = TRUE
        /\ state.paused = FALSE /\ state.enabled = TRUE
    BY <1>1, StartsStill DEF Pid!Powered
  <2>2. ASSUME NEW says, NEW yes, NEW v PROVE Leads(<<>>, says, yes, v, v)
    BY DEF Leads
  <2>3. PauseLeads(events, device.pause, state.paused)
    BY <2>1, <2>2 DEF PauseLeads
  <2>4. EnabledLeads(events, device.enabled, state.enabled)
    BY <2>1, <2>2 DEF EnabledLeads
  <2>5. \A b \in Pid!Blocks : FreeLeads(events, b, effects[b].running)
    BY <1>3, <2>1, <2>2 DEF FreeLeads
  <2>. QED BY <2>3, <2>4, <2>5 DEF DriverLeads
<1>. QED BY <1>2, <1>5, <1>6, <1>7, <1>8 DEF PidInv

\* ... and after every step.
LEMMA PidStep ==
  ASSUME Pid!PidAssumption, PidInv, [Pid!Next]_Pid!vars
  PROVE  PidInv'
  BY ShapeStep, PlansStep, NothingStep, ToldStep, TimerStep, LeadsStep DEF PidInv

\* Quiet, the application feels what plays.
LEMMA FeltQuiet == Pid!PidAssumption /\ PidInv => Pid!FeltIsCurrent
<1>1. SUFFICES ASSUME Pid!PidAssumption, PidInv, Pid!Quiet, ~early
               PROVE  felt = IF device.enabled /\ device.pause = Pid!None /\ device.gain = 1
                               THEN Pid!Cardinality(Pid!Audible) ELSE 0
  BY DEF Pid!FeltIsCurrent
<1>2. /\ PidShape /\ PlansFollowed /\ ToldLast /\ TimerKnows
      /\ deviceOpen /\ output = Pid!Idle /\ timer.pc = "wait" /\ ~Pid!Due
  BY <1>1 DEF PidInv, Pid!Quiet
<1>3. /\ now \in Nat /\ effects \in [Pid!Blocks -> EffectStates] /\ plan \in [Pid!Blocks -> Plans]
      /\ device \in DeviceStates
  BY <1>2 DEF PidShape
<1>4. ~notified /\ ~(timer.next # Pid!None /\ now >= timer.next)
  BY <1>2 DEF Pid!Due
<1>5. felt = device.last
  BY <1>2 DEF ToldLast, Pid!Idle
<1>6. timer.next = Pid!NextTransition(effects, device) /\ device.last = Base(effects, device)
  BY <1>1, <1>2, <1>4 DEF TimerKnows, Pid!Idle
<1>7. CASE ~(device.enabled /\ device.pause = Pid!None /\ device.gain = 1)
  BY <1>3, <1>5, <1>6, <1>7 DEF Base, DeviceStates
<1>8. CASE device.enabled /\ device.pause = Pid!None /\ device.gain = 1
  <2>1. ASSUME NEW b \in Pid!Blocks
        PROVE  Pid!Playing(plan[b]) <=> effects[b].running /\ effects[b].started
    <3>1. Follows(effects[b], plan[b], now)
      BY <1>1, <1>2, <1>8 DEF PlansFollowed, Reached
    <3>2. CASE ~effects[b].running
      <4>1. plan[b] = Pid!NoPlan \/ Pid!Over(plan[b])
        BY <3>1, <3>2 DEF Follows
      <4>2. ~Pid!Playing(plan[b])
        BY <4>1 DEF Pid!Over, Pid!Playing, Pid!NoPlan
      <4>. QED BY <3>2, <4>2
    <3>3. CASE effects[b].running
      <4>1. NextDue(effects[b]) # Pid!None => now < NextDue(effects[b])
        <5>1. NextDue(effects[b]) # Pid!None =>
                timer.next \in Nat /\ timer.next <= NextDue(effects[b])
          BY <1>3, <1>6, <1>8, <3>3, NextIsLeast
        <5>2. timer.next \in Nat => now < timer.next
          BY <1>3, <1>4 DEF Pid!None
        <5>3. NextDue(effects[b]) \in Int
          BY <1>3 DEF NextDue, EffectStates
        <5>. QED BY <1>3, <5>1, <5>2, <5>3
      <4>2. Pid!Playing(plan[b]) <=> (now >= effects[b].start /\ ~Ends(effects[b], now))
        BY <1>3, <3>1, <3>3, OverIsEnd
      <4>3. CASE effects[b].started
        <5>1. now >= effects[b].start
          BY <3>1, <3>3, <4>3 DEF Follows
        <5>2. ~Ends(effects[b], now)
          BY <1>3, <4>1, <4>3 DEF Ends, NextDue, EffectStates
        <5>. QED BY <3>3, <4>2, <4>3, <5>1, <5>2
      <4>4. CASE ~effects[b].started
        <5>1. now < effects[b].start
          BY <1>3, <4>1, <4>4 DEF NextDue, EffectStates, Pid!None
        <5>. QED BY <1>3, <4>2, <4>4, <5>1 DEF EffectStates
      <4>. QED BY <4>3, <4>4
    <3>. QED BY <3>2, <3>3
  <2>2. Pid!Audible = Sounding(effects)
    BY <2>1 DEF Pid!Audible, Sounding
  <2>. QED BY <1>3, <1>5, <1>6, <1>8, <2>2 DEF Base, DeviceStates
<1>. QED BY <1>7, <1>8

\* Quiet, driver and client say the same.
LEMMA StatesQuiet == Pid!PidAssumption /\ PidInv => Pid!StatesAgree
<1>1. SUFFICES ASSUME Pid!PidAssumption, PidInv, Pid!Quiet, ~missed
               PROVE  /\ state.paused = (device.pause # Pid!None) /\ state.enabled = device.enabled
                      /\ \A b \in Pid!Blocks \ allocated : ~effects[b].running
  BY DEF Pid!StatesAgree
<1>2. events = <<>> /\ deviceOpen /\ PidShape
  BY <1>1 DEF PidInv, Pid!Quiet
<1>3. /\ PauseLeads(events, device.pause, state.paused)
      /\ EnabledLeads(events, device.enabled, state.enabled)
      /\ \A b \in Pid!Blocks \ allocated : FreeLeads(events, b, effects[b].running)
  BY <1>1, <1>2 DEF PidInv, DriverLeads
<1>4. ASSUME NEW says, NEW yes, NEW v, NEW w, Leads(events, says, yes, v, w) PROVE w = v
  BY <1>2, <1>4 DEF Leads
<1>5. state.paused = (device.pause # Pid!None)
  BY <1>3, <1>4 DEF PauseLeads
<1>6. state.enabled = device.enabled
  BY <1>3, <1>4 DEF EnabledLeads
<1>7. ASSUME NEW b \in Pid!Blocks \ allocated PROVE ~effects[b].running
  <2>1. PICK v \in BOOLEAN :
          (effects[b].running => v) /\ Leads(events, Starting(b) \cup Freeing(b), Starting(b), v, FALSE)
    BY <1>3, <1>7 DEF FreeLeads
  <2>2. v = FALSE
    BY <1>4, <2>1
  <2>. QED BY <2>1, <2>2
<1>. QED BY <1>5, <1>6, <1>7

\* Whatever the effects last and wait, however often they repeat and the host pauses,
\* commands and frees them: once the threads are quiet the application feels what
\* plays now, and driver and client agree on the pause, the actuators and on what
\* is freed (generic_pid_rumble.hpp, generic_pid_protocol.hpp, pid_timer_loop()).
THEOREM EffectsAreRight == Pid!Spec => []Pid!EffectsAgree
<1>1. Pid!Init => PidInv
  BY StreamAssumption, PidInitially DEF Starts
<1>2. PidInv /\ [Pid!Next]_Pid!vars => PidInv'
  BY StreamAssumption, PidStep
<1>3. PidInv => Pid!EffectsAgree
  BY StreamAssumption, FeltQuiet, StatesQuiet DEF Pid!EffectsAgree
<1>. QED BY <1>1, <1>2, <1>3, PTL DEF Pid!Spec

\* The same beside the codec, from the later state too in which a run may begin: what is
\* felt is what plays, and driver and client agree, whichever of the two streams runs.
THEOREM EffectsAgreeAlways == ReportsSpec => []EffectsAgree
<1>1. ReportsInit => PidInv
  BY StreamAssumption, PidInitially DEF ReportsInit, Starts
<1>2. [ReportsNext]_<<stream, vars, pidVars>> => [Pid!Next]_Pid!vars
  BY DEF ReportsNext, pidVars, Pid!vars, Pid!driverVars, Pid!clientVars
<1>3. PidInv /\ [Pid!Next]_Pid!vars => PidInv'
  BY StreamAssumption, PidStep
<1>4. PidInv => EffectsAgree
  BY StreamAssumption, FeltQuiet, StatesQuiet DEF EffectsAgree, Pid!EffectsAgree
<1>. QED BY <1>1, <1>2, <1>3, <1>4, PTL DEF ReportsSpec
==============================================================================
