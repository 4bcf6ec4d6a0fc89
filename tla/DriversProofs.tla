---------------------------- MODULE DriversProofs ----------------------------
(* Proofs about the devices of the two Windows drivers that MCDrivers puts *)
(* side by side: WindowsInput, XboxInput and XboxOutput, for any number of *)
(* threads, reports, packets and levels.                                   *)
EXTENDS MCDrivers, SequenceProofs, FiniteSetTheorems

-----------------------------------------------------------------------------
(* XboxOutput.                                                             *)

SetterRecords == {XboxOutput!Idle} \cup [at : {"raised", "buffer"}, event : Levels]

RumbleTypes ==
  /\ levels \in Levels /\ heard \in Levels /\ xboxBuffered \in Levels \cup {XboxOutput!None}
  /\ setter \in [Setters -> SetterRecords]

\* As long as nothing was crossed, one handler at most has an event, which is the
\* newest; a read that waits finds the buffer empty; and when no handler has it, the
\* newest event is in the buffer, or the client has it and the buffer is empty.
LevelsInOrder ==
  /\ \A t, u \in Setters : setter[t] # XboxOutput!Idle /\ setter[u] # XboxOutput!Idle => t = u
  /\ \A t \in Setters : setter[t] # XboxOutput!Idle => setter[t].event = levels
  /\ reads = "queued" => xboxBuffered = XboxOutput!None
  /\ life \in {"new", "served"} /\ (\A t \in Setters : setter[t] = XboxOutput!Idle) =>
       xboxBuffered = levels \/ (xboxBuffered = XboxOutput!None /\ heard = levels)

RumbleInv == RumbleTypes /\ (~crossed => LevelsInOrder)

\* A record of a handler at work is one that has an event; Idle has none.
LEMMA AtWork ==
  ASSUME NEW r \in SetterRecords
  PROVE  r # XboxOutput!Idle <=> r.at \in {"raised", "buffer"}
BY DEF SetterRecords, XboxOutput!Idle

LEMMA WorkHasEvent ==
  ASSUME NEW r \in SetterRecords, r # XboxOutput!Idle
  PROVE  r \in [at : {"raised", "buffer"}, event : Levels]
BY DEF SetterRecords

LEMMA NoneIsNoLevel ==
  ASSUME XboxOutput!LevelsAssumption
  PROVE  XboxOutput!None \notin Levels
BY DEF XboxOutput!LevelsAssumption, XboxOutput!None

LEMMA RumbleInit ==
  ASSUME XboxOutput!LevelsAssumption, XboxOutput!Init
  PROVE  RumbleInv
BY DEF XboxOutput!Init, XboxOutput!LevelsAssumption, RumbleInv, RumbleTypes, LevelsInOrder, SetterRecords, XboxOutput!Idle

\* The client's side: a read takes the xboxBuffered event, or goes to the queue.
LEMMA ReadOutputKeeps ==
  ASSUME XboxOutput!LevelsAssumption, RumbleInv, XboxOutput!ReadOutput
  PROVE  RumbleInv'
<1>1. RumbleTypes'
  BY DEF RumbleInv, RumbleTypes, XboxOutput!ReadOutput
<1>2. ASSUME ~crossed'
      PROVE  LevelsInOrder'
  BY <1>2, NoneIsNoLevel DEF RumbleInv, RumbleTypes, LevelsInOrder, XboxOutput!ReadOutput
<1>3. QED
  BY <1>1, <1>2 DEF RumbleInv

LEMMA ForwardReadKeeps ==
  ASSUME RumbleInv, XboxOutput!ForwardRead
  PROVE  RumbleInv'
BY DEF RumbleInv, RumbleTypes, LevelsInOrder, XboxOutput!ForwardRead

\* A game's side.
LEMMA SetLevelsKeeps ==
  ASSUME NEW t \in Setters, RumbleInv, XboxOutput!SetLevels(t)
  PROVE  RumbleInv'
<1>1. PICK level \in Levels :
        levels' = level /\ setter' = [setter EXCEPT ![t] = [at |-> "raised", event |-> level]]
  BY DEF XboxOutput!SetLevels
<1>2. setter'[t] = [at |-> "raised", event |-> level] /\ setter'[t] # XboxOutput!Idle
  BY <1>1 DEF RumbleInv, RumbleTypes, XboxOutput!Idle
<1>3. RumbleTypes'
  BY <1>1 DEF RumbleInv, RumbleTypes, XboxOutput!SetLevels, SetterRecords
<1>4. ASSUME ~crossed'
      PROVE  LevelsInOrder'
  <2>1. ~crossed /\ \A u \in Setters : setter[u] = XboxOutput!Idle
    BY <1>4 DEF XboxOutput!SetLevels, XboxOutput!Raised
  <2>2. \A u \in Setters : setter'[u] # XboxOutput!Idle => u = t
    BY <1>1, <2>1 DEF RumbleInv, RumbleTypes
  <2>3. reads' = reads /\ xboxBuffered' = xboxBuffered
    BY DEF XboxOutput!SetLevels
  <2>4. QED
    BY <1>1, <1>2, <2>1, <2>2, <2>3 DEF RumbleInv, LevelsInOrder
<1>5. QED
  BY <1>3, <1>4 DEF RumbleInv

LEMMA RetrieveReadKeeps ==
  ASSUME NEW t \in Setters, RumbleInv, XboxOutput!RetrieveRead(t)
  PROVE  RumbleInv'
<1>1. setter[t] \in [at : {"raised", "buffer"}, event : Levels] /\ setter[t] # XboxOutput!Idle
  BY DEF RumbleInv, RumbleTypes, SetterRecords, XboxOutput!Idle, XboxOutput!RetrieveRead
<1>2. CASE reads = "queued"
  <2>1. heard' = setter[t].event /\ reads' = "idle" /\ setter' = [setter EXCEPT ![t] = XboxOutput!Idle]
    BY <1>2 DEF XboxOutput!RetrieveRead
  <2>2. RumbleTypes'
    BY <1>1, <2>1 DEF RumbleInv, RumbleTypes, XboxOutput!RetrieveRead, SetterRecords
  <2>3. ASSUME ~crossed'
        PROVE  LevelsInOrder'
    BY <1>1, <1>2, <2>1, <2>3 DEF RumbleInv, RumbleTypes, LevelsInOrder, XboxOutput!RetrieveRead
  <2>4. QED
    BY <2>2, <2>3 DEF RumbleInv
<1>3. CASE reads # "queued"
  <2>1. setter' = [setter EXCEPT ![t].at = "buffer"] /\ heard' = heard /\ reads' = reads
    BY <1>3 DEF XboxOutput!RetrieveRead
  <2>2. /\ setter'[t] = [at |-> "buffer", event |-> setter[t].event]
        /\ \A u \in Setters : u # t => setter'[u] = setter[u]
    BY <1>1, <2>1 DEF RumbleInv, RumbleTypes
  <2>3. setter'[t] # XboxOutput!Idle
    BY <2>2 DEF XboxOutput!Idle
  <2>4. setter' \in [Setters -> SetterRecords]
    BY <1>1, <2>1, <2>2 DEF RumbleInv, RumbleTypes, SetterRecords
  <2>5. RumbleTypes'
    BY <2>1, <2>4 DEF RumbleInv, RumbleTypes, XboxOutput!RetrieveRead
  <2>6. ASSUME ~crossed'
        PROVE  LevelsInOrder'
    BY <1>1, <2>1, <2>2, <2>3, <2>6 DEF RumbleInv, LevelsInOrder, XboxOutput!RetrieveRead
  <2>7. QED
    BY <2>5, <2>6 DEF RumbleInv
<1>4. QED
  BY <1>2, <1>3

LEMMA BufferEventKeeps ==
  ASSUME NEW t \in Setters, RumbleInv, XboxOutput!BufferEvent(t)
  PROVE  RumbleInv'
<1>1. setter[t] \in [at : {"raised", "buffer"}, event : Levels] /\ setter[t] # XboxOutput!Idle
  BY DEF RumbleInv, RumbleTypes, SetterRecords, XboxOutput!Idle, XboxOutput!BufferEvent
<1>2. RumbleTypes'
  BY <1>1 DEF RumbleInv, RumbleTypes, XboxOutput!BufferEvent, SetterRecords
<1>3. ASSUME ~crossed'
      PROVE  LevelsInOrder'
  BY <1>1, <1>3 DEF RumbleInv, RumbleTypes, LevelsInOrder, XboxOutput!BufferEvent
<1>4. QED
  BY <1>2, <1>3 DEF RumbleInv

\* The life of the device: the buffer is only emptied when it is no longer served.
LEMMA LifeKeeps ==
  ASSUME RumbleInv, XboxOutput!Initialized \/ XboxOutput!CleanupBegins \/ XboxOutput!CleanupEnds
  PROVE  RumbleInv'
<1>1. CASE XboxOutput!Initialized
  BY <1>1 DEF RumbleInv, RumbleTypes, LevelsInOrder, XboxOutput!Initialized
<1>2. CASE XboxOutput!CleanupBegins
  BY <1>2 DEF RumbleInv, RumbleTypes, LevelsInOrder, XboxOutput!CleanupBegins
<1>3. CASE XboxOutput!CleanupEnds
  BY <1>3 DEF RumbleInv, RumbleTypes, LevelsInOrder, XboxOutput!CleanupEnds
<1>4. QED
  BY <1>1, <1>2, <1>3

LEMMA RumbleNext ==
  ASSUME XboxOutput!LevelsAssumption, RumbleInv, [XboxOutput!Next]_(XboxOutput!vars)
  PROVE  RumbleInv'
<1>1. CASE UNCHANGED XboxOutput!vars
  BY <1>1 DEF XboxOutput!vars, RumbleInv, RumbleTypes, LevelsInOrder
<1>2. CASE XboxOutput!ReadOutput
  BY <1>2, ReadOutputKeeps
<1>3. CASE XboxOutput!ForwardRead
  BY <1>3, ForwardReadKeeps
<1>4. ASSUME NEW t \in Setters, XboxOutput!SetLevels(t) \/ XboxOutput!Step(t)
      PROVE  RumbleInv'
  BY <1>4, SetLevelsKeeps, RetrieveReadKeeps, BufferEventKeeps DEF XboxOutput!Step
<1>5. CASE XboxOutput!Initialized \/ XboxOutput!CleanupBegins \/ XboxOutput!CleanupEnds
  BY <1>5, LifeKeeps
<1>6. QED
  BY <1>1, <1>2, <1>3, <1>4, <1>5 DEF XboxOutput!Next

LEMMA LevelsNotLost ==
  ASSUME XboxOutput!LevelsAssumption
  PROVE  XboxOutput!Spec => []XboxOutput!NewestNotLost
<1>1. XboxOutput!Init => RumbleInv
  BY RumbleInit
<1>2. RumbleInv /\ [XboxOutput!Next]_(XboxOutput!vars) => RumbleInv'
  BY RumbleNext
<1>3. RumbleInv => XboxOutput!NewestNotLost
  BY DEF RumbleInv, RumbleTypes, LevelsInOrder, XboxOutput!NewestNotLost, XboxOutput!Raised
<1>4. QED
  BY <1>1, <1>2, <1>3, PTL DEF XboxOutput!Spec

-----------------------------------------------------------------------------
(* WindowsInput: the parts of its inductive invariant.                       *)

Submissions == [buffer : Nat \ {0}, report : WindowsInput!Reports, ok : BOOLEAN]
InSubmit(t) == pc[t] \in {"submit", "finish"}

\* The reports that wait, and those that went before.
QueueTypes ==
  /\ kind \in Kinds
  /\ waiting \in [{"protocol", "mouse", "state"} -> Seq(WindowsInput!Reports)]
  /\ WindowsInput!Size(waiting) <= Limit
  /\ latest \in [{"protocol", "mouse", "state"} -> 0..MaxReports]
  /\ pushed \in Seq(WindowsInput!Reports) /\ delivered \in Seq(WindowsInput!Reports)

\* The device, the threads and what they submit.
DeviceTypes ==
  /\ deviceLife \in {"new", "created", "started", "live"}
  /\ del \in {"no", "drain", "vhf", "reset", "done"}
  /\ handle \in BOOLEAN /\ ready \in BOOLEAN /\ refused \in BOOLEAN
  /\ buffers \in Nat /\ inFlight \in 0..buffers
  /\ pc \in [WindowsInput!Threads -> {"idle", "found", "next", "submit", "finish"}]
  /\ held \in [WindowsInput!Threads -> Submissions \cup {WindowsInput!NoSubmission}]
  /\ \A t \in WindowsInput!Threads :
       held[t].buffer <= buffers /\ (InSubmit(t) <=> held[t].buffer # 0)
  /\ inputVhf \in [holds : Nat, asks : BOOLEAN, granted : BOOLEAN] /\ inputVhf.holds <= buffers

\* active_input_submissions counts them, and deletion has waited for them.
SubmissionsCounted ==
  /\ IsFiniteSet(WindowsInput!Submitting) /\ active = Cardinality(WindowsInput!Submitting)
  /\ del \in {"vhf", "reset", "done"} => active = 0
  /\ del \in {"reset", "done"} => inputVhf.holds = 0

\* VHF has asked, or its request has become the driver's, or that of the one submission.
RequestHeld ==
  /\ \A t, u \in WindowsInput!Threads : pc[t] = "submit" /\ pc[u] = "submit" => t = u
  /\ \A t \in WindowsInput!Threads : pc[t] = "submit" => inputVhf.granted /\ ~ready
  /\ ready => inputVhf.granted
  /\ inputVhf.asks \/ inputVhf.holds # 0 => ~inputVhf.granted
  /\ inputVhf.asks => inputVhf.holds = 0
  /\ deviceLife \in {"new", "created"} => inputVhf.holds = 0 /\ ~inputVhf.asks /\ ~inputVhf.granted

\* The record refers to the buffer that is submitted or that VHF has, which is a new one.
BufferHeld ==
  /\ \A t \in WindowsInput!Threads :
       pc[t] = "submit" => held[t].buffer = inFlight /\ held[t].ok
  /\ \A t, u \in WindowsInput!Threads :
       InSubmit(t) /\ InSubmit(u) /\ held[t].buffer = held[u].buffer => t = u
  /\ inputVhf.holds # 0 =>
       /\ inFlight = inputVhf.holds
       /\ \A t \in WindowsInput!Threads :
            InSubmit(t) /\ held[t].buffer = inputVhf.holds => held[t].ok

InputInv == QueueTypes /\ DeviceTypes /\ SubmissionsCounted /\ RequestHeld /\ BufferHeld

-----------------------------------------------------------------------------
(* The queue of reports.                                                     *)

Queues == [{"protocol", "mouse", "state"} -> Seq(WindowsInput!Reports)]

LEMMA Deques ==
  ASSUME NEW q \in Queues
  PROVE  /\ WindowsInput!Size(q) \in Nat
         /\ q.protocol \in Seq(WindowsInput!Reports)
         /\ q.mouse \in Seq(WindowsInput!Reports)
         /\ q.state \in Seq(WindowsInput!Reports)
         /\ \A c \in {"protocol", "mouse", "state"} : q[c] \in Seq(WindowsInput!Reports)
<1>1. /\ q.protocol \in Seq(WindowsInput!Reports) /\ q.mouse \in Seq(WindowsInput!Reports)
      /\ q.state \in Seq(WindowsInput!Reports)
  BY DEF Queues
<1>2. QED
  BY <1>1 DEF WindowsInput!Size, Queues

LEMMA Sized ==
  ASSUME NEW q \in Queues
  PROVE  /\ WindowsInput!Size(q) = Len(q["protocol"]) + Len(q["mouse"]) + Len(q["state"])
         /\ Len(q["protocol"]) \in Nat /\ Len(q["mouse"]) \in Nat /\ Len(q["state"]) \in Nat
BY Deques DEF WindowsInput!Size

\* One deque takes another length.
LEMMA Resized ==
  ASSUME NEW q \in Queues, NEW c \in {"protocol", "mouse", "state"},
         NEW s \in Seq(WindowsInput!Reports)
  PROVE  /\ [q EXCEPT ![c] = s] \in Queues
         /\ WindowsInput!Size([q EXCEPT ![c] = s]) \in Nat
         /\ WindowsInput!Size([q EXCEPT ![c] = s]) + Len(q[c]) = WindowsInput!Size(q) + Len(s)
<1> DEFINE p == [q EXCEPT ![c] = s]
<1>1. p \in Queues
  BY DEF Queues
<1>2. p[c] = s /\ \A d \in {"protocol", "mouse", "state"} : d # c => p[d] = q[d]
  BY DEF Queues
<1> HIDE DEF p
<1>3. Len(s) \in Nat /\ Len(q[c]) \in Nat /\ WindowsInput!Size(p) \in Nat
  BY <1>1, Deques
<1>4. /\ WindowsInput!Size(q) = Len(q["protocol"]) + Len(q["mouse"]) + Len(q["state"])
      /\ Len(q["protocol"]) \in Nat /\ Len(q["mouse"]) \in Nat /\ Len(q["state"]) \in Nat
  BY Sized
<1>5. WindowsInput!Size(p) + Len(q[c]) = WindowsInput!Size(q) + Len(s)
  <2>1. CASE c = "protocol"
    <3>1. WindowsInput!Size(p) = Len(s) + Len(q["mouse"]) + Len(q["state"])
      BY <1>1, <1>2, <2>1, Sized
    <3>2. Len(q[c]) = Len(q["protocol"])
      BY <2>1
    <3>3. QED
      BY <1>3, <1>4, <3>1, <3>2 DEF Queues
  <2>2. CASE c = "mouse"
    <3>1. WindowsInput!Size(p) = Len(q["protocol"]) + Len(s) + Len(q["state"])
      BY <1>1, <1>2, <2>2, Sized
    <3>2. Len(q[c]) = Len(q["mouse"])
      BY <2>2
    <3>3. QED
      BY <1>3, <1>4, <3>1, <3>2 DEF Queues
  <2>3. CASE c = "state"
    <3>1. WindowsInput!Size(p) = Len(q["protocol"]) + Len(q["mouse"]) + Len(s)
      BY <1>1, <1>2, <2>3, Sized
    <3>2. Len(q[c]) = Len(q["state"])
      BY <2>3
    <3>3. QED
      BY <1>3, <1>4, <3>1, <3>2 DEF Queues
  <2>4. QED
    BY <2>1, <2>2, <2>3
<1>6. QED
  BY <1>1, <1>3, <1>5 DEF p

LEMMA NothingWaits ==
  ASSUME WindowsInput!InputAssumption
  PROVE  WindowsInput!Empty \in Queues /\ WindowsInput!Size(WindowsInput!Empty) <= Limit
<1> DEFINE e == WindowsInput!Empty
<1>1. WindowsInput!Empty \in Queues
  <2>1. e \in [protocol : {<<>>}, mouse : {<<>>}, state : {<<>>}]
    BY DEF WindowsInput!Empty
  <2>2. e = [c \in DOMAIN e |-> e[c]] /\ DOMAIN e = {"protocol", "mouse", "state"}
    BY DEF WindowsInput!Empty
  <2>3. e["protocol"] = <<>> /\ e["mouse"] = <<>> /\ e["state"] = <<>>
    BY DEF WindowsInput!Empty
  <2>4. <<>> \in Seq(WindowsInput!Reports)
    OBVIOUS
  <2> HIDE DEF e
  <2>5. \A c \in {"protocol", "mouse", "state"} : e[c] \in Seq(WindowsInput!Reports)
    BY <2>3, <2>4
  <2>6. e \in Queues
    BY <2>2, <2>5 DEF Queues
  <2>7. QED
    BY <2>6 DEF e
<1>2. WindowsInput!Size(WindowsInput!Empty) = 0
  BY DEF WindowsInput!Empty, WindowsInput!Size
<1>3. QED
  BY <1>1, <1>2 DEF WindowsInput!InputAssumption

LEMMA TailIsShorter ==
  ASSUME NEW S, NEW s \in Seq(S), s # <<>>
  PROVE  Tail(s) \in Seq(S) /\ Len(Tail(s)) = Len(s) - 1 /\ Head(s) \in S /\ Len(s) \in Nat \ {0}
OBVIOUS

\* A report with other motion.
LEMMA ReportFields ==
  ASSUME NEW r \in WindowsInput!Reports
  PROVE  r.x \in Int /\ r.wheel \in Int
BY DEF WindowsInput!Reports

LEMMA ReportChanged ==
  ASSUME NEW r \in WindowsInput!Reports, NEW x \in Int, NEW wheel \in Int
  PROVE  [r EXCEPT !.x = x, !.wheel = wheel] \in WindowsInput!Reports
BY DEF WindowsInput!Reports

\* make_room() leaves room for one.
LEMMA Room ==
  ASSUME WindowsInput!InputAssumption, NEW q \in Queues, WindowsInput!Size(q) <= Limit
  PROVE  WindowsInput!MakeRoom(q) \in Queues /\ WindowsInput!Size(WindowsInput!MakeRoom(q)) < Limit
<1>1. Limit \in Nat \ {0} /\ WindowsInput!Size(q) \in Nat
  BY Deques DEF WindowsInput!InputAssumption
<1>2. CASE WindowsInput!Full(q)
  <2> DEFINE v == WindowsInput!Victim(q)
  <2>1. v \in {"protocol", "mouse", "state"} /\ q[v] # <<>>
    <3>1. q.protocol # <<>> \/ q.mouse # <<>> \/ q.state # <<>>
      <4>1. SUFFICES ASSUME q.protocol = <<>>, q.mouse = <<>>, q.state = <<>> PROVE FALSE
        OBVIOUS
      <4>2. WindowsInput!Size(q) = 0
        BY <4>1 DEF WindowsInput!Size
      <4>3. QED
        BY <1>1, <1>2, <4>2 DEF WindowsInput!Full
    <3>2. QED
      BY <3>1 DEF WindowsInput!Victim
  <2> HIDE DEF v
  <2>2. /\ Tail(q[v]) \in Seq(WindowsInput!Reports) /\ Len(Tail(q[v])) = Len(q[v]) - 1
        /\ Len(q[v]) \in Nat
    BY <2>1, Deques, TailIsShorter
  <2> DEFINE s == Tail(q[v])
  <2> HIDE DEF s
  <2>3. /\ [q EXCEPT ![v] = s] \in Queues
        /\ WindowsInput!Size([q EXCEPT ![v] = s]) = WindowsInput!Size(q) - 1
    <3>1. s \in Seq(WindowsInput!Reports) /\ Len(s) = Len(q[v]) - 1
      BY <2>2 DEF s
    <3>2. /\ [q EXCEPT ![v] = s] \in Queues
          /\ WindowsInput!Size([q EXCEPT ![v] = s]) \in Nat
          /\ WindowsInput!Size([q EXCEPT ![v] = s]) + Len(q[v]) = WindowsInput!Size(q) + Len(s)
      BY <2>1, <3>1, Resized
    <3>3. QED
      BY <1>1, <2>2, <3>1, <3>2
  <2>4. WindowsInput!MakeRoom(q) = [q EXCEPT ![v] = Tail(q[v])]
    BY <1>2 DEF WindowsInput!MakeRoom, v
  <2>5. QED
    BY <1>1, <2>3, <2>4 DEF s
<1>3. CASE ~WindowsInput!Full(q)
  BY <1>1, <1>3 DEF WindowsInput!Full, WindowsInput!MakeRoom
<1>4. QED
  BY <1>2, <1>3

\* A report is queued, or merged with the last one of its class, within the limit.
LEMMA Pushed ==
  ASSUME WindowsInput!InputAssumption, NEW q \in Queues, WindowsInput!Size(q) <= Limit,
         NEW r \in WindowsInput!Reports
  PROVE  WindowsInput!Push(q, r) \in Queues /\ WindowsInput!Size(WindowsInput!Push(q, r)) <= Limit
<1>1. r.class \in {"protocol", "mouse", "state"} /\ WindowsInput!Size(q) \in Nat /\ Limit \in Nat
  BY Deques DEF WindowsInput!Reports, WindowsInput!InputAssumption
<1>2. CASE WindowsInput!Coalesces(q, r)
  <2> DEFINE c == r.class
             last == q[c][Len(q[c])]
             merged == IF c = "mouse" THEN WindowsInput!Accumulated(last, r) ELSE r
             s == Append(SubSeq(q[c], 1, Len(q[c]) - 1), merged)
  <2>1. q[c] \in Seq(WindowsInput!Reports) /\ q[c] # <<>>
    BY <1>1, <1>2, Deques DEF WindowsInput!Coalesces
  <2>2. /\ last \in WindowsInput!Reports /\ Len(q[c]) \in Nat \ {0}
        /\ SubSeq(q[c], 1, Len(q[c]) - 1) \in Seq(WindowsInput!Reports)
        /\ Len(SubSeq(q[c], 1, Len(q[c]) - 1)) = Len(q[c]) - 1
    BY <2>1
  <2>3. merged \in WindowsInput!Reports
    <3>1. last.x \in Int /\ last.wheel \in Int /\ r.x \in Int /\ r.wheel \in Int
      BY <2>2, ReportFields
    <3>2. last.x + r.x \in Int /\ last.wheel + r.wheel \in Int
      BY <3>1
    <3>3. [r EXCEPT !.x = last.x + r.x, !.wheel = last.wheel + r.wheel] \in WindowsInput!Reports
      BY <3>2, ReportChanged
    <3>4. QED
      BY <3>3 DEF WindowsInput!Accumulated
  <2>4. s \in Seq(WindowsInput!Reports) /\ Len(s) = Len(q[c])
    BY <2>2, <2>3
  <2>5. WindowsInput!Push(q, r) = [q EXCEPT ![c] = s]
    BY <1>2 DEF WindowsInput!Push, WindowsInput!Last, WindowsInput!Front
  <2>6. QED
    <3> HIDE DEF c, s
    <3>1. c \in {"protocol", "mouse", "state"}
      BY <1>1 DEF c
    <3>2. /\ [q EXCEPT ![c] = s] \in Queues
          /\ WindowsInput!Size([q EXCEPT ![c] = s]) \in Nat
          /\ WindowsInput!Size([q EXCEPT ![c] = s]) + Len(q[c]) = WindowsInput!Size(q) + Len(s)
      BY <2>4, <3>1, Resized
    <3>3. QED
      BY <1>1, <2>2, <2>4, <2>5, <3>2
<1>3. CASE ~WindowsInput!Coalesces(q, r)
  <2> DEFINE c == r.class
             room == WindowsInput!MakeRoom(q)
             s == Append(room[c], r)
  <2>1. room \in Queues /\ WindowsInput!Size(room) < Limit /\ WindowsInput!Size(room) \in Nat
    BY Room, Deques
  <2>2. WindowsInput!Push(q, r) = [room EXCEPT ![c] = s]
    BY <1>3 DEF WindowsInput!Push
  <2> HIDE DEF room
  <2>3. s \in Seq(WindowsInput!Reports) /\ Len(s) = Len(room[c]) + 1
    <3>1. room[c] \in Seq(WindowsInput!Reports)
      BY <1>1, <2>1, Deques
    <3>2. QED
      BY <3>1
  <2> HIDE DEF c, s
  <2>4. /\ [room EXCEPT ![c] = s] \in Queues
        /\ WindowsInput!Size([room EXCEPT ![c] = s]) = WindowsInput!Size(room) + 1
    <3>1. c \in {"protocol", "mouse", "state"}
      BY <1>1 DEF c
    <3>2. /\ [room EXCEPT ![c] = s] \in Queues
          /\ WindowsInput!Size([room EXCEPT ![c] = s]) \in Nat
          /\ WindowsInput!Size([room EXCEPT ![c] = s]) + Len(room[c])
               = WindowsInput!Size(room) + Len(s)
      BY <2>1, <2>3, <3>1, Resized
    <3>3. Len(room[c]) \in Nat
      BY <2>1, <3>1, Deques
    <3>4. QED
      BY <2>1, <2>3, <3>2, <3>3
  <2>5. QED
    BY <1>1, <2>1, <2>2, <2>4
<1>4. QED
  BY <1>2, <1>3

\* A report is taken, or the part of it that fits.
LEMMA Taken ==
  ASSUME WindowsInput!InputAssumption, NEW q \in Queues, WindowsInput!Size(q) > 0
  PROVE  /\ WindowsInput!Popped(q) \in WindowsInput!Reports
         /\ WindowsInput!Pop(q) \in Queues
         /\ WindowsInput!Size(WindowsInput!Pop(q)) <= WindowsInput!Size(q)
<1> DEFINE c == WindowsInput!Source(q)
           first == Head(q[c])
           rest == WindowsInput!Remainder(first)
           s == IF c = "mouse" /\ (rest.x # 0 \/ rest.wheel # 0)
                  THEN <<rest>> \o Tail(q[c]) ELSE Tail(q[c])
<1>1. c \in {"protocol", "mouse", "state"} /\ q[c] # <<>>
  <2>1. q.protocol # <<>> \/ q.mouse # <<>> \/ q.state # <<>>
    <3>1. SUFFICES ASSUME q.protocol = <<>>, q.mouse = <<>>, q.state = <<>> PROVE FALSE
      OBVIOUS
    <3>2. WindowsInput!Size(q) = 0
      BY <3>1 DEF WindowsInput!Size
    <3>3. QED
      BY <3>2
  <2>2. QED
    BY <2>1 DEF WindowsInput!Source
<1>2. /\ first \in WindowsInput!Reports /\ Tail(q[c]) \in Seq(WindowsInput!Reports)
      /\ Len(Tail(q[c])) = Len(q[c]) - 1 /\ Len(q[c]) \in Nat \ {0}
  <2> HIDE DEF c
  <2>1. QED
    BY <1>1, Deques, TailIsShorter
<1>3. WindowsInput!Popped(q) = (IF c = "mouse" THEN WindowsInput!Carried(first) ELSE first)
  BY DEF WindowsInput!Popped, WindowsInput!Front1
<1>4. WindowsInput!Pop(q) = [q EXCEPT ![c] = s]
  BY DEF WindowsInput!Pop, WindowsInput!Front1
<1> HIDE DEF c, first
<1>5. WindowsInput!Carried(first) \in WindowsInput!Reports /\ rest \in WindowsInput!Reports
  <2>1. Reach \in Nat /\ first.x \in Int /\ first.wheel \in Int
    BY <1>2, ReportFields DEF WindowsInput!InputAssumption
  <2> DEFINE x == WindowsInput!Clamp(first.x, -Reach - 1, Reach)
             wheel == WindowsInput!Clamp(first.wheel, -Reach, Reach)
  <2>2. x \in Int /\ wheel \in Int
    BY <2>1 DEF WindowsInput!Clamp
  <2>3. WindowsInput!Carried(first) = [first EXCEPT !.x = x, !.wheel = wheel]
    BY DEF WindowsInput!Carried
  <2> HIDE DEF x, wheel
  <2>4. WindowsInput!Carried(first) \in WindowsInput!Reports
    BY <1>2, <2>2, <2>3, ReportChanged
  <2> DEFINE carried == WindowsInput!Carried(first)
  <2>5. rest = [first EXCEPT !.x = first.x - carried.x, !.wheel = first.wheel - carried.wheel]
    BY DEF WindowsInput!Remainder
  <2> HIDE DEF carried, rest
  <2>6. carried.x \in Int /\ carried.wheel \in Int
    BY <2>4, ReportFields DEF carried
  <2>7. rest \in WindowsInput!Reports
    <3>1. first.x - carried.x \in Int /\ first.wheel - carried.wheel \in Int
      BY <2>1, <2>6
    <3>2. QED
      BY <1>2, <2>5, <3>1, ReportChanged
  <2>8. QED
    BY <2>4, <2>7
<1> HIDE DEF rest
<1>6. s \in Seq(WindowsInput!Reports) /\ Len(s) \in {Len(q[c]), Len(q[c]) - 1}
  <2>1. <<rest>> \o Tail(q[c]) \in Seq(WindowsInput!Reports)
        /\ Len(<<rest>> \o Tail(q[c])) = Len(q[c])
    BY <1>2, <1>5
  <2>2. QED
    BY <1>2, <2>1
<1> HIDE DEF s
<1>7. /\ [q EXCEPT ![c] = s] \in Queues
      /\ WindowsInput!Size([q EXCEPT ![c] = s]) \in Nat
      /\ WindowsInput!Size([q EXCEPT ![c] = s]) + Len(q[c]) = WindowsInput!Size(q) + Len(s)
  BY <1>1, <1>6, Resized
<1>8. WindowsInput!Size(q) \in Nat
  BY Deques
<1>9. QED
  BY <1>2, <1>3, <1>4, <1>5, <1>6, <1>7, <1>8
-----------------------------------------------------------------------------
(* Every step of WindowsInput keeps the parts of the invariant.              *)

LEMMA InputsAreReports ==
  ASSUME WindowsInput!InputAssumption, NEW t, NEW n \in Nat,
         NEW r \in WindowsInput!Inputs(t, n)
  PROVE  r \in WindowsInput!Reports /\ r.n = n
BY DEF WindowsInput!Inputs, WindowsInput!Report, WindowsInput!Reports,
  WindowsInput!InputAssumption

\* What a thread submits.
LEMMA Submits ==
  ASSUME DeviceTypes, NEW t \in WindowsInput!Threads, InSubmit(t)
  PROVE  /\ held[t] \in Submissions /\ held[t].buffer \in 1..buffers
         /\ held[t].report \in WindowsInput!Reports
<1>1. held[t] \in Submissions \cup {WindowsInput!NoSubmission} /\ held[t].buffer # 0
  BY DEF DeviceTypes
<1>2. held[t] \in Submissions
  BY <1>1 DEF WindowsInput!NoSubmission
<1>3. QED
  BY <1>2 DEF DeviceTypes, Submissions

\* What waits keeps its types and its limit.
LEMMA QueueTypesNext ==
  ASSUME WindowsInput!InputAssumption, QueueTypes, DeviceTypes,
    [WindowsInput!Next]_(WindowsInput!vars)
  PROVE  QueueTypes'
<1> USE DEF QueueTypes
<1>1. ASSUME WindowsInput!VhfCreate PROVE QueueTypes'
  BY <1>1 DEF WindowsInput!VhfCreate, WindowsInput!queueVars
<1>2. ASSUME WindowsInput!VhfStart PROVE QueueTypes'
  BY <1>2 DEF WindowsInput!VhfStart, WindowsInput!queueVars
<1>3. ASSUME WindowsInput!Register PROVE QueueTypes'
  BY <1>3 DEF WindowsInput!Register, WindowsInput!queueVars
<1>4. ASSUME NEW t \in WindowsInput!Threads, WindowsInput!FindDevice(t) PROVE QueueTypes'
  BY <1>4 DEF WindowsInput!FindDevice, WindowsInput!Goto, WindowsInput!queueVars
<1>5. ASSUME NEW t \in WindowsInput!Threads, WindowsInput!SwitchCommand(t) PROVE QueueTypes'
  BY <1>5 DEF WindowsInput!SwitchCommand, WindowsInput!VhfCallsBack,
    WindowsInput!Goto, WindowsInput!queueVars
<1>6. ASSUME NEW t \in WindowsInput!Threads, WindowsInput!QueueReport(t) PROVE QueueTypes'
  <2>1. CASE del # "no" \/ ~handle
    BY <1>6, <2>1 DEF WindowsInput!QueueReport, WindowsInput!queueVars
  <2>2. CASE ~(del # "no" \/ ~handle)
    <3>1. PICK r \in WindowsInput!Inputs(t, Len(pushed) + 1) :
            /\ waiting' = WindowsInput!Push(waiting, r)
            /\ latest' = [latest EXCEPT ![r.class] = r.n]
            /\ pushed' = Append(pushed, r)
      BY <1>6, <2>2 DEF WindowsInput!QueueReport
    <3>2. /\ Len(pushed) \in Nat /\ Len(pushed) < MaxReports /\ MaxReports \in Nat
          /\ UNCHANGED <<kind, delivered>>
      BY <1>6 DEF WindowsInput!QueueReport, WindowsInput!InputAssumption
    <3>3. r \in WindowsInput!Reports /\ r.n = Len(pushed) + 1
      BY <3>1, <3>2, InputsAreReports
    <3>4. r.class \in {"protocol", "mouse", "state"}
      BY <3>3 DEF WindowsInput!Reports
    <3>5. waiting' \in Queues /\ WindowsInput!Size(waiting') <= Limit
      BY <3>1, <3>3, Pushed DEF Queues
    <3>6. latest' \in [{"protocol", "mouse", "state"} -> 0..MaxReports]
      BY <3>1, <3>2, <3>3, <3>4
    <3>7. pushed' \in Seq(WindowsInput!Reports)
      BY <3>1, <3>3
    <3>8. QED
      BY <3>2, <3>5, <3>6, <3>7 DEF Queues
  <2>3. QED
    BY <2>1, <2>2
<1>7. ASSUME NEW t \in WindowsInput!Threads, WindowsInput!PrepareSubmission(t)
      PROVE  QueueTypes'
  <2>1. CASE ~WindowsInput!MayPrepare
    BY <1>7, <2>1 DEF WindowsInput!PrepareSubmission
  <2>2. CASE WindowsInput!MayPrepare
    <3>1. waiting' = WindowsInput!Pop(waiting) /\ UNCHANGED <<kind, latest, pushed, delivered>>
      BY <1>7, <2>2 DEF WindowsInput!PrepareSubmission
    <3>2. waiting \in Queues /\ WindowsInput!Size(waiting) > 0
      BY <2>2 DEF WindowsInput!MayPrepare, Queues
    <3>3. waiting' \in Queues /\ WindowsInput!Size(waiting') <= WindowsInput!Size(waiting)
      BY <3>1, <3>2, Taken
    <3>4. WindowsInput!Size(waiting) \in Nat /\ WindowsInput!Size(waiting') \in Nat /\ Limit \in Nat
      BY <3>2, <3>3, Deques DEF WindowsInput!InputAssumption
    <3>5. WindowsInput!Size(waiting') <= Limit
      BY <3>3, <3>4
    <3>6. QED
      BY <3>1, <3>3, <3>5 DEF Queues
  <2>3. QED
    BY <2>1, <2>2
<1>8. ASSUME NEW t \in WindowsInput!Threads, WindowsInput!Submit(t) PROVE QueueTypes'
  <2> DEFINE more == Append(delivered, held[t].report)
  <2>1. /\ UNCHANGED <<kind, waiting, latest, pushed>>
        /\ \/ delivered' = more
           \/ delivered' = <<>>
    BY <1>8 DEF WindowsInput!Submit, WindowsInput!Forget
  <2>2. held[t].report \in WindowsInput!Reports
    BY <1>8, Submits DEF WindowsInput!Submit, InSubmit
  <2>3. more \in Seq(WindowsInput!Reports) /\ <<>> \in Seq(WindowsInput!Reports)
    BY <2>2
  <2> HIDE DEF more
  <2>4. delivered' \in Seq(WindowsInput!Reports)
    BY <2>1, <2>3
  <2>5. QED
    BY <2>1, <2>4
<1>9. ASSUME NEW t \in WindowsInput!Threads, WindowsInput!FinishSubmission(t)
      PROVE  QueueTypes'
  BY <1>9 DEF WindowsInput!FinishSubmission, WindowsInput!NoSubmission,
    WindowsInput!Goto, WindowsInput!queueVars
<1>10. ASSUME NEW t \in WindowsInput!Threads, WindowsInput!ReadyForNext(t) PROVE QueueTypes'
  BY <1>10 DEF WindowsInput!ReadyForNext, WindowsInput!VhfCallsBack,
    WindowsInput!Goto, WindowsInput!queueVars
<1>11. ASSUME WindowsInput!HostReads PROVE QueueTypes'
  BY <1>11 DEF WindowsInput!HostReads, WindowsInput!VhfCallsBack,
    WindowsInput!queueVars
<1>12. ASSUME WindowsInput!DeleteBegins PROVE QueueTypes'
  <2>1. /\ kind' = kind /\ waiting' = WindowsInput!Empty /\ pushed' = <<>>
        /\ delivered' = <<>>
        /\ latest' = [c \in DOMAIN latest |-> 0]
    BY <1>12 DEF WindowsInput!DeleteBegins, WindowsInput!Forget
  <2>2. latest' \in [{"protocol", "mouse", "state"} -> 0..MaxReports]
    BY <2>1 DEF WindowsInput!InputAssumption
  <2>3. QED
    BY <2>1, <2>2, NothingWaits DEF Queues
<1>13. ASSUME WindowsInput!Drained PROVE QueueTypes'
  BY <1>13 DEF WindowsInput!Drained, WindowsInput!queueVars
<1>14. ASSUME WindowsInput!VhfDelete PROVE QueueTypes'
  BY <1>14 DEF WindowsInput!VhfDelete, WindowsInput!queueVars
<1>15. ASSUME WindowsInput!DeleteEnds PROVE QueueTypes'
  BY <1>15 DEF WindowsInput!DeleteEnds, WindowsInput!queueVars
<1>16. CASE UNCHANGED WindowsInput!vars
  BY <1>16 DEF WindowsInput!vars, WindowsInput!queueVars
<1> HIDE DEF QueueTypes
<1>17. QED
  BY <1>1, <1>2, <1>3, <1>4, <1>5, <1>6, <1>7, <1>8, <1>9, <1>10, <1>11, <1>12,
    <1>13, <1>14, <1>15, <1>16 DEF WindowsInput!Next, WindowsInput!Step

\* pc and held change for one thread.
LEMMA Moved ==
  ASSUME DeviceTypes, NEW t \in WindowsInput!Threads,
         NEW place \in {"idle", "found", "next", "submit", "finish"},
         pc' = [pc EXCEPT ![t] = place]
  PROVE  /\ pc' \in [WindowsInput!Threads -> {"idle", "found", "next", "submit", "finish"}]
         /\ pc'[t] = place
         /\ \A u \in WindowsInput!Threads : u # t => pc'[u] = pc[u]
BY DEF DeviceTypes

LEMMA Held ==
  ASSUME DeviceTypes, NEW t \in WindowsInput!Threads,
         NEW new \in Submissions \cup {WindowsInput!NoSubmission},
         held' = [held EXCEPT ![t] = new]
  PROVE  /\ held' \in [WindowsInput!Threads -> Submissions \cup {WindowsInput!NoSubmission}]
         /\ held'[t] = new
         /\ \A u \in WindowsInput!Threads : u # t => held'[u] = held[u]
BY DEF DeviceTypes

\* Device, threads and submissions keep their types.
LEMMA DeviceTypesNext ==
  ASSUME WindowsInput!InputAssumption, QueueTypes, DeviceTypes,
    [WindowsInput!Next]_(WindowsInput!vars)
  PROVE  DeviceTypes'
<1> USE DEF DeviceTypes, InSubmit
<1>1. ASSUME WindowsInput!VhfCreate PROVE DeviceTypes'
  BY <1>1 DEF WindowsInput!VhfCreate, WindowsInput!queueVars
<1>2. ASSUME WindowsInput!VhfStart PROVE DeviceTypes'
  BY <1>2 DEF WindowsInput!VhfStart, WindowsInput!queueVars
<1>3. ASSUME WindowsInput!Register PROVE DeviceTypes'
  BY <1>3 DEF WindowsInput!Register, WindowsInput!queueVars
<1>4. ASSUME NEW t \in WindowsInput!Threads, WindowsInput!FindDevice(t) PROVE DeviceTypes'
  <2>1. /\ pc' = [pc EXCEPT ![t] = "found"] /\ ~InSubmit(t)
        /\ UNCHANGED <<deviceLife, del, handle, ready, refused, buffers, inFlight, held, inputVhf>>
    BY <1>4 DEF WindowsInput!FindDevice, WindowsInput!Goto, WindowsInput!queueVars, InSubmit
  <2>2. QED
    BY <2>1, Moved DEF DeviceTypes, InSubmit
<1>5. ASSUME NEW t \in WindowsInput!Threads, WindowsInput!SwitchCommand(t)
      PROVE  DeviceTypes'
  <2>1. /\ pc' = [pc EXCEPT ![t] = "found"] /\ ~InSubmit(t)
        /\ UNCHANGED <<deviceLife, del, handle, ready, refused, buffers, inFlight, held, inputVhf>>
    BY <1>5 DEF WindowsInput!SwitchCommand, WindowsInput!Goto, WindowsInput!queueVars,
      InSubmit
  <2>2. QED
    BY <2>1, Moved DEF DeviceTypes, InSubmit
<1>6. ASSUME NEW t \in WindowsInput!Threads, WindowsInput!QueueReport(t) PROVE DeviceTypes'
  <2>1. PICK place \in {"idle", "next"} : pc' = [pc EXCEPT ![t] = place]
    BY <1>6 DEF WindowsInput!QueueReport, WindowsInput!Goto
  <2>2. /\ UNCHANGED <<deviceLife, del, handle, ready, refused, buffers, inFlight, held, inputVhf>>
        /\ pc[t] = "found"
    BY <1>6 DEF WindowsInput!QueueReport
  <2>3. QED
    BY <2>1, <2>2, Moved
<1>7. ASSUME NEW t \in WindowsInput!Threads, WindowsInput!PrepareSubmission(t)
      PROVE  DeviceTypes'
  <2>1. CASE ~WindowsInput!MayPrepare
    <3>1. /\ pc' = [pc EXCEPT ![t] = "idle"] /\ pc[t] = "next"
          /\ UNCHANGED <<deviceLife, del, handle, ready, refused, buffers, inFlight, held, inputVhf>>
      BY <1>7, <2>1 DEF WindowsInput!PrepareSubmission, WindowsInput!Goto
    <3>2. QED
      BY <3>1, Moved
  <2>2. CASE WindowsInput!MayPrepare
    <3> DEFINE new == [buffer |-> buffers + 1, report |-> WindowsInput!Popped(waiting), ok |-> TRUE]
    <3>1. /\ pc' = [pc EXCEPT ![t] = "submit"] /\ held' = [held EXCEPT ![t] = new]
          /\ ready' = FALSE /\ buffers' = buffers + 1 /\ inFlight' = buffers + 1
          /\ UNCHANGED <<deviceLife, del, handle, refused, inputVhf>>
      BY <1>7, <2>2 DEF WindowsInput!PrepareSubmission, WindowsInput!Goto
    <3>2. WindowsInput!Popped(waiting) \in WindowsInput!Reports
      BY <2>2, Taken DEF WindowsInput!MayPrepare, QueueTypes, Queues
    <3>3. new \in Submissions /\ new.buffer = buffers + 1 /\ buffers \in Nat
      BY <3>2 DEF Submissions
    <3> HIDE DEF new
    <3>4. /\ held' \in [WindowsInput!Threads -> Submissions \cup {WindowsInput!NoSubmission}]
          /\ held'[t] = new
          /\ \A u \in WindowsInput!Threads : u # t => held'[u] = held[u]
      BY <3>1, <3>3, Held
    <3>5. /\ pc' \in [WindowsInput!Threads -> {"idle", "found", "next", "submit", "finish"}]
          /\ pc'[t] = "submit"
          /\ \A u \in WindowsInput!Threads : u # t => pc'[u] = pc[u]
      BY <3>1, Moved
    <3>6. \A u \in WindowsInput!Threads :
            /\ held[u].buffer \in Nat
            /\ held[u].buffer <= buffers
            /\ InSubmit(u) <=> held[u].buffer # 0
      BY DEF Submissions, WindowsInput!NoSubmission
    <3>7. \A u \in WindowsInput!Threads :
            held'[u].buffer <= buffers' /\ (InSubmit(u)' <=> held'[u].buffer # 0)
      <4>1. SUFFICES ASSUME NEW u \in WindowsInput!Threads
                     PROVE  held'[u].buffer <= buffers' /\ (InSubmit(u)' <=> held'[u].buffer # 0)
        OBVIOUS
      <4>2. CASE u = t
        BY <3>1, <3>3, <3>4, <3>5, <4>2
      <4>3. CASE u # t
        BY <3>1, <3>3, <3>4, <3>5, <3>6, <4>3
      <4>4. QED
        BY <4>2, <4>3
    <3>8. inputVhf'.holds <= buffers' /\ inFlight' \in 0..buffers' /\ buffers' \in Nat
      BY <3>1, <3>3
    <3>9. QED
      BY <3>1, <3>4, <3>5, <3>7, <3>8
  <2>3. QED
    BY <2>1, <2>2
<1>8. ASSUME NEW t \in WindowsInput!Threads, WindowsInput!Submit(t) PROVE DeviceTypes'
  <2>1. /\ pc' = [pc EXCEPT ![t] = "finish"] /\ pc[t] = "submit"
        /\ UNCHANGED <<deviceLife, del, handle, ready, buffers, inFlight>>
        /\ refused' \in BOOLEAN
    BY <1>8 DEF WindowsInput!Submit, WindowsInput!Goto
  <2>2. /\ held[t] \in Submissions /\ held[t].buffer \in 1..buffers
        /\ held[t].report \in WindowsInput!Reports
    BY <2>1, Submits
  <2>3. inputVhf' \in [holds : Nat, asks : BOOLEAN, granted : BOOLEAN] /\ inputVhf'.holds <= buffers
    <3>1. CASE inputVhf' = [inputVhf EXCEPT !.holds = held[t].buffer, !.granted = FALSE]
      <4> DEFINE b == held[t].buffer
      <4>1. b \in Nat /\ b <= buffers /\ inputVhf' = [inputVhf EXCEPT !.holds = b, !.granted = FALSE]
        BY <2>2, <3>1
      <4> HIDE DEF b
      <4>2. inputVhf' \in [holds : Nat, asks : BOOLEAN, granted : BOOLEAN] /\ inputVhf'.holds = b
        BY <4>1
      <4>3. QED
        BY <4>1, <4>2
    <3>2. CASE \E again \in BOOLEAN : inputVhf' = [inputVhf EXCEPT !.asks = again, !.granted = FALSE]
      BY <3>2
    <3>3. QED
      BY <1>8, <3>1, <3>2 DEF WindowsInput!Submit
  <2>4. /\ held' \in [WindowsInput!Threads -> Submissions \cup {WindowsInput!NoSubmission}]
        /\ \A u \in WindowsInput!Threads : held'[u].buffer = held[u].buffer
    <3>1. CASE UNCHANGED held
      BY <3>1
    <3>2. CASE held' = [held EXCEPT ![t].ok = FALSE]
      <4> DEFINE new == [held[t] EXCEPT !.ok = FALSE]
      <4>1. held' = [held EXCEPT ![t] = new]
        BY <3>2
      <4>2. new \in Submissions /\ new.buffer = held[t].buffer
        BY <2>2 DEF Submissions
      <4> HIDE DEF new
      <4>3. QED
        BY <4>1, <4>2, Held
    <3>3. QED
      BY <1>8, <3>1, <3>2 DEF WindowsInput!Submit
  <2>5. /\ pc' \in [WindowsInput!Threads -> {"idle", "found", "next", "submit", "finish"}]
        /\ \A u \in WindowsInput!Threads : InSubmit(u)' <=> InSubmit(u)
    BY <2>1, Moved
  <2>6. QED
    BY <2>1, <2>3, <2>4, <2>5
<1>9. ASSUME NEW t \in WindowsInput!Threads, WindowsInput!FinishSubmission(t)
      PROVE  DeviceTypes'
  <2>1. /\ pc' = [pc EXCEPT ![t] = "idle"]
        /\ held' = [held EXCEPT ![t] = WindowsInput!NoSubmission]
        /\ UNCHANGED <<deviceLife, del, handle, ready, refused, buffers, inputVhf>>
        /\ inFlight' \in {0, inFlight}
    BY <1>9 DEF WindowsInput!FinishSubmission, WindowsInput!Goto
  <2>2. WindowsInput!NoSubmission.buffer = 0 /\ 0 <= buffers
    BY DEF WindowsInput!NoSubmission
  <2>3. /\ held' \in [WindowsInput!Threads -> Submissions \cup {WindowsInput!NoSubmission}]
        /\ held'[t] = WindowsInput!NoSubmission
        /\ \A u \in WindowsInput!Threads : u # t => held'[u] = held[u]
    BY <2>1, Held
  <2>4. /\ pc' \in [WindowsInput!Threads -> {"idle", "found", "next", "submit", "finish"}]
        /\ pc'[t] = "idle"
        /\ \A u \in WindowsInput!Threads : u # t => pc'[u] = pc[u]
    BY <2>1, Moved
  <2>5. QED
    BY <2>1, <2>2, <2>3, <2>4
<1>10. ASSUME NEW t \in WindowsInput!Threads, WindowsInput!ReadyForNext(t)
      PROVE  DeviceTypes'
  <2>1. /\ pc' = [pc EXCEPT ![t] = "next"] \/ UNCHANGED pc
        /\ pc[t] = "idle" /\ inFlight' \in {0, inFlight} /\ ready' \in BOOLEAN
        /\ UNCHANGED <<deviceLife, del, handle, refused, buffers, held>>
    BY <1>10 DEF WindowsInput!ReadyForNext, WindowsInput!Goto
  <2>2. inputVhf' \in [holds : Nat, asks : BOOLEAN, granted : BOOLEAN] /\ inputVhf'.holds <= buffers
    BY <1>10 DEF WindowsInput!ReadyForNext
  <2>3. CASE UNCHANGED pc
    BY <2>1, <2>2, <2>3
  <2>4. CASE pc' = [pc EXCEPT ![t] = "next"]
    BY <2>1, <2>2, <2>4, Moved
  <2>5. QED
    BY <2>1, <2>3, <2>4
<1>11. ASSUME WindowsInput!HostReads PROVE DeviceTypes'
  <2>1. /\ inputVhf' \in [holds : Nat, asks : BOOLEAN, granted : BOOLEAN] /\ inputVhf'.holds = 0
        /\ del' \in {del, "reset"}
        /\ UNCHANGED <<deviceLife, handle, ready, refused, buffers, inFlight, pc, held>>
    BY <1>11 DEF WindowsInput!HostReads, WindowsInput!queueVars
  <2>2. QED
    BY <2>1
<1>12. ASSUME WindowsInput!DeleteBegins PROVE DeviceTypes'
  BY <1>12 DEF WindowsInput!DeleteBegins, WindowsInput!Forget
<1>13. ASSUME WindowsInput!Drained PROVE DeviceTypes'
  BY <1>13 DEF WindowsInput!Drained, WindowsInput!queueVars
<1>14. ASSUME WindowsInput!VhfDelete PROVE DeviceTypes'
  <2>1. /\ inputVhf' \in [holds : Nat, asks : BOOLEAN, granted : BOOLEAN] /\ inputVhf'.holds = 0
        /\ del' \in {del, "reset"}
        /\ UNCHANGED <<deviceLife, handle, ready, refused, buffers, inFlight, pc, held>>
    BY <1>14 DEF WindowsInput!VhfDelete, WindowsInput!queueVars
  <2>2. QED
    BY <2>1
<1>15. ASSUME WindowsInput!DeleteEnds PROVE DeviceTypes'
  BY <1>15 DEF WindowsInput!DeleteEnds, WindowsInput!queueVars
<1>16. CASE UNCHANGED WindowsInput!vars
  BY <1>16 DEF WindowsInput!vars, WindowsInput!queueVars
<1> HIDE DEF DeviceTypes, InSubmit
<1>17. QED
  BY <1>1, <1>2, <1>3, <1>4, <1>5, <1>6, <1>7, <1>8, <1>9, <1>10, <1>11, <1>12,
    <1>13, <1>14, <1>15, <1>16 DEF WindowsInput!Next, WindowsInput!Step

LEMMA SameSubmitting ==
  ASSUME \A t \in WindowsInput!Threads : InSubmit(t)' <=> InSubmit(t)
  PROVE  WindowsInput!Submitting' = WindowsInput!Submitting
BY DEF WindowsInput!Submitting, InSubmit

LEMMA SomeSubmit ==
  ASSUME SubmissionsCounted, NEW t \in WindowsInput!Threads, InSubmit(t)
  PROVE  active # 0 /\ active \in Nat /\ del \notin {"vhf", "reset", "done"}
<1>1. t \in WindowsInput!Submitting
  BY DEF WindowsInput!Submitting, InSubmit
<1>2. active # 0 /\ active \in Nat
  BY <1>1, FS_EmptySet, FS_CardinalityType DEF SubmissionsCounted
<1>3. QED
  BY <1>2 DEF SubmissionsCounted

\* Submissions are counted, and deletion waits for them.
LEMMA SubmissionsCountedNext ==
  ASSUME DeviceTypes, SubmissionsCounted, [WindowsInput!Next]_(WindowsInput!vars)
  PROVE  SubmissionsCounted'
<1> USE DEF SubmissionsCounted
<1>1. ASSUME WindowsInput!VhfCreate PROVE SubmissionsCounted'
  <2>1. /\ UNCHANGED <<active, inputVhf, pc, del>>
    BY <1>1 DEF WindowsInput!VhfCreate, WindowsInput!queueVars
  <2>2. WindowsInput!Submitting' = WindowsInput!Submitting
    BY <2>1, SameSubmitting DEF InSubmit
  <2>3. QED
    BY <2>1, <2>2
<1>2. ASSUME WindowsInput!VhfStart PROVE SubmissionsCounted'
  <2>1. UNCHANGED <<active, del, pc>> /\ inputVhf'.holds = inputVhf.holds
    BY <1>2 DEF WindowsInput!VhfStart, WindowsInput!queueVars, DeviceTypes
  <2>2. WindowsInput!Submitting' = WindowsInput!Submitting
    BY <2>1, SameSubmitting DEF InSubmit
  <2>3. QED
    BY <2>1, <2>2
<1>3. ASSUME WindowsInput!Register PROVE SubmissionsCounted'
  <2>1. /\ UNCHANGED <<active, inputVhf, pc, del>>
    BY <1>3 DEF WindowsInput!Register, WindowsInput!queueVars
  <2>2. WindowsInput!Submitting' = WindowsInput!Submitting
    BY <2>1, SameSubmitting DEF InSubmit
  <2>3. QED
    BY <2>1, <2>2
<1>4. ASSUME NEW t \in WindowsInput!Threads, WindowsInput!FindDevice(t)
      PROVE  SubmissionsCounted'
  <2>1. /\ UNCHANGED <<active, del>>
        /\ pc' = [pc EXCEPT ![t] = "found"] /\ pc[t] = "idle" /\ inputVhf' = inputVhf
    BY <1>4 DEF WindowsInput!FindDevice, WindowsInput!Goto, WindowsInput!queueVars
  <2>2. \A u \in WindowsInput!Threads : InSubmit(u)' <=> InSubmit(u)
    BY <2>1, Moved DEF InSubmit
  <2>3. WindowsInput!Submitting' = WindowsInput!Submitting
    BY <2>2, SameSubmitting
  <2>5. QED
    BY <2>1, <2>3
<1>5. ASSUME NEW t \in WindowsInput!Threads, WindowsInput!SwitchCommand(t)
      PROVE  SubmissionsCounted'
  <2>1. /\ UNCHANGED <<active, del>>
        /\ pc' = [pc EXCEPT ![t] = "found"] /\ pc[t] = "idle" /\ inputVhf' = inputVhf
    BY <1>5 DEF WindowsInput!SwitchCommand, WindowsInput!Goto, WindowsInput!queueVars
  <2>2. \A u \in WindowsInput!Threads : InSubmit(u)' <=> InSubmit(u)
    BY <2>1, Moved DEF InSubmit
  <2>3. WindowsInput!Submitting' = WindowsInput!Submitting
    BY <2>2, SameSubmitting
  <2>5. QED
    BY <2>1, <2>3
<1>6. ASSUME NEW t \in WindowsInput!Threads, WindowsInput!QueueReport(t)
      PROVE  SubmissionsCounted'
  <2>1. PICK place \in {"idle", "next"} : pc' = [pc EXCEPT ![t] = place]
    BY <1>6 DEF WindowsInput!QueueReport, WindowsInput!Goto
  <2>2. UNCHANGED <<active, del, inputVhf>> /\ pc[t] = "found"
    BY <1>6 DEF WindowsInput!QueueReport
  <2>3. \A u \in WindowsInput!Threads : InSubmit(u)' <=> InSubmit(u)
    BY <2>1, <2>2, Moved DEF InSubmit
  <2>4. WindowsInput!Submitting' = WindowsInput!Submitting
    BY <2>3, SameSubmitting
  <2>5. QED
    BY <2>2, <2>4
<1>7. ASSUME NEW t \in WindowsInput!Threads, WindowsInput!PrepareSubmission(t)
      PROVE  SubmissionsCounted'
  <2>1. CASE ~WindowsInput!MayPrepare
    <3>1. UNCHANGED <<active, del, inputVhf>> /\ pc' = [pc EXCEPT ![t] = "idle"] /\ pc[t] = "next"
      BY <1>7, <2>1 DEF WindowsInput!PrepareSubmission, WindowsInput!Goto
    <3>2. \A u \in WindowsInput!Threads : InSubmit(u)' <=> InSubmit(u)
      BY <3>1, Moved DEF InSubmit
    <3>3. WindowsInput!Submitting' = WindowsInput!Submitting
      BY <3>2, SameSubmitting
    <3>4. QED
      BY <3>1, <3>3
  <2>2. CASE WindowsInput!MayPrepare
    <3>1. /\ active' = active + 1 /\ UNCHANGED <<del, inputVhf>> /\ del = "no"
          /\ pc' = [pc EXCEPT ![t] = "submit"] /\ pc[t] = "next"
      BY <1>7, <2>2 DEF WindowsInput!PrepareSubmission, WindowsInput!Goto,
        WindowsInput!MayPrepare
    <3>2. WindowsInput!Submitting' = WindowsInput!Submitting \cup {t}
      BY <3>1, Moved DEF WindowsInput!Submitting
    <3>3. t \notin WindowsInput!Submitting
      BY <3>1 DEF WindowsInput!Submitting
    <3>4. /\ IsFiniteSet(WindowsInput!Submitting')
          /\ Cardinality(WindowsInput!Submitting') = Cardinality(WindowsInput!Submitting) + 1
      BY <3>2, <3>3, FS_AddElement
    <3>5. QED
      BY <3>1, <3>4
  <2>3. QED
    BY <2>1, <2>2
<1>8. ASSUME NEW t \in WindowsInput!Threads, WindowsInput!Submit(t)
      PROVE  SubmissionsCounted'
  <2>1. /\ UNCHANGED <<active, del>>
        /\ pc' = [pc EXCEPT ![t] = "finish"] /\ pc[t] = "submit"
    BY <1>8 DEF WindowsInput!Submit, WindowsInput!Goto
  <2>2. \A u \in WindowsInput!Threads : InSubmit(u)' <=> InSubmit(u)
    BY <2>1, Moved DEF InSubmit
  <2>3. WindowsInput!Submitting' = WindowsInput!Submitting
    BY <2>2, SameSubmitting
  <2>4. del \notin {"vhf", "reset", "done"}
    BY <2>1, SomeSubmit DEF InSubmit
  <2>5. QED
    BY <2>1, <2>3, <2>4
<1>9. ASSUME NEW t \in WindowsInput!Threads, WindowsInput!FinishSubmission(t)
      PROVE  SubmissionsCounted'
  <2>1. /\ active' = active - 1 /\ UNCHANGED <<del, inputVhf>>
        /\ pc' = [pc EXCEPT ![t] = "idle"] /\ pc[t] = "finish"
    BY <1>9 DEF WindowsInput!FinishSubmission, WindowsInput!Goto
  <2>2. WindowsInput!Submitting' = WindowsInput!Submitting \ {t}
    BY <2>1, Moved DEF WindowsInput!Submitting
  <2>3. t \in WindowsInput!Submitting
    BY <2>1 DEF WindowsInput!Submitting
  <2>4. /\ IsFiniteSet(WindowsInput!Submitting')
        /\ Cardinality(WindowsInput!Submitting') = Cardinality(WindowsInput!Submitting) - 1
    BY <2>2, <2>3, FS_RemoveElement
  <2>5. del \notin {"vhf", "reset", "done"}
    BY <2>1, SomeSubmit DEF InSubmit
  <2>6. QED
    BY <2>1, <2>4, <2>5
<1>10. ASSUME NEW t \in WindowsInput!Threads, WindowsInput!ReadyForNext(t)
      PROVE  SubmissionsCounted'
  <2>1. /\ UNCHANGED <<active, del>> /\ inputVhf'.holds = inputVhf.holds
        /\ pc' = [pc EXCEPT ![t] = "next"] \/ UNCHANGED pc
        /\ pc[t] = "idle"
    BY <1>10 DEF WindowsInput!ReadyForNext, WindowsInput!Goto, DeviceTypes
  <2>2. \A u \in WindowsInput!Threads : InSubmit(u)' <=> InSubmit(u)
    BY <2>1, Moved DEF InSubmit
  <2>3. WindowsInput!Submitting' = WindowsInput!Submitting
    BY <2>2, SameSubmitting
  <2>4. QED
    BY <2>1, <2>3
<1>11. ASSUME WindowsInput!HostReads PROVE SubmissionsCounted'
  <2>1. UNCHANGED <<active, del, pc>> /\ inputVhf'.holds = 0
    BY <1>11 DEF WindowsInput!HostReads, DeviceTypes
  <2>2. WindowsInput!Submitting' = WindowsInput!Submitting
    BY <2>1, SameSubmitting DEF InSubmit
  <2>3. QED
    BY <2>1, <2>2
<1>12. ASSUME WindowsInput!DeleteBegins PROVE SubmissionsCounted'
  <2>1. UNCHANGED <<active, pc>> /\ del' = "drain"
    BY <1>12 DEF WindowsInput!DeleteBegins
  <2>2. WindowsInput!Submitting' = WindowsInput!Submitting
    BY <2>1, SameSubmitting DEF InSubmit
  <2>3. QED
    BY <2>1, <2>2
<1>13. ASSUME WindowsInput!Drained PROVE SubmissionsCounted'
  <2>1. UNCHANGED <<active, pc>> /\ del' = "vhf" /\ active = 0
    BY <1>13 DEF WindowsInput!Drained
  <2>2. WindowsInput!Submitting' = WindowsInput!Submitting
    BY <2>1, SameSubmitting DEF InSubmit
  <2>3. QED
    BY <2>1, <2>2
<1>14. ASSUME WindowsInput!VhfDelete PROVE SubmissionsCounted'
  <2>1. UNCHANGED <<active, pc>> /\ del = "vhf" /\ del' = "reset" /\ inputVhf'.holds = 0
    BY <1>14 DEF WindowsInput!VhfDelete, DeviceTypes
  <2>2. WindowsInput!Submitting' = WindowsInput!Submitting
    BY <2>1, SameSubmitting DEF InSubmit
  <2>3. QED
    BY <2>1, <2>2
<1>15. ASSUME WindowsInput!DeleteEnds PROVE SubmissionsCounted'
  <2>1. UNCHANGED <<active, pc, inputVhf>> /\ del = "reset" /\ del' = "done"
    BY <1>15 DEF WindowsInput!DeleteEnds
  <2>2. WindowsInput!Submitting' = WindowsInput!Submitting
    BY <2>1, SameSubmitting DEF InSubmit
  <2>3. QED
    BY <2>1, <2>2
<1>16. CASE UNCHANGED WindowsInput!vars
  <2>1. UNCHANGED <<active, del, inputVhf, pc>>
    BY <1>16 DEF WindowsInput!vars, WindowsInput!queueVars
  <2>2. WindowsInput!Submitting' = WindowsInput!Submitting
    BY <2>1, SameSubmitting DEF InSubmit
  <2>3. QED
    BY <2>1, <2>2
<1> HIDE DEF SubmissionsCounted
<1>17. QED
  BY <1>1, <1>2, <1>3, <1>4, <1>5, <1>6, <1>7, <1>8, <1>9, <1>10, <1>11, <1>12,
    <1>13, <1>14, <1>15, <1>16 DEF WindowsInput!Next, WindowsInput!Step

\* Every request of VHF is answered once.
LEMMA RequestHeldNext ==
  ASSUME DeviceTypes, SubmissionsCounted, RequestHeld,
    [WindowsInput!Next]_(WindowsInput!vars)
  PROVE  RequestHeld'
<1> USE DEF RequestHeld
<1>1. ASSUME WindowsInput!VhfCreate PROVE RequestHeld'
  <2>1. deviceLife = "new" /\ UNCHANGED <<inputVhf, ready, pc>>
    BY <1>1 DEF WindowsInput!VhfCreate
  <2>2. QED
    BY <2>1
<1>2. ASSUME WindowsInput!VhfStart PROVE RequestHeld'
  <2>1. /\ deviceLife = "created" /\ deviceLife' = "started" /\ UNCHANGED <<ready, pc>>
        /\ inputVhf' = [inputVhf EXCEPT !.asks = TRUE]
    BY <1>2 DEF WindowsInput!VhfStart
  <2>2. inputVhf'.holds = inputVhf.holds /\ inputVhf'.granted = inputVhf.granted /\ inputVhf'.asks
    BY <2>1 DEF DeviceTypes
  <2>3. QED
    BY <2>1, <2>2
<1>3. ASSUME WindowsInput!Register PROVE RequestHeld'
  <2>1. deviceLife' = "live" /\ UNCHANGED <<inputVhf, ready, pc>>
    BY <1>3 DEF WindowsInput!Register
  <2>2. QED
    BY <2>1
<1>4. ASSUME NEW t \in WindowsInput!Threads, WindowsInput!FindDevice(t) PROVE RequestHeld'
  <2>1. pc' = [pc EXCEPT ![t] = "found"] /\ UNCHANGED <<inputVhf, ready, deviceLife>>
    BY <1>4 DEF WindowsInput!FindDevice, WindowsInput!Goto, WindowsInput!queueVars
  <2>2. QED
    BY <2>1, Moved
<1>5. ASSUME NEW t \in WindowsInput!Threads, WindowsInput!SwitchCommand(t)
      PROVE  RequestHeld'
  <2>1. pc' = [pc EXCEPT ![t] = "found"] /\ UNCHANGED <<inputVhf, ready, deviceLife>>
    BY <1>5 DEF WindowsInput!SwitchCommand, WindowsInput!Goto, WindowsInput!queueVars
  <2>2. QED
    BY <2>1, Moved
<1>6. ASSUME NEW t \in WindowsInput!Threads, WindowsInput!QueueReport(t) PROVE RequestHeld'
  <2>1. PICK place \in {"idle", "next"} : pc' = [pc EXCEPT ![t] = place]
    BY <1>6 DEF WindowsInput!QueueReport, WindowsInput!Goto
  <2>2. UNCHANGED <<inputVhf, ready, deviceLife>>
    BY <1>6 DEF WindowsInput!QueueReport
  <2>3. QED
    BY <2>1, <2>2, Moved
<1>7. ASSUME NEW t \in WindowsInput!Threads, WindowsInput!PrepareSubmission(t)
      PROVE  RequestHeld'
  <2>1. CASE ~WindowsInput!MayPrepare
    <3>1. UNCHANGED <<inputVhf, ready, deviceLife>> /\ pc' = [pc EXCEPT ![t] = "idle"]
      BY <1>7, <2>1 DEF WindowsInput!PrepareSubmission, WindowsInput!Goto
    <3>2. QED
      BY <3>1, Moved
  <2>2. CASE WindowsInput!MayPrepare
    <3>1. /\ UNCHANGED <<inputVhf, deviceLife>> /\ ready' = FALSE /\ ready
          /\ pc' = [pc EXCEPT ![t] = "submit"]
      BY <1>7, <2>2 DEF WindowsInput!PrepareSubmission, WindowsInput!Goto,
        WindowsInput!MayPrepare
    <3>2. QED
      BY <3>1, Moved
  <2>3. QED
    BY <2>1, <2>2
<1>8. ASSUME NEW t \in WindowsInput!Threads, WindowsInput!Submit(t) PROVE RequestHeld'
  <2>1. /\ UNCHANGED <<ready, deviceLife>> /\ pc' = [pc EXCEPT ![t] = "finish"]
        /\ pc[t] = "submit"
    BY <1>8 DEF WindowsInput!Submit, WindowsInput!Goto
  <2>2. ~inputVhf'.granted /\ (inputVhf'.asks => inputVhf'.holds = 0)
    BY <1>8 DEF WindowsInput!Submit, DeviceTypes
  <2>3. QED
    BY <2>1, <2>2, Moved
<1>9. ASSUME NEW t \in WindowsInput!Threads, WindowsInput!FinishSubmission(t)
      PROVE  RequestHeld'
  <2>1. UNCHANGED <<inputVhf, ready, deviceLife>> /\ pc' = [pc EXCEPT ![t] = "idle"]
    BY <1>9 DEF WindowsInput!FinishSubmission, WindowsInput!Goto
  <2>2. QED
    BY <2>1, Moved
<1>10. ASSUME NEW t \in WindowsInput!Threads, WindowsInput!ReadyForNext(t)
      PROVE  RequestHeld'
  <2>1. /\ inputVhf.asks /\ pc[t] = "idle" /\ UNCHANGED deviceLife
        /\ deviceLife \notin {"new", "created"}
    BY <1>10 DEF WindowsInput!ReadyForNext, WindowsInput!VhfCallsBack
  <2>2. CASE del # "no" \/ ~handle
    <3>1. UNCHANGED <<ready, pc>> /\ inputVhf' = [inputVhf EXCEPT !.asks = FALSE]
      BY <1>10, <2>2 DEF WindowsInput!ReadyForNext
    <3>2. inputVhf'.holds = inputVhf.holds /\ inputVhf'.granted = inputVhf.granted /\ ~inputVhf'.asks
      BY <3>1 DEF DeviceTypes
    <3>3. QED
      BY <2>1, <3>1, <3>2
  <2>3. CASE ~(del # "no" \/ ~handle)
    <3>1. /\ ready' /\ pc' = [pc EXCEPT ![t] = "next"]
          /\ inputVhf' = [inputVhf EXCEPT !.asks = FALSE, !.granted = TRUE]
      BY <1>10, <2>3 DEF WindowsInput!ReadyForNext, WindowsInput!Goto
    <3>2. inputVhf'.holds = inputVhf.holds /\ inputVhf'.granted /\ ~inputVhf'.asks
      BY <3>1 DEF DeviceTypes
    <3>3. \A u \in WindowsInput!Threads : pc'[u] # "submit"
      BY <2>1, <3>1, Moved
    <3>4. QED
      BY <2>1, <3>1, <3>2, <3>3
  <2>4. QED
    BY <2>2, <2>3
<1>11. ASSUME WindowsInput!HostReads PROVE RequestHeld'
  <2>1. /\ inputVhf.holds # 0 /\ UNCHANGED <<pc, ready, deviceLife>>
        /\ deviceLife \notin {"new", "created"}
        /\ inputVhf' = [inputVhf EXCEPT !.holds = 0, !.asks = TRUE]
    BY <1>11 DEF WindowsInput!HostReads, WindowsInput!VhfCallsBack
  <2>2. inputVhf'.holds = 0 /\ inputVhf'.granted = inputVhf.granted /\ inputVhf'.asks
    BY <2>1 DEF DeviceTypes
  <2>3. QED
    BY <2>1, <2>2
<1>12. ASSUME WindowsInput!DeleteBegins PROVE RequestHeld'
  <2>1. UNCHANGED <<pc, inputVhf, deviceLife>> /\ ready' = FALSE
    BY <1>12 DEF WindowsInput!DeleteBegins
  <2>2. QED
    BY <2>1
<1>13. ASSUME WindowsInput!Drained PROVE RequestHeld'
  <2>1. UNCHANGED <<pc, inputVhf, ready, deviceLife>>
    BY <1>13 DEF WindowsInput!Drained, WindowsInput!queueVars
  <2>2. QED
    BY <2>1
<1>14. ASSUME WindowsInput!VhfDelete PROVE RequestHeld'
  <2>1. UNCHANGED <<pc, ready, deviceLife>> /\ inputVhf' = [inputVhf EXCEPT !.holds = 0, !.asks = FALSE]
    BY <1>14 DEF WindowsInput!VhfDelete
  <2>2. inputVhf'.holds = 0 /\ inputVhf'.granted = inputVhf.granted /\ ~inputVhf'.asks
    BY <2>1 DEF DeviceTypes
  <2>3. QED
    BY <2>1, <2>2
<1>15. ASSUME WindowsInput!DeleteEnds PROVE RequestHeld'
  <2>1. UNCHANGED <<pc, inputVhf, ready, deviceLife>>
    BY <1>15 DEF WindowsInput!DeleteEnds, WindowsInput!queueVars
  <2>2. QED
    BY <2>1
<1>16. CASE UNCHANGED WindowsInput!vars
  <2>1. UNCHANGED <<pc, inputVhf, ready, deviceLife>>
    BY <1>16 DEF WindowsInput!vars, WindowsInput!queueVars
  <2>2. QED
    BY <2>1
<1> HIDE DEF RequestHeld
<1>17. QED
  BY <1>1, <1>2, <1>3, <1>4, <1>5, <1>6, <1>7, <1>8, <1>9, <1>10, <1>11, <1>12,
    <1>13, <1>14, <1>15, <1>16 DEF WindowsInput!Next, WindowsInput!Step

\* The buffer that VHF has is the one that the record refers to.
LEMMA BufferHeldNext ==
  ASSUME DeviceTypes, SubmissionsCounted, RequestHeld, BufferHeld,
    [WindowsInput!Next]_(WindowsInput!vars)
  PROVE  BufferHeld'
<1> USE DEF BufferHeld, InSubmit
<1>1. ASSUME WindowsInput!VhfCreate PROVE BufferHeld'
  <2>1. UNCHANGED <<inputVhf, pc, held, inFlight>>
    BY <1>1 DEF WindowsInput!VhfCreate, WindowsInput!queueVars
  <2>2. QED
    BY <2>1
<1>2. ASSUME WindowsInput!VhfStart PROVE BufferHeld'
  <2>1. UNCHANGED <<pc, held, inFlight>> /\ inputVhf'.holds = inputVhf.holds
    BY <1>2 DEF WindowsInput!VhfStart, WindowsInput!queueVars, DeviceTypes
  <2>2. QED
    BY <2>1
<1>3. ASSUME WindowsInput!Register PROVE BufferHeld'
  <2>1. UNCHANGED <<inputVhf, pc, held, inFlight>>
    BY <1>3 DEF WindowsInput!Register, WindowsInput!queueVars
  <2>2. QED
    BY <2>1
<1>4. ASSUME NEW t \in WindowsInput!Threads, WindowsInput!FindDevice(t) PROVE BufferHeld'
  <2>1. /\ pc' = [pc EXCEPT ![t] = "found"] /\ UNCHANGED <<inputVhf, held, inFlight>>
        /\ ~InSubmit(t)
    BY <1>4 DEF WindowsInput!FindDevice, WindowsInput!Goto, WindowsInput!queueVars
  <2>2. QED
    BY <2>1, Moved
<1>5. ASSUME NEW t \in WindowsInput!Threads, WindowsInput!SwitchCommand(t) PROVE BufferHeld'
  <2>1. /\ pc' = [pc EXCEPT ![t] = "found"] /\ UNCHANGED <<inputVhf, held, inFlight>>
        /\ ~InSubmit(t)
    BY <1>5 DEF WindowsInput!SwitchCommand, WindowsInput!Goto, WindowsInput!queueVars
  <2>2. QED
    BY <2>1, Moved
<1>6. ASSUME NEW t \in WindowsInput!Threads, WindowsInput!QueueReport(t) PROVE BufferHeld'
  <2>1. PICK place \in {"idle", "next"} : pc' = [pc EXCEPT ![t] = place]
    BY <1>6 DEF WindowsInput!QueueReport, WindowsInput!Goto
  <2>2. UNCHANGED <<inputVhf, held, inFlight>> /\ ~InSubmit(t)
    BY <1>6 DEF WindowsInput!QueueReport
  <2>3. QED
    BY <2>1, <2>2, Moved
<1>7. ASSUME NEW t \in WindowsInput!Threads, WindowsInput!PrepareSubmission(t)
      PROVE  BufferHeld'
  <2>1. CASE ~WindowsInput!MayPrepare
    <3>1. /\ UNCHANGED <<inputVhf, held, inFlight>> /\ pc' = [pc EXCEPT ![t] = "idle"]
          /\ ~InSubmit(t)
      BY <1>7, <2>1 DEF WindowsInput!PrepareSubmission, WindowsInput!Goto
    <3>2. QED
      BY <3>1, Moved
  <2>2. CASE WindowsInput!MayPrepare
    <3> DEFINE new == [buffer |-> buffers + 1, report |-> WindowsInput!Popped(waiting), ok |-> TRUE]
    <3>1. /\ UNCHANGED inputVhf /\ ready /\ ~InSubmit(t) /\ inFlight' = buffers + 1
          /\ pc' = [pc EXCEPT ![t] = "submit"] /\ held' = [held EXCEPT ![t] = new]
      BY <1>7, <2>2 DEF WindowsInput!PrepareSubmission, WindowsInput!Goto,
        WindowsInput!MayPrepare
    <3>2. inputVhf'.holds = 0 /\ \A u \in WindowsInput!Threads : pc[u] # "submit"
      BY <3>1 DEF RequestHeld
    <3>3. new.buffer = buffers + 1 /\ new.ok
      OBVIOUS
    <3> HIDE DEF new
    <3>4. held'[t] = new /\ \A u \in WindowsInput!Threads : u # t => held'[u] = held[u]
      BY <3>1 DEF DeviceTypes
    <3>5. pc'[t] = "submit" /\ \A u \in WindowsInput!Threads : u # t => pc'[u] = pc[u]
      BY <3>1, Moved
    <3>6. \A u \in WindowsInput!Threads : InSubmit(u) => held[u].buffer # buffers + 1
      <4>1. \A u \in WindowsInput!Threads : InSubmit(u) => held[u].buffer \in 1..buffers
        BY Submits
      <4>2. buffers \in Nat
        BY DEF DeviceTypes
      <4>3. QED
        BY <4>1, <4>2
    <3>7. QED
      BY <3>1, <3>2, <3>3, <3>4, <3>5, <3>6
  <2>3. QED
    BY <2>1, <2>2
<1>8. ASSUME NEW t \in WindowsInput!Threads, WindowsInput!Submit(t) PROVE BufferHeld'
  <2>1. /\ UNCHANGED inFlight /\ pc' = [pc EXCEPT ![t] = "finish"] /\ pc[t] = "submit"
    BY <1>8 DEF WindowsInput!Submit, WindowsInput!Goto
  <2>2. /\ inputVhf.holds = 0 /\ held[t].buffer = inFlight /\ held[t].ok
        /\ \A u \in WindowsInput!Threads : pc[u] = "submit" => u = t
    BY <2>1 DEF RequestHeld
  <2>3. /\ pc'[t] = "finish" /\ \A u \in WindowsInput!Threads : u # t => pc'[u] = pc[u]
    BY <2>1, Moved
  <2>4. \A u \in WindowsInput!Threads : pc'[u] # "submit" /\ (InSubmit(u)' => InSubmit(u))
    BY <2>1, <2>2, <2>3
  <2>5. CASE UNCHANGED held /\ inputVhf' = [inputVhf EXCEPT !.holds = held[t].buffer, !.granted = FALSE]
    <3>1. inputVhf'.holds = inFlight
      BY <2>2, <2>5 DEF DeviceTypes
    <3>2. QED
      BY <2>1, <2>2, <2>4, <2>5, <3>1
  <2>6. CASE /\ held' = [held EXCEPT ![t].ok = FALSE]
             /\ \E again \in BOOLEAN : inputVhf' = [inputVhf EXCEPT !.asks = again, !.granted = FALSE]
    <3>1. inputVhf'.holds = 0
      BY <2>2, <2>6 DEF DeviceTypes
    <3>2. held[t] \in Submissions
      BY <2>1, Submits
    <3>3. \A u \in WindowsInput!Threads : held'[u].buffer = held[u].buffer
      BY <2>6, <3>2 DEF DeviceTypes, Submissions
    <3>4. QED
      BY <2>4, <3>1, <3>3
  <2>7. QED
    BY <1>8, <2>5, <2>6 DEF WindowsInput!Submit
<1>9. ASSUME NEW t \in WindowsInput!Threads, WindowsInput!FinishSubmission(t)
      PROVE  BufferHeld'
  <2>1. /\ pc' = [pc EXCEPT ![t] = "idle"]
        /\ held' = [held EXCEPT ![t] = WindowsInput!NoSubmission]
        /\ UNCHANGED inputVhf /\ pc[t] = "finish"
        /\ \/ inFlight' = inFlight
           \/ inFlight' = 0 /\ ~held[t].ok /\ inFlight = held[t].buffer
    BY <1>9 DEF WindowsInput!FinishSubmission, WindowsInput!Goto
  <2>2. /\ pc'[t] = "idle"
        /\ \A u \in WindowsInput!Threads : u # t => pc'[u] = pc[u] /\ held'[u] = held[u]
    BY <2>1, Moved DEF DeviceTypes
  <2>3. inFlight' # inFlight =>
          /\ inputVhf.holds = 0
          /\ \A u \in WindowsInput!Threads : pc[u] # "submit"
    BY <2>1
  <2>4. QED
    BY <2>1, <2>2, <2>3
<1>10. ASSUME NEW t \in WindowsInput!Threads, WindowsInput!ReadyForNext(t) PROVE BufferHeld'
  <2>1. /\ inputVhf.asks /\ pc[t] = "idle" /\ UNCHANGED held
        /\ pc' = [pc EXCEPT ![t] = "next"] \/ UNCHANGED pc
        /\ inputVhf'.holds = inputVhf.holds
    BY <1>10 DEF WindowsInput!ReadyForNext, WindowsInput!Goto, DeviceTypes
  <2>2. inputVhf.holds = 0 /\ \A u \in WindowsInput!Threads : pc[u] # "submit"
    BY <2>1 DEF RequestHeld
  <2>3. \A u \in WindowsInput!Threads : pc'[u] # "submit" /\ (InSubmit(u)' => InSubmit(u))
    BY <2>1, <2>2, Moved
  <2>4. QED
    BY <2>1, <2>2, <2>3
<1>11. ASSUME WindowsInput!HostReads PROVE BufferHeld'
  <2>1. UNCHANGED <<pc, held, inFlight>> /\ inputVhf'.holds = 0
    BY <1>11 DEF WindowsInput!HostReads, DeviceTypes
  <2>2. QED
    BY <2>1
<1>12. ASSUME WindowsInput!DeleteBegins PROVE BufferHeld'
  <2>1. UNCHANGED <<inputVhf, pc, held, inFlight>>
    BY <1>12 DEF WindowsInput!DeleteBegins, WindowsInput!queueVars
  <2>2. QED
    BY <2>1
<1>13. ASSUME WindowsInput!Drained PROVE BufferHeld'
  <2>1. UNCHANGED <<inputVhf, pc, held, inFlight>>
    BY <1>13 DEF WindowsInput!Drained, WindowsInput!queueVars
  <2>2. QED
    BY <2>1
<1>14. ASSUME WindowsInput!VhfDelete PROVE BufferHeld'
  <2>1. UNCHANGED <<pc, held, inFlight>> /\ inputVhf'.holds = 0
    BY <1>14 DEF WindowsInput!VhfDelete, DeviceTypes
  <2>2. QED
    BY <2>1
<1>15. ASSUME WindowsInput!DeleteEnds PROVE BufferHeld'
  <2>1. UNCHANGED <<pc, held, inputVhf>> /\ del = "reset"
    BY <1>15 DEF WindowsInput!DeleteEnds
  <2>2. inputVhf.holds = 0 /\ \A u \in WindowsInput!Threads : ~InSubmit(u)
    BY <2>1, SomeSubmit DEF SubmissionsCounted
  <2>3. QED
    BY <2>1, <2>2
<1>16. CASE UNCHANGED WindowsInput!vars
  <2>1. UNCHANGED <<pc, held, inputVhf, inFlight>>
    BY <1>16 DEF WindowsInput!vars, WindowsInput!queueVars
  <2>2. QED
    BY <2>1
<1> HIDE DEF BufferHeld, InSubmit
<1>17. QED
  BY <1>1, <1>2, <1>3, <1>4, <1>5, <1>6, <1>7, <1>8, <1>9, <1>10, <1>11, <1>12,
    <1>13, <1>14, <1>15, <1>16 DEF WindowsInput!Next, WindowsInput!Step

LEMMA InputInit ==
  ASSUME WindowsInput!InputAssumption, WindowsInput!Init
  PROVE  InputInv
<1> USE DEF WindowsInput!Init
<1>1. QueueTypes
  <2>1. latest \in [{"protocol", "mouse", "state"} -> 0..MaxReports]
    BY DEF WindowsInput!Empty, WindowsInput!InputAssumption
  <2>2. QED
    BY <2>1, NothingWaits DEF QueueTypes, Queues
<1>2. DeviceTypes
  <2>1. WindowsInput!NoSubmission.buffer = 0
    BY DEF WindowsInput!NoSubmission
  <2>2. \A t \in WindowsInput!Threads : held[t].buffer = 0 /\ ~InSubmit(t)
    BY <2>1 DEF InSubmit
  <2>3. /\ pc \in [WindowsInput!Threads -> {"idle", "found", "next", "submit", "finish"}]
        /\ held \in [WindowsInput!Threads -> Submissions \cup {WindowsInput!NoSubmission}]
    OBVIOUS
  <2>4. /\ inputVhf \in [holds : Nat, asks : BOOLEAN, granted : BOOLEAN] /\ inputVhf.holds = 0
        /\ buffers = 0 /\ inFlight = 0 /\ deviceLife = "new" /\ del = "no"
        /\ handle = FALSE /\ ready = FALSE /\ refused = FALSE
    OBVIOUS
  <2>5. QED
    <3> HIDE DEF WindowsInput!Init
    <3>1. buffers \in Nat /\ inFlight \in 0..buffers /\ inputVhf.holds <= buffers
      BY <2>4
    <3>2. \A t \in WindowsInput!Threads : held[t].buffer <= buffers
      BY <2>2, <2>4
    <3>3. \A t \in WindowsInput!Threads : InSubmit(t) <=> held[t].buffer # 0
      BY <2>2 DEF InSubmit
    <3>4. /\ deviceLife \in {"new", "created", "started", "live"}
          /\ del \in {"no", "drain", "vhf", "reset", "done"}
          /\ handle \in BOOLEAN /\ ready \in BOOLEAN /\ refused \in BOOLEAN
      BY <2>4
    <3>5. QED
      BY <2>3, <2>4, <3>1, <3>2, <3>3, <3>4 DEF DeviceTypes
<1>3. SubmissionsCounted
  <2>1. WindowsInput!Submitting = {}
    BY DEF WindowsInput!Submitting
  <2>2. QED
    BY <2>1, FS_EmptySet DEF SubmissionsCounted
<1>4. RequestHeld /\ BufferHeld
  BY DEF RequestHeld, BufferHeld, InSubmit
<1>5. QED
  BY <1>1, <1>2, <1>3, <1>4 DEF InputInv

LEMMA InputInvariance ==
  ASSUME WindowsInput!InputAssumption
  PROVE  WindowsInput!Spec => []InputInv
<1>1. WindowsInput!Init => InputInv
  BY InputInit
<1>2. InputInv /\ [WindowsInput!Next]_(WindowsInput!vars) => InputInv'
  BY QueueTypesNext, DeviceTypesNext, SubmissionsCountedNext, RequestHeldNext,
    BufferHeldNext
    DEF InputInv
<1>3. QED
  BY <1>1, <1>2, PTL DEF WindowsInput!Spec

LEMMA InputContract == InputInv => WindowsInput!VhfContractKept
<1>1. SUFFICES ASSUME InputInv PROVE WindowsInput!VhfContractKept
  OBVIOUS
<1>2. del \in {"vhf", "reset", "done"} => WindowsInput!Submitting = {}
  BY <1>1, SomeSubmit DEF InputInv, WindowsInput!Submitting, InSubmit
<1>3. QED
  BY <1>1, <1>2 DEF InputInv, RequestHeld, BufferHeld, WindowsInput!VhfContractKept,
    WindowsInput!OneSubmissionPerGrant, WindowsInput!BufferOutlivesVhf

LEMMA InputTypesHold == InputInv => WindowsInput!TypeOK
<1>1. SUFFICES ASSUME InputInv PROVE WindowsInput!TypeOK
  OBVIOUS
<1>2. QueueTypes /\ DeviceTypes /\ SubmissionsCounted
  BY <1>1 DEF InputInv
<1>3. active \in Nat
  BY <1>2, FS_CardinalityType DEF SubmissionsCounted
<1>4. \A t \in WindowsInput!Threads :
        \/ held[t] = WindowsInput!NoSubmission
        \/ held[t] \in [buffer : 1..buffers, report : WindowsInput!Reports, ok : BOOLEAN]
  <2>1. SUFFICES ASSUME NEW t \in WindowsInput!Threads, held[t] # WindowsInput!NoSubmission
                 PROVE  held[t] \in [buffer : 1..buffers, report : WindowsInput!Reports,
                                     ok : BOOLEAN]
    OBVIOUS
  <2>2. held[t] \in Submissions /\ held[t].buffer <= buffers
    BY <1>2, <2>1 DEF DeviceTypes
  <2>3. buffers \in Nat
    BY <1>2 DEF DeviceTypes
  <2>4. held[t].buffer \in 1..buffers
    BY <2>2, <2>3 DEF Submissions
  <2>5. QED
    BY <2>2, <2>4 DEF Submissions
<1>5. inputVhf \in [holds : 0..buffers, asks : BOOLEAN, granted : BOOLEAN]
  BY <1>2 DEF DeviceTypes
<1>6. QED
  BY <1>2, <1>3, <1>4, <1>5 DEF QueueTypes, DeviceTypes, WindowsInput!TypeOK

-----------------------------------------------------------------------------
(* Sequences of reports: what OfClass(), Transitions() and Motion(), folds by  *)
(* definition, have of a report more, and of one sequence after another.     *)

\* OfClass() is a fold.
ClassFold(class) ==
  [p \in Seq(WindowsInput!Reports) \X WindowsInput!Reports |->
     IF p[2].class = class THEN Append(p[1], p[2]) ELSE p[1]]

LEMMA OfClassStep ==
  ASSUME NEW c
  PROVE  /\ ClassFold(c)
              \in [Seq(WindowsInput!Reports) \X WindowsInput!Reports -> Seq(WindowsInput!Reports)]
         /\ \A u \in Seq(WindowsInput!Reports), r \in WindowsInput!Reports :
              ClassFold(c)[<<u, r>>] = IF r.class = c THEN Append(u, r) ELSE u
<1>1. \A p \in Seq(WindowsInput!Reports) \X WindowsInput!Reports :
        p[1] \in Seq(WindowsInput!Reports) /\ Append(p[1], p[2]) \in Seq(WindowsInput!Reports)
  OBVIOUS
<1>2. QED
  BY <1>1 DEF ClassFold

LEMMA OfClassFolds ==
  ASSUME NEW c, NEW s \in Seq(WindowsInput!Reports)
  PROVE  \E f : /\ IsFold(f, <<>>, ClassFold(c), s)
                /\ \A i \in 0..Len(s) : f[i] \in Seq(WindowsInput!Reports)
                /\ WindowsInput!OfClass(c, s) = f[Len(s)]
<1> DEFINE R == WindowsInput!Reports
           step == ClassFold(c)
           e(f) == [i \in 0..Len(s) |-> IF i = 0 THEN <<>>
                      ELSE IF s[i].class = c THEN Append(f[i - 1], s[i]) ELSE f[i - 1]]
           g == CHOOSE f : f = e(f)
<1>1. WindowsInput!OfClass(c, s) = g[Len(s)]
  BY DEF WindowsInput!OfClass
<1>2. <<>> \in Seq(R) /\ Len(s) \in Nat /\ s \in Seq(R)
  OBVIOUS
<1>3. step \in [Seq(R) \X R -> Seq(R)]
  BY OfClassStep
<1>4. \A u \in Seq(R), r \in R : step[<<u, r>>] = IF r.class = c THEN Append(u, r) ELSE u
  BY OfClassStep
<1> HIDE DEF R, step
<1>5. PICK f \in [0..Len(s) -> Seq(R)] : IsFold(f, <<>>, step, s)
  BY <1>2, <1>3, FoldExists
<1>6. ASSUME NEW h, NEW i \in 1..Len(s), h[i - 1] \in Seq(R)
      PROVE  e(h)[i] = step[<<h[i - 1], s[i]>>]
  <2>1. i # 0 /\ i \in 0..Len(s) /\ s[i] \in R
    BY <1>2
  <2>2. QED
    BY <1>4, <1>6, <2>1
<1>7. f = e(f)
  <2>1. ASSUME NEW i \in 0..Len(s)
        PROVE  f[i] = e(f)[i]
    <3>1. CASE i = 0
      BY <1>5, <3>1 DEF IsFold
    <3>2. CASE i # 0
      <4>1. i \in 1..Len(s) /\ f[i - 1] \in Seq(R)
        BY <1>2, <3>2
      <4>2. QED
        BY <1>5, <1>6, <4>1 DEF IsFold
    <3>3. QED
      BY <3>1, <3>2
  <2>2. QED
    BY <2>1
<1>8. g = e(g)
  <2> HIDE DEF e
  <2>1. QED
    BY <1>7
<1> HIDE DEF g
<1>9. g[0] = <<>>
  BY <1>2, <1>8
<1>10. ASSUME NEW i \in 1..Len(s), g[i - 1] \in Seq(R)
       PROVE  g[i] = step[<<g[i - 1], s[i]>>]
  BY <1>6, <1>8, <1>10
<1>11. IsFold(g, <<>>, step, s) /\ \A i \in 0..Len(s) : g[i] \in Seq(R)
  <2> HIDE DEF e
  <2>1. IsFoldIn(Seq(R), g, <<>>, step, s)
    BY <1>9, <1>10 DEF IsFoldIn
  <2>2. QED
    BY <1>2, <1>3, <2>1, FoldTyped
<1>12. QED
  BY <1>1, <1>11 DEF R, step

LEMMA OfClassAppends ==
  ASSUME NEW c, NEW s \in Seq(WindowsInput!Reports),
         NEW r \in WindowsInput!Reports
  PROVE  /\ WindowsInput!OfClass(c, s) \in Seq(WindowsInput!Reports)
         /\ WindowsInput!OfClass(c, Append(s, r))
              = IF r.class = c THEN Append(WindowsInput!OfClass(c, s), r)
                ELSE WindowsInput!OfClass(c, s)
<1> DEFINE t == Append(s, r)
<1>1. t \in Seq(WindowsInput!Reports) /\ Len(t) = Len(s) + 1 /\ Len(s) \in Nat
  OBVIOUS
<1>2. PICK f : /\ IsFold(f, <<>>, ClassFold(c), s)
               /\ \A i \in 0..Len(s) : f[i] \in Seq(WindowsInput!Reports)
               /\ WindowsInput!OfClass(c, s) = f[Len(s)]
  BY OfClassFolds
<1>3. PICK g : /\ IsFold(g, <<>>, ClassFold(c), t)
               /\ WindowsInput!OfClass(c, t) = g[Len(t)]
  <2> HIDE DEF t
  <2> QED BY <1>1, OfClassFolds
<1>4. g[Len(s) + 1] = ClassFold(c)[<<f[Len(s)], r>>]
  BY <1>2, <1>3, FoldAppend
<1>5. f[Len(s)] \in Seq(WindowsInput!Reports)
  BY <1>1, <1>2
<1>6. QED
  BY <1>1, <1>2, <1>3, <1>4, <1>5, OfClassStep

LEMMA OfClassEmpty ==
  ASSUME NEW c
  PROVE  WindowsInput!OfClass(c, <<>>) = <<>>
<1> DEFINE s == <<>>
<1>1. s \in Seq(WindowsInput!Reports) /\ Len(s) = 0
  OBVIOUS
<1> HIDE DEF s
<1>2. WindowsInput!OfClass(c, s) = <<>>
  BY <1>1, OfClassFolds DEF IsFold
<1>3. QED
  BY <1>2 DEF s

\* So is Transitions(), whose states are 0 and 1.
TransitionFold ==
  [p \in Seq(0..1) \X WindowsInput!Reports |->
     WindowsInput!Extended(p[1], p[2])]

LEMMA TransitionsStep ==
  ASSUME TRUE
  PROVE  /\ TransitionFold
              \in [Seq(0..1) \X WindowsInput!Reports -> Seq(0..1)]
  /\ \A u \in Seq(0..1), r \in WindowsInput!Reports :
       TransitionFold[<<u, r>>] = WindowsInput!Extended(u, r)
<1>1. \A p \in Seq(0..1) \X WindowsInput!Reports :
        p[1] \in Seq(0..1) /\ p[2].discrete \in 0..1 /\ Append(p[1], p[2].discrete) \in Seq(0..1)
  BY DEF WindowsInput!Reports
<1>2. \A p \in Seq(0..1) \X WindowsInput!Reports :
        WindowsInput!Extended(p[1], p[2]) \in Seq(0..1)
  BY <1>1 DEF WindowsInput!Extended
<1>3. QED
  BY <1>2 DEF TransitionFold

LEMMA TransitionsFolds ==
  ASSUME NEW s \in Seq(WindowsInput!Reports)
  PROVE  \E f : /\ IsFold(f, <<>>, TransitionFold, s)
                /\ \A i \in 0..Len(s) : f[i] \in Seq(0..1)
                /\ WindowsInput!Transitions(s) = f[Len(s)]
<1> DEFINE R == WindowsInput!Reports
           step == TransitionFold
           e(f) == [i \in 0..Len(s) |-> IF i = 0 THEN <<>>
                      ELSE WindowsInput!Extended(f[i - 1], s[i])]
           g == CHOOSE f : f = e(f)
<1>1. WindowsInput!Transitions(s) = g[Len(s)]
  BY DEF WindowsInput!Transitions
<1>2. <<>> \in Seq(0..1) /\ Len(s) \in Nat /\ s \in Seq(R)
  OBVIOUS
<1>3. step \in [Seq(0..1) \X R -> Seq(0..1)]
  BY TransitionsStep
<1>4. \A u \in Seq(0..1), r \in R : step[<<u, r>>] = WindowsInput!Extended(u, r)
  BY TransitionsStep
<1> HIDE DEF R, step
<1>5. PICK f \in [0..Len(s) -> Seq(0..1)] : IsFold(f, <<>>, step, s)
  BY <1>2, <1>3, FoldExists
<1>6. ASSUME NEW h, NEW i \in 1..Len(s), h[i - 1] \in Seq(0..1)
      PROVE  e(h)[i] = step[<<h[i - 1], s[i]>>]
  <2>1. i # 0 /\ i \in 0..Len(s) /\ s[i] \in R
    BY <1>2
  <2>2. QED
    BY <1>4, <1>6, <2>1
<1>7. f = e(f)
  <2>1. ASSUME NEW i \in 0..Len(s)
        PROVE  f[i] = e(f)[i]
    <3>1. CASE i = 0
      BY <1>5, <3>1 DEF IsFold
    <3>2. CASE i # 0
      <4>1. i \in 1..Len(s) /\ f[i - 1] \in Seq(0..1)
        BY <1>2, <3>2
      <4>2. QED
        BY <1>5, <1>6, <4>1 DEF IsFold
    <3>3. QED
      BY <3>1, <3>2
  <2>2. QED
    BY <2>1
<1>8. g = e(g)
  <2> HIDE DEF e
  <2>1. QED
    BY <1>7
<1> HIDE DEF g
<1>9. g[0] = <<>>
  BY <1>2, <1>8
<1>10. ASSUME NEW i \in 1..Len(s), g[i - 1] \in Seq(0..1)
       PROVE  g[i] = step[<<g[i - 1], s[i]>>]
  BY <1>6, <1>8, <1>10
<1>11. IsFold(g, <<>>, step, s) /\ \A i \in 0..Len(s) : g[i] \in Seq(0..1)
  <2> HIDE DEF e
  <2>1. IsFoldIn(Seq(0..1), g, <<>>, step, s)
    BY <1>9, <1>10 DEF IsFoldIn
  <2>2. QED
    BY <1>2, <1>3, <2>1, FoldTyped
<1>12. QED
  BY <1>1, <1>11 DEF R, step

LEMMA TransitionsAppends ==
  ASSUME NEW s \in Seq(WindowsInput!Reports),
         NEW r \in WindowsInput!Reports
  PROVE  /\ WindowsInput!Transitions(s) \in Seq(0..1)
         /\ WindowsInput!Transitions(Append(s, r))
              = WindowsInput!Extended(WindowsInput!Transitions(s), r)
<1> DEFINE t == Append(s, r)
<1>1. t \in Seq(WindowsInput!Reports) /\ Len(t) = Len(s) + 1 /\ Len(s) \in Nat
  OBVIOUS
<1>2. PICK f : /\ IsFold(f, <<>>, TransitionFold, s)
               /\ \A i \in 0..Len(s) : f[i] \in Seq(0..1)
               /\ WindowsInput!Transitions(s) = f[Len(s)]
  BY TransitionsFolds
<1>3. PICK g : /\ IsFold(g, <<>>, TransitionFold, t)
               /\ WindowsInput!Transitions(t) = g[Len(t)]
  <2> HIDE DEF t
  <2> QED BY <1>1, TransitionsFolds
<1>4. g[Len(s) + 1] = TransitionFold[<<f[Len(s)], r>>]
  BY <1>2, <1>3, FoldAppend
<1>5. f[Len(s)] \in Seq(0..1)
  BY <1>1, <1>2
<1>6. QED
  BY <1>1, <1>2, <1>3, <1>4, <1>5, TransitionsStep

LEMMA TransitionsEmpty ==
  WindowsInput!Transitions(<<>>) = <<>>
<1> DEFINE s == <<>>
<1>1. s \in Seq(WindowsInput!Reports) /\ Len(s) = 0
  OBVIOUS
<1> HIDE DEF s
<1>2. WindowsInput!Transitions(s) = <<>>
  BY <1>1, TransitionsFolds DEF IsFold
<1>3. QED
  BY <1>2 DEF s

\* And Motion().
MotionFold(axis) ==
  [p \in Int \X WindowsInput!Reports |->
     p[1] + p[2][axis]]

LEMMA MotionStep ==
  ASSUME NEW a \in {"x", "wheel"}
  PROVE  /\ MotionFold(a)
              \in [Int \X WindowsInput!Reports -> Int]
         /\ \A u \in Int, r \in WindowsInput!Reports :
              MotionFold(a)[<<u, r>>] = u + r[a]
<1>1. \A p \in Int \X WindowsInput!Reports : p[1] \in Int /\ p[2][a] \in Int
  BY DEF WindowsInput!Reports
<1>2. QED
  BY <1>1 DEF MotionFold

LEMMA MotionFolds ==
  ASSUME NEW a \in {"x", "wheel"}, NEW s \in Seq(WindowsInput!Reports)
  PROVE  \E f : /\ IsFold(f, 0, MotionFold(a), s)
                /\ \A i \in 0..Len(s) : f[i] \in Int
                /\ WindowsInput!Motion(a, s) = f[Len(s)]
<1> DEFINE R == WindowsInput!Reports
           step == MotionFold(a)
           e(f) == [i \in 0..Len(s) |-> IF i = 0 THEN 0
                      ELSE f[i - 1] + s[i][a]]
           g == CHOOSE f : f = e(f)
<1>1. WindowsInput!Motion(a, s) = g[Len(s)]
  BY DEF WindowsInput!Motion
<1>2. 0 \in Int /\ Len(s) \in Nat /\ s \in Seq(R)
  OBVIOUS
<1>3. step \in [Int \X R -> Int]
  BY MotionStep
<1>4. \A u \in Int, r \in R : step[<<u, r>>] = u + r[a]
  BY MotionStep
<1> HIDE DEF R, step
<1>5. PICK f \in [0..Len(s) -> Int] : IsFold(f, 0, step, s)
  BY <1>2, <1>3, FoldExists
<1>6. ASSUME NEW h, NEW i \in 1..Len(s), h[i - 1] \in Int
      PROVE  e(h)[i] = step[<<h[i - 1], s[i]>>]
  <2>1. i # 0 /\ i \in 0..Len(s) /\ s[i] \in R
    BY <1>2
  <2>2. QED
    BY <1>4, <1>6, <2>1
<1>7. f = e(f)
  <2>1. ASSUME NEW i \in 0..Len(s)
        PROVE  f[i] = e(f)[i]
    <3>1. CASE i = 0
      BY <1>5, <3>1 DEF IsFold
    <3>2. CASE i # 0
      <4>1. i \in 1..Len(s) /\ f[i - 1] \in Int
        BY <1>2, <3>2
      <4>2. QED
        BY <1>5, <1>6, <4>1 DEF IsFold
    <3>3. QED
      BY <3>1, <3>2
  <2>2. QED
    BY <2>1
<1>8. g = e(g)
  <2> HIDE DEF e
  <2>1. QED
    BY <1>7
<1> HIDE DEF g
<1>9. g[0] = 0
  BY <1>2, <1>8
<1>10. ASSUME NEW i \in 1..Len(s), g[i - 1] \in Int
       PROVE  g[i] = step[<<g[i - 1], s[i]>>]
  BY <1>6, <1>8, <1>10
<1>11. IsFold(g, 0, step, s) /\ \A i \in 0..Len(s) : g[i] \in Int
  <2> HIDE DEF e
  <2>1. IsFoldIn(Int, g, 0, step, s)
    BY <1>9, <1>10 DEF IsFoldIn
  <2>2. QED
    BY <1>2, <1>3, <2>1, FoldTyped
<1>12. QED
  BY <1>1, <1>11 DEF R, step

LEMMA MotionAppends ==
  ASSUME NEW a \in {"x", "wheel"}, NEW s \in Seq(WindowsInput!Reports),
         NEW r \in WindowsInput!Reports
  PROVE  /\ WindowsInput!Motion(a, s) \in Int
         /\ WindowsInput!Motion(a, Append(s, r))
              = WindowsInput!Motion(a, s) + r[a]
<1> DEFINE t == Append(s, r)
<1>1. t \in Seq(WindowsInput!Reports) /\ Len(t) = Len(s) + 1 /\ Len(s) \in Nat
  OBVIOUS
<1>2. PICK f : /\ IsFold(f, 0, MotionFold(a), s)
               /\ \A i \in 0..Len(s) : f[i] \in Int
               /\ WindowsInput!Motion(a, s) = f[Len(s)]
  BY MotionFolds
<1>3. PICK g : /\ IsFold(g, 0, MotionFold(a), t)
               /\ WindowsInput!Motion(a, t) = g[Len(t)]
  <2> HIDE DEF t
  <2> QED BY <1>1, MotionFolds
<1>4. g[Len(s) + 1] = MotionFold(a)[<<f[Len(s)], r>>]
  BY <1>2, <1>3, FoldAppend
<1>5. f[Len(s)] \in Int
  BY <1>1, <1>2
<1>6. QED
  BY <1>1, <1>2, <1>3, <1>4, <1>5, MotionStep

LEMMA MotionEmpty ==
  ASSUME NEW a \in {"x", "wheel"}
  PROVE  WindowsInput!Motion(a, <<>>) = 0
<1> DEFINE s == <<>>
<1>1. s \in Seq(WindowsInput!Reports) /\ Len(s) = 0
  OBVIOUS
<1> HIDE DEF s
<1>2. WindowsInput!Motion(a, s) = 0
  BY <1>1, MotionFolds DEF IsFold
<1>3. QED
  BY <1>2 DEF s

Classes == {"protocol", "mouse", "state"}

\* Sequences that come to the same states do so whatever follows.
LEMMA TransitionsAlike ==
  ASSUME NEW u \in Seq(WindowsInput!Reports), NEW v \in Seq(WindowsInput!Reports),
         NEW w \in Seq(WindowsInput!Reports),
         WindowsInput!Transitions(u) = WindowsInput!Transitions(v)
  PROVE  WindowsInput!Transitions(u \o w) = WindowsInput!Transitions(v \o w)
<1> DEFINE R == WindowsInput!Reports
           S == {s \in Seq(R) : WindowsInput!Transitions(u \o s) = WindowsInput!Transitions(v \o s)}
<1>1. <<>> \in S
  <2>1. u \o <<>> = u /\ v \o <<>> = v /\ <<>> \in Seq(R)
    OBVIOUS
  <2>2. QED
    BY <2>1
<1>2. ASSUME NEW s \in Seq(R), NEW r \in R, s \in S
      PROVE  Append(s, r) \in S
  <2>1. /\ u \o Append(s, r) = Append(u \o s, r) /\ v \o Append(s, r) = Append(v \o s, r)
        /\ u \o s \in Seq(R) /\ v \o s \in Seq(R) /\ Append(s, r) \in Seq(R)
    OBVIOUS
  <2>2. /\ WindowsInput!Transitions(Append(u \o s, r))
             = WindowsInput!Extended(WindowsInput!Transitions(u \o s), r)
        /\ WindowsInput!Transitions(Append(v \o s, r))
             = WindowsInput!Extended(WindowsInput!Transitions(v \o s), r)
    BY <2>1, TransitionsAppends
  <2>3. QED
    BY <1>2, <2>1, <2>2
<1>3. Seq(R) \subseteq S
  <2> HIDE DEF S, R
  <2> QED BY <1>1, <1>2, SeqInduction
<1>4. QED
  BY <1>3

\* The last state is that of the last report.
LEMMA TransitionsEnd ==
  ASSUME NEW s \in Seq(WindowsInput!Reports), NEW r \in WindowsInput!Reports
  PROVE  LET t == WindowsInput!Transitions(Append(s, r))
         IN t # <<>> /\ Len(t) \in Nat /\ t[Len(t)] = r.discrete
<1> DEFINE u == WindowsInput!Transitions(s)
           d == r.discrete
<1>1. u \in Seq(0..1) /\ d \in 0..1
  BY TransitionsAppends DEF WindowsInput!Reports
<1>2. WindowsInput!Transitions(Append(s, r)) = IF u # <<>> /\ u[Len(u)] = d THEN u ELSE Append(u, d)
  BY TransitionsAppends DEF WindowsInput!Extended, WindowsInput!Last
<1> HIDE DEF u, d
<1>3. Append(u, d) # <<>> /\ Len(Append(u, d)) = Len(u) + 1 /\ Append(u, d)[Len(u) + 1] = d
      /\ Len(u) \in Nat
  BY <1>1
<1>4. QED
  BY <1>2, <1>3 DEF d

\* A report like the one before shows nothing new.
LEMMA TransitionsRepeat ==
  ASSUME NEW s \in Seq(WindowsInput!Reports), NEW r \in WindowsInput!Reports,
         NEW q \in WindowsInput!Reports, r.discrete = q.discrete
  PROVE  /\ WindowsInput!Transitions(Append(s, r)) = WindowsInput!Transitions(Append(s, q))
         /\ WindowsInput!Transitions(Append(Append(s, r), q))
              = WindowsInput!Transitions(Append(s, r))
<1> DEFINE t == WindowsInput!Transitions(Append(s, r))
<1>1. WindowsInput!Transitions(Append(s, r)) = WindowsInput!Transitions(Append(s, q))
  BY TransitionsAppends DEF WindowsInput!Extended
<1>2. t # <<>> /\ t[Len(t)] = r.discrete
  BY TransitionsEnd
<1>3. Append(s, r) \in Seq(WindowsInput!Reports)
  OBVIOUS
<1>4. WindowsInput!Transitions(Append(Append(s, r), q)) = WindowsInput!Extended(t, q)
  BY <1>3, TransitionsAppends
<1> HIDE DEF t
<1>5. WindowsInput!Extended(t, q) = t
  BY <1>2 DEF WindowsInput!Extended, WindowsInput!Last
<1>6. QED
  BY <1>1, <1>4, <1>5 DEF t

\* Motion adds up.
LEMMA MotionAdds ==
  ASSUME NEW a \in {"x", "wheel"}, NEW u \in Seq(WindowsInput!Reports),
         NEW w \in Seq(WindowsInput!Reports)
  PROVE  /\ WindowsInput!Motion(a, u \o w) = WindowsInput!Motion(a, u) + WindowsInput!Motion(a, w)
         /\ WindowsInput!Motion(a, u) \in Int /\ WindowsInput!Motion(a, w) \in Int
<1> DEFINE R == WindowsInput!Reports
           S == {s \in Seq(R) : WindowsInput!Motion(a, u \o s)
                                  = WindowsInput!Motion(a, u) + WindowsInput!Motion(a, s)}
<1>1. \A s \in Seq(R) : WindowsInput!Motion(a, s) \in Int
  <2>1. TAKE s \in Seq(R)
  <2>2. CASE s = <<>>
    BY <2>2, MotionEmpty
  <2>3. CASE s # <<>>
    <3>1. s[1] \in R
      BY <2>3
    <3>2. QED
      BY <3>1, MotionAppends
  <2>4. QED
    BY <2>2, <2>3
<1>2. <<>> \in S
  <2>1. u \o <<>> = u /\ <<>> \in Seq(R)
    OBVIOUS
  <2>2. QED
    BY <1>1, <2>1, MotionEmpty
<1>3. ASSUME NEW s \in Seq(R), NEW r \in R, s \in S
      PROVE  Append(s, r) \in S
  <2>1. /\ u \o Append(s, r) = Append(u \o s, r)
        /\ u \o s \in Seq(R) /\ Append(s, r) \in Seq(R)
    OBVIOUS
  <2>2. /\ WindowsInput!Motion(a, Append(u \o s, r)) = WindowsInput!Motion(a, u \o s) + r[a]
        /\ WindowsInput!Motion(a, Append(s, r)) = WindowsInput!Motion(a, s) + r[a]
        /\ r[a] \in Int
    BY <2>1, MotionAppends DEF WindowsInput!Reports
  <2>3. /\ WindowsInput!Motion(a, u \o s) = WindowsInput!Motion(a, u) + WindowsInput!Motion(a, s)
        /\ WindowsInput!Motion(a, u) \in Int /\ WindowsInput!Motion(a, s) \in Int
    BY <1>1, <1>3
  <2>4. WindowsInput!Motion(a, u \o Append(s, r))
          = WindowsInput!Motion(a, u) + WindowsInput!Motion(a, Append(s, r))
    BY <2>1, <2>2, <2>3
  <2>5. QED
    BY <2>1, <2>4
<1>4. Seq(R) \subseteq S
  <2> HIDE DEF S, R
  <2> QED BY <1>2, <1>3, SeqInduction
<1>5. QED
  BY <1>1, <1>4

\* One report, of its class or of another.
LEMMA OneReport ==
  ASSUME NEW r \in WindowsInput!Reports
  PROVE  /\ \A c : WindowsInput!OfClass(c, <<r>>) = IF r.class = c THEN <<r>> ELSE <<>>
         /\ \A a \in {"x", "wheel"} : WindowsInput!Motion(a, <<r>>) = r[a]
<1>1. <<>> \in Seq(WindowsInput!Reports) /\ Append(<<>>, r) = <<r>>
  OBVIOUS
<1>2. ASSUME NEW c
      PROVE  WindowsInput!OfClass(c, <<r>>) = IF r.class = c THEN <<r>> ELSE <<>>
  <2>1. WindowsInput!OfClass(c, Append(<<>>, r))
          = IF r.class = c THEN Append(WindowsInput!OfClass(c, <<>>), r)
            ELSE WindowsInput!OfClass(c, <<>>)
    BY <1>1, OfClassAppends
  <2>2. WindowsInput!OfClass(c, <<>>) = <<>>
    BY OfClassEmpty
  <2>3. QED
    BY <1>1, <2>1, <2>2
<1>3. ASSUME NEW a \in {"x", "wheel"}
      PROVE  WindowsInput!Motion(a, <<r>>) = r[a]
  <2>1. r[a] \in Int
    BY DEF WindowsInput!Reports
  <2>2. WindowsInput!Motion(a, Append(<<>>, r)) = WindowsInput!Motion(a, <<>>) + r[a]
    BY <1>1, MotionAppends
  <2>3. QED
    BY <1>1, <2>1, <2>2, MotionEmpty
<1>4. QED
  BY <1>2, <1>3

-----------------------------------------------------------------------------
(* What a stream of reports tells of what was given: as a report is queued,   *)
(* joined to another, dropped or split.                                      *)

Losses == [report : WindowsInput!Reports, class : Classes]

\* Reports that come to VHF tell what was sent, of one class: the states, in order and
\* all of them unless some were lost; and the newest, which is number n.
TellsAll(k, c, stream, given, losses) ==
  losses = <<>> =>
    IF k = "keyboard" \/ c = "protocol" THEN stream = given
    ELSE WindowsInput!Transitions(stream) = WindowsInput!Transitions(given)

TellsNewest(stream, given, losses, n) ==
  given # <<>> =>
    \/ stream # <<>> /\ stream[Len(stream)].n = n
    \/ \E i \in DOMAIN losses : losses[i].report.n = n /\ losses[i].class = "protocol"

NoneNewer(stream, n) == \A i \in DOMAIN stream : stream[i].n <= n

Kept(k, c, stream, given, losses, n) ==
  TellsAll(k, c, stream, given, losses) /\ TellsNewest(stream, given, losses, n)
    /\ NoneNewer(stream, n)

\* A sequence with one element more, and its reports.
LEMMA Ends ==
  ASSUME NEW R, NEW s \in Seq(R), NEW r \in R
  PROVE  /\ Append(s, r) \in Seq(R) /\ Append(s, r) # <<>> /\ Len(Append(s, r)) = Len(s) + 1
         /\ Len(s) \in Nat /\ Append(s, r)[Len(s) + 1] = r
         /\ DOMAIN Append(s, r) = 1..(Len(s) + 1)
         /\ \A i \in 1..Len(s) : Append(s, r)[i] = s[i]
OBVIOUS

LEMMA NumbersKept ==
  ASSUME NEW s \in Seq(WindowsInput!Reports)
  PROVE  /\ \A r \in WindowsInput!Reports : r.n \in Nat
         /\ \A i \in 1..Len(s) : s[i] \in WindowsInput!Reports /\ s[i].n \in Nat
<1>1. \A r \in WindowsInput!Reports : r.n \in Nat
  BY DEF WindowsInput!Reports
<1>2. \A i \in 1..Len(s) : s[i] \in WindowsInput!Reports
  OBVIOUS
<1>3. QED
  BY <1>1, <1>2

\* A sequence after another.
LEMMA Joined ==
  ASSUME NEW R, NEW u \in Seq(R), NEW w \in Seq(R)
  PROVE  /\ u \o w \in Seq(R) /\ Len(u \o w) = Len(u) + Len(w)
         /\ Len(u) \in Nat /\ Len(w) \in Nat /\ DOMAIN (u \o w) = 1..(Len(u) + Len(w))
         /\ \A i \in 1..Len(u) : (u \o w)[i] = u[i]
         /\ \A i \in 1..Len(w) : (u \o w)[Len(u) + i] = w[i]
<1>1. u \o w \in Seq(R) /\ Len(u \o w) = Len(u) + Len(w) /\ Len(u) \in Nat /\ Len(w) \in Nat
  OBVIOUS
<1>2. \A i \in 1..(Len(u) + Len(w)) : (u \o w)[i] = IF i <= Len(u) THEN u[i] ELSE w[i - Len(u)]
  BY ConcatProperties
<1>3. \A i \in 1..Len(u) : i \in 1..(Len(u) + Len(w)) /\ i <= Len(u)
  BY <1>1
<1>4. \A i \in 1..Len(w) : /\ Len(u) + i \in 1..(Len(u) + Len(w)) /\ ~(Len(u) + i <= Len(u))
                           /\ (Len(u) + i) - Len(u) = i
  BY <1>1
<1>5. QED
  BY <1>1, <1>2, <1>3, <1>4

\* A report is queued behind the others, or joins the last of them.
LEMMA QueuedIsKept ==
  ASSUME NEW k, NEW c, NEW stream \in Seq(WindowsInput!Reports),
         NEW given \in Seq(WindowsInput!Reports), NEW losses, NEW n \in Nat,
         NEW r \in WindowsInput!Reports, n <= r.n,
         TellsAll(k, c, stream, given, losses), NoneNewer(stream, n)
  PROVE  Kept(k, c, Append(stream, r), Append(given, r), losses, r.n)
<1>1. r.n \in Nat /\ \A i \in 1..Len(stream) : stream[i].n \in Nat
  BY NumbersKept
<1>2. TellsAll(k, c, Append(stream, r), Append(given, r), losses)
  BY TransitionsAppends DEF TellsAll
<1>3. TellsNewest(Append(stream, r), Append(given, r), losses, r.n)
  BY Ends DEF TellsNewest
<1>4. NoneNewer(Append(stream, r), r.n)
  <2>1. \A i \in 1..Len(stream) : stream[i].n <= r.n
    BY <1>1 DEF NoneNewer
  <2>2. QED
    BY <1>1, <2>1, Ends DEF NoneNewer
<1>5. QED
  BY <1>2, <1>3, <1>4 DEF Kept

LEMMA JoinedIsKept ==
  ASSUME NEW k, NEW c, NEW s \in Seq(WindowsInput!Reports),
         NEW given \in Seq(WindowsInput!Reports), NEW losses, NEW n \in Nat,
         NEW old \in WindowsInput!Reports, NEW r \in WindowsInput!Reports,
         NEW m \in WindowsInput!Reports,
         k # "keyboard", c # "protocol", n <= r.n, m.n = r.n,
         old.discrete = r.discrete, m.discrete = r.discrete,
         TellsAll(k, c, Append(s, old), given, losses), NoneNewer(Append(s, old), n)
  PROVE  Kept(k, c, Append(s, m), Append(given, r), losses, r.n)
<1>1. r.n \in Nat /\ \A i \in 1..Len(s) : s[i].n \in Nat
  BY NumbersKept
<1>2. TellsAll(k, c, Append(s, m), Append(given, r), losses)
  <2>1. SUFFICES ASSUME losses = <<>>
                 PROVE  WindowsInput!Transitions(Append(s, m))
                          = WindowsInput!Transitions(Append(given, r))
    BY DEF TellsAll
  <2>2. WindowsInput!Transitions(Append(s, old)) = WindowsInput!Transitions(given)
    BY <2>1 DEF TellsAll
  <2>3. WindowsInput!Transitions(Append(given, r))
          = WindowsInput!Extended(WindowsInput!Transitions(Append(s, old)), r)
    BY <2>2, TransitionsAppends
  <2>4. WindowsInput!Transitions(Append(Append(s, old), r))
          = WindowsInput!Extended(WindowsInput!Transitions(Append(s, old)), r)
    BY Ends, TransitionsAppends
  <2>5. WindowsInput!Transitions(Append(Append(s, old), r))
          = WindowsInput!Transitions(Append(s, old))
    BY TransitionsRepeat
  <2>6. WindowsInput!Transitions(Append(s, old)) = WindowsInput!Transitions(Append(s, m))
    BY TransitionsRepeat
  <2>7. QED
    BY <2>3, <2>4, <2>5, <2>6
<1>3. TellsNewest(Append(s, m), Append(given, r), losses, r.n)
  BY Ends DEF TellsNewest
<1>4. NoneNewer(Append(s, m), r.n)
  <2>1. \A i \in 1..Len(s) : s[i].n <= r.n
    <3>1. \A i \in 1..Len(s) : s[i].n <= n
      BY Ends DEF NoneNewer
    <3>2. QED
      BY <1>1, <3>1
  <2>2. QED
    BY <1>1, <2>1, Ends DEF NoneNewer
<1>5. QED
  BY <1>2, <1>3, <1>4 DEF Kept

\* The oldest waiting report gives way.
LEMMA WithoutFirst ==
  ASSUME NEW R, NEW u \in Seq(R), NEW w \in Seq(R), w # <<>>
  PROVE  /\ Head(w) \in R /\ Tail(w) \in Seq(R) /\ w = <<Head(w)>> \o Tail(w)
         /\ u \o w \in Seq(R) /\ u \o Tail(w) \in Seq(R)
         /\ u \o w = (u \o <<Head(w)>>) \o Tail(w)
         /\ u \o <<Head(w)>> = Append(u, Head(w)) /\ u \o <<Head(w)>> \in Seq(R)
<1> DEFINE t == Tail(w)
           h == Head(w)
<1>1. h \in R /\ t \in Seq(R) /\ w = <<h>> \o t
  OBVIOUS
<1> HIDE DEF t, h
<1>2. <<h>> \in Seq(R) /\ u \o <<h>> = Append(u, h) /\ u \o <<h>> \in Seq(R)
  BY <1>1
<1>3. u \o w = (u \o <<h>>) \o t /\ u \o w \in Seq(R) /\ u \o t \in Seq(R)
  BY <1>1, <1>2, ConcatAssociative
<1>4. QED
  BY <1>1, <1>2, <1>3 DEF t, h

Within(s, t) == \A i \in DOMAIN s : \E j \in DOMAIN t : s[i] = t[j]

\* Without its first, a sequence has nothing new, and ends as before.
LEMMA WithoutFirstLess ==
  ASSUME NEW R, NEW u \in Seq(R), NEW w \in Seq(R), w # <<>>
  PROVE  /\ Within(u \o Tail(w), u \o w)
         /\ Len(w) > 1 => /\ u \o Tail(w) # <<>>
                          /\ (u \o Tail(w))[Len(u \o Tail(w))] = (u \o w)[Len(u \o w)]
<1> DEFINE t == Tail(w)
           h == Head(w)
<1>1. /\ h \in R /\ t \in Seq(R) /\ Len(t) = Len(w) - 1 /\ Len(w) \in Nat \ {0}
      /\ \A i \in 1..Len(t) : t[i] = w[i + 1]
      /\ h = w[1]
  OBVIOUS
<1> HIDE DEF t, h
<1>2. /\ u \o w \in Seq(R) /\ Len(u \o w) = Len(u) + Len(w) /\ Len(u) \in Nat
      /\ DOMAIN (u \o w) = 1..(Len(u) + Len(w))
      /\ \A i \in 1..Len(u) : (u \o w)[i] = u[i]
      /\ \A i \in 1..Len(w) : (u \o w)[Len(u) + i] = w[i]
  BY Joined
<1>3. /\ u \o t \in Seq(R) /\ Len(u \o t) = Len(u) + Len(t) /\ Len(t) \in Nat
      /\ DOMAIN (u \o t) = 1..(Len(u) + Len(t))
      /\ \A i \in 1..Len(u) : (u \o t)[i] = u[i]
      /\ \A i \in 1..Len(t) : (u \o t)[Len(u) + i] = t[i]
  <2>1. t \in Seq(R)
    BY <1>1
  <2>2. QED
    BY <2>1, Joined
<1>4. ASSUME NEW i \in DOMAIN (u \o t)
      PROVE  \E j \in DOMAIN (u \o w) : (u \o t)[i] = (u \o w)[j]
  <2>1. i \in 1..(Len(u) + Len(t)) /\ DOMAIN (u \o w) = 1..(Len(u) + Len(w))
    BY <1>1, <1>2, <1>3
  <2>2. CASE i <= Len(u)
    <3>1. i \in 1..Len(u) /\ i \in 1..(Len(u) + Len(w))
      BY <1>1, <1>2, <2>1, <2>2
    <3>2. (u \o t)[i] = (u \o w)[i]
      BY <1>2, <1>3, <3>1
    <3>3. QED
      BY <2>1, <3>1, <3>2
  <2>3. CASE i > Len(u)
    <3>1. PICK m \in 1..Len(t) : i = Len(u) + m
      <4>1. i - Len(u) \in 1..Len(t) /\ i = Len(u) + (i - Len(u))
        BY <1>1, <1>2, <2>1, <2>3
      <4>2. QED
        BY <4>1
    <3>2. m + 1 \in 1..Len(w) /\ Len(u) + (m + 1) \in 1..(Len(u) + Len(w))
      BY <1>1, <1>2, <3>1
    <3>3. (u \o t)[i] = t[m] /\ t[m] = w[m + 1] /\ (u \o w)[Len(u) + (m + 1)] = w[m + 1]
      BY <1>1, <1>2, <1>3, <3>1, <3>2
    <3>4. QED
      BY <2>1, <3>2, <3>3
  <2>4. QED
    BY <1>2, <2>1, <2>2, <2>3
<1>5. ASSUME Len(w) > 1
      PROVE  u \o t # <<>> /\ (u \o t)[Len(u \o t)] = (u \o w)[Len(u \o w)]
  <2>1. Len(t) \in 1..Len(t) /\ Len(w) \in 1..Len(w) /\ Len(t) + 1 = Len(w)
    BY <1>1, <1>5
  <2>2. (u \o t)[Len(u) + Len(t)] = t[Len(t)] /\ t[Len(t)] = w[Len(w)]
        /\ (u \o w)[Len(u) + Len(w)] = w[Len(w)]
    BY <1>1, <1>2, <1>3, <2>1
  <2>3. u \o t # <<>>
    BY <1>2, <1>3, <2>1
  <2>4. QED
    BY <1>2, <1>3, <2>2, <2>3
<1>6. QED
  BY <1>4, <1>5 DEF t, Within

\* A report is dropped, and the newest is there or it gave way to a reply.
LEMMA LossIsKept ==
  ASSUME NEW k, NEW c, NEW u \in Seq(WindowsInput!Reports),
         NEW w \in Seq(WindowsInput!Reports), w # <<>>, NEW given,
         NEW losses \in Seq(Losses), NEW l \in Losses, NEW n \in Nat,
         l.report = Head(w), l.class = "protocol" \/ Len(w) > 1,
         Kept(k, c, u \o w, given, losses, n)
  PROVE  Kept(k, c, u \o Tail(w), given, Append(losses, l), n)
<1>1. /\ Append(losses, l) # <<>> /\ Append(losses, l)[Len(losses) + 1] = l
      /\ DOMAIN Append(losses, l) = 1..(Len(losses) + 1) /\ Len(losses) \in Nat
      /\ \A i \in 1..Len(losses) : Append(losses, l)[i] = losses[i]
      /\ DOMAIN losses = 1..Len(losses)
  BY Ends
<1>2. TellsAll(k, c, u \o Tail(w), given, Append(losses, l))
  BY <1>1 DEF TellsAll
<1>3. TellsNewest(u \o Tail(w), given, Append(losses, l), n)
  <2>1. SUFFICES ASSUME given # <<>>
                 PROVE  \/ u \o Tail(w) # <<>> /\ (u \o Tail(w))[Len(u \o Tail(w))].n = n
                        \/ \E i \in DOMAIN Append(losses, l) :
                             /\ Append(losses, l)[i].report.n = n
                             /\ Append(losses, l)[i].class = "protocol"
    BY DEF TellsNewest
  <2>2. \/ u \o w # <<>> /\ (u \o w)[Len(u \o w)].n = n
        \/ \E i \in DOMAIN losses : losses[i].report.n = n /\ losses[i].class = "protocol"
    BY <2>1 DEF Kept, TellsNewest
  <2>3. CASE \E i \in DOMAIN losses : losses[i].report.n = n /\ losses[i].class = "protocol"
    <3>1. PICK i \in 1..Len(losses) : losses[i].report.n = n /\ losses[i].class = "protocol"
      BY <1>1, <2>3
    <3>2. i \in DOMAIN Append(losses, l) /\ Append(losses, l)[i] = losses[i]
      BY <1>1
    <3>3. QED
      BY <3>1, <3>2
  <2>4. CASE (u \o w)[Len(u \o w)].n = n /\ Len(w) > 1
    <3>1. /\ u \o Tail(w) # <<>>
          /\ (u \o Tail(w))[Len(u \o Tail(w))] = (u \o w)[Len(u \o w)]
      BY <2>4, WithoutFirstLess
    <3>2. QED
      BY <2>4, <3>1
  <2>5. CASE (u \o w)[Len(u \o w)].n = n /\ ~(Len(w) > 1)
    <3>1. (u \o w)[Len(u \o w)] = Head(w)
      <4>1. Len(w) = 1 /\ Head(w) = w[1] /\ 1 \in 1..Len(w)
        <5>1. Len(w) \in Nat /\ Len(w) # 0
          OBVIOUS
        <5>2. Head(w) = w[1]
          OBVIOUS
        <5>3. Len(w) <= 1
          BY <2>5, <5>1
        <5>4. Len(w) = 1
          <6> DEFINE m == Len(w)
          <6>1. m \in Nat /\ m # 0 /\ m <= 1
            BY <5>1, <5>3
          <6> HIDE DEF m
          <6>2. m = 1
            BY <6>1
          <6>3. QED
            BY <6>2 DEF m
        <5>5. QED
          BY <5>2, <5>4
      <4>2. Len(u \o w) = Len(u) + 1 /\ (u \o w)[Len(u) + 1] = w[1]
        BY <4>1, Joined
      <4>3. QED
        BY <4>1, <4>2
    <3>2. l.report.n = n /\ l.class = "protocol"
      BY <2>5, <3>1
    <3>3. Len(losses) + 1 \in DOMAIN Append(losses, l)
      BY <1>1
    <3>4. QED
      BY <1>1, <3>2, <3>3
  <2>6. QED
    BY <2>2, <2>3, <2>4, <2>5
<1>4. NoneNewer(u \o Tail(w), n)
  <2>1. Within(u \o Tail(w), u \o w)
    BY WithoutFirstLess
  <2>2. \A j \in DOMAIN (u \o w) : (u \o w)[j].n <= n
    BY DEF Kept, NoneNewer
  <2>3. QED
    BY <2>1, <2>2 DEF NoneNewer, Within
<1>5. QED
  BY <1>2, <1>3, <1>4 DEF Kept

\* What is lost of one class is none of another.
LEMMA OtherIsKept ==
  ASSUME NEW k, NEW c, NEW stream, NEW given, NEW n,
         NEW losses \in Seq(Losses), NEW l \in Losses,
         Kept(k, c, stream, given, losses, n)
  PROVE  Kept(k, c, stream, given, Append(losses, l), n)
<1>1. /\ Append(losses, l) # <<>> /\ Len(losses) \in Nat
      /\ DOMAIN Append(losses, l) = 1..(Len(losses) + 1)
      /\ \A i \in 1..Len(losses) : Append(losses, l)[i] = losses[i]
      /\ DOMAIN losses = 1..Len(losses)
  BY Ends
<1>2. TellsNewest(stream, given, Append(losses, l), n)
  <2>1. ASSUME NEW i \in DOMAIN losses, losses[i].report.n = n, losses[i].class = "protocol"
        PROVE  i \in DOMAIN Append(losses, l) /\ Append(losses, l)[i] = losses[i]
    BY <1>1
  <2>2. QED
    BY <2>1 DEF Kept, TellsNewest
<1>3. QED
  BY <1>1, <1>2 DEF Kept, TellsAll

\* The end of a sequence after another, and the numbers in both.
LEMMA LastJoined ==
  ASSUME NEW R, NEW u \in Seq(R), NEW w \in Seq(R), w # <<>>
  PROVE  u \o w # <<>> /\ (u \o w)[Len(u \o w)] = w[Len(w)]
<1>1. /\ Len(u \o w) = Len(u) + Len(w) /\ Len(u) \in Nat /\ Len(w) \in Nat
      /\ \A i \in 1..Len(w) : (u \o w)[Len(u) + i] = w[i]
  BY Joined
<1>2. Len(w) \in 1..Len(w) /\ Len(w) # 0
  OBVIOUS
<1>3. Len(u \o w) # 0
  BY <1>1, <1>2
<1>4. QED
  BY <1>1, <1>2, <1>3

LEMMA NoneNewerJoined ==
  ASSUME NEW u \in Seq(WindowsInput!Reports), NEW w \in Seq(WindowsInput!Reports),
         NEW r \in WindowsInput!Reports, NEW n
  PROVE  /\ NoneNewer(u \o w, n) <=> NoneNewer(u, n) /\ NoneNewer(w, n)
         /\ NoneNewer(Append(u, r), n) <=> NoneNewer(u, n) /\ r.n <= n
<1>1. NoneNewer(u \o w, n) <=> NoneNewer(u, n) /\ NoneNewer(w, n)
  <2> DEFINE v == u \o w
  <2>1. /\ Len(u) \in Nat /\ Len(w) \in Nat /\ DOMAIN v = 1..(Len(u) + Len(w))
        /\ \A i \in 1..Len(u) : v[i] = u[i]
        /\ \A i \in 1..Len(w) : v[Len(u) + i] = w[i]
    BY Joined
  <2>2. DOMAIN u = 1..Len(u) /\ DOMAIN w = 1..Len(w)
    OBVIOUS
  <2> HIDE DEF v
  <2>3. ASSUME NoneNewer(v, n)
        PROVE  NoneNewer(u, n) /\ NoneNewer(w, n)
    <3>1. \A i \in 1..Len(u) : i \in DOMAIN v
      BY <2>1
    <3>2. \A i \in 1..Len(w) : Len(u) + i \in DOMAIN v
      BY <2>1
    <3>3. NoneNewer(u, n)
      BY <2>1, <2>2, <2>3, <3>1 DEF NoneNewer
    <3>4. NoneNewer(w, n)
      BY <2>1, <2>2, <2>3, <3>2 DEF NoneNewer
    <3>5. QED
      BY <3>3, <3>4
  <2>4. ASSUME NoneNewer(u, n), NoneNewer(w, n)
        PROVE  NoneNewer(v, n)
    <3>1. SUFFICES ASSUME NEW i \in DOMAIN v PROVE v[i].n <= n
      BY DEF NoneNewer
    <3>2. CASE i <= Len(u)
      <4>1. i \in 1..Len(u)
        BY <2>1, <3>2
      <4>2. QED
        BY <2>1, <2>2, <2>4, <4>1 DEF NoneNewer
    <3>3. CASE i > Len(u)
      <4>1. i - Len(u) \in 1..Len(w) /\ Len(u) + (i - Len(u)) = i
        BY <2>1, <3>3
      <4>2. v[i] = w[i - Len(u)]
        BY <2>1, <4>1
      <4>3. QED
        BY <2>2, <2>4, <4>1, <4>2 DEF NoneNewer
    <3>4. QED
      BY <2>1, <3>2, <3>3
  <2>5. QED
    BY <2>3, <2>4 DEF v
<1>2. NoneNewer(Append(u, r), n) <=> NoneNewer(u, n) /\ r.n <= n
  <2> DEFINE v == Append(u, r)
  <2>1. /\ Len(u) \in Nat /\ DOMAIN v = 1..(Len(u) + 1) /\ v[Len(u) + 1] = r
        /\ \A i \in 1..Len(u) : v[i] = u[i]
    BY Ends
  <2>2. DOMAIN u = 1..Len(u)
    OBVIOUS
  <2> HIDE DEF v
  <2>3. Len(u) + 1 \in DOMAIN v /\ \A i \in 1..Len(u) : i \in DOMAIN v
    BY <2>1
  <2>4. \A i \in DOMAIN v : i \in 1..Len(u) \/ i = Len(u) + 1
    BY <2>1
  <2>5. QED
    BY <2>1, <2>2, <2>3, <2>4 DEF v, NoneNewer
<1>3. QED
  BY <1>1, <1>2

\* A waiting report is split in two of the same state and number.
LEMMA SplitIsKept ==
  ASSUME NEW k, NEW c, NEW u \in Seq(WindowsInput!Reports),
         NEW h \in WindowsInput!Reports, NEW t \in Seq(WindowsInput!Reports), NEW given,
         NEW losses, NEW n, NEW a \in WindowsInput!Reports, NEW b \in WindowsInput!Reports,
         k # "keyboard", c # "protocol", a.n = h.n, b.n = h.n,
         a.discrete = h.discrete, b.discrete = h.discrete,
         Kept(k, c, Append(u, h) \o t, given, losses, n)
  PROVE  Kept(k, c, Append(Append(u, a), b) \o t, given, losses, n)
<1> DEFINE R == WindowsInput!Reports
           p == Append(u, h)
           q == Append(Append(u, a), b)
<1>1. p \in Seq(R) /\ Append(u, a) \in Seq(R) /\ q \in Seq(R)
  OBVIOUS
<1>2. TellsAll(k, c, q \o t, given, losses)
  <2>1. WindowsInput!Transitions(q) = WindowsInput!Transitions(p)
    <3>1. WindowsInput!Transitions(Append(Append(u, a), b)) = WindowsInput!Transitions(Append(u, a))
      BY TransitionsRepeat
    <3>2. WindowsInput!Transitions(Append(u, a)) = WindowsInput!Transitions(Append(u, h))
      BY TransitionsRepeat
    <3>3. QED
      BY <3>1, <3>2
  <2> HIDE DEF p, q, R
  <2>2. WindowsInput!Transitions(q \o t) = WindowsInput!Transitions(p \o t)
    BY <1>1, <2>1, TransitionsAlike DEF R
  <2>3. QED
    BY <2>2 DEF Kept, TellsAll, p
<1>3. TellsNewest(q \o t, given, losses, n)
  <2>1. q # <<>> /\ Len(q) \in Nat /\ q[Len(q)] = b /\ p # <<>> /\ Len(p) \in Nat /\ p[Len(p)] = h
    <3>1. Append(u, a) \in Seq(R)
      BY <1>1
    <3> HIDE DEF R
    <3>2. q # <<>> /\ Len(q) = Len(Append(u, a)) + 1 /\ q[Len(Append(u, a)) + 1] = b
          /\ Len(Append(u, a)) \in Nat
      BY <3>1, Ends DEF R
    <3>3. p # <<>> /\ Len(p) = Len(u) + 1 /\ p[Len(u) + 1] = h /\ Len(u) \in Nat
      BY Ends DEF R
    <3>4. QED
      BY <3>2, <3>3
  <2>2. TellsNewest(p \o t, given, losses, n)
    BY DEF Kept
  <2> HIDE DEF p, q
  <2>3. CASE t = <<>>
    <3>1. q \o t = q /\ p \o t = p
      BY <1>1, <2>3
    <3>2. QED
      BY <2>1, <2>2, <3>1 DEF TellsNewest
  <2>4. CASE t # <<>>
    <3>1. /\ q \o t # <<>> /\ (q \o t)[Len(q \o t)] = t[Len(t)]
          /\ (p \o t)[Len(p \o t)] = t[Len(t)]
      BY <1>1, <2>4, LastJoined
    <3>2. QED
      BY <2>2, <3>1 DEF TellsNewest
  <2>5. QED
    BY <2>3, <2>4
<1>4. NoneNewer(q \o t, n)
  <2>1. NoneNewer(p, n) /\ NoneNewer(t, n)
    <3>1. NoneNewer(p \o t, n)
      BY DEF Kept
    <3> HIDE DEF p
    <3>2. QED
      BY <1>1, <3>1, NoneNewerJoined
  <2>2. NoneNewer(u, n) /\ h.n <= n
    BY <2>1, NoneNewerJoined
  <2>3. NoneNewer(Append(u, a), n) /\ a.n <= n /\ b.n <= n
    BY <2>2, NoneNewerJoined
  <2>4. NoneNewer(q, n)
    BY <1>1, <2>3, NoneNewerJoined
  <2> HIDE DEF q
  <2>5. QED
    BY <1>1, <2>1, <2>4, NoneNewerJoined
<1>5. QED
  BY <1>2, <1>3, <1>4 DEF Kept

\* The two move as far as the one.
LEMMA SplitMoves ==
  ASSUME NEW u \in Seq(WindowsInput!Reports),
         NEW h \in WindowsInput!Reports, NEW t \in Seq(WindowsInput!Reports),
         NEW a \in WindowsInput!Reports, NEW b \in WindowsInput!Reports,
         NEW axis \in {"x", "wheel"}, a[axis] + b[axis] = h[axis]
  PROVE  WindowsInput!Motion(axis, Append(Append(u, a), b) \o t)
           = WindowsInput!Motion(axis, Append(u, h) \o t)
<1> DEFINE p == Append(u, h)
           q == Append(Append(u, a), b)
<1>1. /\ p \in Seq(WindowsInput!Reports) /\ Append(u, a) \in Seq(WindowsInput!Reports)
      /\ q \in Seq(WindowsInput!Reports)
  OBVIOUS
<1>2. a[axis] \in Int /\ b[axis] \in Int /\ h[axis] \in Int
  BY DEF WindowsInput!Reports
<1>3. /\ WindowsInput!Motion(axis, p) = WindowsInput!Motion(axis, u) + h[axis]
      /\ WindowsInput!Motion(axis, Append(u, a)) = WindowsInput!Motion(axis, u) + a[axis]
      /\ WindowsInput!Motion(axis, q) = WindowsInput!Motion(axis, Append(u, a)) + b[axis]
      /\ WindowsInput!Motion(axis, u) \in Int
  BY <1>1, MotionAppends
<1> HIDE DEF p, q
<1>4. WindowsInput!Motion(axis, q) = WindowsInput!Motion(axis, p)
  BY <1>2, <1>3
<1>5. /\ WindowsInput!Motion(axis, q \o t)
           = WindowsInput!Motion(axis, q) + WindowsInput!Motion(axis, t)
      /\ WindowsInput!Motion(axis, p \o t)
           = WindowsInput!Motion(axis, p) + WindowsInput!Motion(axis, t)
  BY <1>1, MotionAdds
<1>6. QED
  BY <1>4, <1>5 DEF p, q

-----------------------------------------------------------------------------
(* What push() and pop() of the queue do to a stream that ends with a deque   *)
(* of it.                                                                    *)

\* A report waits in the deque of its class; only reports of a mouse move, and a device
\* is a mouse or has a state.
Fits(c, r) == r.class = c /\ (c # "mouse" => r.x = 0 /\ r.wheel = 0)

AllFit(c, s) == \A i \in DOMAIN s : Fits(c, s[i])

Sorted(q) ==
  /\ \A c \in Classes : AllFit(c, q[c])
  /\ kind = "mouse" => q["state"] = <<>>
  /\ kind # "mouse" => q["mouse"] = <<>>

\* What make_room() drops for a report, if it does.
LostTo(q, r, losses) ==
  IF WindowsInput!Coalesces(q, r) \/ ~WindowsInput!Full(q) THEN losses
  ELSE Append(losses, [report |-> Head(q[WindowsInput!Victim(q)]), class |-> r.class])

Reported(losses) == [i \in DOMAIN losses |-> losses[i].report]

\* The deque a report is dropped from, and how long it is.
LEMMA Victims ==
  ASSUME WindowsInput!InputAssumption, NEW q \in Queues, WindowsInput!Full(q)
  PROVE  LET v == WindowsInput!Victim(q) IN
         /\ v \in Classes /\ q[v] # <<>> /\ q[v] \in Seq(WindowsInput!Reports)
         /\ v = "mouse" => q["state"] = <<>>
         /\ v = "protocol" => q["mouse"] = <<>> /\ q["state"] = <<>> /\ Len(q["protocol"]) > 1
<1>1. /\ WindowsInput!Size(q) = Len(q["protocol"]) + Len(q["mouse"]) + Len(q["state"])
      /\ \A c \in Classes : q[c] \in Seq(WindowsInput!Reports) /\ Len(q[c]) \in Nat
      /\ \A c \in Classes : q[c] = <<>> => Len(q[c]) = 0
  <2>1. /\ WindowsInput!Size(q) = Len(q["protocol"]) + Len(q["mouse"]) + Len(q["state"])
        /\ Len(q["protocol"]) \in Nat /\ Len(q["mouse"]) \in Nat /\ Len(q["state"]) \in Nat
    BY Sized
  <2>2. \A c \in Classes : q[c] \in Seq(WindowsInput!Reports)
    BY Deques DEF Classes
  <2>3. \A c \in Classes : Len(q[c]) \in Nat
    BY <2>1 DEF Classes
  <2>4. Len(<<>>) = 0
    OBVIOUS
  <2>5. QED
    BY <2>1, <2>2, <2>3, <2>4
<1>2. Limit > 1 /\ Limit \in Nat /\ WindowsInput!Size(q) >= Limit
  BY DEF WindowsInput!InputAssumption, WindowsInput!Full
<1>3. q.state = q["state"] /\ q.mouse = q["mouse"] /\ q.protocol = q["protocol"]
  OBVIOUS
<1>4. CASE q["state"] # <<>>
  BY <1>1, <1>3, <1>4 DEF WindowsInput!Victim, Classes
<1>5. CASE q["state"] = <<>> /\ q["mouse"] # <<>>
  BY <1>1, <1>3, <1>5 DEF WindowsInput!Victim, Classes
<1>6. CASE q["state"] = <<>> /\ q["mouse"] = <<>>
  <2>1. Len(q["state"]) = 0 /\ Len(q["mouse"]) = 0 /\ Len(q["protocol"]) \in Nat
    BY <1>1, <1>6 DEF Classes
  <2>2. Len(q["protocol"]) > 1
    BY <1>1, <1>2, <2>1
  <2>3. q["protocol"] # <<>> /\ q["protocol"] \in Seq(WindowsInput!Reports)
    BY <1>1, <2>2 DEF Classes
  <2>4. WindowsInput!Victim(q) = "protocol" /\ "protocol" \in Classes
    BY <1>3, <1>6 DEF WindowsInput!Victim, Classes
  <2>5. QED
    BY <1>6, <2>2, <2>3, <2>4
<1>7. QED
  BY <1>4, <1>5, <1>6

\* A report of a client or a reply.
LEMMA InputsAre ==
  ASSUME WindowsInput!InputAssumption, NEW t, NEW n \in Nat,
         NEW r \in WindowsInput!Inputs(t, n)
  PROVE  /\ r \in WindowsInput!Reports /\ r.n = n /\ r.class \in Classes
         /\ r.x \in Int /\ r.wheel \in Int
         /\ r.class # "mouse" => r.x = 0 /\ r.wheel = 0
         /\ r.class = "mouse" => kind = "mouse"
         /\ r.class = "state" => kind # "mouse"
<1>1. r \in WindowsInput!Reports /\ r.n = n
  BY InputsAreReports
<1>2. r.class \in Classes /\ r.x \in Int /\ r.wheel \in Int
  BY <1>1 DEF WindowsInput!Reports, Classes
<1>3. \/ r = WindowsInput!Report("protocol", 0, <<0, 0>>, n)
      \/ kind = "mouse" /\ \E b \in 0..1, m \in Moves : r = WindowsInput!Report("mouse", b, m, n)
      \/ kind # "mouse" /\ \E b \in 0..1 : r = WindowsInput!Report("state", b, <<0, 0>>, n)
  BY DEF WindowsInput!Inputs
<1>4. QED
  BY <1>1, <1>2, <1>3 DEF WindowsInput!Report

\* A deque is its oldest reports and the newest.
LEMMA Newest ==
  ASSUME NEW R, NEW s \in Seq(R), s # <<>>
  PROVE  LET f == SubSeq(s, 1, Len(s) - 1) IN
         /\ f \in Seq(R) /\ s[Len(s)] \in R /\ s = Append(f, s[Len(s)])
         /\ Len(s) \in DOMAIN s /\ DOMAIN f \subseteq DOMAIN s
         /\ \A i \in DOMAIN f : f[i] = s[i]
OBVIOUS

LEMMA AppendJoined ==
  ASSUME NEW R, NEW u \in Seq(R), NEW w \in Seq(R), NEW r \in R
  PROVE  u \o Append(w, r) = Append(u \o w, r)
OBVIOUS

\* A report joins the last of its class...
JoinsAs(q, r, f, old, new) ==
  /\ q[r.class] = Append(f, old)
  /\ \A d \in Classes :
       WindowsInput!Push(q, r)[d] = IF d = r.class THEN Append(f, new) ELSE q[d]
  /\ new.n = r.n /\ new.class = r.class
  /\ new.discrete = r.discrete /\ old.discrete = r.discrete
  /\ r.class = "mouse" => new.x = old.x + r.x /\ new.wheel = old.wheel + r.wheel
  /\ r.class # "mouse" => new = r

LEMMA Joins ==
  ASSUME WindowsInput!InputAssumption, NEW q \in Queues, NEW t, NEW n \in Nat,
         NEW r \in WindowsInput!Inputs(t, n), WindowsInput!Coalesces(q, r)
  PROVE  /\ kind # "keyboard" /\ r.class # "protocol"
         /\ \E f \in Seq(WindowsInput!Reports), old \in WindowsInput!Reports,
               new \in WindowsInput!Reports : JoinsAs(q, r, f, old, new)
<1> DEFINE c == r.class
           s == q[c]
           old == s[Len(s)]
           f == SubSeq(s, 1, Len(s) - 1)
           m == IF c = "mouse" THEN WindowsInput!Accumulated(old, r) ELSE r
<1>1. /\ r \in WindowsInput!Reports /\ c \in Classes /\ r.x \in Int /\ r.wheel \in Int
      /\ c = "mouse" => kind = "mouse"
  BY InputsAre
<1>2. /\ s # <<>> /\ old.discrete = r.discrete
      /\ c = "mouse" \/ (c = "state" /\ kind = "gamepad")
  BY DEF WindowsInput!Coalesces, WindowsInput!Last
<1>3. s \in Seq(WindowsInput!Reports)
  BY <1>1, Deques DEF Classes
<1>4. f \in Seq(WindowsInput!Reports) /\ old \in WindowsInput!Reports /\ s = Append(f, old)
  <2> HIDE DEF s
  <2>1. QED
    BY <1>2, <1>3, Newest
<1>5. WindowsInput!Push(q, r) = [q EXCEPT ![c] = Append(f, m)]
  BY DEF WindowsInput!Push, WindowsInput!Last, WindowsInput!Front
<1>6. /\ m \in WindowsInput!Reports /\ m.n = r.n /\ m.class = c /\ m.discrete = r.discrete
      /\ c = "mouse" => m.x = old.x + r.x /\ m.wheel = old.wheel + r.wheel
      /\ c # "mouse" => m = r
  <2> HIDE DEF old, c
  <2>1. old.x \in Int /\ old.wheel \in Int
    BY <1>4, ReportFields
  <2>2. CASE c = "mouse"
    <3>1. m = [r EXCEPT !.x = old.x + r.x, !.wheel = old.wheel + r.wheel]
      BY <2>2 DEF WindowsInput!Accumulated
    <3>2. old.x + r.x \in Int /\ old.wheel + r.wheel \in Int
      BY <1>1, <2>1
    <3>3. m \in WindowsInput!Reports
      BY <1>1, <3>1, <3>2, ReportChanged
    <3>4. /\ m.n = r.n /\ m.class = r.class /\ m.discrete = r.discrete
          /\ m.x = old.x + r.x /\ m.wheel = old.wheel + r.wheel
      <4> HIDE DEF m
      <4>1. QED
        BY <1>1, <3>1 DEF WindowsInput!Reports
    <3>5. QED
      BY <2>2, <3>3, <3>4 DEF c
  <2>3. CASE c # "mouse"
    BY <1>1, <2>3 DEF c
  <2>4. QED
    BY <2>2, <2>3
<1> HIDE DEF f, old, m
<1>7. \A d \in Classes : WindowsInput!Push(q, r)[d] = IF d = c THEN Append(f, m) ELSE q[d]
  BY <1>5 DEF Queues, Classes
<1>8. JoinsAs(q, r, f, old, m)
  BY <1>2, <1>4, <1>6, <1>7 DEF JoinsAs
<1>9. QED
  BY <1>1, <1>2, <1>4, <1>6, <1>8

\* ... or is queued, behind those that there is room for.
LEMMA QueuedBehind ==
  ASSUME WindowsInput!InputAssumption, NEW q \in Queues, NEW r, r.class \in Classes,
         ~WindowsInput!Coalesces(q, r)
  PROVE  LET room == WindowsInput!MakeRoom(q) IN
         /\ \A d \in Classes :
              WindowsInput!Push(q, r)[d] = IF d = r.class THEN Append(room[d], r) ELSE room[d]
         /\ WindowsInput!Full(q) => \A d \in Classes :
              room[d] = IF d = WindowsInput!Victim(q) THEN Tail(q[d]) ELSE q[d]
         /\ ~WindowsInput!Full(q) => room = q
<1> DEFINE room == WindowsInput!MakeRoom(q)
<1>1. WindowsInput!Push(q, r) = [room EXCEPT ![r.class] = Append(room[r.class], r)]
  BY DEF WindowsInput!Push
<1>2. WindowsInput!Full(q) =>
        room = [q EXCEPT ![WindowsInput!Victim(q)] = Tail(q[WindowsInput!Victim(q)])]
  BY DEF WindowsInput!MakeRoom
<1>3. ~WindowsInput!Full(q) => room = q
  BY DEF WindowsInput!MakeRoom
<1> HIDE DEF room
<1>4. room \in [Classes -> Seq(WindowsInput!Reports)]
  <2>1. CASE WindowsInput!Full(q)
    <3> DEFINE v == WindowsInput!Victim(q)
    <3>1. v \in Classes /\ q[v] \in Seq(WindowsInput!Reports) /\ q[v] # <<>>
      BY <2>1, Victims
    <3>2. room = [q EXCEPT ![v] = Tail(q[v])]
      BY <1>2, <2>1
    <3> HIDE DEF v
    <3>3. Tail(q[v]) \in Seq(WindowsInput!Reports)
      BY <3>1
    <3>4. QED
      BY <3>1, <3>2, <3>3 DEF Queues, Classes
  <2>2. QED
    BY <1>3, <2>1 DEF Queues, Classes
<1>5. \A d \in Classes :
        WindowsInput!Push(q, r)[d] = IF d = r.class THEN Append(room[d], r) ELSE room[d]
  BY <1>1, <1>4
<1>6. WindowsInput!Full(q) => \A d \in Classes :
        room[d] = IF d = WindowsInput!Victim(q) THEN Tail(q[d]) ELSE q[d]
  BY <1>2 DEF Queues, Classes
<1>7. QED
  BY <1>3, <1>5, <1>6 DEF room

\* A loss is a report and a class.
LEMMA Losing ==
  ASSUME WindowsInput!InputAssumption, NEW q \in Queues, NEW r, r.class \in Classes,
         NEW losses \in Seq(Losses)
  PROVE  /\ LostTo(q, r, losses) \in Seq(Losses)
         /\ WindowsInput!Full(q) => \E l \in Losses :
              /\ l.report = Head(q[WindowsInput!Victim(q)]) /\ l.class = r.class
              /\ ~WindowsInput!Coalesces(q, r) => LostTo(q, r, losses) = Append(losses, l)
<1> DEFINE v == WindowsInput!Victim(q)
           l == [report |-> Head(q[v]), class |-> r.class]
<1>1. CASE WindowsInput!Full(q)
  <2>1. q[v] \in Seq(WindowsInput!Reports) /\ q[v] # <<>>
    BY <1>1, Victims
  <2>2. Head(q[v]) \in WindowsInput!Reports
    <3> HIDE DEF v
    <3>1. QED
      BY <2>1
  <2>3. l \in Losses
    BY <2>2 DEF Losses
  <2>4. ~WindowsInput!Coalesces(q, r) => LostTo(q, r, losses) = Append(losses, l)
    BY <1>1 DEF LostTo
  <2>5. LostTo(q, r, losses) \in {losses, Append(losses, l)}
    BY DEF LostTo
  <2> HIDE DEF l
  <2>6. Append(losses, l) \in Seq(Losses)
    BY <2>3
  <2>7. l.report = Head(q[v]) /\ l.class = r.class
    BY DEF l
  <2>8. QED
    BY <1>1, <2>3, <2>4, <2>5, <2>6, <2>7
<1>2. CASE ~WindowsInput!Full(q)
  BY <1>2 DEF LostTo
<1>3. QED
  BY <1>1, <1>2

\* A queue that a report was added to, and maybe another dropped for, still tells what was
\* sent, of every class.
LEMMA PushKept ==
  ASSUME WindowsInput!InputAssumption, NEW q \in Queues, Sorted(q),
         NEW t, NEW m \in Nat, NEW r \in WindowsInput!Inputs(t, m),
         NEW d \in Classes, NEW u \in Seq(WindowsInput!Reports),
         NEW given \in Seq(WindowsInput!Reports), NEW losses \in Seq(Losses),
         NEW n \in Nat, n <= m, Kept(kind, d, u \o q[d], given, losses, n)
  PROVE  IF d = r.class
           THEN Kept(kind, d, u \o WindowsInput!Push(q, r)[d], Append(given, r),
                     LostTo(q, r, losses), r.n)
           ELSE Kept(kind, d, u \o WindowsInput!Push(q, r)[d], given, LostTo(q, r, losses), n)
<1>1. /\ r \in WindowsInput!Reports /\ r.n = m /\ r.class \in Classes
      /\ r.class = "mouse" => kind = "mouse"
      /\ r.class = "state" => kind # "mouse"
  BY InputsAre
<1>2. q[d] \in Seq(WindowsInput!Reports)
  BY Deques DEF Classes
<1>3. CASE WindowsInput!Coalesces(q, r)
  <2>1. LostTo(q, r, losses) = losses
    BY <1>3 DEF LostTo
  <2>2. kind # "keyboard" /\ r.class # "protocol"
    BY <1>3, Joins
  <2>3. PICK f \in Seq(WindowsInput!Reports), old \in WindowsInput!Reports,
             new \in WindowsInput!Reports : JoinsAs(q, r, f, old, new)
    BY <1>3, Joins
  <2> USE DEF JoinsAs
  <2>4. CASE d = r.class
    <3> DEFINE s == u \o f
    <3>1. s \in Seq(WindowsInput!Reports)
      OBVIOUS
    <3>2. u \o q[d] = Append(s, old) /\ u \o WindowsInput!Push(q, r)[d] = Append(s, new)
      <4>1. u \o Append(f, old) = Append(s, old) /\ u \o Append(f, new) = Append(s, new)
        BY AppendJoined
      <4>2. q[d] = Append(f, old) /\ WindowsInput!Push(q, r)[d] = Append(f, new)
        BY <2>3, <2>4
      <4>3. QED
        BY <4>1, <4>2
    <3> HIDE DEF s
    <3>3. TellsAll(kind, d, Append(s, old), given, losses) /\ NoneNewer(Append(s, old), n)
      BY <3>2 DEF Kept
    <3>4. Kept(kind, d, Append(s, new), Append(given, r), losses, r.n)
      BY <1>1, <2>2, <2>3, <2>4, <3>1, <3>3, JoinedIsKept
    <3>5. QED
      BY <2>1, <2>4, <3>2, <3>4
  <2>5. CASE d # r.class
    BY <2>1, <2>3, <2>5
  <2>6. QED
    BY <2>4, <2>5
<1>4. CASE ~WindowsInput!Coalesces(q, r)
  <2> DEFINE room == WindowsInput!MakeRoom(q)
             lost2 == LostTo(q, r, losses)
  <2>1. /\ \A c \in Classes :
             WindowsInput!Push(q, r)[c] = IF c = r.class THEN Append(room[c], r) ELSE room[c]
        /\ WindowsInput!Full(q) => \A c \in Classes :
             room[c] = IF c = WindowsInput!Victim(q) THEN Tail(q[c]) ELSE q[c]
        /\ ~WindowsInput!Full(q) => room = q
    BY <1>1, <1>4, QueuedBehind
  <2> HIDE DEF room, lost2
  <2>2. ASSUME d = r.class, room[d] \in Seq(WindowsInput!Reports),
               TellsAll(kind, d, u \o room[d], given, lost2), NoneNewer(u \o room[d], n)
        PROVE  Kept(kind, d, u \o WindowsInput!Push(q, r)[d], Append(given, r), lost2, r.n)
    <3> DEFINE s == u \o room[d]
    <3>1. s \in Seq(WindowsInput!Reports)
      BY <2>2
    <3>2. u \o WindowsInput!Push(q, r)[d] = Append(s, r)
      <4>1. u \o Append(room[d], r) = Append(s, r)
        <5> DEFINE w == room[d]
        <5>1. w \in Seq(WindowsInput!Reports) /\ r \in WindowsInput!Reports
          BY <1>1, <2>2
        <5> HIDE DEF w
        <5>2. u \o Append(w, r) = Append(u \o w, r)
          BY <5>1, AppendJoined
        <5>3. QED
          BY <5>2 DEF w
      <4>2. WindowsInput!Push(q, r)[d] = Append(room[d], r)
        BY <2>1, <2>2
      <4>3. QED
        BY <4>1, <4>2
    <3>3. TellsAll(kind, d, s, given, lost2) /\ NoneNewer(s, n)
      BY <2>2
    <3> HIDE DEF s
    <3>4. QED
      BY <1>1, <3>1, <3>2, <3>3, QueuedIsKept
  <2>3. CASE ~WindowsInput!Full(q)
    <3>1. lost2 = losses /\ room = q
      BY <2>1, <2>3 DEF LostTo, lost2
    <3>2. CASE d = r.class
      BY <1>2, <2>2, <3>1, <3>2 DEF Kept, lost2
    <3>3. CASE d # r.class
      BY <2>1, <3>1, <3>3 DEF lost2
    <3>4. QED
      BY <3>2, <3>3
  <2>4. CASE WindowsInput!Full(q)
    <3> DEFINE v == WindowsInput!Victim(q)
    <3>1. /\ v \in Classes /\ q[v] # <<>> /\ q[v] \in Seq(WindowsInput!Reports)
          /\ v = "mouse" => q["state"] = <<>>
          /\ v = "protocol" => q["mouse"] = <<>> /\ q["state"] = <<>> /\ Len(q["protocol"]) > 1
      BY <2>4, Victims
    <3>2. PICK l \in Losses : /\ l.report = Head(q[v]) /\ l.class = r.class
                              /\ lost2 = Append(losses, l)
      BY <1>1, <1>4, <2>4, Losing DEF lost2
    <3>3. \A c \in Classes : room[c] = IF c = v THEN Tail(q[c]) ELSE q[c]
      BY <2>1, <2>4
    <3> HIDE DEF v
    <3>4. lost2 # <<>>
      BY <3>2
    <3>5. CASE d = r.class
      <4>1. room[d] \in Seq(WindowsInput!Reports) /\ NoneNewer(u \o room[d], n)
        <5>1. CASE d = v
          <6>1. /\ Tail(q[v]) \in Seq(WindowsInput!Reports)
                /\ u \o Tail(q[v]) \in Seq(WindowsInput!Reports)
            BY <3>1, WithoutFirst
          <6>2. Within(u \o Tail(q[v]), u \o q[v])
            BY <3>1, WithoutFirstLess
          <6>3. NoneNewer(u \o q[v], n)
            BY <5>1 DEF Kept
          <6>4. NoneNewer(u \o Tail(q[v]), n)
            BY <6>2, <6>3 DEF Within, NoneNewer
          <6>5. QED
            BY <3>3, <5>1, <6>1, <6>4
        <5>2. CASE d # v
          BY <1>2, <3>3, <5>2 DEF Kept
        <5>3. QED
          BY <5>1, <5>2
      <4>2. TellsAll(kind, d, u \o room[d], given, lost2)
        BY <3>4 DEF TellsAll
      <4>3. QED
        BY <2>2, <3>5, <4>1, <4>2 DEF lost2
    <3>6. CASE d # r.class /\ d = v
      <4>1. r.class = "protocol" \/ Len(q[v]) > 1
        <5>1. CASE r.class = "state"
          BY <1>1, <3>1, <3>6, <5>1 DEF Sorted, Classes
        <5>2. CASE r.class = "mouse"
          BY <1>1, <3>1, <3>6, <5>2 DEF Sorted, Classes
        <5>3. QED
          BY <1>1, <5>1, <5>2 DEF Classes
      <4>2. Kept(kind, d, u \o Tail(q[v]), given, lost2, n)
        BY <3>1, <3>2, <3>6, <4>1, LossIsKept
      <4>3. QED
        BY <2>1, <3>3, <3>6, <4>2 DEF lost2
    <3>7. CASE d # r.class /\ d # v
      <4>1. Kept(kind, d, u \o q[d], given, lost2, n)
        BY <3>2, OtherIsKept
      <4>2. QED
        BY <2>1, <3>3, <3>7, <4>1 DEF lost2
    <3>8. QED
      BY <3>5, <3>6, <3>7
  <2>5. QED
    BY <2>3, <2>4
<1>5. QED
  BY <1>3, <1>4

\* What was dropped are reports.
LEMMA LossReport ==
  ASSUME NEW losses \in Seq(Losses)
  PROVE  \A i \in 1..Len(losses) : losses[i].report \in WindowsInput!Reports
<1>1. \A i \in 1..Len(losses) : losses[i] \in Losses
  OBVIOUS
<1>2. \A l \in Losses : l.report \in WindowsInput!Reports
  BY DEF Losses
<1>3. QED
  BY <1>1, <1>2

\* What was dropped, with one report more.
LEMMA OneLossMore ==
  ASSUME NEW losses \in Seq(Losses), NEW l \in Losses
  PROVE  /\ Reported(losses) \in Seq(WindowsInput!Reports)
         /\ l.report \in WindowsInput!Reports
         /\ Reported(Append(losses, l)) = Append(Reported(losses), l.report)
<1>1. /\ Len(losses) \in Nat /\ DOMAIN losses = 1..Len(losses)
      /\ \A i \in 1..Len(losses) : losses[i].report \in WindowsInput!Reports
  BY LossReport
<1>2. l.report \in WindowsInput!Reports
  BY DEF Losses
<1> DEFINE s == Reported(losses)
           more == Append(losses, l)
<1>3. s = [i \in 1..Len(losses) |-> losses[i].report]
  BY <1>1 DEF Reported
<1>4. s \in Seq(WindowsInput!Reports) /\ Len(s) = Len(losses)
  BY <1>1, <1>3
<1>5. /\ DOMAIN more = 1..(Len(losses) + 1) /\ more[Len(losses) + 1] = l
      /\ \A i \in 1..Len(losses) : more[i] = losses[i]
  BY <1>1
<1>6. Reported(more) = [i \in 1..(Len(losses) + 1) |-> more[i].report]
  BY <1>5 DEF Reported
<1> HIDE DEF s, more
<1>7. /\ DOMAIN Append(s, l.report) = 1..(Len(losses) + 1)
      /\ Append(s, l.report)[Len(losses) + 1] = l.report
      /\ \A i \in 1..Len(losses) : Append(s, l.report)[i] = s[i]
  BY <1>2, <1>4
<1>8. \A i \in 1..(Len(losses) + 1) : Append(s, l.report)[i] = more[i].report
  <2>1. SUFFICES ASSUME NEW i \in 1..(Len(losses) + 1)
                 PROVE  Append(s, l.report)[i] = more[i].report
    OBVIOUS
  <2>2. CASE i = Len(losses) + 1
    BY <1>5, <1>7, <2>2
  <2>3. CASE i # Len(losses) + 1
    <3>1. i \in 1..Len(losses)
      BY <1>1, <2>3
    <3>2. QED
      BY <1>3, <1>5, <1>7, <3>1
  <2>4. QED
    BY <2>2, <2>3
<1>9. Append(s, l.report) = [i \in 1..(Len(losses) + 1) |-> Append(s, l.report)[i]]
  BY <1>2, <1>4, <1>7
<1>10. Append(s, l.report) = Reported(more)
  BY <1>6, <1>8, <1>9
<1>11. QED
  BY <1>2, <1>4, <1>10 DEF s, more

\* What moves is the first report and the rest.
LEMMA FirstMoves ==
  ASSUME NEW s \in Seq(WindowsInput!Reports), s # <<>>, NEW a \in {"x", "wheel"}
  PROVE  /\ WindowsInput!Motion(a, s) = Head(s)[a] + WindowsInput!Motion(a, Tail(s))
         /\ WindowsInput!Motion(a, Tail(s)) \in Int /\ Head(s)[a] \in Int
<1> DEFINE first == <<Head(s)>>
           rest == Tail(s)
<1>1. Head(s) \in WindowsInput!Reports /\ rest \in Seq(WindowsInput!Reports) /\ s = first \o rest
      /\ first \in Seq(WindowsInput!Reports)
  OBVIOUS
<1>2. WindowsInput!Motion(a, first) = Head(s)[a]
  BY <1>1, OneReport
<1> HIDE DEF first, rest
<1>3. /\ WindowsInput!Motion(a, first \o rest)
           = WindowsInput!Motion(a, first) + WindowsInput!Motion(a, rest)
      /\ WindowsInput!Motion(a, first) \in Int /\ WindowsInput!Motion(a, rest) \in Int
  BY <1>1, MotionAdds
<1>4. QED
  BY <1>1, <1>2, <1>3 DEF rest

\* A queue that a report was added to moves by that much more, with what was dropped.
LEMMA PushMoves ==
  ASSUME WindowsInput!InputAssumption, NEW q \in Queues, Sorted(q),
         NEW t, NEW n \in Nat, NEW r \in WindowsInput!Inputs(t, n),
         NEW u \in Seq(WindowsInput!Reports), NEW losses \in Seq(Losses),
         NEW a \in {"x", "wheel"}
  PROVE  WindowsInput!Motion(a, u \o WindowsInput!Push(q, r)["mouse"])
             + WindowsInput!Motion(a, Reported(LostTo(q, r, losses)))
           = WindowsInput!Motion(a, u \o q["mouse"])
             + WindowsInput!Motion(a, Reported(losses)) + r[a]
<1> DEFINE M(s) == WindowsInput!Motion(a, s)
           after == WindowsInput!Push(q, r)["mouse"]
           lost2 == LostTo(q, r, losses)
<1>1. /\ r \in WindowsInput!Reports /\ r.class \in Classes /\ r[a] \in Int
      /\ r.class # "mouse" => r[a] = 0
  BY InputsAre
<1>2. q["mouse"] \in Seq(WindowsInput!Reports)
  BY Deques
<1>3. /\ WindowsInput!Push(q, r) \in Queues => after \in Seq(WindowsInput!Reports)
      /\ Reported(losses) \in Seq(WindowsInput!Reports)
      /\ lost2 \in Seq(Losses)
  <2>1. Reported(losses) \in Seq(WindowsInput!Reports)
    <3>1. DOMAIN losses = 1..Len(losses) /\ Len(losses) \in Nat
          /\ \A i \in 1..Len(losses) : losses[i].report \in WindowsInput!Reports
      BY LossReport
    <3>2. QED
      BY <3>1 DEF Reported
  <2>2. QED
    BY <1>1, <2>1, Deques, Losing
<1>4. ASSUME NEW s \in Seq(WindowsInput!Reports)
      PROVE  M(s) \in Int /\ M(u \o s) = M(u) + M(s) /\ M(u) \in Int
  BY MotionAdds
<1>5. M(Reported(losses)) \in Int
  BY <1>3, <1>4
<1>6. /\ after \in Seq(WindowsInput!Reports)
      /\ M(after) + M(Reported(lost2)) = M(q["mouse"]) + M(Reported(losses)) + r[a]
      /\ M(Reported(lost2)) \in Int
  <2>1. CASE WindowsInput!Coalesces(q, r)
    <3>1. lost2 = losses
      BY <2>1 DEF LostTo
    <3>2. PICK f \in Seq(WindowsInput!Reports), old \in WindowsInput!Reports,
               new \in WindowsInput!Reports : JoinsAs(q, r, f, old, new)
      BY <2>1, Joins
    <3> USE DEF JoinsAs
    <3>3. CASE r.class = "mouse"
      <4>1. q["mouse"] = Append(f, old) /\ after = Append(f, new)
        BY <3>2, <3>3 DEF Classes
      <4>2. new[a] = old[a] + r[a] /\ old[a] \in Int
        BY <3>2, <3>3, ReportFields
      <4>3. M(Append(f, old)) = M(f) + old[a] /\ M(Append(f, new)) = M(f) + new[a] /\ M(f) \in Int
        BY MotionAppends
      <4>4. Append(f, new) \in Seq(WindowsInput!Reports)
        OBVIOUS
      <4>5. M(q["mouse"]) \in Int /\ after \in Seq(WindowsInput!Reports)
        BY <1>2, <1>4, <4>1, <4>4
      <4> HIDE DEF M, after, lost2
      <4>6. M(after) = M(q["mouse"]) + r[a]
        BY <1>1, <4>1, <4>2, <4>3
      <4>7. QED
        BY <1>1, <1>5, <3>1, <4>5, <4>6
    <3>4. CASE r.class # "mouse"
      <4>1. after = q["mouse"] /\ r[a] = 0
        BY <1>1, <3>2, <3>4 DEF Classes
      <4> HIDE DEF M, after, lost2
      <4>2. QED
        BY <1>2, <1>4, <1>5, <3>1, <4>1
    <3>5. QED
      BY <3>3, <3>4
  <2>2. CASE ~WindowsInput!Coalesces(q, r)
    <3> DEFINE room == WindowsInput!MakeRoom(q)
    <3>1. /\ \A c \in Classes :
               WindowsInput!Push(q, r)[c] = IF c = r.class THEN Append(room[c], r) ELSE room[c]
          /\ WindowsInput!Full(q) => \A c \in Classes :
               room[c] = IF c = WindowsInput!Victim(q) THEN Tail(q[c]) ELSE q[c]
          /\ ~WindowsInput!Full(q) => room = q
      BY <1>1, <2>2, QueuedBehind
    <3> HIDE DEF room
    <3>2. /\ room["mouse"] \in Seq(WindowsInput!Reports)
          /\ M(room["mouse"]) + M(Reported(lost2)) = M(q["mouse"]) + M(Reported(losses))
          /\ M(Reported(lost2)) \in Int
      <4>1. CASE ~WindowsInput!Full(q)
        <5>1. lost2 = losses /\ room = q
          BY <3>1, <4>1 DEF LostTo
        <5> HIDE DEF M, lost2
        <5>2. QED
          BY <1>2, <1>5, <5>1
      <4>2. CASE WindowsInput!Full(q)
        <5> DEFINE v == WindowsInput!Victim(q)
        <5>1. v \in Classes /\ q[v] # <<>> /\ q[v] \in Seq(WindowsInput!Reports)
          BY <4>2, Victims
        <5>2. PICK l \in Losses : l.report = Head(q[v]) /\ lost2 = Append(losses, l)
          BY <1>1, <2>2, <4>2, Losing
        <5>3. room["mouse"] = IF v = "mouse" THEN Tail(q["mouse"]) ELSE q["mouse"]
          BY <3>1, <4>2 DEF Classes
        <5>4. /\ l.report \in WindowsInput!Reports
              /\ Reported(lost2) = Append(Reported(losses), l.report)
          BY <5>2, OneLossMore
        <5> HIDE DEF v
        <5>5. M(Reported(lost2)) = M(Reported(losses)) + l.report[a]
          BY <1>3, <5>4, MotionAppends
        <5>6. l.report[a] \in Int
          BY <5>4, ReportFields
        <5>7. CASE v = "mouse"
          <6>1. M(q["mouse"]) = l.report[a] + M(Tail(q["mouse"])) /\ M(Tail(q["mouse"])) \in Int
            BY <5>1, <5>2, <5>7, FirstMoves
          <6>2. Tail(q["mouse"]) \in Seq(WindowsInput!Reports)
            BY <5>1, <5>7
          <6> HIDE DEF M, lost2
          <6>3. QED
            BY <1>5, <5>3, <5>5, <5>6, <5>7, <6>1, <6>2
        <5>8. CASE v # "mouse"
          <6>1. 1 \in DOMAIN q[v] /\ l.report = q[v][1]
            BY <5>1, <5>2
          <6>2. l.report[a] = 0
            BY <5>1, <5>8, <6>1 DEF Sorted, AllFit, Fits
          <6> HIDE DEF M, lost2
          <6>3. QED
            BY <1>2, <1>4, <1>5, <5>3, <5>5, <5>8, <6>2
        <5>9. QED
          BY <5>7, <5>8
      <4>3. QED
        BY <4>1, <4>2
    <3>3. CASE r.class = "mouse"
      <4> DEFINE w == room["mouse"]
      <4>1. after = Append(w, r)
        BY <3>1, <3>3 DEF Classes
      <4>2. w \in Seq(WindowsInput!Reports)
        BY <3>2
      <4> HIDE DEF w
      <4>3. Append(w, r) \in Seq(WindowsInput!Reports)
        BY <1>1, <4>2
      <4>4. M(Append(w, r)) = M(w) + r[a] /\ M(w) \in Int
        BY <1>1, <4>2, MotionAppends
      <4>5. /\ M(w) + M(Reported(lost2)) = M(q["mouse"]) + M(Reported(losses))
            /\ M(Reported(lost2)) \in Int
        BY <3>2 DEF w
      <4>6. M(q["mouse"]) \in Int
        BY <1>2, <1>4
      <4> HIDE DEF M, after, lost2
      <4>7. QED
        BY <1>1, <1>5, <4>1, <4>3, <4>4, <4>5, <4>6
    <3>4. CASE r.class # "mouse"
      <4>1. after = room["mouse"] /\ r[a] = 0
        BY <1>1, <3>1, <3>4 DEF Classes
      <4>2. M(q["mouse"]) \in Int
        BY <1>2, <1>4
      <4> HIDE DEF M, after, lost2
      <4>3. QED
        BY <1>5, <3>2, <4>1, <4>2
    <3>5. QED
      BY <3>3, <3>4
  <2>3. QED
    BY <2>1, <2>2
<1>7. /\ M(u \o after) = M(u) + M(after) /\ M(u \o q["mouse"]) = M(u) + M(q["mouse"])
      /\ M(u) \in Int /\ M(after) \in Int /\ M(q["mouse"]) \in Int
  <2> HIDE DEF M, after
  <2>1. QED
    BY <1>2, <1>4, <1>6
<1>8. M(u \o after) + M(Reported(lost2)) = M(u \o q["mouse"]) + M(Reported(losses)) + r[a]
  <2> DEFINE mAll == M(u \o after)
             mBefore == M(u \o q["mouse"])
             mU == M(u)
             mAfter == M(after)
             mQueue == M(q["mouse"])
             mLost == M(Reported(lost2))
             mLosses == M(Reported(losses))
             mR == r[a]
  <2>1. /\ mAll = mU + mAfter /\ mBefore = mU + mQueue
        /\ mAfter + mLost = mQueue + mLosses + mR
        /\ mU \in Int /\ mAfter \in Int /\ mQueue \in Int /\ mLost \in Int
        /\ mLosses \in Int /\ mR \in Int
    BY <1>1, <1>5, <1>6, <1>7
  <2> HIDE DEF mAll, mBefore, mU, mAfter, mQueue, mLost, mLosses, mR
  <2>2. mAll + mLost = mBefore + mLosses + mR
    BY <2>1
  <2>3. QED
    BY <2>2 DEF mAll, mBefore, mLost, mLosses, mR
<1> HIDE DEF M, after, lost2
<1>9. QED
  BY <1>8 DEF M, after, lost2

\* A deque of one class, with a report more of that class, or less.
LEMMA OthersFit ==
  ASSUME NEW c, NEW s \in Seq(WindowsInput!Reports), NEW r \in WindowsInput!Reports
  PROVE  /\ AllFit(c, Append(s, r)) <=> AllFit(c, s) /\ Fits(c, r)
         /\ AllFit(c, s) /\ Fits(c, r) => AllFit(c, <<r>> \o s)
<1> DEFINE t == Append(s, r)
           w == <<r>> \o s
<1>1. /\ Len(s) \in Nat /\ DOMAIN s = 1..Len(s) /\ DOMAIN t = 1..(Len(s) + 1)
      /\ t[Len(s) + 1] = r /\ \A i \in 1..Len(s) : t[i] = s[i]
  OBVIOUS
<1>2. /\ DOMAIN w = 1..(Len(s) + 1) /\ w[1] = r
      /\ \A i \in 2..(Len(s) + 1) : w[i] = s[i - 1]
  OBVIOUS
<1> HIDE DEF t, w
<1>3. \A i \in 1..(Len(s) + 1) : i \in 1..Len(s) \/ i = Len(s) + 1
  BY <1>1
<1>4. AllFit(c, t) <=> AllFit(c, s) /\ Fits(c, r)
  <2>1. ASSUME AllFit(c, t) PROVE AllFit(c, s) /\ Fits(c, r)
    <3>1. \A i \in 1..(Len(s) + 1) : Fits(c, t[i])
      BY <1>1, <2>1 DEF AllFit
    <3>2. Fits(c, r)
      BY <1>1, <3>1
    <3>3. \A i \in 1..Len(s) : Fits(c, s[i])
      BY <1>1, <3>1
    <3>4. QED
      BY <1>1, <3>2, <3>3 DEF AllFit
  <2>2. ASSUME AllFit(c, s), Fits(c, r) PROVE AllFit(c, t)
    BY <1>1, <1>3, <2>2 DEF AllFit
  <2>3. QED
    BY <2>1, <2>2
<1>5. AllFit(c, s) /\ Fits(c, r) => AllFit(c, w)
  <2>1. \A i \in 1..(Len(s) + 1) : i = 1 \/ (i \in 2..(Len(s) + 1) /\ i - 1 \in DOMAIN s)
    BY <1>1
  <2>2. QED
    BY <1>2, <2>1 DEF AllFit
<1>6. QED
  BY <1>4, <1>5 DEF t, w

LEMMA RestFits ==
  ASSUME NEW c, NEW s \in Seq(WindowsInput!Reports), s # <<>>, AllFit(c, s)
  PROVE  AllFit(c, Tail(s)) /\ Fits(c, Head(s))
<1>1. /\ DOMAIN Tail(s) = 1..(Len(s) - 1) /\ Head(s) = s[1] /\ 1 \in DOMAIN s
      /\ \A i \in 1..(Len(s) - 1) : Tail(s)[i] = s[i + 1] /\ i + 1 \in DOMAIN s
  OBVIOUS
<1>2. QED
  BY <1>1 DEF AllFit

\* A queue stays sorted.
LEMMA PushSorted ==
  ASSUME WindowsInput!InputAssumption, NEW q \in Queues, Sorted(q),
         NEW t, NEW n \in Nat, NEW r \in WindowsInput!Inputs(t, n)
  PROVE  Sorted(WindowsInput!Push(q, r))
<1> DEFINE after == WindowsInput!Push(q, r)
<1>1. /\ r \in WindowsInput!Reports /\ r.class \in Classes /\ Fits(r.class, r)
      /\ r.class = "mouse" => kind = "mouse"
      /\ r.class = "state" => kind # "mouse"
  BY InputsAre DEF Fits
<1>2. \A c \in Classes : q[c] \in Seq(WindowsInput!Reports) /\ AllFit(c, q[c])
  BY Deques DEF Classes, Sorted
<1>3. CASE WindowsInput!Coalesces(q, r)
  <2>1. PICK f \in Seq(WindowsInput!Reports), old \in WindowsInput!Reports,
             new \in WindowsInput!Reports : JoinsAs(q, r, f, old, new)
    BY <1>3, Joins
  <2> USE DEF JoinsAs
  <2>2. Fits(r.class, new)
    BY <1>1, <2>1 DEF Fits
  <2>3. AllFit(r.class, f)
    <3> DEFINE c == r.class
               s == q[c]
    <3>1. AllFit(c, s) /\ s = Append(f, old)
      BY <1>1, <1>2, <2>1
    <3> HIDE DEF c, s
    <3>2. AllFit(c, f)
      BY <3>1, OthersFit
    <3>3. QED
      BY <3>2 DEF c
  <2>4. \A c \in Classes : AllFit(c, after[c])
    <3>1. AllFit(r.class, Append(f, new))
      BY <2>2, <2>3, OthersFit
    <3>2. QED
      BY <1>2, <2>1, <3>1
  <2>5. kind = "mouse" => after["state"] = <<>>
    BY <1>1, <2>1 DEF Sorted, Classes
  <2>6. kind # "mouse" => after["mouse"] = <<>>
    BY <1>1, <2>1 DEF Sorted, Classes
  <2>7. QED
    BY <2>4, <2>5, <2>6 DEF Sorted, after
<1>4. CASE ~WindowsInput!Coalesces(q, r)
  <2> DEFINE room == WindowsInput!MakeRoom(q)
  <2>1. /\ \A c \in Classes : after[c] = IF c = r.class THEN Append(room[c], r) ELSE room[c]
        /\ WindowsInput!Full(q) => \A c \in Classes :
             room[c] = IF c = WindowsInput!Victim(q) THEN Tail(q[c]) ELSE q[c]
        /\ ~WindowsInput!Full(q) => room = q
    BY <1>1, <1>4, QueuedBehind
  <2>2. WindowsInput!Full(q) =>
          WindowsInput!Victim(q) \in Classes /\ q[WindowsInput!Victim(q)] # <<>>
    BY Victims
  <2> HIDE DEF room, after
  <2>3. \A c \in Classes :
          room[c] = q[c] \/ (q[c] # <<>> /\ room[c] = Tail(q[c]))
    BY <2>1, <2>2
  <2>4. ASSUME NEW c \in Classes
        PROVE  room[c] \in Seq(WindowsInput!Reports) /\ AllFit(c, room[c])
    <3> DEFINE s == q[c]
    <3>1. s \in Seq(WindowsInput!Reports) /\ AllFit(c, s)
      BY <1>2
    <3>2. room[c] = s \/ (s # <<>> /\ room[c] = Tail(s))
      BY <2>3
    <3> HIDE DEF s
    <3>3. CASE room[c] = s
      BY <3>1, <3>3
    <3>4. CASE s # <<>> /\ room[c] = Tail(s)
      <4>1. AllFit(c, Tail(s))
        BY <3>1, <3>4, RestFits
      <4>2. Tail(s) \in Seq(WindowsInput!Reports)
        BY <3>1, <3>4
      <4>3. QED
        BY <3>4, <4>1, <4>2
    <3>5. QED
      BY <3>2, <3>3, <3>4
  <2>5. ASSUME NEW c \in Classes PROVE AllFit(c, after[c])
    <3> DEFINE s == room[c]
    <3>1. s \in Seq(WindowsInput!Reports) /\ AllFit(c, s)
      BY <2>4
    <3>2. after[c] = IF c = r.class THEN Append(s, r) ELSE s
      BY <2>1
    <3> HIDE DEF s
    <3>3. CASE c = r.class
      <4>1. Fits(c, r)
        BY <1>1, <3>3
      <4>2. AllFit(c, Append(s, r))
        BY <1>1, <3>1, <4>1, OthersFit
      <4>3. QED
        BY <3>2, <3>3, <4>2
    <3>4. CASE c # r.class
      BY <3>1, <3>2, <3>4
    <3>5. QED
      BY <3>3, <3>4
  <2>6. kind = "mouse" => after["state"] = <<>>
    BY <1>1, <2>1, <2>3 DEF Sorted, Classes
  <2>7. kind # "mouse" => after["mouse"] = <<>>
    BY <1>1, <2>1, <2>3 DEF Sorted, Classes
  <2>8. QED
    BY <2>5, <2>6, <2>7 DEF Sorted, after
<1>5. QED
  BY <1>3, <1>4

\* What is left of a report and what is carried of it are of the same state and add up.
LEMMA Carrying ==
  ASSUME WindowsInput!InputAssumption, NEW h \in WindowsInput!Reports
  PROVE  LET a == WindowsInput!Carried(h)
             b == WindowsInput!Remainder(h) IN
         /\ a \in WindowsInput!Reports /\ b \in WindowsInput!Reports
         /\ a.n = h.n /\ a.discrete = h.discrete /\ a.class = h.class
         /\ b.n = h.n /\ b.discrete = h.discrete /\ b.class = h.class
         /\ a.x + b.x = h.x /\ a.wheel + b.wheel = h.wheel
         /\ b.x = 0 /\ b.wheel = 0 => a = h
<1>1. Reach \in Nat /\ h.x \in Int /\ h.wheel \in Int
  BY ReportFields DEF WindowsInput!InputAssumption
<1> DEFINE a == WindowsInput!Carried(h)
           b == WindowsInput!Remainder(h)
           x == WindowsInput!Clamp(h.x, -Reach - 1, Reach)
           wheel == WindowsInput!Clamp(h.wheel, -Reach, Reach)
<1>2. x \in Int /\ wheel \in Int
  BY <1>1 DEF WindowsInput!Clamp
<1>3. a = [h EXCEPT !.x = x, !.wheel = wheel]
  BY DEF WindowsInput!Carried
<1>4. b = [h EXCEPT !.x = h.x - a.x, !.wheel = h.wheel - a.wheel]
  BY DEF WindowsInput!Remainder
<1> HIDE DEF x, wheel, a, b
<1>5. /\ a \in WindowsInput!Reports /\ a.n = h.n /\ a.discrete = h.discrete /\ a.class = h.class
      /\ a.x = x /\ a.wheel = wheel
  BY <1>2, <1>3 DEF WindowsInput!Reports
<1>6. h.x - x \in Int /\ h.wheel - wheel \in Int
  BY <1>1, <1>2
<1>7. /\ b \in WindowsInput!Reports /\ b.n = h.n /\ b.discrete = h.discrete /\ b.class = h.class
      /\ b.x = h.x - x /\ b.wheel = h.wheel - wheel
  BY <1>4, <1>5, <1>6 DEF WindowsInput!Reports
<1>8. b.x = 0 /\ b.wheel = 0 => a = h
  <2>1. SUFFICES ASSUME b.x = 0, b.wheel = 0 PROVE a = h
    OBVIOUS
  <2>2. x = h.x /\ wheel = h.wheel
    BY <1>1, <1>2, <1>7, <2>1
  <2>3. a = [h EXCEPT !.x = h.x, !.wheel = h.wheel]
    BY <1>3, <2>2
  <2>4. QED
    BY <2>3 DEF WindowsInput!Reports
<1>9. a.x + b.x = h.x /\ a.wheel + b.wheel = h.wheel
  BY <1>1, <1>2, <1>5, <1>7
<1>10. QED
  BY <1>5, <1>7, <1>8, <1>9 DEF a, b

\* What VHF is handed is the first of a deque, or some of what it moves.
LEMMA Takes ==
  ASSUME WindowsInput!InputAssumption, NEW q \in Queues, Sorted(q),
         WindowsInput!Size(q) > 0
  PROVE  LET c == WindowsInput!Source(q)
             a == WindowsInput!Popped(q)
             after == WindowsInput!Pop(q) IN
         /\ c \in Classes /\ q[c] # <<>> /\ q[c] \in Seq(WindowsInput!Reports)
         /\ a \in WindowsInput!Reports /\ a.class = c /\ after \in Queues
         /\ \A d \in Classes : d # c => after[d] = q[d]
         /\ \/ a = Head(q[c]) /\ after[c] = Tail(q[c])
            \/ /\ c = "mouse" /\ kind = "mouse"
               /\ \E b \in WindowsInput!Reports :
                    /\ after[c] = <<b>> \o Tail(q[c])
                    /\ a.n = Head(q[c]).n /\ a.discrete = Head(q[c]).discrete
                    /\ b.n = Head(q[c]).n /\ b.discrete = Head(q[c]).discrete
                    /\ b.class = c
                    /\ a.x + b.x = Head(q[c]).x /\ a.wheel + b.wheel = Head(q[c]).wheel
<1> DEFINE c == WindowsInput!Source(q)
           a == WindowsInput!Popped(q)
           after == WindowsInput!Pop(q)
           first == Head(q[c])
           rest == WindowsInput!Remainder(first)
           s == IF c = "mouse" /\ (rest.x # 0 \/ rest.wheel # 0)
                  THEN <<rest>> \o Tail(q[c]) ELSE Tail(q[c])
<1>1. c \in Classes /\ q[c] # <<>>
  <2>1. q.protocol # <<>> \/ q.mouse # <<>> \/ q.state # <<>>
    <3>1. SUFFICES ASSUME q.protocol = <<>>, q.mouse = <<>>, q.state = <<>> PROVE FALSE
      OBVIOUS
    <3>2. WindowsInput!Size(q) = 0
      BY <3>1 DEF WindowsInput!Size
    <3>3. QED
      BY <3>2
  <2>2. QED
    BY <2>1 DEF WindowsInput!Source, Classes
<1>2. a = IF c = "mouse" THEN WindowsInput!Carried(first) ELSE first
  BY DEF WindowsInput!Popped, WindowsInput!Front1
<1>3. after = [q EXCEPT ![c] = s]
  BY DEF WindowsInput!Pop, WindowsInput!Front1
<1>4. a \in WindowsInput!Reports /\ after \in Queues
  BY Taken
<1>5. \A d \in Classes : after[d] = IF d = c THEN s ELSE q[d]
  <2> HIDE DEF after, s, c
  <2>1. QED
    BY <1>3 DEF Queues, Classes
<1> HIDE DEF after, a, c
<1>6. q[c] \in Seq(WindowsInput!Reports) /\ AllFit(c, q[c]) /\ (c = "mouse" => kind = "mouse")
  BY <1>1, Deques DEF Classes, Sorted
<1>7. first \in WindowsInput!Reports /\ first.class = c
  <2>1. first \in WindowsInput!Reports /\ first = q[c][1] /\ 1 \in DOMAIN q[c]
    BY <1>1, <1>6
  <2>2. QED
    BY <1>6, <2>1 DEF AllFit, Fits
<1> HIDE DEF first
<1>8. CASE c # "mouse" \/ (rest.x = 0 /\ rest.wheel = 0)
  <2>1. a = first
    BY <1>2, <1>7, <1>8, Carrying
  <2>2. after[c] = Tail(q[c])
    BY <1>1, <1>5, <1>8
  <2>3. QED
    BY <1>1, <1>4, <1>5, <1>6, <1>7, <2>1, <2>2 DEF after, a, c, first
<1>9. CASE ~(c # "mouse" \/ (rest.x = 0 /\ rest.wheel = 0))
  <2>1. a = WindowsInput!Carried(first) /\ c = "mouse" /\ kind = "mouse"
    BY <1>2, <1>6, <1>9
  <2>2. after[c] = <<rest>> \o Tail(q[c])
    BY <1>1, <1>5, <1>9
  <2>3. /\ rest \in WindowsInput!Reports
        /\ a.n = first.n /\ a.discrete = first.discrete /\ a.class = first.class
        /\ rest.n = first.n /\ rest.discrete = first.discrete /\ rest.class = first.class
        /\ a.x + rest.x = first.x /\ a.wheel + rest.wheel = first.wheel
    BY <1>7, <2>1, Carrying
  <2> HIDE DEF rest
  <2>4. \E b \in WindowsInput!Reports :
          /\ after[c] = <<b>> \o Tail(q[c])
          /\ a.n = first.n /\ a.discrete = first.discrete
          /\ b.n = first.n /\ b.discrete = first.discrete
          /\ b.class = c
          /\ a.x + b.x = first.x /\ a.wheel + b.wheel = first.wheel
    BY <1>7, <2>2, <2>3
  <2>5. QED
    BY <1>1, <1>4, <1>5, <1>6, <1>7, <2>1, <2>3, <2>4 DEF after, a, c, first
<1>10. QED
  BY <1>8, <1>9

\* A sequence and the first of the next, or two in its place.
LEMMA SplitInTwo ==
  ASSUME NEW R, NEW u \in Seq(R), NEW s \in Seq(R), s # <<>>, NEW a \in R, NEW b \in R
  PROVE  /\ Head(s) \in R /\ Tail(s) \in Seq(R)
         /\ (u \o <<a>>) \o (<<b>> \o Tail(s)) = Append(Append(u, a), b) \o Tail(s)
         /\ u \o s = Append(u, Head(s)) \o Tail(s)
         /\ (u \o <<Head(s)>>) \o Tail(s) = u \o s
<1> DEFINE h == Head(s)
           w == Tail(s)
<1>1. h \in R /\ w \in Seq(R) /\ s = <<h>> \o w
  OBVIOUS
<1> HIDE DEF h, w
<1>2. u \o s = Append(u, h) \o w
  BY <1>1
<1>3. (u \o <<h>>) \o w = u \o s
  BY <1>1
<1>4. (u \o <<a>>) \o (<<b>> \o w) = Append(Append(u, a), b) \o w
  <2>1. u \o <<a>> = Append(u, a) /\ Append(u, a) \in Seq(R)
    OBVIOUS
  <2>2. Append(u, a) \o (<<b>> \o w) = Append(Append(u, a), b) \o w
    <3> DEFINE v == Append(u, a)
    <3>1. v \in Seq(R)
      BY <2>1
    <3> HIDE DEF v
    <3>2. v \o (<<b>> \o w) = Append(v, b) \o w
      <4> DEFINE x == <<b>>
      <4>1. x \in Seq(R)
        OBVIOUS
      <4>2. v \o x = Append(v, b)
        BY <3>1
      <4> HIDE DEF x
      <4>3. v \o (x \o w) = (v \o x) \o w
        BY <1>1, <3>1, <4>1, ConcatAssociative
      <4>4. QED
        BY <4>2, <4>3 DEF x
    <3>3. QED
      BY <3>2 DEF v
  <2>3. QED
    BY <2>1, <2>2
<1>5. QED
  BY <1>1, <1>2, <1>3, <1>4 DEF h, w

LEMMA NothingMore ==
  ASSUME NEW R, NEW u \in Seq(R)
  PROVE  u \o <<>> = u /\ <<>> \o u = u
OBVIOUS

\* A report that is handed to VHF still tells what it told waiting.
LEMMA TakenKept ==
  ASSUME WindowsInput!InputAssumption, NEW q \in Queues, Sorted(q),
         WindowsInput!Size(q) > 0, NEW d \in Classes, NEW u \in Seq(WindowsInput!Reports),
         NEW given, NEW losses, NEW n, Kept(kind, d, u \o q[d], given, losses, n)
  PROVE  Kept(kind, d, (u \o WindowsInput!OfClass(d, <<WindowsInput!Popped(q)>>))
                         \o WindowsInput!Pop(q)[d], given, losses, n)
<1> DEFINE c == WindowsInput!Source(q)
           a == WindowsInput!Popped(q)
           after == WindowsInput!Pop(q)
           s == q[c]
<1>1. /\ c \in Classes /\ s # <<>> /\ s \in Seq(WindowsInput!Reports)
      /\ a \in WindowsInput!Reports /\ a.class = c
      /\ \A e \in Classes : e # c => after[e] = q[e]
      /\ \/ a = Head(s) /\ after[c] = Tail(s)
         \/ /\ c = "mouse" /\ kind = "mouse"
            /\ \E b \in WindowsInput!Reports :
                 /\ after[c] = <<b>> \o Tail(s)
                 /\ a.n = Head(s).n /\ a.discrete = Head(s).discrete
                 /\ b.n = Head(s).n /\ b.discrete = Head(s).discrete
  BY Takes
<1> HIDE DEF c, a, after, s
<1>2. WindowsInput!OfClass(d, <<a>>) = IF d = c THEN <<a>> ELSE <<>>
  BY <1>1, OneReport
<1>3. CASE d # c
  <2>1. after[d] = q[d] /\ u \o <<>> = u
    BY <1>1, <1>3, NothingMore
  <2>2. QED
    BY <1>2, <1>3, <2>1 DEF a, after
<1>4. CASE d = c /\ a = Head(s) /\ after[c] = Tail(s)
  <2>1. (u \o <<Head(s)>>) \o Tail(s) = u \o s
    BY <1>1, SplitInTwo
  <2>2. Kept(kind, d, u \o s, given, losses, n)
    BY <1>4 DEF s
  <2>3. Kept(kind, d, (u \o <<a>>) \o after[d], given, losses, n)
    BY <1>4, <2>1, <2>2
  <2>4. QED
    BY <1>2, <1>4, <2>3 DEF a, after
<1>5. ASSUME d = c, c = "mouse", kind = "mouse", NEW b \in WindowsInput!Reports,
             after[c] = <<b>> \o Tail(s),
             a.n = Head(s).n, a.discrete = Head(s).discrete,
             b.n = Head(s).n, b.discrete = Head(s).discrete
      PROVE  Kept(kind, d, (u \o <<a>>) \o after[d], given, losses, n)
  <2> DEFINE h == Head(s)
             rest == Tail(s)
  <2>1. /\ h \in WindowsInput!Reports /\ rest \in Seq(WindowsInput!Reports)
        /\ (u \o <<a>>) \o (<<b>> \o rest) = Append(Append(u, a), b) \o rest
        /\ u \o s = Append(u, h) \o rest
    <3>1. /\ s \in Seq(WindowsInput!Reports) /\ s # <<>> /\ u \in Seq(WindowsInput!Reports)
          /\ a \in WindowsInput!Reports /\ b \in WindowsInput!Reports
      BY <1>1, <1>5
    <3>2. QED
      BY <3>1, SplitInTwo
  <2>2. a.n = h.n /\ b.n = h.n /\ a.discrete = h.discrete /\ b.discrete = h.discrete
    BY <1>5
  <2> HIDE DEF h, rest
  <2>3. Kept(kind, d, Append(u, h) \o rest, given, losses, n)
    BY <1>5, <2>1 DEF s
  <2>4. Kept(kind, d, Append(Append(u, a), b) \o rest, given, losses, n)
    BY <1>1, <1>5, <2>1, <2>2, <2>3, SplitIsKept
  <2>5. QED
    BY <1>5, <2>1, <2>4 DEF rest
<1>6. CASE d = c /\ ~(a = Head(s) /\ after[c] = Tail(s))
  <2>1. Kept(kind, d, (u \o <<a>>) \o after[d], given, losses, n)
    BY <1>1, <1>5, <1>6
  <2>2. QED
    BY <1>2, <1>6, <2>1 DEF a, after
<1>7. QED
  BY <1>3, <1>4, <1>6

\* It moves by what it would have.
LEMMA TakenMoves ==
  ASSUME WindowsInput!InputAssumption, NEW q \in Queues, Sorted(q),
         WindowsInput!Size(q) > 0, NEW u \in Seq(WindowsInput!Reports), NEW axis \in {"x", "wheel"}
  PROVE  WindowsInput!Motion(axis, (u \o WindowsInput!OfClass("mouse", <<WindowsInput!Popped(q)>>))
                                     \o WindowsInput!Pop(q)["mouse"])
           = WindowsInput!Motion(axis, u \o q["mouse"])
<1> DEFINE c == WindowsInput!Source(q)
           a == WindowsInput!Popped(q)
           after == WindowsInput!Pop(q)
           s == q[c]
<1>1. /\ c \in Classes /\ s # <<>> /\ s \in Seq(WindowsInput!Reports)
      /\ a \in WindowsInput!Reports /\ a.class = c
      /\ \A e \in Classes : e # c => after[e] = q[e]
      /\ \/ a = Head(s) /\ after[c] = Tail(s)
         \/ /\ c = "mouse" /\ kind = "mouse"
            /\ \E b \in WindowsInput!Reports :
                 /\ after[c] = <<b>> \o Tail(s)
                 /\ a.x + b.x = Head(s).x /\ a.wheel + b.wheel = Head(s).wheel
  BY Takes
<1> HIDE DEF c, a, after, s
<1>2. WindowsInput!OfClass("mouse", <<a>>) = IF "mouse" = c THEN <<a>> ELSE <<>>
  BY <1>1, OneReport
<1>3. CASE c # "mouse"
  <2>1. after["mouse"] = q["mouse"] /\ u \o <<>> = u
    BY <1>1, <1>3, NothingMore DEF Classes
  <2>2. QED
    BY <1>2, <1>3, <2>1 DEF a, after
<1>4. CASE c = "mouse" /\ a = Head(s) /\ after[c] = Tail(s)
  <2>1. (u \o <<Head(s)>>) \o Tail(s) = u \o s
    BY <1>1, SplitInTwo
  <2>2. (u \o <<a>>) \o after["mouse"] = u \o q["mouse"]
    BY <1>4, <2>1 DEF s
  <2>3. QED
    BY <1>2, <1>4, <2>2 DEF a, after
<1>5. ASSUME c = "mouse", NEW b \in WindowsInput!Reports,
             after[c] = <<b>> \o Tail(s),
             a.x + b.x = Head(s).x, a.wheel + b.wheel = Head(s).wheel
      PROVE  WindowsInput!Motion(axis, (u \o <<a>>) \o after["mouse"])
               = WindowsInput!Motion(axis, u \o q["mouse"])
  <2> DEFINE h == Head(s)
             rest == Tail(s)
  <2>1. /\ h \in WindowsInput!Reports /\ rest \in Seq(WindowsInput!Reports)
        /\ (u \o <<a>>) \o (<<b>> \o rest) = Append(Append(u, a), b) \o rest
        /\ u \o s = Append(u, h) \o rest
    <3>1. /\ s \in Seq(WindowsInput!Reports) /\ s # <<>> /\ u \in Seq(WindowsInput!Reports)
          /\ a \in WindowsInput!Reports /\ b \in WindowsInput!Reports
      BY <1>1, <1>5
    <3>2. QED
      BY <3>1, SplitInTwo
  <2>2. a[axis] + b[axis] = h[axis]
    BY <1>5
  <2> HIDE DEF h, rest
  <2>3. WindowsInput!Motion(axis, Append(Append(u, a), b) \o rest)
          = WindowsInput!Motion(axis, Append(u, h) \o rest)
    BY <1>1, <2>1, <2>2, SplitMoves
  <2>4. after["mouse"] = <<b>> \o rest /\ s = q["mouse"]
    BY <1>5 DEF rest, s
  <2>5. QED
    BY <2>1, <2>3, <2>4
<1>6. CASE c = "mouse" /\ ~(a = Head(s) /\ after[c] = Tail(s))
  <2>1. WindowsInput!Motion(axis, (u \o <<a>>) \o after["mouse"])
          = WindowsInput!Motion(axis, u \o q["mouse"])
    BY <1>1, <1>5, <1>6
  <2>2. QED
    BY <1>2, <1>6, <2>1 DEF a, after
<1>7. QED
  BY <1>3, <1>4, <1>6

\* What is left is sorted.
LEMMA TakenSorted ==
  ASSUME WindowsInput!InputAssumption, NEW q \in Queues, Sorted(q),
         WindowsInput!Size(q) > 0
  PROVE  Sorted(WindowsInput!Pop(q))
<1> DEFINE c == WindowsInput!Source(q)
           a == WindowsInput!Popped(q)
           after == WindowsInput!Pop(q)
           s == q[c]
<1>1. /\ c \in Classes /\ s # <<>> /\ s \in Seq(WindowsInput!Reports)
      /\ a \in WindowsInput!Reports
      /\ \A e \in Classes : e # c => after[e] = q[e]
      /\ \/ a = Head(s) /\ after[c] = Tail(s)
         \/ /\ c = "mouse" /\ kind = "mouse"
            /\ \E b \in WindowsInput!Reports :
                 after[c] = <<b>> \o Tail(s) /\ b.class = c
  BY Takes
<1>2. \A e \in Classes : AllFit(e, q[e])
  BY DEF Sorted
<1>3. AllFit(c, s)
  BY <1>1, <1>2
<1> HIDE DEF c, a, after, s
<1>4. AllFit(c, Tail(s)) /\ Tail(s) \in Seq(WindowsInput!Reports)
  BY <1>1, <1>3, RestFits
<1>5. AllFit(c, after[c])
  <2>1. ASSUME c = "mouse", NEW b \in WindowsInput!Reports, after[c] = <<b>> \o Tail(s), b.class = c
        PROVE  AllFit(c, after[c])
    <3>1. Fits(c, b)
      BY <2>1 DEF Fits
    <3> DEFINE rest == Tail(s)
    <3>2. rest \in Seq(WindowsInput!Reports) /\ AllFit(c, rest)
      BY <1>4
    <3> HIDE DEF rest
    <3>3. AllFit(c, <<b>> \o rest)
      BY <3>1, <3>2, OthersFit
    <3>4. QED
      BY <2>1, <3>3 DEF rest
  <2>2. QED
    BY <1>1, <1>4, <2>1
<1>6. \A e \in Classes : AllFit(e, after[e])
  BY <1>1, <1>2, <1>5
<1>7. kind = "mouse" => after["state"] = <<>>
  BY <1>1 DEF Sorted, Classes, s
<1>8. kind # "mouse" => after["mouse"] = <<>>
  BY <1>1 DEF Sorted, Classes, s
<1>9. QED
  BY <1>6, <1>7, <1>8 DEF Sorted, after

-----------------------------------------------------------------------------
(* What VHF is told: the reports it has accepted, the one it is handed and    *)
(* those that wait.                                                          *)

\* A set of at most one report, as a sequence.
LEMMA OneInSequence ==
  /\ WindowsInput!SetToSeq({}) = <<>>
  /\ \A x : WindowsInput!SetToSeq({x}) = <<x>>
<1> DEFINE Size(S) == WindowsInput!Cardinality(S)
<1>1. Size({}) = 0 /\ \A x : Size({x}) = 1
  <2>1. \A S : WindowsInput!Cardinality(S) = Cardinality(S)
    BY DEF WindowsInput!Cardinality, Cardinality
  <2>2. QED
    BY <2>1, FS_EmptySet, FS_Singleton
<1>2. WindowsInput!SetToSeq({}) = <<>>
  <2>1. \A f \in [1..0 -> {}] : f = <<>>
    OBVIOUS
  <2>2. <<>> \in [1..0 -> {}] /\ WindowsInput!IsInjective(<<>>)
    BY DEF WindowsInput!IsInjective
  <2>3. QED
    BY <1>1, <2>1, <2>2 DEF WindowsInput!SetToSeq
<1>3. ASSUME NEW x PROVE WindowsInput!SetToSeq({x}) = <<x>>
  <2>1. \A f \in [1..1 -> {x}] : f = <<x>>
    OBVIOUS
  <2>2. <<x>> \in [1..1 -> {x}] /\ WindowsInput!IsInjective(<<x>>)
    BY DEF WindowsInput!IsInjective
  <2>3. QED
    BY <1>1, <2>1, <2>2 DEF WindowsInput!SetToSeq
<1>4. QED
  BY <1>2, <1>3

\* No thread hands VHF a report, or one does.
LEMMA NoneSubmitted ==
  ASSUME \A t \in WindowsInput!Threads : pc[t] # "submit"
  PROVE  WindowsInput!Submitted = <<>>
<1>1. {held[t].report : t \in {u \in WindowsInput!Threads : pc[u] = "submit"}} = {}
  OBVIOUS
<1>2. QED
  BY <1>1, OneInSequence DEF WindowsInput!Submitted

LEMMA OneSubmitted ==
  ASSUME NEW t \in WindowsInput!Threads, pc[t] = "submit",
         \A u \in WindowsInput!Threads : pc[u] = "submit" => u = t
  PROVE  WindowsInput!Submitted = <<held[t].report>>
<1>1. {held[v].report : v \in {u \in WindowsInput!Threads : pc[u] = "submit"}}
        = {held[t].report}
  OBVIOUS
<1>2. QED
  BY <1>1, OneInSequence DEF WindowsInput!Submitted

LEMMA SameSubmitted ==
  ASSUME \A t \in WindowsInput!Threads : pc'[t] = "submit" <=> pc[t] = "submit",
         \A t \in WindowsInput!Threads : pc[t] = "submit" => held'[t] = held[t]
  PROVE  WindowsInput!Submitted' = WindowsInput!Submitted
<1>1. {held'[t].report : t \in {u \in WindowsInput!Threads : pc'[u] = "submit"}}
        = {held[t].report : t \in {u \in WindowsInput!Threads : pc[u] = "submit"}}
  OBVIOUS
<1>2. QED
  BY <1>1 DEF WindowsInput!Submitted

\* What VHF has got and is about to get, of one class.
Before(c) ==
  WindowsInput!OfClass(c, delivered) \o WindowsInput!OfClass(c, WindowsInput!Submitted)

\* What VHF has, gets and will get tells what was sent, and moves as far.
InputKept ==
  /\ \A c \in Classes :
       Kept(kind, c, Before(c) \o waiting[c], WindowsInput!OfClass(c, pushed), lost, latest[c])
  /\ \A a \in {"x", "wheel"} :
       WindowsInput!Motion(a, Before("mouse") \o waiting["mouse"])
         + WindowsInput!Motion(a, Reported(lost)) = WindowsInput!Motion(a, pushed)

StreamInv ==
  /\ lost \in Seq(Losses)
  /\ Sorted(waiting)
  /\ \A c \in Classes : latest[c] <= Len(pushed)
  /\ WindowsInput!Undisturbed => InputKept

\* Sequences of one class.
LEMMA OfClassTyped ==
  ASSUME NEW c, NEW s \in Seq(WindowsInput!Reports)
  PROVE  WindowsInput!OfClass(c, s) \in Seq(WindowsInput!Reports)
<1>1. PICK f : /\ \A i \in 0..Len(s) : f[i] \in Seq(WindowsInput!Reports)
               /\ WindowsInput!OfClass(c, s) = f[Len(s)]
  BY OfClassFolds
<1>2. Len(s) \in 0..Len(s)
  OBVIOUS
<1>3. QED
  BY <1>1, <1>2

LEMMA ClassesTyped ==
  ASSUME QueueTypes
  PROVE  /\ waiting \in Queues /\ pushed \in Seq(WindowsInput!Reports) /\ Len(pushed) \in Nat
         /\ delivered \in Seq(WindowsInput!Reports)
         /\ \A c \in Classes : waiting[c] \in Seq(WindowsInput!Reports) /\ latest[c] \in Nat
         /\ \A c : WindowsInput!OfClass(c, pushed) \in Seq(WindowsInput!Reports)
         /\ \A c : WindowsInput!OfClass(c, delivered) \in Seq(WindowsInput!Reports)
<1>1. /\ waiting \in Queues /\ pushed \in Seq(WindowsInput!Reports)
      /\ delivered \in Seq(WindowsInput!Reports)
      /\ latest \in [Classes -> 0..MaxReports]
  BY DEF QueueTypes, Queues, Classes
<1>2. \A c \in Classes : waiting[c] \in Seq(WindowsInput!Reports)
  BY <1>1, Deques DEF Classes
<1>3. \A c, s : s \in Seq(WindowsInput!Reports) =>
        WindowsInput!OfClass(c, s) \in Seq(WindowsInput!Reports)
  BY OfClassTyped
<1>4. QED
  BY <1>1, <1>2, <1>3

\* What is handed to VHF is a report, or nothing.
LEMMA BeforeTyped ==
  ASSUME QueueTypes, DeviceTypes, RequestHeld
  PROVE  \A c : Before(c) \in Seq(WindowsInput!Reports)
<1>1. WindowsInput!Submitted \in Seq(WindowsInput!Reports)
  <2>1. CASE \A t \in WindowsInput!Threads : pc[t] # "submit"
    <3>1. WindowsInput!Submitted = <<>>
      BY <2>1, NoneSubmitted
    <3>2. QED
      BY <3>1
  <2>2. CASE \E t \in WindowsInput!Threads : pc[t] = "submit"
    <3>1. PICK t \in WindowsInput!Threads : pc[t] = "submit"
      BY <2>2
    <3>2. WindowsInput!Submitted = <<held[t].report>>
      BY <3>1, OneSubmitted DEF RequestHeld
    <3>3. held[t].report \in WindowsInput!Reports
      BY <3>1, Submits DEF InSubmit
    <3>4. QED
      BY <3>2, <3>3
  <2>3. QED
    BY <2>1, <2>2
<1>2. SUFFICES ASSUME NEW c PROVE Before(c) \in Seq(WindowsInput!Reports)
  OBVIOUS
<1> DEFINE s == WindowsInput!Submitted
<1>3. \A w \in Seq(WindowsInput!Reports) :
        WindowsInput!OfClass(c, w) \in Seq(WindowsInput!Reports)
  BY OfClassTyped
<1>4. WindowsInput!OfClass(c, s) \in Seq(WindowsInput!Reports)
      /\ WindowsInput!OfClass(c, delivered) \in Seq(WindowsInput!Reports)
  BY <1>1, <1>3, ClassesTyped
<1>5. QED
  BY <1>4 DEF Before

\* Nothing that tells is touched.
LEMMA SameStream ==
  ASSUME StreamInv, UNCHANGED <<kind, waiting, latest, pushed, lost, delivered>>,
         WindowsInput!Submitted' = WindowsInput!Submitted,
         WindowsInput!Undisturbed' => WindowsInput!Undisturbed
  PROVE  StreamInv'
<1>1. \A c : Before(c)' = Before(c)
  BY DEF Before
<1>2. Sorted(waiting)' <=> Sorted(waiting)
  BY DEF Sorted
<1>3. InputKept => InputKept'
  BY <1>1 DEF InputKept
<1>4. QED
  BY <1>2, <1>3 DEF StreamInv

\* A report is queued.
LEMMA QueueKeepsStream ==
  ASSUME WindowsInput!InputAssumption, QueueTypes, DeviceTypes, RequestHeld, StreamInv,
         NEW t \in WindowsInput!Threads, WindowsInput!QueueReport(t)
  PROVE  StreamInv'
<1>1. pc[t] = "found" /\ UNCHANGED <<kind, del, refused, delivered, held>>
  BY DEF WindowsInput!QueueReport
<1>2. PICK place \in {"idle", "next"} : pc' = [pc EXCEPT ![t] = place]
  BY DEF WindowsInput!QueueReport, WindowsInput!Goto
<1>3. WindowsInput!Submitted' = WindowsInput!Submitted
  <2>1. \A u \in WindowsInput!Threads : pc'[u] = "submit" <=> pc[u] = "submit"
    BY <1>1, <1>2, Moved
  <2>2. QED
    BY <1>1, <2>1, SameSubmitted
<1>4. CASE del # "no" \/ ~handle
  <2>1. UNCHANGED <<waiting, latest, pushed, lost>>
    BY <1>4 DEF WindowsInput!QueueReport, WindowsInput!queueVars
  <2>2. QED
    BY <1>1, <1>3, <2>1, SameStream DEF WindowsInput!Undisturbed
<1>5. CASE ~(del # "no" \/ ~handle)
  <2>1. PICK r \in WindowsInput!Inputs(t, Len(pushed) + 1) :
          /\ waiting' = WindowsInput!Push(waiting, r)
          /\ latest' = [latest EXCEPT ![r.class] = r.n]
          /\ lost' = LostTo(waiting, r, lost)
          /\ pushed' = Append(pushed, r)
    BY <1>5 DEF WindowsInput!QueueReport, LostTo
  <2> DEFINE m == Len(pushed) + 1
  <2>2. /\ waiting \in Queues /\ pushed \in Seq(WindowsInput!Reports) /\ Len(pushed) \in Nat
        /\ \A c \in Classes : waiting[c] \in Seq(WindowsInput!Reports) /\ latest[c] \in Nat
        /\ \A c : WindowsInput!OfClass(c, pushed) \in Seq(WindowsInput!Reports)
    BY ClassesTyped
  <2>3. m \in Nat /\ r \in WindowsInput!Inputs(t, m)
    BY <2>1, <2>2
  <2>4. r \in WindowsInput!Reports /\ r.n = m /\ r.class \in Classes
    BY <2>3, InputsAre
  <2>5. \A c : Before(c)' = Before(c) /\ Before(c) \in Seq(WindowsInput!Reports)
    BY <1>1, <1>3, BeforeTyped DEF Before
  <2>6. Sorted(waiting)'
    <3>1. Sorted(WindowsInput!Push(waiting, r))
      BY <2>2, <2>3, PushSorted DEF StreamInv
    <3>2. QED
      BY <1>1, <2>1, <3>1 DEF Sorted
  <2>7. lost' \in Seq(Losses)
    BY <2>1, <2>2, <2>4, Losing DEF StreamInv
  <2>8. latest' \in [Classes -> Nat] /\ \A c \in Classes :
          latest'[c] = IF c = r.class THEN r.n ELSE latest[c]
    BY <2>1, <2>4 DEF QueueTypes, Classes
  <2>9. \A c \in Classes : latest'[c] <= Len(pushed')
    <3>1. Len(pushed') = m
      BY <2>1, <2>2, <2>4
    <3>2. QED
      BY <2>2, <2>4, <2>8, <3>1 DEF StreamInv
  <2>10. ASSUME WindowsInput!Undisturbed', NEW c \in Classes
         PROVE  Kept(kind', c, Before(c)' \o waiting'[c],
                     WindowsInput!OfClass(c, pushed'), lost', latest'[c])
    <3> DEFINE u == Before(c)
               given == WindowsInput!OfClass(c, pushed)
               n == latest[c]
    <3>1. Kept(kind, c, u \o waiting[c], given, lost, n)
      BY <1>1, <2>10 DEF StreamInv, InputKept, WindowsInput!Undisturbed
    <3>2. /\ u \in Seq(WindowsInput!Reports) /\ given \in Seq(WindowsInput!Reports)
          /\ n \in Nat /\ n <= m /\ lost \in Seq(Losses) /\ Sorted(waiting)
      <4>1. n <= Len(pushed) /\ lost \in Seq(Losses) /\ Sorted(waiting)
        BY DEF StreamInv
      <4>2. QED
        BY <2>2, <2>5, <4>1
    <3>3. WindowsInput!OfClass(c, pushed')
            = IF c = r.class THEN Append(given, r) ELSE given
      BY <2>1, <2>2, <2>4, OfClassAppends
    <3> HIDE DEF u, given, n, m
    <3>4. IF c = r.class
            THEN Kept(kind, c, u \o WindowsInput!Push(waiting, r)[c], Append(given, r),
                      LostTo(waiting, r, lost), r.n)
            ELSE Kept(kind, c, u \o WindowsInput!Push(waiting, r)[c], given,
                      LostTo(waiting, r, lost), n)
      BY <2>2, <2>3, <3>1, <3>2, PushKept
    <3>5. Before(c)' = u /\ latest'[c] = IF c = r.class THEN r.n ELSE n
      BY <2>5, <2>8 DEF u, n
    <3>6. QED
      BY <1>1, <2>1, <3>3, <3>4, <3>5
  <2>11. ASSUME WindowsInput!Undisturbed', NEW a \in {"x", "wheel"}
         PROVE  WindowsInput!Motion(a, Before("mouse")' \o waiting'["mouse"])
                  + WindowsInput!Motion(a, Reported(lost')) = WindowsInput!Motion(a, pushed')
    <3> DEFINE u == Before("mouse")
    <3>1. WindowsInput!Motion(a, u \o waiting["mouse"]) + WindowsInput!Motion(a, Reported(lost))
            = WindowsInput!Motion(a, pushed)
      BY <1>1, <2>11 DEF StreamInv, InputKept, WindowsInput!Undisturbed
    <3>2. u \in Seq(WindowsInput!Reports) /\ Before("mouse")' = u
      BY <2>5
    <3> HIDE DEF u, m
    <3>3. WindowsInput!Motion(a, u \o WindowsInput!Push(waiting, r)["mouse"])
              + WindowsInput!Motion(a, Reported(LostTo(waiting, r, lost)))
            = WindowsInput!Motion(a, u \o waiting["mouse"])
              + WindowsInput!Motion(a, Reported(lost)) + r[a]
      BY <2>2, <2>3, <3>2, PushMoves DEF StreamInv
    <3>4. WindowsInput!Motion(a, Append(pushed, r)) = WindowsInput!Motion(a, pushed) + r[a]
      BY <2>2, <2>4, MotionAppends
    <3>5. QED
      BY <2>1, <3>1, <3>2, <3>3, <3>4
  <2>12. InputKept' <=>
           /\ \A c \in Classes :
                Kept(kind', c, Before(c)' \o waiting'[c], WindowsInput!OfClass(c, pushed'), lost',
                     latest'[c])
           /\ \A a \in {"x", "wheel"} :
                WindowsInput!Motion(a, Before("mouse")' \o waiting'["mouse"])
                  + WindowsInput!Motion(a, Reported(lost')) = WindowsInput!Motion(a, pushed')
    BY DEF InputKept, Before
  <2>13. QED
    BY <2>6, <2>7, <2>9, <2>10, <2>11, <2>12 DEF StreamInv
<1>6. QED
  BY <1>4, <1>5

\* A report is taken from the queue.
LEMMA PrepareKeepsStream ==
  ASSUME WindowsInput!InputAssumption, QueueTypes, DeviceTypes, RequestHeld, StreamInv,
         NEW t \in WindowsInput!Threads, WindowsInput!PrepareSubmission(t)
  PROVE  StreamInv'
<1>1. UNCHANGED <<kind, del, latest, pushed, lost, delivered, refused>> /\ pc[t] = "next"
  BY DEF WindowsInput!PrepareSubmission
<1>2. CASE ~WindowsInput!MayPrepare
  <2>1. pc' = [pc EXCEPT ![t] = "idle"] /\ UNCHANGED <<waiting, held>>
    BY <1>2 DEF WindowsInput!PrepareSubmission, WindowsInput!Goto
  <2>2. \A u \in WindowsInput!Threads : pc'[u] = "submit" <=> pc[u] = "submit"
    BY <1>1, <2>1, Moved
  <2>3. WindowsInput!Submitted' = WindowsInput!Submitted
    BY <2>1, <2>2, SameSubmitted
  <2>4. QED
    BY <1>1, <2>1, <2>3, SameStream DEF WindowsInput!Undisturbed
<1>3. CASE WindowsInput!MayPrepare
  <2> DEFINE h == WindowsInput!Popped(waiting)
             new == [buffer |-> buffers + 1, report |-> h, ok |-> TRUE]
  <2>1. /\ waiting' = WindowsInput!Pop(waiting) /\ held' = [held EXCEPT ![t] = new]
        /\ pc' = [pc EXCEPT ![t] = "submit"] /\ ready /\ WindowsInput!Size(waiting) > 0
    BY <1>3 DEF WindowsInput!PrepareSubmission, WindowsInput!Goto, WindowsInput!MayPrepare
  <2>2. /\ waiting \in Queues
        /\ \A c \in Classes : waiting[c] \in Seq(WindowsInput!Reports)
        /\ \A c : WindowsInput!OfClass(c, delivered) \in Seq(WindowsInput!Reports)
    BY ClassesTyped
  <2>3. h \in WindowsInput!Reports /\ new.report = h
    BY <2>1, <2>2, Taken
  <2>4. new \in Submissions
    BY <2>3 DEF Submissions, DeviceTypes
  <2>5. \A u \in WindowsInput!Threads : pc[u] # "submit"
    BY <2>1 DEF RequestHeld
  <2> HIDE DEF new, h
  <2>6. WindowsInput!Submitted = <<>>
    BY <2>5, NoneSubmitted
  <2>7. WindowsInput!Submitted' = <<h>>
    <3>1. /\ held'[t] = new /\ pc'[t] = "submit"
          /\ \A u \in WindowsInput!Threads : u # t => pc'[u] = pc[u]
      BY <2>1, <2>4, Held, Moved
    <3>2. \A u \in WindowsInput!Threads : pc'[u] = "submit" => u = t
      BY <2>5, <3>1
    <3>3. {held'[v].report : v \in {u \in WindowsInput!Threads : pc'[u] = "submit"}} = {h}
      BY <2>3, <3>1, <3>2
    <3>4. QED
      BY <3>3, OneInSequence DEF WindowsInput!Submitted
  <2>8. \A c : Before(c) = WindowsInput!OfClass(c, delivered)
    <3>1. SUFFICES ASSUME NEW c PROVE Before(c) = WindowsInput!OfClass(c, delivered)
      OBVIOUS
    <3>2. WindowsInput!OfClass(c, <<>>) = <<>>
      BY OfClassEmpty
    <3>3. WindowsInput!OfClass(c, delivered) \o <<>> = WindowsInput!OfClass(c, delivered)
      BY <2>2, NothingMore
    <3>4. QED
      BY <2>6, <3>2, <3>3 DEF Before
  <2>9. \A c : Before(c)' = Before(c) \o WindowsInput!OfClass(c, <<h>>)
    BY <1>1, <2>7, <2>8 DEF Before
  <2>10. Sorted(waiting)'
    <3>1. Sorted(WindowsInput!Pop(waiting))
      BY <2>1, <2>2, TakenSorted DEF StreamInv
    <3>2. QED
      BY <1>1, <2>1, <3>1 DEF Sorted
  <2>11. ASSUME WindowsInput!Undisturbed', NEW c \in Classes
         PROVE  Kept(kind', c, Before(c)' \o waiting'[c],
                     WindowsInput!OfClass(c, pushed'), lost', latest'[c])
    <3> DEFINE u == Before(c)
               given == WindowsInput!OfClass(c, pushed)
               n == latest[c]
    <3>1. Kept(kind, c, u \o waiting[c], given, lost, n)
      BY <1>1, <2>11 DEF StreamInv, InputKept, WindowsInput!Undisturbed
    <3>2. u \in Seq(WindowsInput!Reports) /\ Sorted(waiting)
      BY <2>2, <2>8 DEF StreamInv
    <3>3. UNCHANGED <<WindowsInput!OfClass(c, pushed), lost, latest[c], kind>>
      BY <1>1
    <3> HIDE DEF u, given, n
    <3>4. Kept(kind, c, (u \o WindowsInput!OfClass(c, <<h>>)) \o WindowsInput!Pop(waiting)[c],
               given, lost, n)
      BY <2>1, <2>2, <3>1, <3>2, TakenKept DEF h
    <3>5. QED
      BY <2>1, <2>9, <3>3, <3>4 DEF u, given, n
  <2>12. ASSUME WindowsInput!Undisturbed', NEW a \in {"x", "wheel"}
         PROVE  WindowsInput!Motion(a, Before("mouse")' \o waiting'["mouse"])
                  + WindowsInput!Motion(a, Reported(lost')) = WindowsInput!Motion(a, pushed')
    <3> DEFINE u == Before("mouse")
    <3>1. WindowsInput!Motion(a, u \o waiting["mouse"]) + WindowsInput!Motion(a, Reported(lost))
            = WindowsInput!Motion(a, pushed)
      BY <1>1, <2>12 DEF StreamInv, InputKept, WindowsInput!Undisturbed
    <3>2. u \in Seq(WindowsInput!Reports) /\ Sorted(waiting)
      BY <2>2, <2>8 DEF StreamInv
    <3> HIDE DEF u
    <3>3. WindowsInput!Motion(a, (u \o WindowsInput!OfClass("mouse", <<h>>))
                                   \o WindowsInput!Pop(waiting)["mouse"])
            = WindowsInput!Motion(a, u \o waiting["mouse"])
      BY <2>1, <2>2, <3>2, TakenMoves DEF h
    <3>4. QED
      BY <1>1, <2>1, <2>9, <3>1, <3>3 DEF u
  <2>13. InputKept' <=>
           /\ \A c \in Classes :
                Kept(kind', c, Before(c)' \o waiting'[c], WindowsInput!OfClass(c, pushed'), lost',
                     latest'[c])
           /\ \A a \in {"x", "wheel"} :
                WindowsInput!Motion(a, Before("mouse")' \o waiting'["mouse"])
                  + WindowsInput!Motion(a, Reported(lost')) = WindowsInput!Motion(a, pushed')
    BY DEF InputKept, Before
  <2>14. QED
    BY <1>1, <2>10, <2>11, <2>12, <2>13 DEF StreamInv
<1>4. QED
  BY <1>2, <1>3

\* VHF accepts a report, or refuses it.
LEMMA SubmitKeepsStream ==
  ASSUME QueueTypes, DeviceTypes, RequestHeld, StreamInv,
         NEW t \in WindowsInput!Threads, WindowsInput!Submit(t)
  PROVE  StreamInv'
<1>1. /\ UNCHANGED <<kind, del, waiting, latest, pushed>> /\ pc[t] = "submit"
      /\ pc' = [pc EXCEPT ![t] = "finish"]
      /\ \/ UNCHANGED <<held, refused, lost>> /\ delivered' = Append(delivered, held[t].report)
         \/ refused' = TRUE /\ lost' = <<>>
  BY DEF WindowsInput!Submit, WindowsInput!Goto, WindowsInput!Forget
<1>2. Sorted(waiting)' /\ \A c \in Classes : latest'[c] <= Len(pushed')
  BY <1>1 DEF StreamInv, Sorted
<1>3. CASE refused' = TRUE /\ lost' = <<>>
  <2>1. lost' \in Seq(Losses)
    BY <1>3
  <2>2. ~WindowsInput!Undisturbed'
    BY <1>3 DEF WindowsInput!Undisturbed
  <2>3. QED
    BY <1>2, <2>1, <2>2 DEF StreamInv
<1>4. CASE UNCHANGED <<held, refused, lost>> /\ delivered' = Append(delivered, held[t].report)
  <2> DEFINE h == held[t].report
  <2>1. h \in WindowsInput!Reports /\ delivered' = Append(delivered, h)
    BY <1>1, <1>4, Submits DEF InSubmit
  <2>2. \A u \in WindowsInput!Threads : pc[u] = "submit" => u = t
    BY <1>1 DEF RequestHeld
  <2>3. WindowsInput!Submitted = <<h>>
    BY <1>1, <2>2, OneSubmitted
  <2>4. \A u \in WindowsInput!Threads : pc'[u] # "submit"
    BY <1>1, <2>2, Moved
  <2>5. WindowsInput!Submitted' = <<>>
    <3>1. {held'[v].report : v \in {u \in WindowsInput!Threads : pc'[u] = "submit"}} = {}
      BY <2>4
    <3>2. QED
      BY <3>1, OneInSequence DEF WindowsInput!Submitted
  <2> HIDE DEF h
  <2>6. /\ delivered \in Seq(WindowsInput!Reports)
        /\ \A c : WindowsInput!OfClass(c, delivered) \in Seq(WindowsInput!Reports)
    BY ClassesTyped
  <2>7. \A c : Before(c)' = Before(c)
    <3>1. SUFFICES ASSUME NEW c PROVE Before(c)' = Before(c)
      OBVIOUS
    <3> DEFINE s == WindowsInput!OfClass(c, delivered)
    <3>2. s \in Seq(WindowsInput!Reports)
      BY <2>6
    <3>3. WindowsInput!OfClass(c, <<>>) = <<>>
      BY OfClassEmpty
    <3>4. WindowsInput!OfClass(c, <<h>>) = IF h.class = c THEN <<h>> ELSE <<>>
      BY <2>1, OneReport
    <3>5. WindowsInput!OfClass(c, Append(delivered, h)) = IF h.class = c THEN Append(s, h) ELSE s
      BY <2>1, <2>6, OfClassAppends
    <3>6. Before(c)' = (IF h.class = c THEN Append(s, h) ELSE s) \o <<>>
      BY <2>1, <2>5, <3>3, <3>5 DEF Before
    <3>7. Before(c) = s \o IF h.class = c THEN <<h>> ELSE <<>>
      BY <2>3, <3>4 DEF Before
    <3> HIDE DEF s
    <3>8. s \o <<>> = s /\ Append(s, h) \o <<>> = Append(s, h) /\ s \o <<h>> = Append(s, h)
      BY <2>1, <3>2
    <3>9. CASE h.class = c
      BY <3>6, <3>7, <3>8, <3>9
    <3>10. CASE h.class # c
      <4>1. Before(c)' = s \o <<>> /\ Before(c) = s \o <<>>
        BY <3>6, <3>7, <3>10
      <4>2. QED
        BY <4>1
    <3>11. QED
      BY <3>9, <3>10
  <2>8. WindowsInput!Undisturbed' => InputKept'
    <3>1. WindowsInput!Undisturbed' <=> WindowsInput!Undisturbed
      BY <1>1, <1>4 DEF WindowsInput!Undisturbed
    <3>2. InputKept => InputKept'
      BY <1>1, <1>4, <2>7 DEF InputKept
    <3>3. QED
      BY <3>1, <3>2 DEF StreamInv
  <2>9. QED
    BY <1>2, <1>4, <2>8 DEF StreamInv
<1>5. QED
  BY <1>1, <1>3, <1>4

\* Nothing was sent, and nothing is told.
LEMMA StreamInit ==
  ASSUME WindowsInput!InputAssumption, WindowsInput!Init
  PROVE  StreamInv
<1>1. /\ waiting = WindowsInput!Empty /\ pushed = <<>> /\ delivered = <<>> /\ lost = <<>>
      /\ latest = [c \in DOMAIN WindowsInput!Empty |-> 0]
      /\ pc = [t \in WindowsInput!Threads |-> "idle"]
  BY DEF WindowsInput!Init
<1>2. \A c \in Classes : waiting[c] = <<>> /\ latest[c] = 0
  BY <1>1 DEF WindowsInput!Empty, Classes
<1>3. lost \in Seq(Losses)
  BY <1>1
<1>4. Sorted(waiting)
  BY <1>2 DEF Sorted, AllFit, Classes
<1>5. \A c \in Classes : latest[c] <= Len(pushed)
  BY <1>1, <1>2
<1>6. WindowsInput!Submitted = <<>>
  BY <1>1, NoneSubmitted
<1>7. \A c : Before(c) = <<>> /\ WindowsInput!OfClass(c, pushed) = <<>>
  <2>1. SUFFICES ASSUME NEW c PROVE Before(c) = <<>> /\ WindowsInput!OfClass(c, pushed) = <<>>
    OBVIOUS
  <2>2. WindowsInput!OfClass(c, <<>>) = <<>>
    BY OfClassEmpty
  <2>3. <<>> \o <<>> = <<>>
    OBVIOUS
  <2>4. QED
    BY <1>1, <1>6, <2>2, <2>3 DEF Before
<1>8. InputKept
  <2>1. \A c \in Classes :
          Kept(kind, c, Before(c) \o waiting[c], WindowsInput!OfClass(c, pushed), lost, latest[c])
    <3>1. SUFFICES ASSUME NEW c \in Classes
                   PROVE  Kept(kind, c, Before(c) \o waiting[c], WindowsInput!OfClass(c, pushed),
                               lost, latest[c])
      OBVIOUS
    <3>2. Before(c) \o waiting[c] = <<>>
      BY <1>2, <1>7
    <3>3. Kept(kind, c, <<>>, <<>>, lost, latest[c])
      BY DEF Kept, TellsAll, TellsNewest, NoneNewer
    <3>4. QED
      BY <1>7, <3>2, <3>3
  <2>2. \A a \in {"x", "wheel"} :
          WindowsInput!Motion(a, Before("mouse") \o waiting["mouse"])
            + WindowsInput!Motion(a, Reported(lost)) = WindowsInput!Motion(a, pushed)
    <3>1. SUFFICES ASSUME NEW a \in {"x", "wheel"}
                   PROVE  WindowsInput!Motion(a, Before("mouse") \o waiting["mouse"])
                            + WindowsInput!Motion(a, Reported(lost))
                            = WindowsInput!Motion(a, pushed)
      OBVIOUS
    <3>2. Before("mouse") \o waiting["mouse"] = <<>>
      BY <1>2, <1>7 DEF Classes
    <3>3. Reported(lost) = <<>>
      BY <1>1 DEF Reported
    <3>4. WindowsInput!Motion(a, <<>>) = 0
      BY MotionEmpty
    <3>5. /\ WindowsInput!Motion(a, Before("mouse") \o waiting["mouse"]) = 0
          /\ WindowsInput!Motion(a, Reported(lost)) = 0 /\ WindowsInput!Motion(a, pushed) = 0
      BY <1>1, <3>2, <3>3, <3>4
    <3>6. QED
      BY <3>5
  <2>3. QED
    BY <2>1, <2>2 DEF InputKept
<1>9. QED
  BY <1>3, <1>4, <1>5, <1>8 DEF StreamInv

\* Every step keeps what VHF is told.
LEMMA StreamNext ==
  ASSUME WindowsInput!InputAssumption, QueueTypes, DeviceTypes, RequestHeld, StreamInv,
    [WindowsInput!Next]_(WindowsInput!vars)
  PROVE  StreamInv'
<1>1. ASSUME UNCHANGED <<kind, waiting, latest, pushed, lost, delivered, refused>>,
             del' = "no" => del = "no", UNCHANGED <<pc, held>>
      PROVE  StreamInv'
  <2>1. WindowsInput!Submitted' = WindowsInput!Submitted
    BY <1>1, SameSubmitted
  <2>2. QED
    BY <1>1, <2>1, SameStream DEF WindowsInput!Undisturbed
<1>2. ASSUME UNCHANGED <<kind, waiting, latest, pushed, lost, delivered, refused>>,
             del' = del, NEW t \in WindowsInput!Threads, pc[t] # "submit",
             NEW place \in {"idle", "found", "next"}, pc' = [pc EXCEPT ![t] = place],
             \A u \in WindowsInput!Threads : u # t => held'[u] = held[u]
      PROVE  StreamInv'
  <2>1. \A u \in WindowsInput!Threads : pc'[u] = "submit" <=> pc[u] = "submit"
    BY <1>2, Moved
  <2>2. \A u \in WindowsInput!Threads : pc[u] = "submit" => held'[u] = held[u]
    BY <1>2
  <2>3. WindowsInput!Submitted' = WindowsInput!Submitted
    BY <2>1, <2>2, SameSubmitted
  <2>4. QED
    BY <1>2, <2>3, SameStream DEF WindowsInput!Undisturbed
<1>3. ASSUME WindowsInput!VhfCreate PROVE StreamInv'
  BY <1>1, <1>3 DEF WindowsInput!VhfCreate, WindowsInput!queueVars
<1>4. ASSUME WindowsInput!VhfStart PROVE StreamInv'
  BY <1>1, <1>4 DEF WindowsInput!VhfStart, WindowsInput!queueVars
<1>5. ASSUME WindowsInput!Register PROVE StreamInv'
  BY <1>1, <1>5 DEF WindowsInput!Register, WindowsInput!queueVars
<1>6. ASSUME WindowsInput!HostReads PROVE StreamInv'
  BY <1>1, <1>6 DEF WindowsInput!HostReads, WindowsInput!queueVars
<1>7. ASSUME WindowsInput!Drained PROVE StreamInv'
  BY <1>1, <1>7 DEF WindowsInput!Drained, WindowsInput!queueVars
<1>8. ASSUME WindowsInput!VhfDelete PROVE StreamInv'
  BY <1>1, <1>8 DEF WindowsInput!VhfDelete, WindowsInput!queueVars
<1>9. ASSUME WindowsInput!DeleteEnds PROVE StreamInv'
  BY <1>1, <1>9 DEF WindowsInput!DeleteEnds, WindowsInput!queueVars
<1>10. ASSUME NEW t \in WindowsInput!Threads, WindowsInput!FindDevice(t) PROVE StreamInv'
  <2>1. /\ UNCHANGED <<kind, waiting, latest, pushed, lost, delivered, refused, held, del>>
        /\ pc[t] # "submit" /\ pc' = [pc EXCEPT ![t] = "found"]
    BY <1>10 DEF WindowsInput!FindDevice, WindowsInput!Goto, WindowsInput!queueVars
  <2>2. QED
    BY <1>2, <2>1
<1>11. ASSUME NEW t \in WindowsInput!Threads, WindowsInput!SwitchCommand(t) PROVE StreamInv'
  <2>1. /\ UNCHANGED <<kind, waiting, latest, pushed, lost, delivered, refused, held, del>>
        /\ pc[t] # "submit" /\ pc' = [pc EXCEPT ![t] = "found"]
    BY <1>11 DEF WindowsInput!SwitchCommand, WindowsInput!Goto, WindowsInput!queueVars
  <2>2. QED
    BY <1>2, <2>1
<1>12. ASSUME NEW t \in WindowsInput!Threads, WindowsInput!FinishSubmission(t) PROVE StreamInv'
  <2>1. /\ UNCHANGED <<kind, waiting, latest, pushed, lost, delivered, refused, del>>
        /\ pc[t] # "submit" /\ pc' = [pc EXCEPT ![t] = "idle"]
        /\ held' = [held EXCEPT ![t] = WindowsInput!NoSubmission]
    BY <1>12 DEF WindowsInput!FinishSubmission, WindowsInput!Goto, WindowsInput!queueVars
  <2>2. \A u \in WindowsInput!Threads : u # t => held'[u] = held[u]
    BY <2>1, Held
  <2>3. QED
    BY <1>2, <2>1, <2>2
<1>13. ASSUME NEW t \in WindowsInput!Threads, WindowsInput!ReadyForNext(t) PROVE StreamInv'
  <2>1. /\ UNCHANGED <<kind, waiting, latest, pushed, lost, delivered, refused, held, del>>
        /\ pc[t] # "submit" /\ (UNCHANGED pc \/ pc' = [pc EXCEPT ![t] = "next"])
    BY <1>13 DEF WindowsInput!ReadyForNext, WindowsInput!Goto, WindowsInput!queueVars
  <2>2. CASE UNCHANGED pc
    BY <1>1, <2>1, <2>2
  <2>3. CASE pc' = [pc EXCEPT ![t] = "next"]
    BY <1>2, <2>1, <2>3
  <2>4. QED
    BY <2>1, <2>2, <2>3
<1>14. ASSUME WindowsInput!DeleteBegins PROVE StreamInv'
  <2>1. /\ waiting' = WindowsInput!Empty /\ latest' = [c \in DOMAIN latest |-> 0]
        /\ lost' = <<>> /\ pushed' = <<>> /\ del' = "drain" /\ kind' = kind
    BY <1>14 DEF WindowsInput!DeleteBegins, WindowsInput!Forget
  <2>2. \A c \in Classes : waiting'[c] = <<>> /\ latest'[c] = 0
    BY <2>1 DEF WindowsInput!Empty, Classes, QueueTypes
  <2>3. Sorted(waiting)'
    BY <2>2 DEF Sorted, AllFit, Classes
  <2>4. \A c \in Classes : latest'[c] <= Len(pushed')
    BY <2>1, <2>2
  <2>5. lost' \in Seq(Losses) /\ ~WindowsInput!Undisturbed'
    BY <2>1 DEF WindowsInput!Undisturbed
  <2>6. QED
    BY <2>3, <2>4, <2>5 DEF StreamInv
<1>15. ASSUME NEW t \in WindowsInput!Threads, WindowsInput!Step(t) PROVE StreamInv'
  BY <1>15, <1>12, QueueKeepsStream, PrepareKeepsStream, SubmitKeepsStream DEF WindowsInput!Step
<1>16. CASE UNCHANGED WindowsInput!vars
  BY <1>1, <1>16 DEF WindowsInput!vars, WindowsInput!queueVars
<1>17. QED
  BY <1>3, <1>4, <1>5, <1>6, <1>7, <1>8, <1>9, <1>10, <1>11, <1>12, <1>13, <1>14, <1>15,
    <1>16 DEF WindowsInput!Next

LEMMA StreamInvariance ==
  ASSUME WindowsInput!InputAssumption
  PROVE  WindowsInput!Spec => []StreamInv
<1>1. WindowsInput!Init => StreamInv
  BY StreamInit
<1>2. InputInv /\ StreamInv /\ [WindowsInput!Next]_(WindowsInput!vars) => StreamInv'
  BY StreamNext DEF InputInv
<1>3. QED
  BY <1>1, <1>2, InputInvariance, PTL DEF WindowsInput!Spec

\* The invariant says what ReportsKept and MotionConserved say.
LEMMA StreamTells ==
  ASSUME StreamInv
  PROVE  WindowsInput!ReportsKept /\ WindowsInput!MotionConserved
<1>1. SUFFICES ASSUME WindowsInput!Undisturbed
               PROVE  WindowsInput!ReportsKept /\ WindowsInput!MotionConserved
  BY DEF WindowsInput!ReportsKept, WindowsInput!MotionConserved, WindowsInput!TransitionsKept,
    WindowsInput!NewestKept
<1>2. InputKept
  BY <1>1 DEF StreamInv
<1>3. \A c \in Classes :
        Kept(kind, c, WindowsInput!Stream(c), WindowsInput!Sent(c), lost, latest[c])
  BY <1>2 DEF InputKept, Before, WindowsInput!Stream, WindowsInput!Sent
<1>4. WindowsInput!TransitionsKept
  BY <1>3 DEF Kept, TellsAll, WindowsInput!TransitionsKept, Classes
<1>5. WindowsInput!NewestKept
  <2>1. ASSUME NEW c \in Classes
        PROVE  /\ WindowsInput!Sent(c) # <<>> =>
                    \/ /\ WindowsInput!Stream(c) # <<>>
                       /\ WindowsInput!Last(WindowsInput!Stream(c)).n = latest[c]
                    \/ \E i \in DOMAIN lost :
                         lost[i].report.n = latest[c] /\ lost[i].class = "protocol"
               /\ \A i \in DOMAIN WindowsInput!Stream(c) : WindowsInput!Stream(c)[i].n <= latest[c]
    <3>1. /\ TellsNewest(WindowsInput!Stream(c), WindowsInput!Sent(c), lost, latest[c])
          /\ NoneNewer(WindowsInput!Stream(c), latest[c])
      BY <1>3 DEF Kept
    <3>2. QED
      BY <3>1 DEF TellsNewest, NoneNewer, WindowsInput!Last
  <2>2. QED
    BY <2>1 DEF WindowsInput!NewestKept, Classes
<1>6. WindowsInput!MotionConserved
  BY <1>2 DEF InputKept, Before, Reported, WindowsInput!Stream, WindowsInput!Dropped,
    WindowsInput!MotionConserved
<1>7. QED
  BY <1>4, <1>5, <1>6 DEF WindowsInput!ReportsKept

-----------------------------------------------------------------------------
(* XboxInput: the parts of its inductive invariant.                          *)

Packets == XboxInput!None..MaxPackets
VhfStates == [runs : BOOLEAN, holds : Packets, asks : BOOLEAN, granted : BOOLEAN]

HasReport == {"submit", "finish", "refused"}
BeforeReport == {"idle", "create", "late", "open", "start", "store", "found", "report"}
BrokerPlaces == BeforeReport \cup HasReport \cup {"next", "end"}
ClientPlaces == HasReport \cup {"idle", "report", "next", "wake", "woken", "answer"}

XboxTypes ==
  /\ context \in {"none", "shared", "abandoned", "freed"}
  /\ created \in {"none", "due", "good", "failed"}
  /\ initialized \in BOOLEAN /\ shutting \in {"no", "drain", "vhf", "reset", "done"}
  /\ xboxHandle \in BOOLEAN /\ xboxReady \in BOOLEAN
  /\ packets \in Packets /\ xboxLatest \in Packets /\ xboxInFlight \in Packets
  /\ xboxDelivered \in Packets /\ seen \in Packets
  /\ packet \in 0..MaxPackets /\ waits \in {"idle", "queued", "taken"}
  /\ xboxPc \in [XboxInput!Threads -> BrokerPlaces \cup ClientPlaces]
  /\ xboxPc["broker"] \in BrokerPlaces /\ xboxPc["client"] \in ClientPlaces
  /\ xboxPc["pump"] \in {"idle", "woken", "answer"}
  /\ xboxPc["vhf"] \in HasReport \cup {"idle", "next"}
  /\ xboxHeld \in [XboxInput!Threads -> Packets]
  /\ xboxVhf \in VhfStates
  /\ early \in BOOLEAN /\ xboxRefused \in BOOLEAN

\* The context is the broker's until it gives up, and the callback's then.
ContextInv ==
  /\ created = "none" <=> xboxPc["broker"] = "idle"
  /\ xboxPc["broker"] \in {"create", "late"} => context = "shared"
  /\ xboxPc["broker"] \notin {"idle", "create", "late"} =>
       context = IF created = "due" THEN "abandoned" ELSE "freed"

\* What has not happened before the broker has queued the first report.
StartInv ==
  /\ xboxPc["broker"] \in BeforeReport =>
       /\ packets = -1 /\ xboxDelivered = -1 /\ packet = 0 /\ xboxVhf.holds = -1
       /\ \A t \in XboxInput!Threads : xboxPc[t] \notin HasReport
       /\ xboxPc["broker"] = "report" <=> initialized
       /\ xboxPc["broker"] = "report" => xboxHeld["broker"] = 0
  /\ xboxPc["broker"] \in {"idle", "create", "late", "open", "start"} =>
       ~xboxVhf.asks /\ ~xboxVhf.granted /\ ~xboxReady /\ ~xboxVhf.runs
  /\ XboxInput!Initializing => shutting = "no"
  /\ shutting = "no" /\ (initialized \/ xboxPc["broker"] = "found") => xboxHandle
  /\ xboxPc["broker"] = "found" => xboxHandle
  /\ xboxPc["client"] # "idle" => xboxPc["broker"] = "end" /\ initialized

\* active_submissions counts the threads that have a report, and removal has waited for them.
One(t) == IF xboxPc[t] \in HasReport THEN 1 ELSE 0
ReportsCounted ==
  /\ xboxActive = One("broker") + One("client") + One("vhf")
  /\ shutting \in {"vhf", "reset", "done"} => xboxActive = 0
  /\ shutting \in {"reset", "done"} => xboxVhf.holds = -1

\* VHF has asked, or its request has become the driver's, or that of the one submission.
GrantInv ==
  /\ \A t, u \in XboxInput!Threads : xboxPc[t] = "submit" /\ xboxPc[u] = "submit" => t = u
  /\ \A t \in XboxInput!Threads : xboxPc[t] = "submit" => xboxVhf.granted /\ ~xboxReady
  /\ xboxReady => xboxVhf.granted
  /\ xboxVhf.asks \/ xboxVhf.holds # -1 => ~xboxVhf.granted
  /\ xboxVhf.asks => xboxVhf.holds = -1

\* Every report is newer than the one submitted before it.
OrderInv ==
  /\ packets <= xboxLatest /\ xboxLatest <= packet /\ xboxDelivered <= xboxLatest
  /\ packets # -1 => xboxDelivered < packets
  /\ \A t \in XboxInput!Threads : xboxPc[t] \in HasReport =>
       /\ xboxHeld[t] # -1 /\ xboxHeld[t] <= xboxLatest
       /\ packets # -1 => xboxHeld[t] < packets
       /\ xboxPc[t] = "submit" => xboxDelivered < xboxHeld[t] /\ xboxInFlight = xboxHeld[t]
       /\ xboxPc["client"] = "report" => xboxHeld[t] < packet
  /\ \A t, u \in XboxInput!Threads :
       xboxPc[t] \in HasReport /\ xboxPc[u] \in HasReport /\ xboxHeld[t] = xboxHeld[u] => t = u
  /\ xboxPc["client"] = "report" =>
       xboxHeld["client"] = packet /\ packets < packet /\ xboxDelivered < packet
  /\ xboxVhf.holds # -1 =>
       /\ xboxInFlight = xboxVhf.holds
       /\ \A t \in XboxInput!Threads : xboxPc[t] = "refused" => xboxHeld[t] # xboxVhf.holds

XboxInv ==
  /\ XboxTypes /\ ContextInv /\ StartInv /\ ReportsCounted /\ GrantInv /\ OrderInv
  /\ XboxInput!NewestKept


LEMMA PacketsAre ==
  ASSUME XboxInput!PacketsAssumption
  PROVE  /\ XboxInput!None = -1 /\ XboxInput!None \in Packets /\ MaxPackets \in Nat
         /\ \A n \in 0..MaxPackets : n \in Packets
         /\ \A n \in Packets : n \in Int /\ -1 <= n /\ n <= MaxPackets
BY DEF XboxInput!PacketsAssumption, XboxInput!None, Packets

LEMMA XMoved ==
  ASSUME XboxTypes, NEW t \in XboxInput!Threads, NEW place \in BrokerPlaces \cup ClientPlaces,
         xboxPc' = [xboxPc EXCEPT ![t] = place]
  PROVE  /\ xboxPc' \in [XboxInput!Threads -> BrokerPlaces \cup ClientPlaces]
         /\ xboxPc'[t] = place
         /\ \A u \in XboxInput!Threads : u # t => xboxPc'[u] = xboxPc[u]
BY DEF XboxTypes

LEMMA XHeld ==
  ASSUME XboxTypes, NEW t \in XboxInput!Threads, NEW value \in Packets,
         xboxHeld' = [xboxHeld EXCEPT ![t] = value]
  PROVE  /\ xboxHeld' \in [XboxInput!Threads -> Packets]
         /\ xboxHeld'[t] = value
         /\ \A u \in XboxInput!Threads : u # t => xboxHeld'[u] = xboxHeld[u]
BY DEF XboxTypes

\* Device, threads and reports keep their types.
LEMMA XboxTypesNext ==
  ASSUME XboxInput!PacketsAssumption, XboxTypes, [XboxInput!Next]_(XboxInput!vars)
  PROVE  XboxTypes'
<1> USE DEF XboxTypes, XboxInput!Threads, HasReport, BeforeReport, BrokerPlaces,
  ClientPlaces, XboxInput!PacketsAssumption
<1>1. ASSUME XboxInput!CreateDevice PROVE XboxTypes'
  BY <1>1, PacketsAre DEF XboxInput!CreateDevice, XboxInput!Goto, XboxInput!hidVars,
    XboxInput!inputVars
<1>2. ASSUME XboxInput!DeviceCreated PROVE XboxTypes'
  BY <1>2, PacketsAre DEF XboxInput!DeviceCreated, XboxInput!hidVars,
    XboxInput!inputVars
<1>3. ASSUME XboxInput!WaitEnds PROVE XboxTypes'
  BY <1>3, PacketsAre DEF XboxInput!WaitEnds, XboxInput!Goto, XboxInput!hidVars,
    XboxInput!inputVars
<1>4. ASSUME XboxInput!TimesOut PROVE XboxTypes'
  BY <1>4, PacketsAre DEF XboxInput!TimesOut, XboxInput!Goto, XboxInput!hidVars,
    XboxInput!inputVars
<1>5. ASSUME XboxInput!OpenDevice PROVE XboxTypes'
  BY <1>5, PacketsAre DEF XboxInput!OpenDevice, XboxInput!Goto,
    XboxInput!creationVars, XboxInput!hidVars, XboxInput!inputVars
<1>6. ASSUME XboxInput!StartVhf PROVE XboxTypes'
  <2>1. xboxVhf' \in VhfStates
    BY <1>6, PacketsAre DEF XboxInput!StartVhf, VhfStates
  <2>2. QED
    BY <1>6, <2>1 DEF XboxInput!StartVhf, VhfStates, XboxInput!Goto, XboxInput!creationVars,
      XboxInput!inputVars
<1>7. ASSUME XboxInput!StoreHandle PROVE XboxTypes'
  BY <1>7, PacketsAre DEF XboxInput!StoreHandle, XboxInput!Goto,
    XboxInput!creationVars, XboxInput!inputVars
<1>8. ASSUME XboxInput!Initialized PROVE XboxTypes'
  BY <1>8, PacketsAre DEF XboxInput!Initialized, XboxInput!Takes, XboxInput!Goto,
    XboxInput!hidVars, XboxInput!inputVars
<1>9. ASSUME NEW t \in XboxInput!Threads, XboxInput!QueueReport(t) PROVE XboxTypes'
  BY <1>9, PacketsAre DEF XboxInput!QueueReport, XboxInput!Goto, XboxInput!Onward,
    XboxInput!creationVars, XboxInput!inputVars
<1>10. ASSUME NEW t \in XboxInput!Threads, XboxInput!PrepareSubmission(t) PROVE XboxTypes'
  <2>1. CASE XboxInput!MayPrepare
    <3>1. /\ xboxHeld' = [xboxHeld EXCEPT ![t] = packets] /\ xboxInFlight' = packets
          /\ packets' = XboxInput!None /\ xboxReady' = FALSE /\ xboxPc[t] = "next"
          /\ xboxPc' = [xboxPc EXCEPT ![t] = "submit"]
          /\ UNCHANGED <<context, created, initialized, shutting, xboxHandle, xboxLatest, xboxVhf,
                         xboxDelivered, early, xboxRefused, packet, waits, seen>>
      BY <1>10, <2>1 DEF XboxInput!PrepareSubmission, XboxInput!Takes, XboxInput!Goto,
        XboxInput!creationVars, XboxInput!inputVars
    <3>2. XboxInput!None \in Packets
      BY PacketsAre
    <3>3. xboxHeld' \in [XboxInput!Threads -> Packets]
      BY <3>1, <3>2
    <3>4. /\ xboxPc' \in [XboxInput!Threads -> BrokerPlaces \cup ClientPlaces]
          /\ xboxPc'["broker"] \in BrokerPlaces /\ xboxPc'["client"] \in ClientPlaces
          /\ xboxPc'["pump"] \in {"idle", "woken", "answer"}
          /\ xboxPc'["vhf"] \in HasReport \cup {"idle", "next"}
      BY <3>1
    <3>5. /\ xboxInFlight' \in Packets /\ packets' \in Packets /\ xboxReady' \in BOOLEAN
          /\ UNCHANGED <<context, created, initialized, shutting, xboxHandle, xboxLatest, xboxVhf,
                         xboxDelivered, early, xboxRefused, packet, waits, seen>>
      BY <3>1, <3>2
    <3>6. QED
      BY <3>3, <3>4, <3>5
  <2>2. CASE ~XboxInput!MayPrepare
    <3>1. /\ xboxPc' = [xboxPc EXCEPT ![t] = XboxInput!Onward(t)] /\ xboxPc[t] = "next"
          /\ UNCHANGED <<context, created, initialized, shutting, xboxHandle, xboxReady, packets,
                         xboxLatest, xboxInFlight, xboxVhf, xboxDelivered, early, xboxRefused,
                         packet, waits, seen, xboxHeld>>
      BY <1>10, <2>2 DEF XboxInput!PrepareSubmission, XboxInput!Goto,
        XboxInput!creationVars,
        XboxInput!inputVars
    <3>2. QED
      BY <3>1 DEF XboxInput!Onward
  <2>3. QED
    BY <2>1, <2>2
<1>11. ASSUME NEW t \in XboxInput!Threads, XboxInput!Submit(t) PROVE XboxTypes'
  <2>1. xboxVhf' \in VhfStates /\ xboxDelivered' \in Packets
    <3> DEFINE report == xboxHeld[t]
    <3>1. report \in Packets /\ XboxInput!None \in Packets
      BY PacketsAre
    <3>2. /\ xboxDelivered' \in {report, XboxInput!None}
          /\ \/ xboxVhf' = [xboxVhf EXCEPT !.holds = report, !.granted = FALSE]
             \/ \E again \in BOOLEAN : xboxVhf' = [xboxVhf EXCEPT !.asks = again, !.granted = FALSE]
      BY <1>11 DEF XboxInput!Submit
    <3> HIDE DEF report
    <3>3. QED
      BY <3>1, <3>2 DEF VhfStates
  <2>2. /\ xboxPc[t] = "submit" /\ xboxRefused' \in BOOLEAN
        /\ \/ xboxPc' = [xboxPc EXCEPT ![t] = "finish"]
           \/ xboxPc' = [xboxPc EXCEPT ![t] = "refused"]
        /\ UNCHANGED <<context, created, initialized, shutting, xboxHandle, xboxReady, packets,
                       xboxLatest, xboxInFlight, early, packet, waits, seen, xboxHeld>>
    BY <1>11 DEF XboxInput!Submit, XboxInput!Goto, XboxInput!creationVars,
      XboxInput!inputVars
  <2>3. QED
    BY <2>1, <2>2 DEF VhfStates
<1>12. ASSUME NEW t \in XboxInput!Threads, XboxInput!FinishSubmission(t) PROVE XboxTypes'
  BY <1>12, PacketsAre DEF XboxInput!FinishSubmission, XboxInput!None,
    XboxInput!Goto, XboxInput!Onward, XboxInput!creationVars, XboxInput!inputVars
<1>13. ASSUME NEW t \in XboxInput!Threads, XboxInput!Wake(t) PROVE XboxTypes'
  BY <1>13, PacketsAre DEF XboxInput!Wake, XboxInput!Goto, XboxInput!creationVars,
    XboxInput!hidVars
<1>14. ASSUME NEW t \in XboxInput!Threads, XboxInput!ReadInput(t) PROVE XboxTypes'
  BY <1>14, PacketsAre DEF XboxInput!ReadInput, XboxInput!Takes, XboxInput!Goto,
    XboxInput!creationVars, XboxInput!hidVars, XboxInput!inputVars
<1>15. ASSUME NEW t \in XboxInput!Threads, XboxInput!AnswerWait(t) PROVE XboxTypes'
  BY <1>15, PacketsAre DEF XboxInput!AnswerWait, XboxInput!None, XboxInput!Goto,
    XboxInput!creationVars, XboxInput!hidVars
<1>16. ASSUME XboxInput!ReadyForNext PROVE XboxTypes'
  <2>1. xboxVhf' \in VhfStates
    BY <1>16, PacketsAre DEF XboxInput!ReadyForNext, VhfStates
  <2>2. /\ xboxPc' = [xboxPc EXCEPT !["vhf"] = "next"] \/ UNCHANGED xboxPc
        /\ early' \in BOOLEAN /\ xboxReady' \in BOOLEAN /\ xboxInFlight' \in Packets
        /\ UNCHANGED <<context, created, initialized, shutting, xboxHandle, packets, xboxLatest,
                       xboxDelivered, xboxRefused, packet, waits, seen, xboxHeld>>
    BY <1>16, PacketsAre DEF XboxInput!ReadyForNext, XboxInput!Goto,
      XboxInput!creationVars, XboxInput!inputVars
  <2>3. QED
    BY <2>1, <2>2 DEF VhfStates
<1>17. ASSUME XboxInput!HostReads PROVE XboxTypes'
  <2>1. xboxVhf' \in VhfStates
    BY <1>17, PacketsAre DEF XboxInput!HostReads, VhfStates
  <2>2. QED
    BY <1>17, <2>1 DEF XboxInput!HostReads, VhfStates, XboxInput!Goto,
      XboxInput!creationVars,
      XboxInput!inputVars
<1>18. ASSUME XboxInput!SubmitInput PROVE XboxTypes'
  BY <1>18, PacketsAre DEF XboxInput!SubmitInput, XboxInput!ClientServed,
    XboxInput!Takes, XboxInput!Goto, XboxInput!creationVars, XboxInput!hidVars,
    XboxInput!Serves
<1>19. ASSUME XboxInput!WaitForInput PROVE XboxTypes'
  BY <1>19, PacketsAre DEF XboxInput!WaitForInput, XboxInput!creationVars,
    XboxInput!hidVars
<1>20. ASSUME XboxInput!CleanupBegins PROVE XboxTypes'
  <2>1. /\ shutting' = "drain" /\ xboxHandle' = FALSE /\ xboxReady' = FALSE
        /\ packets' = XboxInput!None
        /\ waits' \in {"idle", waits} /\ xboxDelivered' = XboxInput!None
        /\ seen' = XboxInput!None /\ early' = FALSE
        /\ xboxRefused' = FALSE
        /\ UNCHANGED <<context, created, initialized, xboxLatest, xboxInFlight, xboxVhf, packet,
                       xboxPc, xboxHeld>>
    BY <1>20 DEF XboxInput!CleanupBegins, XboxInput!creationVars
  <2>2. /\ packets' \in Packets /\ xboxDelivered' \in Packets /\ seen' \in Packets
        /\ waits' \in {"idle", "queued", "taken"}
    BY <2>1, PacketsAre
  <2>3. /\ xboxHandle' \in BOOLEAN /\ xboxReady' \in BOOLEAN
        /\ early' \in BOOLEAN /\ xboxRefused' \in BOOLEAN
    BY <2>1
  <2>4. QED
    BY <2>1, <2>2, <2>3
<1>21. ASSUME XboxInput!Drained PROVE XboxTypes'
  BY <1>21, PacketsAre DEF XboxInput!Drained, XboxInput!creationVars,
    XboxInput!inputVars
<1>22. ASSUME XboxInput!VhfDelete PROVE XboxTypes'
  <2>1. xboxVhf' \in VhfStates
    BY <1>22, PacketsAre DEF XboxInput!VhfDelete, VhfStates
  <2>2. QED
    BY <1>22, <2>1 DEF XboxInput!VhfDelete, VhfStates, XboxInput!Goto,
      XboxInput!creationVars,
      XboxInput!inputVars
<1>23. ASSUME XboxInput!CleanupEnds PROVE XboxTypes'
  BY <1>23, PacketsAre DEF XboxInput!CleanupEnds, XboxInput!None,
    XboxInput!creationVars, XboxInput!inputVars
<1>24. CASE UNCHANGED XboxInput!vars
  BY <1>24 DEF XboxInput!vars, XboxInput!creationVars, XboxInput!hidVars,
    XboxInput!inputVars
<1> HIDE DEF XboxTypes, XboxInput!Threads, HasReport, BeforeReport, BrokerPlaces,
      ClientPlaces, XboxInput!PacketsAssumption
<1>25. QED
  BY <1>1, <1>2, <1>3, <1>4, <1>5, <1>6, <1>7, <1>8, <1>9, <1>10, <1>11, <1>12,
    <1>13, <1>14, <1>15, <1>16, <1>17, <1>18, <1>19, <1>20, <1>21, <1>22, <1>23,
    <1>24 DEF XboxInput!Next, XboxInput!Create, XboxInput!Step

\* What the steps of VHF and the driver do to what VHF knows.
LEMMA VhfStarts ==
  ASSUME XboxTypes, XboxInput!StartVhf
  PROVE  /\ xboxPc["broker"] = "start" /\ xboxVhf'.holds = xboxVhf.holds
         /\ xboxVhf'.granted = xboxVhf.granted
         /\ \/ xboxPc' = [xboxPc EXCEPT !["broker"] = "store"]
            \/ xboxPc' = [xboxPc EXCEPT !["broker"] = "end"]
         /\ UNCHANGED <<context, created, initialized, shutting, xboxHandle, xboxReady, packets,
                        xboxLatest, xboxInFlight, xboxActive, xboxDelivered, early, xboxRefused,
                        packet, waits, seen, xboxHeld>>
<1>1. xboxVhf'.holds = xboxVhf.holds /\ xboxVhf'.granted = xboxVhf.granted
  BY DEF XboxInput!StartVhf, XboxTypes, VhfStates
<1>2. QED
  BY <1>1 DEF XboxInput!StartVhf, XboxInput!Goto, XboxInput!creationVars,
    XboxInput!inputVars

LEMMA VhfAsks ==
  ASSUME XboxTypes, XboxInput!ReadyForNext
  PROVE  /\ xboxPc["vhf"] = "idle" /\ xboxVhf.asks /\ ~xboxVhf'.asks /\ xboxVhf.runs
         /\ xboxVhf'.holds = xboxVhf.holds /\ xboxVhf'.runs = xboxVhf.runs
         /\ \/ /\ shutting # "no" \/ ~xboxHandle
               /\ xboxVhf'.granted = xboxVhf.granted
               /\ UNCHANGED <<xboxInFlight, xboxReady, xboxPc>>
            \/ /\ shutting = "no" /\ xboxHandle /\ xboxVhf'.granted
               /\ xboxInFlight' = XboxInput!None /\ xboxReady' = TRUE
               /\ xboxPc' = [xboxPc EXCEPT !["vhf"] = "next"]
         /\ UNCHANGED <<context, created, initialized, shutting, xboxHandle, packets,
                        xboxLatest, xboxActive, xboxDelivered, xboxRefused,
                        packet, waits, seen, xboxHeld>>
<1>1. xboxVhf'.holds = xboxVhf.holds /\ xboxVhf'.runs = xboxVhf.runs /\ ~xboxVhf'.asks
  BY DEF XboxInput!ReadyForNext, XboxTypes, VhfStates
<1>2. CASE shutting # "no" \/ ~xboxHandle
  <2>1. xboxVhf'.granted = xboxVhf.granted
    BY <1>2 DEF XboxInput!ReadyForNext, XboxTypes, VhfStates
  <2>2. QED
    BY <1>1, <1>2, <2>1 DEF XboxInput!ReadyForNext, XboxInput!VhfCallsBack,
      XboxInput!creationVars,
      XboxInput!inputVars
<1>3. CASE ~(shutting # "no" \/ ~xboxHandle)
  <2>1. xboxVhf'.granted
    BY <1>3 DEF XboxInput!ReadyForNext, XboxTypes, VhfStates
  <2>2. QED
    BY <1>1, <1>3, <2>1 DEF XboxInput!ReadyForNext, XboxInput!VhfCallsBack,
      XboxInput!creationVars,
      XboxInput!inputVars, XboxInput!Goto
<1>4. QED
  BY <1>2, <1>3

LEMMA VhfHears ==
  ASSUME XboxTypes, NEW t \in XboxInput!Threads, XboxInput!Submit(t)
  PROVE  /\ xboxPc[t] = "submit" /\ ~xboxVhf'.granted /\ xboxVhf'.runs = xboxVhf.runs
         /\ \/ /\ xboxVhf'.holds = xboxHeld[t] /\ xboxVhf'.asks = xboxVhf.asks
               /\ xboxDelivered' = IF shutting = "no" /\ ~xboxRefused
                                     THEN xboxHeld[t] ELSE XboxInput!None
               /\ xboxPc' = [xboxPc EXCEPT ![t] = "finish"] /\ UNCHANGED xboxRefused
            \/ /\ xboxVhf'.holds = xboxVhf.holds /\ xboxDelivered' = XboxInput!None
               /\ xboxPc' = [xboxPc EXCEPT ![t] = "refused"] /\ xboxRefused' = TRUE
         /\ UNCHANGED <<context, created, initialized, shutting, xboxHandle, xboxReady, packets,
                        xboxLatest, xboxInFlight, xboxActive, early, packet, waits, seen, xboxHeld>>
<1>1. xboxVhf \in VhfStates /\ xboxHeld[t] \in Packets
  BY DEF XboxTypes
<1>2. /\ xboxPc[t] = "submit"
      /\ UNCHANGED <<context, created, initialized, shutting, xboxHandle, xboxReady, packets,
                     xboxLatest, xboxInFlight, xboxActive, early, packet, waits, seen, xboxHeld>>
  BY DEF XboxInput!Submit, XboxInput!creationVars, XboxInput!inputVars
<1> DEFINE report == xboxHeld[t]
<1>3. CASE /\ xboxVhf' = [xboxVhf EXCEPT !.holds = report, !.granted = FALSE]
           /\ xboxDelivered' = IF shutting = "no" /\ ~xboxRefused
                               THEN report ELSE XboxInput!None
           /\ xboxPc' = [xboxPc EXCEPT ![t] = "finish"] /\ UNCHANGED xboxRefused
  <2> HIDE DEF report
  <2>1. /\ ~xboxVhf'.granted /\ xboxVhf'.runs = xboxVhf.runs /\ xboxVhf'.holds = report
        /\ xboxVhf'.asks = xboxVhf.asks
    BY <1>1, <1>3 DEF VhfStates
  <2>2. QED
    BY <1>2, <1>3, <2>1 DEF report
<1>4. CASE /\ \E again \in BOOLEAN : xboxVhf' = [xboxVhf EXCEPT !.asks = again, !.granted = FALSE]
           /\ xboxRefused' = TRUE /\ xboxDelivered' = XboxInput!None
           /\ xboxPc' = [xboxPc EXCEPT ![t] = "refused"]
  <2>1. ~xboxVhf'.granted /\ xboxVhf'.runs = xboxVhf.runs /\ xboxVhf'.holds = xboxVhf.holds
    BY <1>1, <1>4 DEF VhfStates
  <2>2. QED
    BY <1>2, <1>4, <2>1
<1>5. QED
  BY <1>3, <1>4 DEF XboxInput!Submit, XboxInput!Goto

\* The context belongs to the broker or the callback.
LEMMA ContextInvNext ==
  ASSUME XboxInput!PacketsAssumption, XboxTypes, StartInv, ContextInv,
    [XboxInput!Next]_(XboxInput!vars)
  PROVE  ContextInv'
<1> USE DEF ContextInv, XboxTypes, HasReport, BeforeReport, BrokerPlaces, ClientPlaces,
  XboxInput!Threads
<1>1. ASSUME XboxInput!CreateDevice PROVE ContextInv'
  BY <1>1 DEF XboxInput!CreateDevice, XboxInput!Goto, XboxInput!hidVars,
    XboxInput!inputVars
<1>2. ASSUME XboxInput!DeviceCreated PROVE ContextInv'
  BY <1>2 DEF XboxInput!DeviceCreated, XboxInput!hidVars, XboxInput!inputVars
<1>3. ASSUME XboxInput!WaitEnds PROVE ContextInv'
  BY <1>3 DEF XboxInput!WaitEnds, XboxInput!Goto, XboxInput!hidVars,
    XboxInput!inputVars
<1>4. ASSUME XboxInput!TimesOut PROVE ContextInv'
  BY <1>4 DEF XboxInput!TimesOut, XboxInput!Goto, XboxInput!hidVars,
    XboxInput!inputVars
<1>5. ASSUME XboxInput!OpenDevice PROVE ContextInv'
  BY <1>5 DEF XboxInput!OpenDevice, XboxInput!Goto, XboxInput!creationVars,
    XboxInput!hidVars, XboxInput!inputVars
<1>6. ASSUME XboxInput!StartVhf PROVE ContextInv'
  BY <1>6 DEF XboxInput!StartVhf, XboxInput!Goto, XboxInput!creationVars,
    XboxInput!inputVars
<1>7. ASSUME XboxInput!StoreHandle PROVE ContextInv'
  BY <1>7 DEF XboxInput!StoreHandle, XboxInput!Goto, XboxInput!creationVars,
    XboxInput!inputVars
<1>8. ASSUME XboxInput!Initialized PROVE ContextInv'
  BY <1>8 DEF XboxInput!Initialized, XboxInput!Takes, XboxInput!Goto,
    XboxInput!hidVars, XboxInput!inputVars
<1>9. ASSUME NEW t \in XboxInput!Threads, XboxInput!QueueReport(t) PROVE ContextInv'
  BY <1>9 DEF XboxInput!QueueReport, XboxInput!Goto, XboxInput!Onward,
    XboxInput!creationVars, XboxInput!inputVars
<1>10. ASSUME NEW t \in XboxInput!Threads, XboxInput!PrepareSubmission(t) PROVE ContextInv'
  BY <1>10 DEF XboxInput!PrepareSubmission, XboxInput!MayPrepare, XboxInput!Takes,
    XboxInput!None, XboxInput!Goto, XboxInput!Onward, XboxInput!creationVars,
    XboxInput!inputVars
<1>11. ASSUME NEW t \in XboxInput!Threads, XboxInput!Submit(t) PROVE ContextInv'
  BY <1>11 DEF XboxInput!Submit, XboxInput!None, XboxInput!Goto,
    XboxInput!creationVars, XboxInput!inputVars
<1>12. ASSUME NEW t \in XboxInput!Threads, XboxInput!FinishSubmission(t) PROVE ContextInv'
  BY <1>12 DEF XboxInput!FinishSubmission, XboxInput!None, XboxInput!Goto,
    XboxInput!Onward, XboxInput!creationVars, XboxInput!inputVars
<1>13. ASSUME NEW t \in XboxInput!Threads, XboxInput!Wake(t) PROVE ContextInv'
  BY <1>13 DEF XboxInput!Wake, XboxInput!Goto, XboxInput!creationVars,
    XboxInput!hidVars
<1>14. ASSUME NEW t \in XboxInput!Threads, XboxInput!ReadInput(t) PROVE ContextInv'
  BY <1>14 DEF XboxInput!ReadInput, XboxInput!Takes, XboxInput!Goto,
    XboxInput!creationVars, XboxInput!hidVars, XboxInput!inputVars
<1>15. ASSUME NEW t \in XboxInput!Threads, XboxInput!AnswerWait(t) PROVE ContextInv'
  BY <1>15 DEF XboxInput!AnswerWait, XboxInput!None, XboxInput!Goto,
    XboxInput!creationVars, XboxInput!hidVars
<1>16. ASSUME XboxInput!ReadyForNext PROVE ContextInv'
  BY <1>16 DEF XboxInput!ReadyForNext, XboxInput!VhfCallsBack, XboxInput!None,
    XboxInput!Goto, XboxInput!creationVars, XboxInput!inputVars
<1>17. ASSUME XboxInput!HostReads PROVE ContextInv'
  BY <1>17 DEF XboxInput!HostReads, XboxInput!None, XboxInput!VhfCallsBack,
    XboxInput!creationVars, XboxInput!inputVars
<1>18. ASSUME XboxInput!SubmitInput PROVE ContextInv'
  BY <1>18 DEF XboxInput!SubmitInput, XboxInput!ClientServed, XboxInput!Takes,
    XboxInput!Goto, XboxInput!creationVars, XboxInput!hidVars, XboxInput!Serves
<1>19. ASSUME XboxInput!WaitForInput PROVE ContextInv'
  BY <1>19 DEF XboxInput!WaitForInput, XboxInput!creationVars, XboxInput!hidVars
<1>20. ASSUME XboxInput!CleanupBegins PROVE ContextInv'
  BY <1>20 DEF XboxInput!CleanupBegins, XboxInput!None, XboxInput!creationVars
<1>21. ASSUME XboxInput!Drained PROVE ContextInv'
  BY <1>21 DEF XboxInput!Drained, XboxInput!creationVars, XboxInput!inputVars
<1>22. ASSUME XboxInput!VhfDelete PROVE ContextInv'
  BY <1>22 DEF XboxInput!VhfDelete, XboxInput!None, XboxInput!creationVars,
    XboxInput!inputVars
<1>23. ASSUME XboxInput!CleanupEnds PROVE ContextInv'
  BY <1>23 DEF XboxInput!CleanupEnds, XboxInput!None, XboxInput!creationVars,
    XboxInput!inputVars
<1>24. CASE UNCHANGED XboxInput!vars
  BY <1>24 DEF XboxInput!vars, XboxInput!creationVars, XboxInput!hidVars,
    XboxInput!inputVars
<1> HIDE DEF ContextInv, XboxTypes, HasReport, BeforeReport, BrokerPlaces, ClientPlaces,
      XboxInput!Threads
<1>25. QED
  BY <1>1, <1>2, <1>3, <1>4, <1>5, <1>6, <1>7, <1>8, <1>9, <1>10, <1>11, <1>12,
    <1>13, <1>14, <1>15, <1>16, <1>17, <1>18, <1>19, <1>20, <1>21, <1>22, <1>23,
    <1>24 DEF XboxInput!Next, XboxInput!Create, XboxInput!Step

\* Nothing is submitted before the first report.
LEMMA StartInvNext ==
  ASSUME XboxInput!PacketsAssumption, XboxTypes, ContextInv, StartInv,
    [XboxInput!Next]_(XboxInput!vars)
  PROVE  StartInv'
<1> USE DEF StartInv, ContextInv, XboxTypes, HasReport, BeforeReport, BrokerPlaces,
  ClientPlaces, XboxInput!Threads, XboxInput!Initializing
<1>1. ASSUME XboxInput!CreateDevice PROVE StartInv'
  BY <1>1, PacketsAre DEF XboxInput!CreateDevice, XboxInput!Goto, XboxInput!hidVars,
    XboxInput!inputVars
<1>2. ASSUME XboxInput!DeviceCreated PROVE StartInv'
  BY <1>2, PacketsAre DEF XboxInput!DeviceCreated, XboxInput!hidVars,
    XboxInput!inputVars
<1>3. ASSUME XboxInput!WaitEnds PROVE StartInv'
  BY <1>3, PacketsAre DEF XboxInput!WaitEnds, XboxInput!Goto, XboxInput!hidVars,
    XboxInput!inputVars
<1>4. ASSUME XboxInput!TimesOut PROVE StartInv'
  BY <1>4, PacketsAre DEF XboxInput!TimesOut, XboxInput!Goto, XboxInput!hidVars,
    XboxInput!inputVars
<1>5. ASSUME XboxInput!OpenDevice PROVE StartInv'
  BY <1>5, PacketsAre DEF XboxInput!OpenDevice, XboxInput!Goto,
    XboxInput!creationVars, XboxInput!hidVars, XboxInput!inputVars
<1>6. ASSUME XboxInput!StartVhf PROVE StartInv'
  BY <1>6, VhfStarts, PacketsAre
<1>7. ASSUME XboxInput!StoreHandle PROVE StartInv'
  BY <1>7, PacketsAre DEF XboxInput!StoreHandle, XboxInput!Goto,
    XboxInput!creationVars, XboxInput!inputVars
<1>8. ASSUME XboxInput!Initialized PROVE StartInv'
  BY <1>8, PacketsAre DEF XboxInput!Initialized, XboxInput!Takes, XboxInput!Goto,
    XboxInput!hidVars, XboxInput!inputVars
<1>9. ASSUME NEW t \in XboxInput!Threads, XboxInput!QueueReport(t) PROVE StartInv'
  BY <1>9, PacketsAre DEF XboxInput!QueueReport, XboxInput!Goto, XboxInput!Onward,
    XboxInput!creationVars, XboxInput!inputVars
<1>10. ASSUME NEW t \in XboxInput!Threads, XboxInput!PrepareSubmission(t) PROVE StartInv'
  BY <1>10, PacketsAre DEF XboxInput!PrepareSubmission, XboxInput!MayPrepare,
    XboxInput!Takes, XboxInput!None, XboxInput!Goto, XboxInput!Onward,
    XboxInput!creationVars, XboxInput!inputVars
<1>11. ASSUME NEW t \in XboxInput!Threads, XboxInput!Submit(t) PROVE StartInv'
  BY <1>11, VhfHears, PacketsAre
<1>12. ASSUME NEW t \in XboxInput!Threads, XboxInput!FinishSubmission(t) PROVE StartInv'
  BY <1>12, PacketsAre DEF XboxInput!FinishSubmission, XboxInput!None,
    XboxInput!Goto, XboxInput!Onward, XboxInput!creationVars, XboxInput!inputVars
<1>13. ASSUME NEW t \in XboxInput!Threads, XboxInput!Wake(t) PROVE StartInv'
  BY <1>13, PacketsAre DEF XboxInput!Wake, XboxInput!Goto, XboxInput!creationVars,
    XboxInput!hidVars
<1>14. ASSUME NEW t \in XboxInput!Threads, XboxInput!ReadInput(t) PROVE StartInv'
  BY <1>14, PacketsAre DEF XboxInput!ReadInput, XboxInput!Takes, XboxInput!Goto,
    XboxInput!creationVars, XboxInput!hidVars, XboxInput!inputVars
<1>15. ASSUME NEW t \in XboxInput!Threads, XboxInput!AnswerWait(t) PROVE StartInv'
  BY <1>15, PacketsAre DEF XboxInput!AnswerWait, XboxInput!None, XboxInput!Goto,
    XboxInput!creationVars, XboxInput!hidVars
<1>16. ASSUME XboxInput!ReadyForNext PROVE StartInv'
  <2>1. /\ xboxPc["vhf"] = "idle" /\ xboxVhf.asks /\ ~xboxVhf'.asks /\ xboxVhf.runs
        /\ xboxVhf'.holds = xboxVhf.holds /\ xboxVhf'.runs = xboxVhf.runs
        /\ UNCHANGED <<context, created, initialized, shutting, xboxHandle, packets, xboxLatest,
                       xboxActive, xboxDelivered, xboxRefused, packet, waits, seen, xboxHeld>>
    BY <1>16, VhfAsks
  <2>2. CASE UNCHANGED <<xboxInFlight, xboxReady, xboxPc>> /\ xboxVhf'.granted = xboxVhf.granted
    BY <2>1, <2>2
  <2>3. CASE /\ shutting = "no" /\ xboxHandle /\ xboxVhf'.granted
             /\ xboxInFlight' = XboxInput!None /\ xboxReady' = TRUE
             /\ xboxPc' = [xboxPc EXCEPT !["vhf"] = "next"]
    <3>1. xboxPc["broker"] \notin {"idle", "create", "late", "open", "start"}
      BY <2>1 DEF StartInv, BeforeReport
    <3>2. /\ xboxPc'["vhf"] = "next"
          /\ \A u \in XboxInput!Threads : u # "vhf" => xboxPc'[u] = xboxPc[u]
      BY <2>3 DEF XboxTypes
    <3>3. QED
      BY <2>1, <2>3, <3>1, <3>2, PacketsAre
  <2>4. QED
    BY <1>16, <2>2, <2>3, VhfAsks
<1>17. ASSUME XboxInput!HostReads PROVE StartInv'
  BY <1>17, PacketsAre DEF XboxInput!HostReads, XboxInput!None,
    XboxInput!VhfCallsBack, XboxInput!creationVars, XboxInput!inputVars
<1>18. ASSUME XboxInput!SubmitInput PROVE StartInv'
  BY <1>18, PacketsAre DEF XboxInput!SubmitInput, XboxInput!ClientServed,
    XboxInput!Takes, XboxInput!Goto, XboxInput!creationVars, XboxInput!hidVars,
    XboxInput!Serves
<1>19. ASSUME XboxInput!WaitForInput PROVE StartInv'
  BY <1>19, PacketsAre DEF XboxInput!WaitForInput, XboxInput!creationVars,
    XboxInput!hidVars
<1>20. ASSUME XboxInput!CleanupBegins PROVE StartInv'
  BY <1>20, PacketsAre DEF XboxInput!CleanupBegins, XboxInput!None,
    XboxInput!creationVars
<1>21. ASSUME XboxInput!Drained PROVE StartInv'
  BY <1>21, PacketsAre DEF XboxInput!Drained, XboxInput!creationVars,
    XboxInput!inputVars
<1>22. ASSUME XboxInput!VhfDelete PROVE StartInv'
  BY <1>22, PacketsAre DEF XboxInput!VhfDelete, XboxInput!None,
    XboxInput!creationVars, XboxInput!inputVars
<1>23. ASSUME XboxInput!CleanupEnds PROVE StartInv'
  BY <1>23, PacketsAre DEF XboxInput!CleanupEnds, XboxInput!None,
    XboxInput!creationVars, XboxInput!inputVars
<1>24. CASE UNCHANGED XboxInput!vars
  BY <1>24 DEF XboxInput!vars, XboxInput!creationVars, XboxInput!hidVars,
    XboxInput!inputVars
<1> HIDE DEF StartInv, ContextInv, XboxTypes, HasReport, BeforeReport, BrokerPlaces,
      ClientPlaces, XboxInput!Threads, XboxInput!Initializing
<1>25. QED
  BY <1>1, <1>2, <1>3, <1>4, <1>5, <1>6, <1>7, <1>8, <1>9, <1>10, <1>11, <1>12,
    <1>13, <1>14, <1>15, <1>16, <1>17, <1>18, <1>19, <1>20, <1>21, <1>22, <1>23,
    <1>24 DEF XboxInput!Next, XboxInput!Create, XboxInput!Step

\* Submissions are counted.
LEMMA ReportsCountedNext ==
  ASSUME XboxInput!PacketsAssumption, XboxTypes, StartInv, ReportsCounted,
    [XboxInput!Next]_(XboxInput!vars)
  PROVE  ReportsCounted'
<1> USE DEF ReportsCounted, One, XboxTypes, HasReport, XboxInput!Threads
<1>1. ASSUME XboxInput!CreateDevice PROVE ReportsCounted'
  BY <1>1, PacketsAre DEF XboxInput!CreateDevice, XboxInput!Goto, XboxInput!hidVars,
    XboxInput!inputVars
<1>2. ASSUME XboxInput!DeviceCreated PROVE ReportsCounted'
  BY <1>2, PacketsAre DEF XboxInput!DeviceCreated, XboxInput!hidVars,
    XboxInput!inputVars
<1>3. ASSUME XboxInput!WaitEnds PROVE ReportsCounted'
  BY <1>3, PacketsAre DEF XboxInput!WaitEnds, XboxInput!Goto, XboxInput!hidVars,
    XboxInput!inputVars
<1>4. ASSUME XboxInput!TimesOut PROVE ReportsCounted'
  BY <1>4, PacketsAre DEF XboxInput!TimesOut, XboxInput!Goto, XboxInput!hidVars,
    XboxInput!inputVars
<1>5. ASSUME XboxInput!OpenDevice PROVE ReportsCounted'
  BY <1>5, PacketsAre DEF XboxInput!OpenDevice, XboxInput!Goto,
    XboxInput!creationVars, XboxInput!hidVars, XboxInput!inputVars
<1>6. ASSUME XboxInput!StartVhf PROVE ReportsCounted'
  BY <1>6, VhfStarts, PacketsAre
<1>7. ASSUME XboxInput!StoreHandle PROVE ReportsCounted'
  BY <1>7, PacketsAre DEF XboxInput!StoreHandle, XboxInput!Goto,
    XboxInput!creationVars, XboxInput!inputVars
<1>8. ASSUME XboxInput!Initialized PROVE ReportsCounted'
  BY <1>8, PacketsAre DEF XboxInput!Initialized, XboxInput!Takes, XboxInput!Goto,
    XboxInput!hidVars, XboxInput!inputVars
<1>9. ASSUME NEW t \in XboxInput!Threads, XboxInput!QueueReport(t) PROVE ReportsCounted'
  BY <1>9, PacketsAre DEF XboxInput!QueueReport, XboxInput!Goto, XboxInput!Onward,
    XboxInput!creationVars, XboxInput!inputVars
<1>10. ASSUME NEW t \in XboxInput!Threads, XboxInput!PrepareSubmission(t)
      PROVE  ReportsCounted'
  BY <1>10, PacketsAre DEF XboxInput!PrepareSubmission, XboxInput!MayPrepare,
    XboxInput!Takes, XboxInput!None, XboxInput!Goto, XboxInput!Onward,
    XboxInput!creationVars, XboxInput!inputVars
<1>11. ASSUME NEW t \in XboxInput!Threads, XboxInput!Submit(t) PROVE ReportsCounted'
  <2>1. /\ xboxPc[t] = "submit" /\ UNCHANGED <<xboxActive, shutting>>
        /\ \/ xboxPc' = [xboxPc EXCEPT ![t] = "finish"]
           \/ xboxPc' = [xboxPc EXCEPT ![t] = "refused"]
    BY <1>11, VhfHears
  <2>2. \A u \in XboxInput!Threads : One(u)' = One(u)
    BY <2>1
  <2>3. t \in {"broker", "client", "vhf"} /\ One(t) = 1
    BY <2>1
  <2>4. xboxActive # 0
    BY <2>3
  <2>5. QED
    BY <2>1, <2>2, <2>4
<1>12. ASSUME NEW t \in XboxInput!Threads, XboxInput!FinishSubmission(t)
      PROVE  ReportsCounted'
  BY <1>12, PacketsAre DEF XboxInput!FinishSubmission, XboxInput!None,
    XboxInput!Goto, XboxInput!Onward, XboxInput!creationVars, XboxInput!inputVars
<1>13. ASSUME NEW t \in XboxInput!Threads, XboxInput!Wake(t) PROVE ReportsCounted'
  BY <1>13, PacketsAre DEF XboxInput!Wake, XboxInput!Goto, XboxInput!creationVars,
    XboxInput!hidVars
<1>14. ASSUME NEW t \in XboxInput!Threads, XboxInput!ReadInput(t) PROVE ReportsCounted'
  BY <1>14, PacketsAre DEF XboxInput!ReadInput, XboxInput!Takes, XboxInput!Goto,
    XboxInput!creationVars, XboxInput!hidVars, XboxInput!inputVars
<1>15. ASSUME NEW t \in XboxInput!Threads, XboxInput!AnswerWait(t) PROVE ReportsCounted'
  BY <1>15, PacketsAre DEF XboxInput!AnswerWait, XboxInput!None, XboxInput!Goto,
    XboxInput!creationVars, XboxInput!hidVars
<1>16. ASSUME XboxInput!ReadyForNext PROVE ReportsCounted'
  <2>1. /\ xboxPc["vhf"] = "idle" /\ xboxVhf.asks /\ ~xboxVhf'.asks /\ xboxVhf.runs
        /\ xboxVhf'.holds = xboxVhf.holds /\ xboxVhf'.runs = xboxVhf.runs
        /\ UNCHANGED <<context, created, initialized, shutting, xboxHandle, packets, xboxLatest,
                       xboxActive, xboxDelivered, xboxRefused, packet, waits, seen, xboxHeld>>
    BY <1>16, VhfAsks
  <2>2. CASE UNCHANGED <<xboxInFlight, xboxReady, xboxPc>> /\ xboxVhf'.granted = xboxVhf.granted
    BY <2>1, <2>2
  <2>3. CASE /\ shutting = "no" /\ xboxHandle /\ xboxVhf'.granted
             /\ xboxInFlight' = XboxInput!None /\ xboxReady' = TRUE
             /\ xboxPc' = [xboxPc EXCEPT !["vhf"] = "next"]
    <3>1. xboxPc["broker"] \notin {"idle", "create", "late", "open", "start"}
      BY <2>1 DEF StartInv, BeforeReport
    <3>2. /\ xboxPc'["vhf"] = "next"
          /\ \A u \in XboxInput!Threads : u # "vhf" => xboxPc'[u] = xboxPc[u]
      BY <2>3 DEF XboxTypes
    <3>3. QED
      BY <2>1, <2>3, <3>1, <3>2, PacketsAre
  <2>4. QED
    BY <1>16, <2>2, <2>3, VhfAsks
<1>17. ASSUME XboxInput!HostReads PROVE ReportsCounted'
  BY <1>17, PacketsAre DEF XboxInput!HostReads, XboxInput!None,
    XboxInput!VhfCallsBack, XboxInput!creationVars, XboxInput!inputVars
<1>18. ASSUME XboxInput!SubmitInput PROVE ReportsCounted'
  BY <1>18, PacketsAre DEF XboxInput!SubmitInput, XboxInput!ClientServed,
    XboxInput!Takes, XboxInput!Goto, XboxInput!creationVars, XboxInput!hidVars,
    XboxInput!Serves
<1>19. ASSUME XboxInput!WaitForInput PROVE ReportsCounted'
  BY <1>19, PacketsAre DEF XboxInput!WaitForInput, XboxInput!creationVars,
    XboxInput!hidVars
<1>20. ASSUME XboxInput!CleanupBegins PROVE ReportsCounted'
  BY <1>20, PacketsAre DEF XboxInput!CleanupBegins, XboxInput!None,
    XboxInput!creationVars
<1>21. ASSUME XboxInput!Drained PROVE ReportsCounted'
  BY <1>21, PacketsAre DEF XboxInput!Drained, XboxInput!creationVars,
    XboxInput!inputVars
<1>22. ASSUME XboxInput!VhfDelete PROVE ReportsCounted'
  BY <1>22, PacketsAre DEF XboxInput!VhfDelete, XboxInput!None,
    XboxInput!creationVars, XboxInput!inputVars
<1>23. ASSUME XboxInput!CleanupEnds PROVE ReportsCounted'
  BY <1>23, PacketsAre DEF XboxInput!CleanupEnds, XboxInput!None,
    XboxInput!creationVars, XboxInput!inputVars
<1>24. CASE UNCHANGED XboxInput!vars
  BY <1>24 DEF XboxInput!vars, XboxInput!creationVars, XboxInput!hidVars,
    XboxInput!inputVars
<1> HIDE DEF ReportsCounted, One, XboxTypes, HasReport, XboxInput!Threads
<1>25. QED
  BY <1>1, <1>2, <1>3, <1>4, <1>5, <1>6, <1>7, <1>8, <1>9, <1>10, <1>11, <1>12,
    <1>13, <1>14, <1>15, <1>16, <1>17, <1>18, <1>19, <1>20, <1>21, <1>22, <1>23,
    <1>24 DEF XboxInput!Next, XboxInput!Create, XboxInput!Step

\* Every request of VHF is answered once.
LEMMA GrantInvNext ==
  ASSUME XboxInput!PacketsAssumption, XboxTypes, StartInv, GrantInv,
    [XboxInput!Next]_(XboxInput!vars)
  PROVE  GrantInv'
<1> USE DEF GrantInv, XboxTypes, XboxInput!Threads
<1>1. ASSUME XboxInput!CreateDevice PROVE GrantInv'
  BY <1>1, PacketsAre DEF XboxInput!CreateDevice, XboxInput!Goto, XboxInput!hidVars,
    XboxInput!inputVars
<1>2. ASSUME XboxInput!DeviceCreated PROVE GrantInv'
  BY <1>2, PacketsAre DEF XboxInput!DeviceCreated, XboxInput!hidVars,
    XboxInput!inputVars
<1>3. ASSUME XboxInput!WaitEnds PROVE GrantInv'
  BY <1>3, PacketsAre DEF XboxInput!WaitEnds, XboxInput!Goto, XboxInput!hidVars,
    XboxInput!inputVars
<1>4. ASSUME XboxInput!TimesOut PROVE GrantInv'
  BY <1>4, PacketsAre DEF XboxInput!TimesOut, XboxInput!Goto, XboxInput!hidVars,
    XboxInput!inputVars
<1>5. ASSUME XboxInput!OpenDevice PROVE GrantInv'
  BY <1>5, PacketsAre DEF XboxInput!OpenDevice, XboxInput!Goto,
    XboxInput!creationVars, XboxInput!hidVars, XboxInput!inputVars
<1>6. ASSUME XboxInput!StartVhf PROVE GrantInv'
  <2>1. xboxPc["broker"] = "start" /\ ~xboxVhf.granted /\ xboxVhf.holds = -1 /\ ~xboxReady
    BY <1>6, VhfStarts DEF StartInv, BeforeReport
  <2>2. \A u \in XboxInput!Threads : xboxPc'[u] = "submit" => xboxPc[u] = "submit"
    BY <1>6, VhfStarts
  <2>3. xboxVhf'.holds = -1 /\ ~xboxVhf'.granted /\ ~xboxReady'
    BY <1>6, <2>1, VhfStarts
  <2>4. QED
    BY <2>1, <2>2, <2>3
<1>7. ASSUME XboxInput!StoreHandle PROVE GrantInv'
  BY <1>7, PacketsAre DEF XboxInput!StoreHandle, XboxInput!Goto,
    XboxInput!creationVars, XboxInput!inputVars
<1>8. ASSUME XboxInput!Initialized PROVE GrantInv'
  BY <1>8, PacketsAre DEF XboxInput!Initialized, XboxInput!Takes, XboxInput!Goto,
    XboxInput!hidVars, XboxInput!inputVars
<1>9. ASSUME NEW t \in XboxInput!Threads, XboxInput!QueueReport(t) PROVE GrantInv'
  BY <1>9, PacketsAre DEF XboxInput!QueueReport, XboxInput!Goto, XboxInput!Onward,
    XboxInput!creationVars, XboxInput!inputVars
<1>10. ASSUME NEW t \in XboxInput!Threads, XboxInput!PrepareSubmission(t) PROVE GrantInv'
  BY <1>10, PacketsAre DEF XboxInput!PrepareSubmission, XboxInput!MayPrepare,
    XboxInput!Takes, XboxInput!None, XboxInput!Goto, XboxInput!Onward,
    XboxInput!creationVars, XboxInput!inputVars
<1>11. ASSUME NEW t \in XboxInput!Threads, XboxInput!Submit(t) PROVE GrantInv'
  BY <1>11, VhfHears, PacketsAre
<1>12. ASSUME NEW t \in XboxInput!Threads, XboxInput!FinishSubmission(t) PROVE GrantInv'
  BY <1>12, PacketsAre DEF XboxInput!FinishSubmission, XboxInput!None,
    XboxInput!Goto, XboxInput!Onward, XboxInput!creationVars, XboxInput!inputVars
<1>13. ASSUME NEW t \in XboxInput!Threads, XboxInput!Wake(t) PROVE GrantInv'
  BY <1>13, PacketsAre DEF XboxInput!Wake, XboxInput!Goto, XboxInput!creationVars,
    XboxInput!hidVars
<1>14. ASSUME NEW t \in XboxInput!Threads, XboxInput!ReadInput(t) PROVE GrantInv'
  BY <1>14, PacketsAre DEF XboxInput!ReadInput, XboxInput!Takes, XboxInput!Goto,
    XboxInput!creationVars, XboxInput!hidVars, XboxInput!inputVars
<1>15. ASSUME NEW t \in XboxInput!Threads, XboxInput!AnswerWait(t) PROVE GrantInv'
  BY <1>15, PacketsAre DEF XboxInput!AnswerWait, XboxInput!None, XboxInput!Goto,
    XboxInput!creationVars, XboxInput!hidVars
<1>16. ASSUME XboxInput!ReadyForNext PROVE GrantInv'
  <2>1. /\ xboxPc["vhf"] = "idle" /\ xboxVhf.asks /\ ~xboxVhf'.asks /\ xboxVhf.runs
        /\ xboxVhf'.holds = xboxVhf.holds /\ xboxVhf'.runs = xboxVhf.runs
        /\ UNCHANGED <<context, created, initialized, shutting, xboxHandle, packets, xboxLatest,
                       xboxActive, xboxDelivered, xboxRefused, packet, waits, seen, xboxHeld>>
    BY <1>16, VhfAsks
  <2>2. CASE UNCHANGED <<xboxInFlight, xboxReady, xboxPc>> /\ xboxVhf'.granted = xboxVhf.granted
    BY <2>1, <2>2
  <2>3. CASE /\ shutting = "no" /\ xboxHandle /\ xboxVhf'.granted
             /\ xboxInFlight' = XboxInput!None /\ xboxReady' = TRUE
             /\ xboxPc' = [xboxPc EXCEPT !["vhf"] = "next"]
    <3>1. xboxPc["broker"] \notin {"idle", "create", "late", "open", "start"}
      BY <2>1 DEF StartInv, BeforeReport
    <3>2. /\ xboxPc'["vhf"] = "next"
          /\ \A u \in XboxInput!Threads : u # "vhf" => xboxPc'[u] = xboxPc[u]
      BY <2>3 DEF XboxTypes
    <3>3. QED
      BY <2>1, <2>3, <3>1, <3>2, PacketsAre
  <2>4. QED
    BY <1>16, <2>2, <2>3, VhfAsks
<1>17. ASSUME XboxInput!HostReads PROVE GrantInv'
  BY <1>17, PacketsAre DEF XboxInput!HostReads, XboxInput!None,
    XboxInput!VhfCallsBack, XboxInput!creationVars, XboxInput!inputVars
<1>18. ASSUME XboxInput!SubmitInput PROVE GrantInv'
  BY <1>18, PacketsAre DEF XboxInput!SubmitInput, XboxInput!ClientServed,
    XboxInput!Takes, XboxInput!Goto, XboxInput!creationVars, XboxInput!hidVars,
    XboxInput!Serves
<1>19. ASSUME XboxInput!WaitForInput PROVE GrantInv'
  BY <1>19, PacketsAre DEF XboxInput!WaitForInput, XboxInput!creationVars,
    XboxInput!hidVars
<1>20. ASSUME XboxInput!CleanupBegins PROVE GrantInv'
  BY <1>20, PacketsAre DEF XboxInput!CleanupBegins, XboxInput!None,
    XboxInput!creationVars
<1>21. ASSUME XboxInput!Drained PROVE GrantInv'
  BY <1>21, PacketsAre DEF XboxInput!Drained, XboxInput!creationVars,
    XboxInput!inputVars
<1>22. ASSUME XboxInput!VhfDelete PROVE GrantInv'
  BY <1>22, PacketsAre DEF XboxInput!VhfDelete, XboxInput!None,
    XboxInput!creationVars, XboxInput!inputVars
<1>23. ASSUME XboxInput!CleanupEnds PROVE GrantInv'
  BY <1>23, PacketsAre DEF XboxInput!CleanupEnds, XboxInput!None,
    XboxInput!creationVars, XboxInput!inputVars
<1>24. CASE UNCHANGED XboxInput!vars
  BY <1>24 DEF XboxInput!vars, XboxInput!creationVars, XboxInput!hidVars,
    XboxInput!inputVars
<1> HIDE DEF GrantInv, XboxTypes, XboxInput!Threads
<1>25. QED
  BY <1>1, <1>2, <1>3, <1>4, <1>5, <1>6, <1>7, <1>8, <1>9, <1>10, <1>11, <1>12,
    <1>13, <1>14, <1>15, <1>16, <1>17, <1>18, <1>19, <1>20, <1>21, <1>22, <1>23,
    <1>24 DEF XboxInput!Next, XboxInput!Create, XboxInput!Step

\* Reports stay in order.
LEMMA OrderInvNext ==
  ASSUME XboxInput!PacketsAssumption, XboxTypes, StartInv, ReportsCounted, GrantInv,
    OrderInv, [XboxInput!Next]_(XboxInput!vars)
  PROVE  OrderInv'
<1> USE DEF OrderInv, GrantInv, StartInv, XboxTypes, HasReport, BeforeReport,
  BrokerPlaces, ClientPlaces, XboxInput!Threads
<1>1. ASSUME XboxInput!CreateDevice PROVE OrderInv'
  BY <1>1, PacketsAre DEF XboxInput!CreateDevice, XboxInput!Goto, XboxInput!hidVars,
    XboxInput!inputVars
<1>2. ASSUME XboxInput!DeviceCreated PROVE OrderInv'
  BY <1>2, PacketsAre DEF XboxInput!DeviceCreated, XboxInput!hidVars,
    XboxInput!inputVars
<1>3. ASSUME XboxInput!WaitEnds PROVE OrderInv'
  BY <1>3, PacketsAre DEF XboxInput!WaitEnds, XboxInput!Goto, XboxInput!hidVars,
    XboxInput!inputVars
<1>4. ASSUME XboxInput!TimesOut PROVE OrderInv'
  BY <1>4, PacketsAre DEF XboxInput!TimesOut, XboxInput!Goto, XboxInput!hidVars,
    XboxInput!inputVars
<1>5. ASSUME XboxInput!OpenDevice PROVE OrderInv'
  BY <1>5, PacketsAre DEF XboxInput!OpenDevice, XboxInput!Goto,
    XboxInput!creationVars, XboxInput!hidVars, XboxInput!inputVars
<1>6. ASSUME XboxInput!StartVhf PROVE OrderInv'
  BY <1>6, VhfStarts, PacketsAre
<1>7. ASSUME XboxInput!StoreHandle PROVE OrderInv'
  BY <1>7, PacketsAre DEF XboxInput!StoreHandle, XboxInput!Goto,
    XboxInput!creationVars, XboxInput!inputVars
<1>8. ASSUME XboxInput!Initialized PROVE OrderInv'
  BY <1>8, PacketsAre DEF XboxInput!Initialized, XboxInput!Takes, XboxInput!Goto,
    XboxInput!hidVars, XboxInput!inputVars
<1>9. ASSUME NEW t \in XboxInput!Threads, XboxInput!QueueReport(t) PROVE OrderInv'
  BY <1>9, PacketsAre DEF XboxInput!QueueReport, XboxInput!Goto, XboxInput!Onward,
    XboxInput!creationVars, XboxInput!inputVars
<1>10. ASSUME NEW t \in XboxInput!Threads, XboxInput!PrepareSubmission(t) PROVE OrderInv'
  BY <1>10, PacketsAre DEF XboxInput!PrepareSubmission, XboxInput!MayPrepare,
    XboxInput!Takes, XboxInput!None, XboxInput!Goto, XboxInput!Onward,
    XboxInput!creationVars, XboxInput!inputVars
<1>11. ASSUME NEW t \in XboxInput!Threads, XboxInput!Submit(t) PROVE OrderInv'
  <2>1. /\ xboxPc[t] = "submit" /\ xboxVhf.holds = -1 /\ xboxInFlight = xboxHeld[t]
        /\ xboxHeld[t] # -1 /\ xboxHeld[t] <= xboxLatest /\ xboxDelivered < xboxHeld[t]
        /\ packets # -1 => xboxHeld[t] < packets
        /\ xboxPc["client"] = "report" => xboxHeld[t] < packet
        /\ \A u \in XboxInput!Threads : xboxPc[u] = "submit" => u = t
    BY <1>11, VhfHears
  <2>2. /\ \A u \in XboxInput!Threads : u # t => xboxPc'[u] = xboxPc[u]
        /\ xboxPc'[t] \in {"finish", "refused"}
        /\ UNCHANGED <<xboxHeld, xboxInFlight, xboxLatest, packets, packet>>
    BY <1>11, VhfHears
  <2>3. \A u \in XboxInput!Threads :
          /\ xboxPc'[u] # "submit" /\ (xboxPc'[u] \in HasReport => xboxPc[u] \in HasReport)
          /\ xboxPc'[u] = "report" <=> xboxPc[u] = "report"
    BY <2>1, <2>2
  <2>4. xboxDelivered' \in {-1, xboxHeld[t]}
    BY <1>11, VhfHears, PacketsAre
  <2>5. /\ -1 <= xboxLatest /\ -1 <= packets /\ -1 <= packet /\ xboxHeld[t] \in Int
        /\ -1 <= xboxHeld[t]
        /\ xboxLatest \in Int /\ packets \in Int /\ packet \in Int
    BY PacketsAre
  <2>6. /\ xboxDelivered' <= xboxLatest /\ (packets # -1 => xboxDelivered' < packets)
        /\ xboxPc["client"] = "report" => xboxDelivered' < packet
    <3>1. CASE xboxDelivered' = xboxHeld[t]
      BY <2>1, <3>1
    <3>2. CASE xboxDelivered' = -1
      <4>1. xboxPc["client"] = "report" => -1 < packet
        BY <2>1, <2>5
      <4>2. QED
        BY <2>5, <3>2, <4>1
    <3>3. QED
      BY <2>4, <3>1, <3>2
  <2>7. xboxVhf'.holds # -1 =>
          /\ xboxInFlight = xboxVhf'.holds
          /\ \A u \in XboxInput!Threads : xboxPc'[u] = "refused" => xboxHeld[u] # xboxVhf'.holds
    <3>1. SUFFICES ASSUME xboxVhf'.holds # -1
                   PROVE  /\ xboxVhf'.holds = xboxHeld[t] /\ xboxPc'[t] = "finish"
      BY <2>1, <2>2
    <3>2. QED
      BY <1>11, <2>1, <3>1, VhfHears DEF XboxTypes
  <2>8. QED
    BY <2>1, <2>2, <2>3, <2>6, <2>7
<1>12. ASSUME NEW t \in XboxInput!Threads, XboxInput!FinishSubmission(t) PROVE OrderInv'
  BY <1>12, PacketsAre DEF XboxInput!FinishSubmission, XboxInput!None,
    XboxInput!Goto, XboxInput!Onward, XboxInput!creationVars, XboxInput!inputVars
<1>13. ASSUME NEW t \in XboxInput!Threads, XboxInput!Wake(t) PROVE OrderInv'
  BY <1>13, PacketsAre DEF XboxInput!Wake, XboxInput!Goto, XboxInput!creationVars,
    XboxInput!hidVars
<1>14. ASSUME NEW t \in XboxInput!Threads, XboxInput!ReadInput(t) PROVE OrderInv'
  BY <1>14, PacketsAre DEF XboxInput!ReadInput, XboxInput!Takes, XboxInput!Goto,
    XboxInput!creationVars, XboxInput!hidVars, XboxInput!inputVars
<1>15. ASSUME NEW t \in XboxInput!Threads, XboxInput!AnswerWait(t) PROVE OrderInv'
  BY <1>15, PacketsAre DEF XboxInput!AnswerWait, XboxInput!None, XboxInput!Goto,
    XboxInput!creationVars, XboxInput!hidVars
<1>16. ASSUME XboxInput!ReadyForNext PROVE OrderInv'
  <2>1. /\ xboxVhf.asks /\ xboxVhf'.holds = xboxVhf.holds /\ xboxPc["vhf"] = "idle"
        /\ UNCHANGED <<packets, xboxLatest, xboxDelivered, packet, xboxHeld>>
        /\ xboxPc' = [xboxPc EXCEPT !["vhf"] = "next"] \/ UNCHANGED xboxPc
    BY <1>16, VhfAsks
  <2>2. xboxVhf.holds = -1 /\ \A t \in XboxInput!Threads : xboxPc[t] # "submit"
    BY <2>1
  <2>3. \A t \in XboxInput!Threads :
          xboxPc'[t] = xboxPc[t] \/ (t = "vhf" /\ xboxPc'[t] = "next")
    BY <2>1
  <2>4. QED
    BY <2>1, <2>2, <2>3
<1>17. ASSUME XboxInput!HostReads PROVE OrderInv'
  BY <1>17, PacketsAre DEF XboxInput!HostReads, XboxInput!None,
    XboxInput!VhfCallsBack, XboxInput!creationVars, XboxInput!inputVars
<1>18. ASSUME XboxInput!SubmitInput PROVE OrderInv'
  BY <1>18, PacketsAre DEF XboxInput!SubmitInput, XboxInput!ClientServed,
    XboxInput!Takes, XboxInput!Goto, XboxInput!creationVars, XboxInput!hidVars,
    XboxInput!Serves
<1>19. ASSUME XboxInput!WaitForInput PROVE OrderInv'
  BY <1>19, PacketsAre DEF XboxInput!WaitForInput, XboxInput!creationVars,
    XboxInput!hidVars
<1>20. ASSUME XboxInput!CleanupBegins PROVE OrderInv'
  BY <1>20, PacketsAre DEF XboxInput!CleanupBegins, XboxInput!None,
    XboxInput!creationVars
<1>21. ASSUME XboxInput!Drained PROVE OrderInv'
  BY <1>21, PacketsAre DEF XboxInput!Drained, XboxInput!creationVars,
    XboxInput!inputVars
<1>22. ASSUME XboxInput!VhfDelete PROVE OrderInv'
  BY <1>22, PacketsAre DEF XboxInput!VhfDelete, XboxInput!None,
    XboxInput!creationVars, XboxInput!inputVars
<1>23. ASSUME XboxInput!CleanupEnds PROVE OrderInv'
  <2>1. /\ shutting = "reset"
        /\ UNCHANGED <<packets, xboxLatest, xboxDelivered, packet, xboxHeld, xboxPc, xboxVhf>>
    BY <1>23 DEF XboxInput!CleanupEnds, XboxInput!inputVars
  <2>2. xboxVhf.holds = -1 /\ One("broker") + One("client") + One("vhf") = 0
    BY <2>1 DEF ReportsCounted
  <2>3. \A t \in XboxInput!Threads : xboxPc[t] # "submit"
    BY <2>2 DEF One
  <2>4. QED
    BY <2>1, <2>2, <2>3
<1>24. CASE UNCHANGED XboxInput!vars
  BY <1>24 DEF XboxInput!vars, XboxInput!creationVars, XboxInput!hidVars,
    XboxInput!inputVars
<1> HIDE DEF OrderInv, GrantInv, StartInv, XboxTypes, HasReport, BeforeReport, BrokerPlaces,
      ClientPlaces, XboxInput!Threads
<1>25. QED
  BY <1>1, <1>2, <1>3, <1>4, <1>5, <1>6, <1>7, <1>8, <1>9, <1>10, <1>11, <1>12,
    <1>13, <1>14, <1>15, <1>16, <1>17, <1>18, <1>19, <1>20, <1>21, <1>22, <1>23,
    <1>24 DEF XboxInput!Next, XboxInput!Create, XboxInput!Step

\* The newest input stays on its way.
LEMMA NewestKeptNext ==
  ASSUME XboxInput!PacketsAssumption, XboxTypes, StartInv, ReportsCounted, GrantInv,
    OrderInv, XboxInput!NewestKept, [XboxInput!Next]_(XboxInput!vars)
  PROVE  XboxInput!NewestKept'
<1> USE DEF XboxInput!NewestKept, OrderInv, GrantInv, StartInv, XboxTypes, HasReport,
  BeforeReport, BrokerPlaces, ClientPlaces, XboxInput!Threads, XboxInput!Serves
<1>1. ASSUME XboxInput!CreateDevice PROVE XboxInput!NewestKept'
  BY <1>1, PacketsAre DEF XboxInput!CreateDevice, XboxInput!Goto, XboxInput!hidVars,
    XboxInput!inputVars
<1>2. ASSUME XboxInput!DeviceCreated PROVE XboxInput!NewestKept'
  BY <1>2, PacketsAre DEF XboxInput!DeviceCreated, XboxInput!hidVars,
    XboxInput!inputVars
<1>3. ASSUME XboxInput!WaitEnds PROVE XboxInput!NewestKept'
  BY <1>3, PacketsAre DEF XboxInput!WaitEnds, XboxInput!Goto, XboxInput!hidVars,
    XboxInput!inputVars
<1>4. ASSUME XboxInput!TimesOut PROVE XboxInput!NewestKept'
  BY <1>4, PacketsAre DEF XboxInput!TimesOut, XboxInput!Goto, XboxInput!hidVars,
    XboxInput!inputVars
<1>5. ASSUME XboxInput!OpenDevice PROVE XboxInput!NewestKept'
  BY <1>5, PacketsAre DEF XboxInput!OpenDevice, XboxInput!Goto,
    XboxInput!creationVars, XboxInput!hidVars, XboxInput!inputVars
<1>6. ASSUME XboxInput!StartVhf PROVE XboxInput!NewestKept'
  BY <1>6, VhfStarts, PacketsAre
<1>7. ASSUME XboxInput!StoreHandle PROVE XboxInput!NewestKept'
  BY <1>7, PacketsAre DEF XboxInput!StoreHandle, XboxInput!Goto,
    XboxInput!creationVars, XboxInput!inputVars
<1>8. ASSUME XboxInput!Initialized PROVE XboxInput!NewestKept'
  BY <1>8, PacketsAre DEF XboxInput!Initialized, XboxInput!Takes, XboxInput!Goto,
    XboxInput!hidVars, XboxInput!inputVars
<1>9. ASSUME NEW t \in XboxInput!Threads, XboxInput!QueueReport(t)
      PROVE  XboxInput!NewestKept'
  BY <1>9, PacketsAre DEF XboxInput!QueueReport, XboxInput!Goto, XboxInput!Onward,
    XboxInput!creationVars, XboxInput!inputVars
<1>10. ASSUME NEW t \in XboxInput!Threads, XboxInput!PrepareSubmission(t)
      PROVE  XboxInput!NewestKept'
  BY <1>10, PacketsAre DEF XboxInput!PrepareSubmission, XboxInput!MayPrepare,
    XboxInput!Takes, XboxInput!None, XboxInput!Goto, XboxInput!Onward,
    XboxInput!creationVars, XboxInput!inputVars
<1>11. ASSUME NEW t \in XboxInput!Threads, XboxInput!Submit(t) PROVE XboxInput!NewestKept'
  <2>1. SUFFICES ASSUME XboxInput!Serves', ~xboxRefused'
                 PROVE  XboxInput!NewestKept'
    OBVIOUS
  <2>2. /\ shutting = "no" /\ ~xboxRefused /\ XboxInput!Serves
        /\ xboxDelivered' = xboxHeld[t]
        /\ xboxPc[t] = "submit" /\ xboxPc' = [xboxPc EXCEPT ![t] = "finish"]
        /\ UNCHANGED <<packets, xboxLatest, packet, xboxHeld>>
    BY <1>11, <2>1, VhfHears
  <2>3. /\ xboxHeld[t] <= xboxLatest /\ xboxDelivered < xboxHeld[t] /\ xboxLatest <= packet
        /\ packets # -1 => xboxHeld[t] < packets
        /\ \A u \in XboxInput!Threads : xboxPc[u] = "submit" => u = t
        /\ xboxHeld[t] \in Int /\ xboxDelivered \in Int /\ xboxLatest \in Int
        /\ packet \in Int
    BY <2>2, PacketsAre
  <2>4. xboxDelivered # packet
    BY <2>3
  <2>5. \/ \E u \in {"broker", "client"} : xboxPc[u] = "report" /\ xboxHeld[u] = packet
        \/ packets = packet \/ xboxHeld[t] = packet
    BY <2>2, <2>3, <2>4
  <2>6. \A u \in {"broker", "client"} : xboxPc[u] = "report" => xboxPc'[u] = "report"
    BY <2>2
  <2>7. QED
    BY <2>2, <2>3, <2>5, <2>6, PacketsAre
<1>12. ASSUME NEW t \in XboxInput!Threads, XboxInput!FinishSubmission(t)
      PROVE  XboxInput!NewestKept'
  BY <1>12, PacketsAre DEF XboxInput!FinishSubmission, XboxInput!None,
    XboxInput!Goto, XboxInput!Onward, XboxInput!creationVars, XboxInput!inputVars
<1>13. ASSUME NEW t \in XboxInput!Threads, XboxInput!Wake(t) PROVE XboxInput!NewestKept'
  BY <1>13, PacketsAre DEF XboxInput!Wake, XboxInput!Goto, XboxInput!creationVars,
    XboxInput!hidVars
<1>14. ASSUME NEW t \in XboxInput!Threads, XboxInput!ReadInput(t)
      PROVE  XboxInput!NewestKept'
  BY <1>14, PacketsAre DEF XboxInput!ReadInput, XboxInput!Takes, XboxInput!Goto,
    XboxInput!creationVars, XboxInput!hidVars, XboxInput!inputVars
<1>15. ASSUME NEW t \in XboxInput!Threads, XboxInput!AnswerWait(t)
      PROVE  XboxInput!NewestKept'
  BY <1>15, PacketsAre DEF XboxInput!AnswerWait, XboxInput!None, XboxInput!Goto,
    XboxInput!creationVars, XboxInput!hidVars
<1>16. ASSUME XboxInput!ReadyForNext PROVE XboxInput!NewestKept'
  BY <1>16, VhfAsks, PacketsAre
<1>17. ASSUME XboxInput!HostReads PROVE XboxInput!NewestKept'
  BY <1>17, PacketsAre DEF XboxInput!HostReads, XboxInput!None,
    XboxInput!VhfCallsBack, XboxInput!creationVars, XboxInput!inputVars
<1>18. ASSUME XboxInput!SubmitInput PROVE XboxInput!NewestKept'
  BY <1>18, PacketsAre DEF XboxInput!SubmitInput, XboxInput!ClientServed,
    XboxInput!Takes, XboxInput!Goto, XboxInput!creationVars, XboxInput!hidVars,
    XboxInput!Serves
<1>19. ASSUME XboxInput!WaitForInput PROVE XboxInput!NewestKept'
  BY <1>19, PacketsAre DEF XboxInput!WaitForInput, XboxInput!creationVars,
    XboxInput!hidVars
<1>20. ASSUME XboxInput!CleanupBegins PROVE XboxInput!NewestKept'
  BY <1>20, PacketsAre DEF XboxInput!CleanupBegins, XboxInput!None,
    XboxInput!creationVars
<1>21. ASSUME XboxInput!Drained PROVE XboxInput!NewestKept'
  BY <1>21, PacketsAre DEF XboxInput!Drained, XboxInput!creationVars,
    XboxInput!inputVars
<1>22. ASSUME XboxInput!VhfDelete PROVE XboxInput!NewestKept'
  BY <1>22, PacketsAre DEF XboxInput!VhfDelete, XboxInput!None,
    XboxInput!creationVars, XboxInput!inputVars
<1>23. ASSUME XboxInput!CleanupEnds PROVE XboxInput!NewestKept'
  BY <1>23, PacketsAre DEF XboxInput!CleanupEnds, XboxInput!None,
    XboxInput!creationVars, XboxInput!inputVars
<1>24. CASE UNCHANGED XboxInput!vars
  BY <1>24 DEF XboxInput!vars, XboxInput!creationVars, XboxInput!hidVars,
    XboxInput!inputVars
<1> HIDE DEF XboxInput!NewestKept, OrderInv, GrantInv, StartInv, XboxTypes, HasReport,
      BeforeReport, BrokerPlaces, ClientPlaces, XboxInput!Threads, XboxInput!Serves
<1>25. QED
  BY <1>1, <1>2, <1>3, <1>4, <1>5, <1>6, <1>7, <1>8, <1>9, <1>10, <1>11, <1>12,
    <1>13, <1>14, <1>15, <1>16, <1>17, <1>18, <1>19, <1>20, <1>21, <1>22, <1>23,
    <1>24 DEF XboxInput!Next, XboxInput!Create, XboxInput!Step

LEMMA XboxInit ==
  ASSUME XboxInput!PacketsAssumption, XboxInput!Init
  PROVE  XboxInv
<1> USE DEF XboxInput!Init, XboxInput!Threads
<1>1. XboxTypes
  <2>1. /\ XboxInput!None \in Packets /\ packet \in 0..MaxPackets
    BY PacketsAre
  <2>2. xboxVhf \in VhfStates
    BY <2>1 DEF VhfStates
  <2>3. xboxHeld \in [XboxInput!Threads -> Packets]
    BY <2>1
  <2>4. /\ xboxPc \in [XboxInput!Threads -> BrokerPlaces \cup ClientPlaces]
        /\ xboxPc["broker"] \in BrokerPlaces /\ xboxPc["client"] \in ClientPlaces
        /\ xboxPc["pump"] = "idle" /\ xboxPc["vhf"] = "idle"
    BY DEF BrokerPlaces, ClientPlaces, BeforeReport
  <2>5. QED
    BY <2>1, <2>2, <2>3, <2>4 DEF XboxTypes
<1>2. ContextInv
  BY DEF ContextInv
<1>3. StartInv
  BY PacketsAre DEF StartInv, BeforeReport, HasReport, XboxInput!Initializing
<1>4. ReportsCounted
  BY DEF ReportsCounted, One, HasReport
<1>5. GrantInv
  BY PacketsAre DEF GrantInv
<1>6. OrderInv
  BY PacketsAre DEF OrderInv, HasReport
<1>7. XboxInput!NewestKept
  BY DEF XboxInput!NewestKept, XboxInput!Serves
<1>8. QED
  BY <1>1, <1>2, <1>3, <1>4, <1>5, <1>6, <1>7 DEF XboxInv

LEMMA XboxInvariance ==
  ASSUME XboxInput!PacketsAssumption
  PROVE  XboxInput!Spec => []XboxInv
<1>1. XboxInput!Init => XboxInv
  BY XboxInit
<1>2. XboxInv /\ [XboxInput!Next]_(XboxInput!vars) => XboxInv'
  BY XboxTypesNext, ContextInvNext, StartInvNext, ReportsCountedNext, GrantInvNext,
    OrderInvNext,
    NewestKeptNext DEF XboxInv
<1>3. QED
  BY <1>1, <1>2, PTL DEF XboxInput!Spec

LEMMA XboxContract ==
  ASSUME XboxInput!PacketsAssumption, XboxInv
  PROVE  XboxInput!VhfContractKept /\ XboxInput!ContextOutlivesCallback
<1>1. /\ XboxTypes /\ ContextInv /\ ReportsCounted /\ GrantInv /\ OrderInv
      /\ XboxInput!None = -1
  BY PacketsAre DEF XboxInv
<1>2. shutting \in {"vhf", "reset", "done"} => XboxInput!Submitting = {}
  <2>1. SUFFICES ASSUME shutting \in {"vhf", "reset", "done"},
                        NEW t \in XboxInput!Threads, xboxPc[t] \in HasReport
                 PROVE  FALSE
    BY DEF XboxInput!Submitting, HasReport
  <2>2. One("broker") + One("client") + One("vhf") = 0
    BY <1>1, <2>1 DEF ReportsCounted
  <2>3. t \in {"broker", "client", "vhf"} /\ One(t) = 1
    BY <1>1, <2>1 DEF XboxTypes, XboxInput!Threads, One, HasReport
  <2>4. QED
    BY <2>2, <2>3 DEF One
<1>3. XboxInput!VhfContractKept
  BY <1>1, <1>2 DEF GrantInv, OrderInv, XboxInput!VhfContractKept
<1>4. XboxInput!ContextOutlivesCallback
  BY <1>1 DEF XboxTypes, ContextInv, XboxInput!ContextOutlivesCallback, BrokerPlaces,
    BeforeReport, HasReport
<1>5. QED
  BY <1>3, <1>4

LEMMA XboxTypesHold ==
  ASSUME XboxInput!PacketsAssumption, XboxInv
  PROVE  XboxInput!TypeOK
<1>1. XboxTypes /\ ReportsCounted
  BY DEF XboxInv
<1>2. xboxActive \in 0..3
  <2>1. One("broker") \in 0..1 /\ One("client") \in 0..1 /\ One("vhf") \in 0..1
    BY DEF One
  <2>2. xboxActive = One("broker") + One("client") + One("vhf")
    BY <1>1 DEF ReportsCounted
  <2>3. QED
    BY <2>1, <2>2
<1>3. BrokerPlaces \cup ClientPlaces \subseteq
        {"idle", "create", "late", "open", "start", "store", "found", "report", "next",
         "submit", "finish", "refused", "wake", "woken", "answer", "end"}
  BY DEF BrokerPlaces, ClientPlaces, BeforeReport, HasReport
<1>4. xboxPc \in [XboxInput!Threads ->
        {"idle", "create", "late", "open", "start", "store", "found", "report", "next",
         "submit", "finish", "refused", "wake", "woken", "answer", "end"}]
  BY <1>1, <1>3 DEF XboxTypes
<1>5. {packets, xboxLatest, xboxInFlight, xboxDelivered, seen} \subseteq XboxInput!None..MaxPackets
  BY <1>1 DEF XboxTypes, Packets
<1>6. {early, xboxRefused} \subseteq BOOLEAN
  BY <1>1 DEF XboxTypes
<1>7. QED
  BY <1>1, <1>2, <1>4, <1>5, <1>6 DEF XboxTypes, VhfStates, Packets, XboxInput!TypeOK

\* What RumbleTypes leaves out.
RumbleLife ==
  /\ life \in {"new", "served", "gone", "done"}
  /\ reads \in {"idle", "checked", "queued"} /\ crossed \in BOOLEAN

LEMMA RumbleTypesHold ==
  ASSUME XboxOutput!LevelsAssumption
  PROVE  XboxOutput!Spec => []XboxOutput!TypeOK
<1>1. XboxOutput!Init => RumbleInv /\ RumbleLife
  BY RumbleInit DEF XboxOutput!Init, RumbleLife
<1>2. RumbleInv /\ RumbleLife /\ [XboxOutput!Next]_(XboxOutput!vars) => RumbleInv' /\ RumbleLife'
  <2>1. SUFFICES ASSUME RumbleInv, RumbleLife, [XboxOutput!Next]_(XboxOutput!vars) PROVE RumbleLife'
    BY RumbleNext
  <2> USE DEF RumbleLife
  <2>2. CASE UNCHANGED XboxOutput!vars
    BY <2>1, <2>2 DEF XboxOutput!vars
  <2>3. CASE XboxOutput!Initialized \/ XboxOutput!ReadOutput \/ XboxOutput!ForwardRead \/ XboxOutput!CleanupBegins \/ XboxOutput!CleanupEnds
    BY <2>1, <2>3 DEF XboxOutput!Initialized, XboxOutput!ReadOutput, XboxOutput!ForwardRead, XboxOutput!CleanupBegins, XboxOutput!CleanupEnds
  <2>4. ASSUME NEW t \in Setters, XboxOutput!SetLevels(t) \/ XboxOutput!Step(t) PROVE RumbleLife'
    BY <2>1, <2>4 DEF XboxOutput!SetLevels, XboxOutput!Step, XboxOutput!RetrieveRead, XboxOutput!BufferEvent
  <2>5. QED
    BY <2>1, <2>2, <2>3, <2>4 DEF XboxOutput!Next
<1>3. RumbleInv /\ RumbleLife => XboxOutput!TypeOK
  BY DEF RumbleInv, RumbleTypes, RumbleLife, SetterRecords, XboxOutput!TypeOK
<1>4. QED
  BY <1>1, <1>2, <1>3, PTL DEF XboxOutput!Spec

-----------------------------------------------------------------------------
(* The drivers side by side: each behaviour is one of every driver, which    *)
(* may never take a step.                                                    *)

LEMMA DriversRun ==
  DriversSpec => WindowsInput!Spec /\ XboxInput!Spec /\ XboxOutput!Spec
<1>1. DriversInit => WindowsInput!Init /\ XboxInput!Init /\ XboxOutput!Init
  BY DEF DriversInit
<1>2. [DriversNext]_driversVars => [WindowsInput!Next]_(WindowsInput!vars)
  BY DEF DriversNext, driversVars, windowsInputVars, WindowsInput!vars,
    WindowsInput!queueVars
<1>3. [DriversNext]_driversVars => [XboxInput!Next]_(XboxInput!vars)
  BY DEF DriversNext, driversVars, xboxInputVars, XboxInput!vars, XboxInput!creationVars,
    XboxInput!hidVars, XboxInput!inputVars
<1>4. [DriversNext]_driversVars => [XboxOutput!Next]_(XboxOutput!vars)
  BY DEF DriversNext, driversVars, xboxOutputVars, XboxOutput!vars
<1>5. QED
  BY <1>1, <1>2, <1>3, <1>4, PTL DEF DriversSpec, WindowsInput!Spec, XboxInput!Spec,
    XboxOutput!Spec

LEMMA Assumptions ==
  WindowsInput!InputAssumption /\ XboxInput!PacketsAssumption /\ XboxOutput!LevelsAssumption
BY DriversAssumption

\* Every reachable state satisfies the inductive invariants of the two input sides: a
\* request of VHF is in one place only, the buffer that VHF has is a new one, and counts
\* of submissions are what deletion waits for; and what VHF has, gets and will get of one
\* class tells what was sent of it.
THEOREM Invariance == DriversSpec => [](InputInv /\ StreamInv /\ XboxInv)
BY DriversRun, Assumptions, InputInvariance, StreamInvariance, XboxInvariance, PTL

\* Queues keep their limit, numbers their bounds and everything its type, in both drivers.
THEOREM DriversTypesCorrect == DriversSpec => []TypesOK
<1>1. InputInv /\ XboxInv => WindowsInput!TypeOK /\ XboxInput!TypeOK
  BY Assumptions, InputTypesHold, XboxTypesHold
<1>2. WindowsInput!TypeOK /\ XboxInput!TypeOK /\ XboxOutput!TypeOK => TypesOK
  BY DEF TypesOK
<1>3. QED
  BY <1>1, <1>2, Invariance, DriversRun, Assumptions, RumbleTypesHold, PTL

\* However many threads submit, reply and are asked for reports while the device goes,
\* VHF gets one report for each time it asked and none once VhfDelete() may have been
\* called, the buffer it refers to lives, and so does the context of SwDeviceCreate()'s
\* callback (prepare_vhf_input_submission(), delete_vhf_device(), cleanup_driver_state()
\* and Xbox360SoftwareDevice::create()).
THEOREM ContractKept == DriversSpec => []WindowsContractKept
<1>1. InputInv /\ XboxInv => WindowsContractKept
  BY Assumptions, InputContract, XboxContract DEF WindowsContractKept
<1>2. QED
  BY <1>1, Invariance, PTL

\* The newest input of an Xbox 360 gamepad is on its way to VHF or there, and no report
\* that VHF gets or that GET_REPORT answers with is older than one before.
THEOREM NewestInputKept == DriversSpec => []XboxInput!NewestKept
<1>1. XboxInv => XboxInput!NewestKept
  BY DEF XboxInv
<1>2. QED
  BY <1>1, Invariance, PTL

\* The host of a device with a queue is told of every press, release and contact, in
\* order, as long as reports fit, and of the newest state even when they do not; no motion
\* is lost or made up, as reports wait, join, are split or dropped (VhfInputReportQueue,
\* queue_vhf_input_report() and submit_next_vhf_input_report()); and the newest input of
\* an Xbox 360 gamepad is not lost.
THEOREM InputReportsKept == DriversSpec => []ReportsKept
<1>1. StreamInv /\ XboxInv => ReportsKept
  BY StreamTells DEF ReportsKept, XboxInv
<1>2. QED
  BY <1>1, Invariance, PTL

\* Whatever sets the motors, in however many threads, the event of the newest levels is
\* with its handler, in the buffer or with the client, unless one was crossed.
THEOREM NewestLevelsNotLost == DriversSpec => []NewestNotLost
BY LevelsNotLost, DriversRun, Assumptions, PTL DEF NewestNotLost

=============================================================================
