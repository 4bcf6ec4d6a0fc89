--------------------------- MODULE RuntimeProofs ---------------------------
(***************************************************************************)
(* Proofs about Runtime, for any number of threads, devices and calls.     *)
(***************************************************************************)
EXTENDS Runtime, TLAPS

\* A call has a device once it is under way, and its argument fits its
\* operation.
ArgOK ==
  \A t \in Threads :
    /\ pc[t] \notin {"idle", "close_all", "count"} => frame[t].dev \in Ids
    /\ pc[t] \in {"submit", "commit"} => frame[t].arg \in Inputs
    /\ pc[t] = "want" =>
         /\ frame[t].op = "submit" => frame[t].arg \in Inputs
         /\ frame[t].op = "set_output_callback" =>
              frame[t].arg \in Callbacks \cup {None}

TypeInv == TypeOK /\ ArgOK

\* The initial state is well typed and no thread has an argument yet.
LEMMA TypeInvInit == Init => TypeInv
BY RuntimeAssumption
   DEF Init, TypeInv, TypeOK, ArgOK, Ids, Kinds, GamepadKind, Labels, Frames,
       NoFrame, Frame

\* What an accepted input leaves in the getter's field has the field's type.
LEMMA KeptType ==
  ASSUME NEW field \in [id : Contacts \cup {None}, rest : Inputs \cup {None}],
         NEW i \in Inputs
  PROVE  Kept(field, i) \in [id : Contacts \cup {None}, rest : Inputs \cup {None}]
<1>1. ContactOf[i] \in Contacts
  BY RuntimeAssumption
<1>2. CASE i \in Whole
  BY <1>1, <1>2 DEF Kept
<1>3. CASE i \in ContactEnds
  BY <1>1, <1>3 DEF Kept, Whole
<1>4. CASE i \in Unkept /\ i \notin ContactEnds
  BY <1>4 DEF Kept, Whole
<1>5. QED
  BY <1>2, <1>3, <1>4 DEF Whole

\* No step of any thread breaks the types, or gives a frame an argument
\* that does not belong to its operation.
LEMMA TypeInvNext ==
  ASSUME TypeInv, [Next]_vars PROVE TypeInv'
<1> USE RuntimeAssumption DEF TypeInv, TypeOK, ArgOK, Labels, HandleOps,
  Frames
<1>1. ASSUME NEW t \in Threads, NEW k \in Kinds, CreateAllocate(t, k)
      PROVE TypeInv'
  <2>1. nextDeviceId \in Ids /\ nextDeviceId' \in 1..(MaxDevices + 1)
    BY <1>1 DEF CreateAllocate, Ids
  <2>2. /\ kind' \in [Ids -> Kinds]
        /\ calls' \in [Threads -> 0..MaxCalls]
    <3>1. /\ kind' = [kind EXCEPT ![nextDeviceId] = k]
          /\ calls' = [calls EXCEPT ![t] = @ + 1] /\ calls[t] < MaxCalls
      BY <1>1 DEF CreateAllocate, Call, MayCall
    <3>2. calls[t] + 1 \in 0..MaxCalls
      BY <3>1
    <3>3. QED
      BY <3>1, <3>2
  <2>3. /\ pc' = [pc EXCEPT ![t] = "create"]
        /\ frame' = [frame EXCEPT ![t] = Frame("none", nextDeviceId, None)]
        /\ UNCHANGED <<runtimeLock, deviceLock, registry, handle, device,
                       backend, visit, inCallback>>
    BY <1>1 DEF CreateAllocate, Call
  <2>4. ArgOK' /\ pc' \in [Threads -> Labels] /\ frame' \in [Threads -> Frames]
    BY <2>1, <2>3 DEF Frame
  <2>5. QED
    BY <2>1, <2>2, <2>3, <2>4 DEF device, backend, visit
<1>2. ASSUME NEW t \in Threads, NEW d \in Ids, NEW op \in HandleOps,
             NEW arg \in Inputs \cup Callbacks \cup {None},
             op = "submit" => arg \in Inputs,
             op = "set_output_callback" => arg \in Callbacks \cup {None},
             CallHandle(t, d, op, arg)
      PROVE TypeInv'
  BY <1>2 DEF CallHandle, Call, MayCall, Frame, creation, device, backend,
    visit
<1>3. ASSUME NEW t \in Threads, NEW d \in Ids, CallDestroy(t, d)
      PROVE TypeInv'
  BY <1>3 DEF CallDestroy, Call, MayCall, Frame, creation, device, backend,
    visit
<1>4. ASSUME NEW t \in Threads, NEW label \in {"close_all", "count"},
             BeginVisit(t, label)
      PROVE TypeInv'
  BY <1>4 DEF BeginVisit, Call, MayCall, NoFrame, Frame, creation, device,
    backend, Registered
<1>5. ASSUME NEW t \in Threads, CreateBackend(t)
      PROVE TypeInv'
  BY <1>5 DEF CreateBackend, history, Goto, creation, visit
<1>6. ASSUME NEW t \in Threads, CreateFails(t)
      PROVE TypeInv'
  BY <1>6 DEF CreateFails, Return, NoFrame, Frame, creation, device, backend,
    visit
<1>7. ASSUME NEW t \in Threads, CreateRegister(t)
      PROVE TypeInv'
  <2>1. frame[t].dev \in Ids
    BY <1>7 DEF CreateRegister
  <2>2. /\ registry' \in Seq(Ids)
        /\ handle' \in [Ids -> {"none", "held", "destroying", "gone"}]
    BY <1>7, <2>1 DEF CreateRegister, Return, NoFrame, Frame, device, backend,
       visit
  <2>3. ArgOK'
    BY <1>7, <2>1 DEF CreateRegister, Return, NoFrame, Frame, device, backend,
       visit
  <2>4. QED
    BY <1>7, <2>1, <2>2, <2>3
    DEF CreateRegister, Return, NoFrame, Frame, device, backend,
       visit
<1>8. ASSUME NEW t \in Threads, Submit(t)
      PROVE TypeInv'
  BY <1>8 DEF Submit, Enter, Lock, Goto, creation, device, backend, visit
<1>9. ASSUME NEW t \in Threads, SubmitClosed(t)
      PROVE TypeInv'
  BY <1>9 DEF SubmitClosed, Enter, Return, NoFrame, Frame, creation, device,
    backend, visit
<1>10. ASSUME NEW t \in Threads, SubmitFails(t)
      PROVE TypeInv'
  BY <1>10 DEF SubmitFails, Unlock, Return, NoFrame, Frame, creation, device,
    backend, visit
<1>11. ASSUME NEW t \in Threads, SubmitAccepted(t)
      PROVE TypeInv'
  <2>1. frame[t].dev \in Ids
    BY <1>11 DEF SubmitAccepted
  <2>2. /\ delivered' \in [Ids -> Inputs \cup {None}]
        /\ named' \in [Ids -> Inputs \cup {None}]
        /\ placed' \in [Ids -> Inputs \cup {None}]
        /\ accepted' \in [Ids -> Nat]
    BY <1>11, <2>1 DEF SubmitAccepted, Goto, creation, device, visit
  <2>3. ArgOK'
    BY <1>11, <2>1 DEF SubmitAccepted, Goto, creation, device, visit
  <2>4. QED
    BY <1>11, <2>1, <2>2, <2>3
    DEF SubmitAccepted, Goto, creation, device, visit
<1>12. ASSUME NEW t \in Threads, SubmitCommit(t)
      PROVE TypeInv'
  <2>1. frame[t].dev \in Ids
    BY <1>12 DEF SubmitCommit
  <2>2. /\ last' \in [Ids -> [id : Contacts \cup {None},
                             rest : Inputs \cup {None}]]
        /\ submitted' \in [Ids -> Nat]
        /\ deviceLock' \in [Ids -> Threads \cup {None}]
    <3>1. Kept(last[frame[t].dev], frame[t].arg)
            \in [id : Contacts \cup {None}, rest : Inputs \cup {None}]
      BY <1>12, <2>1, KeptType DEF SubmitCommit
    <3>2. QED
      BY <1>12, <2>1, <3>1 DEF SubmitCommit, Unlock
  <2>3. ArgOK'
    BY <1>12, <2>1 DEF SubmitCommit, Unlock, Return, NoFrame, Frame, creation,
       backend,
       visit
  <2>4. QED
    BY <1>12, <2>1, <2>2, <2>3
    DEF SubmitCommit, Unlock, Return, NoFrame, Frame, creation, backend,
       visit
<1>13. ASSUME NEW t \in Threads, SetOutputCallback(t)
      PROVE TypeInv'
  BY <1>13 DEF SetOutputCallback, Enter, Lock, Goto, creation, backend, visit
<1>14. ASSUME NEW t \in Threads, SetBackendCallback(t)
      PROVE TypeInv'
  BY <1>14 DEF SetBackendCallback, history, Unlock, Return, NoFrame, Frame, creation,
    device, visit
<1>15. ASSUME NEW t \in Threads, DispatchOutput(t)
      PROVE TypeInv'
  BY <1>15 DEF DispatchOutput, Enter, Return, NoFrame, Frame, creation,
    device, backend, visit
<1>16. ASSUME NEW t \in Threads, CallbackReturns(t)
      PROVE TypeInv'
  BY <1>16 DEF CallbackReturns, creation, device, backend, visit
<1>17. ASSUME NEW t \in Threads, Close(t)
      PROVE TypeInv'
  BY <1>17 DEF Close, Enter, Lock, Goto, creation, device, backend, visit
<1>18. ASSUME NEW t \in Threads, CloseClosed(t)
      PROVE TypeInv'
  BY <1>18 DEF CloseClosed, Enter, Release, Return, NoFrame, Frame, creation,
    device, backend, visit
<1>19. ASSUME NEW t \in Threads, CloseFinish(t)
      PROVE TypeInv'
  <2>1. frame[t].dev \in Ids
    BY <1>19 DEF CloseFinish, history
  <2>2. /\ phase' \in [Ids -> {"none", "open", "closed", "leaked"}]
        /\ open' \in [Ids -> BOOLEAN]
    BY <1>19, <2>1 DEF CloseFinish, history, BackendClose, Release, Unlock, Return,
       NoFrame,
       Frame, creation, visit
  <2>3. /\ deviceLock' \in [Ids -> Threads \cup {None}]
        /\ handle' \in [Ids -> {"none", "held", "destroying", "gone"}]
    BY <1>19, <2>1 DEF CloseFinish, history, BackendClose, Release, Unlock, Return,
       NoFrame,
       Frame, creation, visit
  <2>4. ArgOK'
    BY <1>19, <2>1 DEF CloseFinish, history, BackendClose, Release, Unlock, Return,
       NoFrame,
       Frame, creation, visit
  <2>5. QED
    BY <1>19, <2>1, <2>2, <2>3, <2>4
    DEF CloseFinish, history, BackendClose, Release, Unlock, Return, NoFrame,
       Frame, creation, visit
<1>20. ASSUME NEW t \in Threads, NEW d \in todo[t], SkipExpired(t, d)
      PROVE TypeInv'
  BY <1>20 DEF SkipExpired, Expired, creation, device, backend
<1>21. ASSUME NEW t \in Threads, NEW d \in todo[t], Pin(t, d)
      PROVE TypeInv'
  BY <1>21 DEF Pin, Frame, creation, device, backend, visit
<1>22. ASSUME NEW t \in Threads, CloseAllLock(t)
      PROVE TypeInv'
  BY <1>22 DEF CloseAllLock, Lock, Goto, creation, device, backend, visit
<1>23. ASSUME NEW t \in Threads, CloseAllOne(t)
      PROVE TypeInv'
  <2>1. frame[t].dev \in Ids
    BY <1>23 DEF CloseAllOne, history
  <2>2. /\ phase' \in [Ids -> {"none", "open", "closed", "leaked"}]
        /\ open' \in [Ids -> BOOLEAN]
    BY <1>23, <2>1 DEF CloseAllOne, history, BackendClose, Unlock, Visited, NoFrame,
       Frame,
       creation
  <2>3. /\ deviceLock' \in [Ids -> Threads \cup {None}]
        /\ todo' \in [Threads -> SUBSET Ids]
    BY <1>23, <2>1 DEF CloseAllOne, history, BackendClose, Unlock, Visited, NoFrame,
       Frame,
       creation
  <2>4. ArgOK'
    BY <1>23, <2>1 DEF CloseAllOne, history, BackendClose, Unlock, Visited, NoFrame,
       Frame,
       creation
  <2>5. QED
    BY <1>23, <2>1, <2>2, <2>3, <2>4
    DEF CloseAllOne, history, BackendClose, Unlock, Visited, NoFrame, Frame,
       creation
<1>24. ASSUME NEW t \in Threads, CountOne(t)
      PROVE TypeInv'
  <2>1. frame[t].dev \in Ids
    BY <1>24 DEF CountOne
  <2>2. /\ counted' \in [Threads -> SUBSET Ids]
        /\ todo' \in [Threads -> SUBSET Ids]
    BY <1>24, <2>1 DEF CountOne, Visited, NoFrame, Frame, creation, device,
       backend
  <2>3. ArgOK'
    BY <1>24, <2>1 DEF CountOne, Visited, NoFrame, Frame, creation, device,
       backend
  <2>4. QED
    BY <1>24, <2>1, <2>2, <2>3
    DEF CountOne, Visited, NoFrame, Frame, creation, device, backend
<1>25. ASSUME NEW t \in Threads, EndVisit(t)
      PROVE TypeInv'
  BY <1>25 DEF EndVisit, Return, NoFrame, Frame, creation, device, backend
<1>26. CASE UNCHANGED vars
  BY <1>26 DEF vars, creation, device, backend, visit
<1>27. QED
  BY <1>1, <1>2, <1>3, <1>4, <1>5, <1>6, <1>7, <1>8, <1>9, <1>10, <1>11,
    <1>12, <1>13, <1>14, <1>15, <1>16, <1>17, <1>18, <1>19, <1>20, <1>21,
    <1>22, <1>23, <1>24, <1>25, <1>26 DEF Next, Client, Step, HandleOps

-----------------------------------------------------------------------------
(* Who holds which mutex.                                                  *)

Visiting(t) ==
  pc[t] \in {"close_all", "close_wait", "close_one", "count", "count_wait"}

LockInv ==
  /\ \A t \in Threads : InBackend(t) => deviceLock[frame[t].dev] = t
  /\ \A t \in Threads :
       runtimeLock = t <=> Visiting(t)

\* No mutex is held initially.
LEMMA LockInit == Init => LockInv
BY RuntimeAssumption DEF Init, LockInv, Visiting, InBackend

\* A device mutex is held by exactly the thread that is inside a call on the
\* device, and the runtime mutex by exactly the thread that visits the vectors.
LEMMA LockNext ==
  ASSUME TypeInv, LockInv, [Next]_vars PROVE LockInv'
<1> USE RuntimeAssumption DEF TypeInv, TypeOK, ArgOK, LockInv, Visiting,
  InBackend
<1>1. ASSUME NEW t \in Threads, NEW k \in Kinds, CreateAllocate(t, k)
      PROVE LockInv'
  BY <1>1 DEF CreateAllocate, Call, MayCall, Frame
<1>2. ASSUME NEW t \in Threads, NEW d \in Ids, NEW op \in HandleOps,
             NEW arg \in Inputs \cup Callbacks \cup {None},
             op = "submit" => arg \in Inputs,
             op = "set_output_callback" => arg \in Callbacks \cup {None},
             CallHandle(t, d, op, arg)
      PROVE LockInv'
  BY <1>2 DEF CallHandle, Call, MayCall, Frame
<1>3. ASSUME NEW t \in Threads, NEW d \in Ids, CallDestroy(t, d)
      PROVE LockInv'
  BY <1>3 DEF CallDestroy, Call, MayCall, Frame
<1>4. ASSUME NEW t \in Threads, NEW label \in {"close_all", "count"},
             BeginVisit(t, label)
      PROVE LockInv'
  BY <1>4 DEF BeginVisit, Call, MayCall, NoFrame, Frame
<1>5. ASSUME NEW t \in Threads, CreateBackend(t)
      PROVE LockInv'
  BY <1>5 DEF CreateBackend, Goto
<1>6. ASSUME NEW t \in Threads, CreateFails(t)
      PROVE LockInv'
  BY <1>6 DEF CreateFails, Return, NoFrame, Frame
<1>7. ASSUME NEW t \in Threads, CreateRegister(t)
      PROVE LockInv'
  BY <1>7 DEF CreateRegister, Return, NoFrame, Frame
<1>8. ASSUME NEW t \in Threads, Submit(t)
      PROVE LockInv'
  BY <1>8 DEF Submit, Enter, Lock, Goto
<1>9. ASSUME NEW t \in Threads, SubmitClosed(t)
      PROVE LockInv'
  BY <1>9 DEF SubmitClosed, Enter, Return, NoFrame, Frame
<1>10. ASSUME NEW t \in Threads, SubmitFails(t)
      PROVE LockInv'
  <2>1. /\ frame[t].dev \in Ids /\ deviceLock[frame[t].dev] = t
        /\ deviceLock' = [deviceLock EXCEPT ![frame[t].dev] = None]
    BY <1>10 DEF SubmitFails, Unlock
  <2>2. \A u \in Threads \ {t} : InBackend(u) =>
          deviceLock'[frame[u].dev] = deviceLock[frame[u].dev]
    BY <2>1
  <2>3. QED
    BY <1>10, <2>2 DEF SubmitFails, Return, NoFrame, Frame
<1>11. ASSUME NEW t \in Threads, SubmitAccepted(t)
      PROVE LockInv'
  BY <1>11 DEF SubmitAccepted, Goto
<1>12. ASSUME NEW t \in Threads, SubmitCommit(t)
      PROVE LockInv'
  <2>1. /\ frame[t].dev \in Ids /\ deviceLock[frame[t].dev] = t
        /\ deviceLock' = [deviceLock EXCEPT ![frame[t].dev] = None]
    BY <1>12 DEF SubmitCommit, Unlock
  <2>2. \A u \in Threads \ {t} : InBackend(u) =>
          deviceLock'[frame[u].dev] = deviceLock[frame[u].dev]
    BY <2>1
  <2>3. QED
    BY <1>12, <2>2 DEF SubmitCommit, Return, NoFrame, Frame
<1>13. ASSUME NEW t \in Threads, SetOutputCallback(t)
      PROVE LockInv'
  BY <1>13 DEF SetOutputCallback, Enter, Lock, Goto
<1>14. ASSUME NEW t \in Threads, SetBackendCallback(t)
      PROVE LockInv'
  <2>1. /\ frame[t].dev \in Ids /\ deviceLock[frame[t].dev] = t
        /\ deviceLock' = [deviceLock EXCEPT ![frame[t].dev] = None]
    BY <1>14 DEF SetBackendCallback, Unlock
  <2>2. \A u \in Threads \ {t} : InBackend(u) =>
          deviceLock'[frame[u].dev] = deviceLock[frame[u].dev]
    BY <2>1
  <2>3. QED
    BY <1>14, <2>2 DEF SetBackendCallback, Return, NoFrame, Frame
<1>15. ASSUME NEW t \in Threads, DispatchOutput(t)
      PROVE LockInv'
  BY <1>15 DEF DispatchOutput, Enter, Return, NoFrame, Frame
<1>16. ASSUME NEW t \in Threads, CallbackReturns(t)
      PROVE LockInv'
  BY <1>16 DEF CallbackReturns
<1>17. ASSUME NEW t \in Threads, Close(t)
      PROVE LockInv'
  BY <1>17 DEF Close, Enter, Lock, Goto
<1>18. ASSUME NEW t \in Threads, CloseClosed(t)
      PROVE LockInv'
  BY <1>18 DEF CloseClosed, Enter, Release, Return, NoFrame, Frame
<1>19. ASSUME NEW t \in Threads, CloseFinish(t)
      PROVE LockInv'
  <2>1. /\ frame[t].dev \in Ids /\ deviceLock[frame[t].dev] = t
        /\ deviceLock' = [deviceLock EXCEPT ![frame[t].dev] = None]
    BY <1>19 DEF CloseFinish, Unlock
  <2>2. \A u \in Threads \ {t} : InBackend(u) =>
          deviceLock'[frame[u].dev] = deviceLock[frame[u].dev]
    BY <2>1
  <2>3. QED
    BY <1>19, <2>2 DEF CloseFinish, Return, NoFrame, Frame
<1>20. ASSUME NEW t \in Threads, NEW d \in todo[t], SkipExpired(t, d)
      PROVE LockInv'
  BY <1>20 DEF SkipExpired, Expired
<1>21. ASSUME NEW t \in Threads, NEW d \in todo[t], Pin(t, d)
      PROVE LockInv'
  BY <1>21 DEF Pin, Frame
<1>22. ASSUME NEW t \in Threads, CloseAllLock(t)
      PROVE LockInv'
  BY <1>22 DEF CloseAllLock, Lock, Goto
<1>23. ASSUME NEW t \in Threads, CloseAllOne(t)
      PROVE LockInv'
  <2>1. /\ frame[t].dev \in Ids /\ deviceLock[frame[t].dev] = t
        /\ deviceLock' = [deviceLock EXCEPT ![frame[t].dev] = None]
    BY <1>23 DEF CloseAllOne, Unlock
  <2>2. \A u \in Threads \ {t} : InBackend(u) =>
          deviceLock'[frame[u].dev] = deviceLock[frame[u].dev]
    BY <2>1
  <2>3. QED
    <3>1. /\ pc[t] = "close_one" /\ pc' = [pc EXCEPT ![t] = "close_all"]
          /\ frame' = [frame EXCEPT ![t] = NoFrame] /\ UNCHANGED runtimeLock
      BY <1>23 DEF CloseAllOne, Visited
    <3>2. \A u \in Threads \ {t} : pc'[u] = pc[u] /\ frame'[u] = frame[u]
      BY <3>1
    <3>3. \A u \in Threads : InBackend(u)' => deviceLock'[frame'[u].dev] = u
      BY <2>2, <3>1, <3>2
    <3>4. \A u \in Threads : runtimeLock' = u <=> Visiting(u)'
      BY <3>1, <3>2
    <3>5. QED
      BY <3>3, <3>4
<1>24. ASSUME NEW t \in Threads, CountOne(t)
      PROVE LockInv'
  BY <1>24 DEF CountOne, Visited, NoFrame, Frame
<1>25. ASSUME NEW t \in Threads, EndVisit(t)
      PROVE LockInv'
  BY <1>25 DEF EndVisit, Return, NoFrame, Frame
<1>26. CASE UNCHANGED vars
  BY <1>26 DEF vars
<1>27. QED
  BY <1>1, <1>2, <1>3, <1>4, <1>5, <1>6, <1>7, <1>8, <1>9, <1>10, <1>11,
    <1>12, <1>13, <1>14, <1>15, <1>16, <1>17, <1>18, <1>19, <1>20, <1>21,
    <1>22, <1>23, <1>24, <1>25, <1>26 DEF Next, Client, Step, HandleOps

-----------------------------------------------------------------------------
(* Where a device is between the allocation of its id and its entry in a   *)
(* vector: nobody but its creator knows it.                                *)

Creating(t) == pc[t] \in {"create", "register"}
Unknown(d) == handle[d] = "none" /\ d \notin Registered

Creators ==
  /\ \A t \in Threads : Creating(t) =>
       frame[t].dev < nextDeviceId /\ Unknown(frame[t].dev)
  /\ \A t, u \in Threads :
       t # u /\ Creating(t) /\ Creating(u) => frame[t].dev # frame[u].dev
  /\ \A t \in Threads : pc[t] = "create" =>
       ~open[frame[t].dev] /\ phase[frame[t].dev] = "none"
  /\ \A t \in Threads : pc[t] = "register" => phase[frame[t].dev] # "none"

FreshIds ==
  \A d \in Ids : d >= nextDeviceId =>
    Unknown(d) /\ ~open[d] /\ phase[d] = "none"

Vectors ==
  /\ \A d \in Registered : handle[d] # "none" /\ phase[d] # "none"
  /\ \A d \in Ids : handle[d] # "none" => d \in Registered

OnlyRegistered ==
  /\ \A t \in Threads :
       pc[t] \in {"want", "close_wait", "count_wait"} \/ InBackend(t) =>
         frame[t].dev \in Registered
  /\ \A t \in Threads : todo[t] \subseteq Registered

CreationInv == Creators /\ FreshIds /\ Vectors /\ OnlyRegistered

\* No id is in use initially.
LEMMA CreationInit == Init => CreationInv
BY RuntimeAssumption
   DEF Init, CreationInv, Creators, FreshIds, Vectors, OnlyRegistered,
       Creating, Unknown, Registered, InBackend

\* The set of registered devices depends on the vectors alone.
LEMMA RegisteredSame == registry' = registry => Registered' = Registered
BY DEF Registered

\* Only device ids are registered.
LEMMA RegisteredIds == registry \in Seq(Ids) => Registered \subseteq Ids
BY DEF Registered

\* emplace_back adds its device to the registered ones and removes none.
LEMMA RegisteredGrows ==
  ASSUME registry \in Seq(Ids), NEW d \in Ids, registry' = Append(registry, d)
  PROVE  Registered' = Registered \cup {d}
<1>1. /\ Len(registry) \in Nat
      /\ DOMAIN registry = 1..Len(registry)
      /\ DOMAIN registry' = 1..(Len(registry) + 1)
  OBVIOUS
<1>2. /\ \A i \in 1..Len(registry) : registry'[i] = registry[i]
      /\ registry'[Len(registry) + 1] = d
  OBVIOUS
<1>3. QED
  BY <1>1, <1>2 DEF Registered

\* Ids are handed out once, and a device is in a vector exactly if its create
\* call got that far.
LEMMA CreationNext ==
  ASSUME TypeInv, LockInv, CreationInv, [Next]_vars PROVE CreationInv'
<1> USE RuntimeAssumption DEF TypeInv, TypeOK, ArgOK, LockInv, Visiting,
  CreationInv, Creators, FreshIds, Vectors, OnlyRegistered, Creating,
  Unknown, InBackend
<1>1. ASSUME NEW t \in Threads, NEW k \in Kinds, CreateAllocate(t, k)
      PROVE CreationInv'
  <2>1. /\ nextDeviceId \in Ids /\ frame'[t].dev = nextDeviceId
        /\ pc' = [pc EXCEPT ![t] = "create"]
        /\ \A u \in Threads \ {t} : frame'[u] = frame[u] /\ pc'[u] = pc[u]
        /\ nextDeviceId' = nextDeviceId + 1
        /\ UNCHANGED <<registry, handle, open, phase, todo>>
    BY <1>1 DEF CreateAllocate, Call, MayCall, Frame, device, backend, visit,
       Ids
  <2>2. /\ Unknown(nextDeviceId)
        /\ ~open[nextDeviceId] /\ phase[nextDeviceId] = "none"
    BY <2>1
  <2>3. Registered' = Registered
    BY <2>1, RegisteredSame
  <2>4. Creators'
    <3>1. \A u \in Threads : Creating(u)' =>
            (frame[u].dev < nextDeviceId /\ Unknown(frame[u].dev))'
      <4> SUFFICES ASSUME NEW u \in Threads, Creating(u)'
                   PROVE  (/\ frame[u].dev < nextDeviceId
                           /\ Unknown(frame[u].dev))'
        OBVIOUS
      <4>1. CASE u = t
        BY <4>1, <2>1, <2>2, <2>3 DEF Ids
      <4>2. CASE u # t
        <5>1. /\ Creating(u) /\ frame[u].dev \in Ids
              /\ frame'[u].dev = frame[u].dev
          BY <4>2, <2>1
        <5>2. QED
          BY <5>1, <2>1, <2>3 DEF Ids
      <4>3. QED
        BY <4>1, <4>2
    <3>2. \A u \in Threads : u # t /\ Creating(u)' =>
            frame'[u].dev # nextDeviceId
      BY <2>1 DEF Ids
    <3>3. QED
      BY <3>1, <3>2, <2>1, <2>2
  <2>5. FreshIds'
    BY <2>1, <2>2, <2>3 DEF Ids
  <2>6. Vectors'
    BY <2>1, <2>2, <2>3 DEF Ids
  <2>7. OnlyRegistered'
    BY <2>1, <2>2, <2>3 DEF Ids
  <2>8. QED
    BY <2>4, <2>5, <2>6, <2>7
<1>2. ASSUME NEW t \in Threads, NEW d \in Ids, NEW op \in HandleOps,
             NEW arg \in Inputs \cup Callbacks \cup {None},
             op = "submit" => arg \in Inputs,
             op = "set_output_callback" => arg \in Callbacks \cup {None},
             CallHandle(t, d, op, arg)
      PROVE CreationInv'
  <2>1. d \in Registered
    BY <1>2 DEF CallHandle
  <2>2. Registered' = Registered
    BY <1>2, RegisteredSame DEF CallHandle, creation
  <2>3. QED
    BY <1>2, <2>1, <2>2 DEF CallHandle, Call, MayCall, Frame, creation, device,
       backend, visit
<1>3. ASSUME NEW t \in Threads, NEW d \in Ids, CallDestroy(t, d)
      PROVE CreationInv'
  BY <1>3, RegisteredSame, RegisteredIds DEF CallDestroy, Call, MayCall,
    Frame, creation, device, backend, visit
<1>4. ASSUME NEW t \in Threads, NEW label \in {"close_all", "count"},
             BeginVisit(t, label)
      PROVE CreationInv'
  BY <1>4, RegisteredSame, RegisteredIds DEF BeginVisit, Call, MayCall,
    NoFrame, Frame, creation, device, backend
<1>5. ASSUME NEW t \in Threads, CreateBackend(t)
      PROVE CreationInv'
  <2>1. /\ frame[t].dev \in Ids /\ Unknown(frame[t].dev)
        /\ frame[t].dev < nextDeviceId
    BY <1>5 DEF CreateBackend, history
  <2>2. Registered' = Registered
    BY <1>5, RegisteredSame DEF CreateBackend, history, creation
  <2>3. Creators'
    BY <1>5, <2>1, <2>2 DEF CreateBackend, history, Goto, creation, visit, Ids
  <2>4. FreshIds'
    BY <1>5, <2>1, <2>2 DEF CreateBackend, history, Goto, creation, visit, Ids
  <2>5. Vectors'
    BY <1>5, <2>1, <2>2 DEF CreateBackend, history, Goto, creation, visit, Ids
  <2>6. OnlyRegistered'
    BY <1>5, <2>1, <2>2 DEF CreateBackend, history, Goto, creation, visit, Ids
  <2>7. QED
    BY <2>3, <2>4, <2>5, <2>6
<1>6. ASSUME NEW t \in Threads, CreateFails(t)
      PROVE CreationInv'
  BY <1>6, RegisteredSame, RegisteredIds DEF CreateFails, Return, NoFrame,
    Frame, creation, device, backend, visit
<1>7. ASSUME NEW t \in Threads, CreateRegister(t)
      PROVE CreationInv'
  <2>1. /\ frame[t].dev \in Ids /\ Unknown(frame[t].dev)
        /\ frame[t].dev < nextDeviceId /\ phase[frame[t].dev] # "none"
    BY <1>7 DEF CreateRegister
  <2>2. Registered' = Registered \cup {frame[t].dev}
    BY <1>7, <2>1, RegisteredGrows DEF CreateRegister
  <2>3. QED
    BY <1>7, <2>1, <2>2 DEF CreateRegister, Return, NoFrame, Frame, device,
       backend, visit
<1>8. ASSUME NEW t \in Threads, Submit(t)
      PROVE CreationInv'
  BY <1>8, RegisteredSame, RegisteredIds DEF Submit, Enter, Lock, Goto,
    creation, device, backend, visit
<1>9. ASSUME NEW t \in Threads, SubmitClosed(t)
      PROVE CreationInv'
  BY <1>9, RegisteredSame, RegisteredIds DEF SubmitClosed, Enter, Return,
    NoFrame, Frame, creation, device, backend, visit
<1>10. ASSUME NEW t \in Threads, SubmitFails(t)
      PROVE CreationInv'
  BY <1>10, RegisteredSame, RegisteredIds DEF SubmitFails, Unlock, Return,
    NoFrame, Frame, creation, device, backend, visit
<1>11. ASSUME NEW t \in Threads, SubmitAccepted(t)
      PROVE CreationInv'
  BY <1>11, RegisteredSame, RegisteredIds DEF SubmitAccepted, Goto, creation,
    device, visit
<1>12. ASSUME NEW t \in Threads, SubmitCommit(t)
      PROVE CreationInv'
  BY <1>12, RegisteredSame, RegisteredIds DEF SubmitCommit, Unlock, Return,
    NoFrame, Frame, creation, backend, visit
<1>13. ASSUME NEW t \in Threads, SetOutputCallback(t)
      PROVE CreationInv'
  BY <1>13, RegisteredSame, RegisteredIds DEF SetOutputCallback, Enter, Lock,
    Goto, creation, backend, visit
<1>14. ASSUME NEW t \in Threads, SetBackendCallback(t)
      PROVE CreationInv'
  BY <1>14, RegisteredSame, RegisteredIds DEF SetBackendCallback, history, Unlock,
    Return, NoFrame, Frame, creation, device, visit
<1>15. ASSUME NEW t \in Threads, DispatchOutput(t)
      PROVE CreationInv'
  BY <1>15, RegisteredSame, RegisteredIds DEF DispatchOutput, Enter, Return,
    NoFrame, Frame, creation, device, backend, visit
<1>16. ASSUME NEW t \in Threads, CallbackReturns(t)
      PROVE CreationInv'
  BY <1>16, RegisteredSame, RegisteredIds DEF CallbackReturns, creation,
    device, backend, visit
<1>17. ASSUME NEW t \in Threads, Close(t)
      PROVE CreationInv'
  BY <1>17, RegisteredSame, RegisteredIds DEF Close, Enter, Lock, Goto,
    creation, device, backend, visit
<1>18. ASSUME NEW t \in Threads, CloseClosed(t)
      PROVE CreationInv'
  <2>1. frame[t].dev \in Registered
    BY <1>18 DEF CloseClosed, Enter
  <2>2. /\ \A d \in Ids : handle'[d] = "none" <=> handle[d] = "none"
        /\ \A d \in Ids : open'[d] => open[d]
        /\ \A d \in Ids : phase'[d] = "none" => phase[d] = "none"
        /\ \A d \in Ids : d # frame[t].dev => phase'[d] = phase[d]
        /\ \A u \in Threads : u # t => frame'[u] = frame[u]
        /\ pc' = [pc EXCEPT ![t] = "idle"]
        /\ UNCHANGED <<nextDeviceId, registry, todo>>
    BY <1>18 DEF CloseClosed, Enter, Release, Return, NoFrame, Frame, creation,
       device, backend, visit
  <2>3. Registered' = Registered /\ Registered \subseteq Ids
    BY <2>2, RegisteredSame, RegisteredIds
  <2>4. Creators'
    <3>1. \A u \in Threads : Creating(u)' =>
            u # t /\ Creating(u) /\ pc'[u] = pc[u] /\ frame'[u] = frame[u]
      BY <2>2
    <3>2. \A u \in Threads : Creating(u) =>
            frame[u].dev \in Ids /\ frame[u].dev # frame[t].dev
      BY <2>1
    <3>3. \A u \in Threads : Creating(u)' =>
            (frame[u].dev < nextDeviceId /\ Unknown(frame[u].dev))'
      BY <2>2, <2>3, <3>1, <3>2
    <3>4. \A u \in Threads :
            /\ pc'[u] = "create" =>
                 (~open[frame[u].dev] /\ phase[frame[u].dev] = "none")'
            /\ pc'[u] = "register" => (phase[frame[u].dev] # "none")'
      <4> SUFFICES ASSUME NEW u \in Threads, Creating(u)'
                   PROVE  /\ (pc[u] = "create" =>
                                /\ ~open[frame[u].dev]
                                /\ phase[frame[u].dev] = "none")'
                          /\ (pc[u] = "register" =>
                                phase[frame[u].dev] # "none")'
        OBVIOUS
      <4>1. /\ pc'[u] = pc[u] /\ frame'[u] = frame[u]
            /\ frame[u].dev \in Ids /\ frame[u].dev # frame[t].dev
        BY <3>1, <3>2
      <4>2. /\ open'[frame[u].dev] => open[frame[u].dev]
            /\ phase'[frame[u].dev] = phase[frame[u].dev]
        BY <2>2, <4>1
      <4>3. QED
        BY <4>1, <4>2
    <3>5. \A u, v \in Threads :
            u # v /\ Creating(u)' /\ Creating(v)' =>
              (frame[u].dev # frame[v].dev)'
      BY <3>1
    <3>6. QED
      BY <3>3, <3>4, <3>5
  <2>5. FreshIds'
    BY <2>1, <2>2, <2>3
  <2>6. Vectors'
    BY <2>1, <2>2, <2>3
  <2>7. OnlyRegistered'
    BY <2>1, <2>2, <2>3
  <2>8. QED
    BY <2>4, <2>5, <2>6, <2>7
<1>19. ASSUME NEW t \in Threads, CloseFinish(t)
      PROVE CreationInv'
  <2>1. frame[t].dev \in Registered
    BY <1>19 DEF CloseFinish, history, Enter
  <2>2. /\ \A d \in Ids : handle'[d] = "none" <=> handle[d] = "none"
        /\ \A d \in Ids : open'[d] => open[d]
        /\ \A d \in Ids : phase'[d] = "none" => phase[d] = "none"
        /\ \A d \in Ids : d # frame[t].dev => phase'[d] = phase[d]
        /\ \A u \in Threads : u # t => frame'[u] = frame[u]
        /\ pc' = [pc EXCEPT ![t] = "idle"]
        /\ UNCHANGED <<nextDeviceId, registry, todo>>
    BY <1>19 DEF CloseFinish, history, BackendClose, Release, Unlock, Return,
       NoFrame, Frame, creation, visit
  <2>3. Registered' = Registered /\ Registered \subseteq Ids
    BY <2>2, RegisteredSame, RegisteredIds
  <2>4. Creators'
    <3>1. \A u \in Threads : Creating(u)' =>
            u # t /\ Creating(u) /\ pc'[u] = pc[u] /\ frame'[u] = frame[u]
      BY <2>2
    <3>2. \A u \in Threads : Creating(u) =>
            frame[u].dev \in Ids /\ frame[u].dev # frame[t].dev
      BY <2>1
    <3>3. \A u \in Threads : Creating(u)' =>
            (frame[u].dev < nextDeviceId /\ Unknown(frame[u].dev))'
      BY <2>2, <2>3, <3>1, <3>2
    <3>4. \A u \in Threads :
            /\ pc'[u] = "create" =>
                 (~open[frame[u].dev] /\ phase[frame[u].dev] = "none")'
            /\ pc'[u] = "register" => (phase[frame[u].dev] # "none")'
      <4> SUFFICES ASSUME NEW u \in Threads, Creating(u)'
                   PROVE  /\ (pc[u] = "create" =>
                                /\ ~open[frame[u].dev]
                                /\ phase[frame[u].dev] = "none")'
                          /\ (pc[u] = "register" =>
                                phase[frame[u].dev] # "none")'
        OBVIOUS
      <4>1. /\ pc'[u] = pc[u] /\ frame'[u] = frame[u]
            /\ frame[u].dev \in Ids /\ frame[u].dev # frame[t].dev
        BY <3>1, <3>2
      <4>2. /\ open'[frame[u].dev] => open[frame[u].dev]
            /\ phase'[frame[u].dev] = phase[frame[u].dev]
        BY <2>2, <4>1
      <4>3. QED
        BY <4>1, <4>2
    <3>5. \A u, v \in Threads :
            u # v /\ Creating(u)' /\ Creating(v)' =>
              (frame[u].dev # frame[v].dev)'
      BY <3>1
    <3>6. QED
      BY <3>3, <3>4, <3>5
  <2>5. FreshIds'
    BY <2>1, <2>2, <2>3
  <2>6. Vectors'
    BY <2>1, <2>2, <2>3
  <2>7. OnlyRegistered'
    BY <2>1, <2>2, <2>3
  <2>8. QED
    BY <2>4, <2>5, <2>6, <2>7
<1>20. ASSUME NEW t \in Threads, NEW d \in todo[t], SkipExpired(t, d)
      PROVE CreationInv'
  BY <1>20, RegisteredSame, RegisteredIds DEF SkipExpired, Expired, creation,
    device, backend
<1>21. ASSUME NEW t \in Threads, NEW d \in todo[t], Pin(t, d)
      PROVE CreationInv'
  BY <1>21, RegisteredSame, RegisteredIds DEF Pin, Frame, creation, device,
    backend, visit
<1>22. ASSUME NEW t \in Threads, CloseAllLock(t)
      PROVE CreationInv'
  BY <1>22, RegisteredSame, RegisteredIds DEF CloseAllLock, Lock, Goto,
    creation, device, backend, visit
<1>23. ASSUME NEW t \in Threads, CloseAllOne(t)
      PROVE CreationInv'
  BY <1>23, RegisteredSame, RegisteredIds DEF CloseAllOne, history, BackendClose,
    Unlock, Visited, NoFrame, Frame, creation
<1>24. ASSUME NEW t \in Threads, CountOne(t)
      PROVE CreationInv'
  BY <1>24, RegisteredSame, RegisteredIds DEF CountOne, Visited, NoFrame,
    Frame, creation, device, backend
<1>25. ASSUME NEW t \in Threads, EndVisit(t)
      PROVE CreationInv'
  BY <1>25, RegisteredSame, RegisteredIds DEF EndVisit, Return, NoFrame,
    Frame, creation, device, backend
<1>26. CASE UNCHANGED vars
  BY <1>26, RegisteredSame, RegisteredIds DEF vars, creation, device,
    backend, visit
<1>27. QED
  BY <1>1, <1>2, <1>3, <1>4, <1>5, <1>6, <1>7, <1>8, <1>9, <1>10, <1>11,
    <1>12, <1>13, <1>14, <1>15, <1>16, <1>17, <1>18, <1>19, <1>20, <1>21,
    <1>22, <1>23, <1>24, <1>25, <1>26 DEF Next, Client, Step, HandleOps

-----------------------------------------------------------------------------
(* What a device's own fields and its backend say about each other.        *)

\* The thread inside an operation of device d at label.
At(d, label) ==
  /\ deviceLock[d] \in Threads
  /\ pc[deviceLock[d]] = label
  /\ frame[deviceLock[d]].dev = d

\* A getter's field shows what the backend of d has seen.
Shows(field, d) ==
  /\ named[d] # None => field.id = ContactOf[named[d]]
  /\ field.rest = placed[d]

AgreeInv ==
  /\ \A d \in Ids : open[d] <=> phase[d] = "open"
  /\ \A t \in Threads : pc[t] = "submit" => open[frame[t].dev]
  /\ \A t \in Threads : pc[t] = "commit" =>
       /\ Shows(Kept(last[frame[t].dev], frame[t].arg), frame[t].dev)
       /\ accepted[frame[t].dev] = submitted[frame[t].dev] + 1
  /\ \A d \in Ids :
       At(d, "commit") \/ (Shows(last[d], d) /\ submitted[d] = accepted[d])
  /\ \A d \in Ids : At(d, "set_output_callback") \/ callback[d] = installed[d]

\* Initially every handle agrees with its backend: nothing was submitted.
LEMMA AgreeInit == Init => AgreeInv
BY DEF Init, AgreeInv, Shows

\* When the backend has accepted an input, the handle's assignment is all that
\* is missing for its field to show what the backend has seen.
LEMMA AcceptedShows ==
  ASSUME TypeInv, NEW t \in Threads, SubmitAccepted(t),
         Shows(last[frame[t].dev], frame[t].dev)
  PROVE  Shows(Kept(last[frame[t].dev], frame[t].arg), frame[t].dev)'
<1> DEFINE d == frame[t].dev
           i == frame[t].arg
<1>1. /\ d \in Ids /\ i \in Inputs /\ i # None
      /\ last[d] \in [id : Contacts \cup {None}, rest : Inputs \cup {None}]
  BY RuntimeAssumption DEF TypeInv, TypeOK, ArgOK, SubmitAccepted
<1>2. /\ named'[d] = IF i \in Unkept THEN named[d] ELSE i
      /\ placed'[d] = IF i \in Whole THEN i ELSE placed[d]
      /\ UNCHANGED <<frame, last>>
  BY <1>1 DEF SubmitAccepted, Goto, device, TypeInv, TypeOK
<1>3. CASE i \in Whole
  BY <1>1, <1>2, <1>3 DEF Kept, Shows, Whole
<1>4. CASE i \in ContactEnds \ Unkept
  BY <1>1, <1>2, <1>4 DEF Kept, Shows, Whole
<1>5. CASE i \in Unkept
  BY <1>1, <1>2, <1>5, RuntimeAssumption DEF Kept, Shows, Whole
<1>6. QED
  BY <1>1, <1>3, <1>4, <1>5 DEF Whole

\* Fields and backend of a device differ only between a backend call and the
\* assignments that follow it under the same mutex.
LEMMA AgreeNext ==
  ASSUME TypeInv, LockInv, CreationInv, AgreeInv, [Next]_vars PROVE AgreeInv'
<1> USE RuntimeAssumption DEF TypeInv, TypeOK, ArgOK, LockInv, Visiting,
  InBackend, CreationInv, Creators, Creating, AgreeInv, At, Shows
<1>1. ASSUME NEW t \in Threads, NEW k \in Kinds, CreateAllocate(t, k)
      PROVE AgreeInv'
  BY <1>1 DEF CreateAllocate, Call, MayCall, Frame, device, backend
<1>2. ASSUME NEW t \in Threads, NEW d \in Ids, NEW op \in HandleOps,
             NEW arg \in Inputs \cup Callbacks \cup {None},
             op = "submit" => arg \in Inputs,
             op = "set_output_callback" => arg \in Callbacks \cup {None},
             CallHandle(t, d, op, arg)
      PROVE AgreeInv'
  BY <1>2 DEF CallHandle, Call, MayCall, Frame, device, backend
<1>3. ASSUME NEW t \in Threads, NEW d \in Ids, CallDestroy(t, d)
      PROVE AgreeInv'
  BY <1>3 DEF CallDestroy, Call, MayCall, Frame, device, backend
<1>4. ASSUME NEW t \in Threads, NEW label \in {"close_all", "count"},
             BeginVisit(t, label)
      PROVE AgreeInv'
  BY <1>4 DEF BeginVisit, Call, MayCall, NoFrame, Frame, device, backend
<1>5. ASSUME NEW t \in Threads, CreateBackend(t)
      PROVE AgreeInv'
  BY <1>5 DEF CreateBackend, history, Goto
<1>6. ASSUME NEW t \in Threads, CreateFails(t)
      PROVE AgreeInv'
  BY <1>6 DEF CreateFails, Return, NoFrame, Frame, device, backend
<1>7. ASSUME NEW t \in Threads, CreateRegister(t)
      PROVE AgreeInv'
  BY <1>7 DEF CreateRegister, Return, NoFrame, Frame, device, backend
<1>8. ASSUME NEW t \in Threads, Submit(t)
      PROVE AgreeInv'
  BY <1>8 DEF Submit, Enter, Lock, Goto, device, backend
<1>9. ASSUME NEW t \in Threads, SubmitClosed(t)
      PROVE AgreeInv'
  BY <1>9 DEF SubmitClosed, Enter, Return, NoFrame, Frame, device, backend
<1>10. ASSUME NEW t \in Threads, SubmitFails(t)
      PROVE AgreeInv'
  BY <1>10 DEF SubmitFails, Unlock, Return, NoFrame, Frame, device, backend
<1>11. ASSUME NEW t \in Threads, SubmitAccepted(t)
      PROVE AgreeInv'
  <2>1. frame[t].dev \in Ids /\ deviceLock[frame[t].dev] = t
    BY <1>11 DEF SubmitAccepted
  <2>2. /\ accepted' = [accepted EXCEPT ![frame[t].dev] = @ + 1]
        /\ \A d \in Ids \ {frame[t].dev} :
             named'[d] = named[d] /\ placed'[d] = placed[d]
        /\ pc[t] = "submit" /\ pc' = [pc EXCEPT ![t] = "commit"]
        /\ UNCHANGED <<frame, deviceLock, open, last, submitted, callback,
                       phase, installed>>
    BY <1>11, <2>1 DEF SubmitAccepted, Goto, device
  <2>3. /\ Shows(last[frame[t].dev], frame[t].dev)
        /\ submitted[frame[t].dev] = accepted[frame[t].dev]
    BY <2>1, <2>2
  <2>4. Shows(Kept(last[frame[t].dev], frame[t].arg), frame[t].dev)'
    BY <1>11, <2>3, AcceptedShows
  <2>5. \A u \in Threads \ {t} : pc[u] = "commit" =>
          frame[u].dev \in Ids \ {frame[t].dev}
    <3> TAKE u \in Threads \ {t}
    <3>1. pc[u] = "commit" =>
            frame[u].dev \in Ids /\ deviceLock[frame[u].dev] = u
      OBVIOUS
    <3>2. QED
      BY <2>1, <3>1
  <2>6. \A u \in Threads : pc'[u] = "commit" =>
          Shows(Kept(last[frame[u].dev], frame[u].arg), frame[u].dev)'
    <3> SUFFICES ASSUME NEW u \in Threads, u # t, pc[u] = "commit"
                 PROVE  Shows(Kept(last[frame[u].dev], frame[u].arg),
                              frame[u].dev)'
      BY <2>2, <2>4
    <3>1. Shows(Kept(last[frame[u].dev], frame[u].arg), frame[u].dev)
      OBVIOUS
    <3>2. UNCHANGED <<frame[u], last, named[frame[u].dev], placed[frame[u].dev]>>
      BY <2>2, <2>5
    <3>3. QED
      BY <3>1, <3>2 DEF Kept
  <2>7. \A u \in Threads : pc'[u] = "commit" =>
          accepted'[frame[u].dev] = submitted'[frame[u].dev] + 1
    BY <2>1, <2>2, <2>3, <2>5
  <2>8. \A d \in Ids :
          At(d, "commit")' \/ (Shows(last[d], d) /\ submitted[d] = accepted[d])'
    <3> TAKE d \in Ids
    <3>0. CASE d = frame[t].dev
      BY <2>1, <2>2, <3>0
    <3> SUFFICES ASSUME d # frame[t].dev
                 PROVE  \/ At(d, "commit")'
                        \/ (Shows(last[d], d) /\ submitted[d] = accepted[d])'
      BY <3>0
    <3>1. At(d, "commit") => At(d, "commit")'
      BY <2>1, <2>2
    <3>2. Shows(last[d], d) => Shows(last[d], d)'
      BY <2>2
    <3>3. accepted'[d] = accepted[d] /\ submitted'[d] = submitted[d]
      BY <2>2
    <3>4. QED
      BY <3>1, <3>2, <3>3
  <2>9. QED
    BY <2>1, <2>2, <2>6, <2>7, <2>8
<1>12. ASSUME NEW t \in Threads, SubmitCommit(t)
      PROVE AgreeInv'
  <2>1. /\ frame[t].dev \in Ids /\ deviceLock[frame[t].dev] = t
        /\ pc[t] = "commit" /\ pc' = [pc EXCEPT ![t] = "idle"]
        /\ deviceLock' = [deviceLock EXCEPT ![frame[t].dev] = None]
        /\ submitted' = [submitted EXCEPT ![frame[t].dev] = @ + 1]
        /\ last' = [last EXCEPT ![frame[t].dev] =
                      Kept(last[frame[t].dev], frame[t].arg)]
        /\ \A u \in Threads \ {t} : frame'[u] = frame[u]
        /\ UNCHANGED <<open, callback, backend>>
    <3>1. /\ pc[t] = "commit" /\ pc' = [pc EXCEPT ![t] = "idle"]
          /\ frame' = [frame EXCEPT ![t] = NoFrame]
          /\ UNCHANGED <<open, callback, backend>>
      BY <1>12 DEF SubmitCommit, Return
    <3>2. frame[t].dev \in Ids /\ deviceLock[frame[t].dev] = t
      BY <3>1
    <3>3. /\ deviceLock' = [deviceLock EXCEPT ![frame[t].dev] = None]
          /\ submitted' = [submitted EXCEPT ![frame[t].dev] = @ + 1]
          /\ last' = [last EXCEPT ![frame[t].dev] =
                        Kept(last[frame[t].dev], frame[t].arg)]
      BY <1>12 DEF SubmitCommit, Unlock
    <3>4. QED
      BY <3>1, <3>2, <3>3
  <2>2. /\ Shows(Kept(last[frame[t].dev], frame[t].arg), frame[t].dev)
        /\ accepted[frame[t].dev] = submitted[frame[t].dev] + 1
    BY <2>1
  <2>3. \A u \in Threads \ {t} : InBackend(u) => frame[u].dev # frame[t].dev
    BY <2>1
  <2>4. \A u \in Threads : pc'[u] = "commit" =>
          /\ Shows(Kept(last[frame[u].dev], frame[u].arg), frame[u].dev)'
          /\ accepted'[frame[u].dev] = submitted'[frame[u].dev] + 1
    BY <2>1, <2>3 DEF backend
  <2>5. \A d \in Ids :
          At(d, "commit")' \/ (Shows(last[d], d) /\ submitted[d] = accepted[d])'
    <3> TAKE d \in Ids
    <3>1. CASE d = frame[t].dev
      BY <2>1, <2>2, <3>1 DEF backend
    <3>2. CASE d # frame[t].dev
      <4>1. At(d, "commit") => At(d, "commit")'
        BY <2>1, <3>2
      <4>2. Shows(last[d], d) => Shows(last[d], d)'
        BY <2>1, <3>2 DEF backend
      <4>3. accepted'[d] = accepted[d] /\ submitted'[d] = submitted[d]
        BY <2>1, <3>2 DEF backend
      <4>4. QED
        BY <4>1, <4>2, <4>3
    <3>3. QED
      BY <3>1, <3>2
  <2>6. QED
    BY <2>1, <2>4, <2>5 DEF backend
<1>13. ASSUME NEW t \in Threads, SetOutputCallback(t)
      PROVE AgreeInv'
  BY <1>13 DEF SetOutputCallback, Enter, Lock, Goto, backend
<1>14. ASSUME NEW t \in Threads, SetBackendCallback(t)
      PROVE AgreeInv'
  BY <1>14 DEF SetBackendCallback, history, Unlock, Return, NoFrame, Frame, device
<1>15. ASSUME NEW t \in Threads, DispatchOutput(t)
      PROVE AgreeInv'
  BY <1>15 DEF DispatchOutput, Enter, Return, NoFrame, Frame, device, backend
<1>16. ASSUME NEW t \in Threads, CallbackReturns(t)
      PROVE AgreeInv'
  BY <1>16 DEF CallbackReturns, device, backend
<1>17. ASSUME NEW t \in Threads, Close(t)
      PROVE AgreeInv'
  BY <1>17 DEF Close, Enter, Lock, Goto, device, backend
<1>18. ASSUME NEW t \in Threads, CloseClosed(t)
      PROVE AgreeInv'
  BY <1>18 DEF CloseClosed, Enter, Release, Return, NoFrame, Frame, device,
    backend
<1>19. ASSUME NEW t \in Threads, CloseFinish(t)
      PROVE AgreeInv'
  BY <1>19 DEF CloseFinish, history, BackendClose, Release, Unlock, Return, NoFrame,
    Frame
<1>20. ASSUME NEW t \in Threads, NEW d \in todo[t], SkipExpired(t, d)
      PROVE AgreeInv'
  BY <1>20 DEF SkipExpired, Expired, device, backend
<1>21. ASSUME NEW t \in Threads, NEW d \in todo[t], Pin(t, d)
      PROVE AgreeInv'
  BY <1>21 DEF Pin, Frame, device, backend
<1>22. ASSUME NEW t \in Threads, CloseAllLock(t)
      PROVE AgreeInv'
  BY <1>22 DEF CloseAllLock, Lock, Goto, device, backend
<1>23. ASSUME NEW t \in Threads, CloseAllOne(t)
      PROVE AgreeInv'
  BY <1>23 DEF CloseAllOne, history, BackendClose, Unlock, Visited, NoFrame, Frame
<1>24. ASSUME NEW t \in Threads, CountOne(t)
      PROVE AgreeInv'
  BY <1>24 DEF CountOne, Visited, NoFrame, Frame, device, backend
<1>25. ASSUME NEW t \in Threads, EndVisit(t)
      PROVE AgreeInv'
  BY <1>25 DEF EndVisit, Return, NoFrame, Frame, device, backend
<1>26. CASE UNCHANGED vars
  BY <1>26 DEF vars, device, backend
<1>27. QED
  BY <1>1, <1>2, <1>3, <1>4, <1>5, <1>6, <1>7, <1>8, <1>9, <1>10, <1>11,
    <1>12, <1>13, <1>14, <1>15, <1>16, <1>17, <1>18, <1>19, <1>20, <1>21,
    <1>22, <1>23, <1>24, <1>25, <1>26 DEF Next, Client, Step, HandleOps

-----------------------------------------------------------------------------
(* What close_all() and active_device_count() have still to visit.         *)

VisitInv ==
  /\ \A d \in Ids : handle[d] = "gone" => ~open[d]
  /\ \A t \in Threads : pc[t] \in {"close_all", "close_wait", "close_one"} =>
       \A d \in Registered : open[d] => d \in todo[t]
  /\ \A t \in Threads : pc[t] \in {"count", "count_wait"} =>
       \A d \in Registered : open[d] => d \in todo[t] \cup counted[t]

\* Initially no thread visits the vectors.
LEMMA VisitInit == Init => VisitInv
BY DEF Init, VisitInv, Registered

\* What close_all() has behind it is closed, and what a count has behind it is
\* counted or closed.
LEMMA VisitNext ==
  ASSUME TypeInv, LockInv, CreationInv, VisitInv, [Next]_vars PROVE VisitInv'
<1> USE RuntimeAssumption DEF TypeInv, TypeOK, ArgOK, LockInv, Visiting,
  InBackend, CreationInv, Creators, Creating, Unknown, OnlyRegistered,
  VisitInv
<1>1. ASSUME NEW t \in Threads, NEW k \in Kinds, CreateAllocate(t, k)
      PROVE VisitInv'
  BY <1>1, RegisteredSame DEF CreateAllocate, Call, MayCall, Frame, device,
    visit
<1>2. ASSUME NEW t \in Threads, NEW d \in Ids, NEW op \in HandleOps,
             NEW arg \in Inputs \cup Callbacks \cup {None},
             op = "submit" => arg \in Inputs,
             op = "set_output_callback" => arg \in Callbacks \cup {None},
             CallHandle(t, d, op, arg)
      PROVE VisitInv'
  BY <1>2, RegisteredSame DEF CallHandle, Call, MayCall, Frame, creation,
    device, visit
<1>3. ASSUME NEW t \in Threads, NEW d \in Ids, CallDestroy(t, d)
      PROVE VisitInv'
  BY <1>3, RegisteredSame DEF CallDestroy, Call, MayCall, Frame, creation,
    device, visit
<1>4. ASSUME NEW t \in Threads, NEW label \in {"close_all", "count"},
             BeginVisit(t, label)
      PROVE VisitInv'
  BY <1>4, RegisteredSame DEF BeginVisit, Call, MayCall, NoFrame, Frame,
    creation, device
<1>5. ASSUME NEW t \in Threads, CreateBackend(t)
      PROVE VisitInv'
  BY <1>5, RegisteredSame DEF CreateBackend, history, Goto, creation, visit
<1>6. ASSUME NEW t \in Threads, CreateFails(t)
      PROVE VisitInv'
  BY <1>6, RegisteredSame DEF CreateFails, Return, NoFrame, Frame, creation,
    device, visit
<1>7. ASSUME NEW t \in Threads, CreateRegister(t)
      PROVE VisitInv'
  BY <1>7, RegisteredSame DEF CreateRegister, Return, NoFrame, Frame, device,
    visit
<1>8. ASSUME NEW t \in Threads, Submit(t)
      PROVE VisitInv'
  BY <1>8, RegisteredSame DEF Submit, Enter, Lock, Goto, creation, device,
    visit
<1>9. ASSUME NEW t \in Threads, SubmitClosed(t)
      PROVE VisitInv'
  BY <1>9, RegisteredSame DEF SubmitClosed, Enter, Return, NoFrame, Frame,
    creation, device, visit
<1>10. ASSUME NEW t \in Threads, SubmitFails(t)
      PROVE VisitInv'
  BY <1>10, RegisteredSame DEF SubmitFails, Unlock, Return, NoFrame, Frame,
    creation, device, visit
<1>11. ASSUME NEW t \in Threads, SubmitAccepted(t)
      PROVE VisitInv'
  BY <1>11, RegisteredSame DEF SubmitAccepted, Goto, creation, device, visit
<1>12. ASSUME NEW t \in Threads, SubmitCommit(t)
      PROVE VisitInv'
  BY <1>12, RegisteredSame DEF SubmitCommit, Unlock, Return, NoFrame, Frame,
    creation, visit
<1>13. ASSUME NEW t \in Threads, SetOutputCallback(t)
      PROVE VisitInv'
  BY <1>13, RegisteredSame DEF SetOutputCallback, Enter, Lock, Goto,
    creation, visit
<1>14. ASSUME NEW t \in Threads, SetBackendCallback(t)
      PROVE VisitInv'
  BY <1>14, RegisteredSame DEF SetBackendCallback, history, Unlock, Return, NoFrame,
    Frame, creation, device, visit
<1>15. ASSUME NEW t \in Threads, DispatchOutput(t)
      PROVE VisitInv'
  BY <1>15, RegisteredSame DEF DispatchOutput, Enter, Return, NoFrame, Frame,
    creation, device, visit
<1>16. ASSUME NEW t \in Threads, CallbackReturns(t)
      PROVE VisitInv'
  BY <1>16, RegisteredSame DEF CallbackReturns, creation, device, visit
<1>17. ASSUME NEW t \in Threads, Close(t)
      PROVE VisitInv'
  BY <1>17, RegisteredSame DEF Close, Enter, Lock, Goto, creation, device,
    visit
<1>18. ASSUME NEW t \in Threads, CloseClosed(t)
      PROVE VisitInv'
  BY <1>18, RegisteredSame DEF CloseClosed, Enter, Release, Return, NoFrame,
    Frame, creation, device, visit
<1>19. ASSUME NEW t \in Threads, CloseFinish(t)
      PROVE VisitInv'
  BY <1>19, RegisteredSame DEF CloseFinish, history, BackendClose, Release, Unlock,
    Return, NoFrame, Frame, creation, visit
<1>20. ASSUME NEW t \in Threads, NEW d \in todo[t], SkipExpired(t, d)
      PROVE VisitInv'
  BY <1>20, RegisteredSame DEF SkipExpired, Expired, creation, device
<1>21. ASSUME NEW t \in Threads, NEW d \in todo[t], Pin(t, d)
      PROVE VisitInv'
  BY <1>21, RegisteredSame DEF Pin, Frame, creation, device, visit
<1>22. ASSUME NEW t \in Threads, CloseAllLock(t)
      PROVE VisitInv'
  BY <1>22, RegisteredSame DEF CloseAllLock, Lock, Goto, creation, device,
    visit
<1>23. ASSUME NEW t \in Threads, CloseAllOne(t)
      PROVE VisitInv'
  BY <1>23, RegisteredSame DEF CloseAllOne, history, BackendClose, Unlock, Visited,
    NoFrame, Frame, creation
<1>24. ASSUME NEW t \in Threads, CountOne(t)
      PROVE VisitInv'
  BY <1>24, RegisteredSame DEF CountOne, Visited, NoFrame, Frame, creation,
    device
<1>25. ASSUME NEW t \in Threads, EndVisit(t)
      PROVE VisitInv'
  BY <1>25, RegisteredSame DEF EndVisit, Return, NoFrame, Frame, creation,
    device
<1>26. CASE UNCHANGED vars
  BY <1>26, RegisteredSame DEF vars, creation, device, visit
<1>27. QED
  BY <1>1, <1>2, <1>3, <1>4, <1>5, <1>6, <1>7, <1>8, <1>9, <1>10, <1>11,
    <1>12, <1>13, <1>14, <1>15, <1>16, <1>17, <1>18, <1>19, <1>20, <1>21,
    <1>22, <1>23, <1>24, <1>25, <1>26 DEF Next, Client, Step, HandleOps

\* Initially no device is open.
LEMMA OpenInit == Init => OpenIsRegistered
BY DEF Init, OpenIsRegistered

\* No step opens a device that neither a vector nor its creator knows.
LEMMA OpenNext ==
  ASSUME TypeInv, CreationInv, OpenIsRegistered, [Next]_vars
  PROVE  OpenIsRegistered'
<1> USE RuntimeAssumption DEF TypeInv, TypeOK, ArgOK, CreationInv, Creators,
  Creating, OpenIsRegistered
<1>1. ASSUME NEW t \in Threads, NEW k \in Kinds, CreateAllocate(t, k)
      PROVE OpenIsRegistered'
  BY <1>1, RegisteredSame DEF CreateAllocate, Call, MayCall, Frame, device
<1>2. ASSUME NEW t \in Threads, NEW d \in Ids, NEW op \in HandleOps,
             NEW arg \in Inputs \cup Callbacks \cup {None},
             op = "submit" => arg \in Inputs,
             op = "set_output_callback" => arg \in Callbacks \cup {None},
             CallHandle(t, d, op, arg)
      PROVE OpenIsRegistered'
  BY <1>2, RegisteredSame DEF CallHandle, Call, MayCall, Frame, creation,
    device
<1>3. ASSUME NEW t \in Threads, NEW d \in Ids, CallDestroy(t, d)
      PROVE OpenIsRegistered'
  BY <1>3, RegisteredSame DEF CallDestroy, Call, MayCall, Frame, creation,
    device
<1>4. ASSUME NEW t \in Threads, NEW label \in {"close_all", "count"},
             BeginVisit(t, label)
      PROVE OpenIsRegistered'
  BY <1>4, RegisteredSame DEF BeginVisit, Call, MayCall, NoFrame, Frame,
    creation, device
<1>5. ASSUME NEW t \in Threads, CreateBackend(t)
      PROVE OpenIsRegistered'
  BY <1>5, RegisteredSame DEF CreateBackend, history, Goto, creation
<1>6. ASSUME NEW t \in Threads, CreateFails(t)
      PROVE OpenIsRegistered'
  BY <1>6, RegisteredSame DEF CreateFails, Return, NoFrame, Frame, creation,
    device
<1>7. ASSUME NEW t \in Threads, CreateRegister(t)
      PROVE OpenIsRegistered'
  <2>1. Registered' = Registered \cup {frame[t].dev}
    BY <1>7, RegisteredGrows DEF CreateRegister
  <2>2. QED
    BY <1>7, <2>1 DEF CreateRegister, Return, NoFrame, Frame, device
<1>8. ASSUME NEW t \in Threads, Submit(t)
      PROVE OpenIsRegistered'
  BY <1>8, RegisteredSame DEF Submit, Enter, Lock, Goto, creation, device
<1>9. ASSUME NEW t \in Threads, SubmitClosed(t)
      PROVE OpenIsRegistered'
  BY <1>9, RegisteredSame DEF SubmitClosed, Enter, Return, NoFrame, Frame,
    creation, device
<1>10. ASSUME NEW t \in Threads, SubmitFails(t)
      PROVE OpenIsRegistered'
  BY <1>10, RegisteredSame DEF SubmitFails, Unlock, Return, NoFrame, Frame,
    creation, device
<1>11. ASSUME NEW t \in Threads, SubmitAccepted(t)
      PROVE OpenIsRegistered'
  BY <1>11, RegisteredSame DEF SubmitAccepted, Goto, creation, device
<1>12. ASSUME NEW t \in Threads, SubmitCommit(t)
      PROVE OpenIsRegistered'
  BY <1>12, RegisteredSame DEF SubmitCommit, Unlock, Return, NoFrame, Frame,
    creation
<1>13. ASSUME NEW t \in Threads, SetOutputCallback(t)
      PROVE OpenIsRegistered'
  BY <1>13, RegisteredSame DEF SetOutputCallback, Enter, Lock, Goto, creation
<1>14. ASSUME NEW t \in Threads, SetBackendCallback(t)
      PROVE OpenIsRegistered'
  BY <1>14, RegisteredSame DEF SetBackendCallback, history, Unlock, Return, NoFrame,
    Frame, creation, device
<1>15. ASSUME NEW t \in Threads, DispatchOutput(t)
      PROVE OpenIsRegistered'
  BY <1>15, RegisteredSame DEF DispatchOutput, Enter, Return, NoFrame, Frame,
    creation, device
<1>16. ASSUME NEW t \in Threads, CallbackReturns(t)
      PROVE OpenIsRegistered'
  BY <1>16, RegisteredSame DEF CallbackReturns, creation, device
<1>17. ASSUME NEW t \in Threads, Close(t)
      PROVE OpenIsRegistered'
  BY <1>17, RegisteredSame DEF Close, Enter, Lock, Goto, creation, device
<1>18. ASSUME NEW t \in Threads, CloseClosed(t)
      PROVE OpenIsRegistered'
  BY <1>18, RegisteredSame DEF CloseClosed, Enter, Release, Return, NoFrame,
    Frame, creation, device
<1>19. ASSUME NEW t \in Threads, CloseFinish(t)
      PROVE OpenIsRegistered'
  BY <1>19, RegisteredSame DEF CloseFinish, history, BackendClose, Release, Unlock,
    Return, NoFrame, Frame, creation
<1>20. ASSUME NEW t \in Threads, NEW d \in todo[t], SkipExpired(t, d)
      PROVE OpenIsRegistered'
  BY <1>20, RegisteredSame DEF SkipExpired, Expired, creation, device
<1>21. ASSUME NEW t \in Threads, NEW d \in todo[t], Pin(t, d)
      PROVE OpenIsRegistered'
  BY <1>21, RegisteredSame DEF Pin, Frame, creation, device
<1>22. ASSUME NEW t \in Threads, CloseAllLock(t)
      PROVE OpenIsRegistered'
  BY <1>22, RegisteredSame DEF CloseAllLock, Lock, Goto, creation, device
<1>23. ASSUME NEW t \in Threads, CloseAllOne(t)
      PROVE OpenIsRegistered'
  BY <1>23, RegisteredSame DEF CloseAllOne, history, BackendClose, Unlock, Visited,
    NoFrame, Frame, creation
<1>24. ASSUME NEW t \in Threads, CountOne(t)
      PROVE OpenIsRegistered'
  BY <1>24, RegisteredSame DEF CountOne, Visited, NoFrame, Frame, creation,
    device
<1>25. ASSUME NEW t \in Threads, EndVisit(t)
      PROVE OpenIsRegistered'
  BY <1>25, RegisteredSame DEF EndVisit, Return, NoFrame, Frame, creation,
    device
<1>26. CASE UNCHANGED vars
  BY <1>26, RegisteredSame DEF vars, creation, device
<1>27. QED
  BY <1>1, <1>2, <1>3, <1>4, <1>5, <1>6, <1>7, <1>8, <1>9, <1>10, <1>11,
    <1>12, <1>13, <1>14, <1>15, <1>16, <1>17, <1>18, <1>19, <1>20, <1>21,
    <1>22, <1>23, <1>24, <1>25, <1>26 DEF Next, Client, Step, HandleOps

-----------------------------------------------------------------------------
(* The inductive invariant, and what follows from it.                      *)

IInv == /\ TypeInv /\ LockInv /\ CreationInv
        /\ AgreeInv /\ VisitInv /\ OpenIsRegistered

\* The inductive invariant: types, mutexes, ids, agreement of handles and
\* backends, and what a visit has behind it hold in every reachable state.
THEOREM Invariance == Spec => []IInv
<1>1. Init => IInv
  BY TypeInvInit, LockInit, CreationInit, AgreeInit, VisitInit, OpenInit
     DEF IInv
<1>2. IInv /\ [Next]_vars => IInv'
  BY TypeInvNext, LockNext, CreationNext, AgreeNext, VisitNext, OpenNext
     DEF IInv
<1>3. QED
  BY <1>1, <1>2, PTL DEF Spec

\* Every variable of the runtime keeps its type.
THEOREM TypeCorrect == Spec => []TypeOK
<1>1. IInv => TypeOK
  BY DEF IInv, TypeInv
<1>2. QED
  BY <1>1, Invariance, PTL

\* No two threads are in a backend call of one device (core/runtime.cpp,
\* with_device and close_devices): both would hold its mutex.
THEOREM Serialized == Spec => []BackendCallsSerialized
<1>1. IInv => BackendCallsSerialized
  BY DEF IInv, LockInv, BackendCallsSerialized
<1>2. QED
  BY <1>1, Invariance, PTL

\* Whoever gets a device's mutex finds its fields and its backend in
\* agreement, after any interleaving of submits, callbacks and closes: the
\* counter, the open flag and the callback, and in the getter's field the id of
\* the last input that named a contact beside the rest of the last whole one.
THEOREM Agreement == Spec => []HandleAgreesWithBackend
<1>1. IInv => HandleAgreesWithBackend
  BY RuntimeAssumption
     DEF IInv, TypeInv, TypeOK, AgreeInv, At, Shows, HandleAgreesWithBackend
<1>2. QED
  BY <1>1, Invariance, PTL

\* A destroyed handle has left no open device behind.
THEOREM Destruction == Spec => []DestroyedIsClosed
<1>1. IInv => DestroyedIsClosed
  BY DEF IInv, VisitInv, DestroyedIsClosed
<1>2. QED
  BY <1>1, Invariance, PTL

\* close_all() returns with every registered device closed.
THEOREM CloseAll == Spec => []CloseAllClosesRegistered
<1>1. IInv => CloseAllClosesRegistered
  BY DEF IInv, VisitInv, CloseAllClosesRegistered
<1>2. QED
  BY <1>1, Invariance, PTL

\* active_device_count() counts every registered device that is still open.
THEOREM Counting == Spec => []CountMissesNone
<1>1. IInv => CountMissesNone
  BY DEF IInv, VisitInv, CountMissesNone
<1>2. QED
  BY <1>1, Invariance, PTL

\* No open device is out of close_all()'s sight once its creator returned.
THEOREM Registration == Spec => []OpenIsRegistered
<1>1. IInv => OpenIsRegistered
  BY DEF IInv
<1>2. QED
  BY <1>1, Invariance, PTL

\* What a caller can learn of a handle is true: its fields agree with its
\* backend (core/runtime.cpp, Gamepad::close and its siblings), and none that
\* was destroyed stayed open.
THEOREM HandlesTrue == Spec => []HandlesAreTrue
<1>1. HandleAgreesWithBackend /\ DestroyedIsClosed => HandlesAreTrue
  BY DEF HandlesAreTrue
<1>2. QED
  BY <1>1, Agreement, Destruction, PTL

\* The registry misses no open device (core/runtime.cpp, RuntimeState): each is
\* registered once its creator returned, closed by close_all() and counted.
THEOREM NothingMissed == Spec => []NoneMissed
<1>1. OpenIsRegistered /\ CloseAllClosesRegistered /\ CountMissesNone => NoneMissed
  BY DEF NoneMissed
<1>2. QED
  BY <1>1, Registration, CloseAll, Counting, PTL

-----------------------------------------------------------------------------
(* Runtime implements DeviceContract.                                      *)

\* Runtime starts where DeviceContract starts.
LEMMA ContractInit == Init => Contract!Init
BY DEF Init, Contract!Init

ContractStep == [Contract!Next]_Contract!vars

\* A step that leaves these variables alone is invisible in the contract.
LEMMA Stutter ==
  UNCHANGED <<open, phase, delivered, accepted>> => ContractStep
BY DEF ContractStep, Contract!vars

\* Closing a device that exists closes it in the contract, at most once.
LEMMA ContractClose ==
  ASSUME TypeOK, NEW d \in Ids, phase[d] # "none",
         BackendClose(d), UNCHANGED <<delivered, accepted>>
  PROVE  ContractStep
<1>1. /\ open' = [open EXCEPT ![d] = FALSE]
      /\ \A e \in Ids \ {d} : phase'[e] = phase[e]
      /\ phase'[d] # "none"
  BY DEF TypeOK, BackendClose
<1>2. CASE open[d]
  <2>1. Contract!Close(d)
    BY <1>1, <1>2 DEF TypeOK, Contract!Close
  <2>2. QED
    BY <2>1 DEF ContractStep, Contract!Next
<1>3. CASE ~open[d]
  BY <1>1, <1>3 DEF TypeOK, ContractStep, Contract!vars
<1>4. QED
  BY <1>2, <1>3

\* Every step of a thread is a step of DeviceContract or changes nothing in it.
LEMMA ContractNext ==
  ASSUME TypeInv, CreationInv, AgreeInv, [Next]_vars PROVE ContractStep
<1>1. ASSUME NEW t \in Threads, NEW k \in Kinds, CreateAllocate(t, k)
      PROVE ContractStep
  BY <1>1, Stutter DEF CreateAllocate, device, backend
<1>2. ASSUME NEW t \in Threads, NEW d \in Ids, NEW op \in HandleOps,
             NEW arg \in Inputs \cup Callbacks \cup {None},
             op = "submit" => arg \in Inputs,
             op = "set_output_callback" => arg \in Callbacks \cup {None},
             CallHandle(t, d, op, arg)
      PROVE ContractStep
  BY <1>2, Stutter DEF CallHandle, device, backend
<1>3. ASSUME NEW t \in Threads, NEW d \in Ids, CallDestroy(t, d)
      PROVE ContractStep
  BY <1>3, Stutter DEF CallDestroy, device, backend
<1>4. ASSUME NEW t \in Threads, NEW label \in {"close_all", "count"},
             BeginVisit(t, label)
      PROVE ContractStep
  BY <1>4, Stutter DEF BeginVisit, device, backend
<1>5. ASSUME NEW t \in Threads, CreateBackend(t)
      PROVE ContractStep
  <2>1. /\ frame[t].dev \in Ids
        /\ ~open[frame[t].dev] /\ phase[frame[t].dev] = "none"
    BY <1>5 DEF CreateBackend, history, TypeInv, ArgOK, CreationInv, Creators
  <2>2. /\ open' = [open EXCEPT ![frame[t].dev] = TRUE]
        /\ phase' = [phase EXCEPT ![frame[t].dev] = "open"]
        /\ UNCHANGED <<delivered, accepted>>
    BY <1>5 DEF CreateBackend, history
  <2>3. PICK d \in Ids : d = frame[t].dev
    BY <2>1
  <2>4. Contract!Create(d)
    BY <2>1, <2>2, <2>3 DEF Contract!Create, TypeInv, TypeOK
  <2>5. QED
    BY <2>4 DEF ContractStep, Contract!Next
<1>6. ASSUME NEW t \in Threads, CreateFails(t)
      PROVE ContractStep
  BY <1>6, Stutter DEF CreateFails, device, backend
<1>7. ASSUME NEW t \in Threads, CreateRegister(t)
      PROVE ContractStep
  BY <1>7, Stutter DEF CreateRegister, device, backend
<1>8. ASSUME NEW t \in Threads, Submit(t)
      PROVE ContractStep
  BY <1>8, Stutter DEF Submit, device, backend
<1>9. ASSUME NEW t \in Threads, SubmitClosed(t)
      PROVE ContractStep
  BY <1>9, Stutter DEF SubmitClosed, device, backend
<1>10. ASSUME NEW t \in Threads, SubmitFails(t)
      PROVE ContractStep
  BY <1>10, Stutter DEF SubmitFails, device, backend
<1>11. ASSUME NEW t \in Threads, SubmitAccepted(t)
      PROVE ContractStep
  <2>1. /\ frame[t].dev \in Ids /\ frame[t].arg \in Inputs
        /\ open[frame[t].dev]
    BY <1>11 DEF SubmitAccepted, TypeInv, ArgOK, AgreeInv
  <2>2. PICK d \in Ids, i \in Inputs : d = frame[t].dev /\ i = frame[t].arg
    BY <2>1
  <2>3. Contract!Accept(d, i)
    BY <1>11, <2>1, <2>2 DEF SubmitAccepted, Contract!Accept, device
  <2>4. QED
    BY <2>3 DEF ContractStep, Contract!Next
<1>12. ASSUME NEW t \in Threads, SubmitCommit(t)
      PROVE ContractStep
  BY <1>12, Stutter DEF SubmitCommit, backend
<1>13. ASSUME NEW t \in Threads, SetOutputCallback(t)
      PROVE ContractStep
  BY <1>13, Stutter DEF SetOutputCallback, backend
<1>14. ASSUME NEW t \in Threads, SetBackendCallback(t)
      PROVE ContractStep
  BY <1>14, Stutter DEF SetBackendCallback, history, device
<1>15. ASSUME NEW t \in Threads, DispatchOutput(t)
      PROVE ContractStep
  BY <1>15, Stutter DEF DispatchOutput, device, backend
<1>16. ASSUME NEW t \in Threads, CallbackReturns(t)
      PROVE ContractStep
  BY <1>16, Stutter DEF CallbackReturns, device, backend
<1>17. ASSUME NEW t \in Threads, Close(t)
      PROVE ContractStep
  BY <1>17, Stutter DEF Close, device, backend
<1>18. ASSUME NEW t \in Threads, CloseClosed(t)
      PROVE ContractStep
  BY <1>18, Stutter DEF CloseClosed, device, backend
<1>19. ASSUME NEW t \in Threads, CloseFinish(t)
      PROVE ContractStep
  <2>1. frame[t].dev \in Ids /\ phase[frame[t].dev] # "none"
    BY <1>19 DEF CloseFinish, history, TypeInv, ArgOK, CreationInv, OnlyRegistered,
       Vectors,
       InBackend
  <2>2. QED
    BY <1>19, <2>1, ContractClose DEF CloseFinish, history, TypeInv
<1>20. ASSUME NEW t \in Threads, NEW d \in todo[t], SkipExpired(t, d)
      PROVE ContractStep
  BY <1>20, Stutter DEF SkipExpired, device, backend
<1>21. ASSUME NEW t \in Threads, NEW d \in todo[t], Pin(t, d)
      PROVE ContractStep
  BY <1>21, Stutter DEF Pin, device, backend
<1>22. ASSUME NEW t \in Threads, CloseAllLock(t)
      PROVE ContractStep
  BY <1>22, Stutter DEF CloseAllLock, device, backend
<1>23. ASSUME NEW t \in Threads, CloseAllOne(t)
      PROVE ContractStep
  <2>1. frame[t].dev \in Ids /\ phase[frame[t].dev] # "none"
    BY <1>23 DEF CloseAllOne, history, TypeInv, ArgOK, CreationInv, OnlyRegistered,
       Vectors,
       InBackend
  <2>2. QED
    BY <1>23, <2>1, ContractClose DEF CloseAllOne, history, TypeInv
<1>24. ASSUME NEW t \in Threads, CountOne(t)
      PROVE ContractStep
  BY <1>24, Stutter DEF CountOne, device, backend
<1>25. ASSUME NEW t \in Threads, EndVisit(t)
      PROVE ContractStep
  BY <1>25, Stutter DEF EndVisit, device, backend
<1>26. CASE UNCHANGED vars
  BY <1>26, Stutter DEF vars, device, backend
<1>27. QED
  BY <1>1, <1>2, <1>3, <1>4, <1>5, <1>6, <1>7, <1>8, <1>9, <1>10, <1>11,
    <1>12, <1>13, <1>14, <1>15, <1>16, <1>17, <1>18, <1>19, <1>20, <1>21,
    <1>22, <1>23, <1>24, <1>25, <1>26, RuntimeAssumption DEF Next, Client,
    Step, HandleOps, TypeInv, TypeOK

\* Whatever the threads do, each device behaves as DeviceContract says: opened
\* once, accepting inputs only while open, closed for good.
THEOREM Refinement == Spec => ImplementsContract
<1>1. IInv /\ [Next]_vars => [Contract!Next]_Contract!vars
  BY ContractNext DEF ContractStep, IInv
<1>2. QED
  BY ContractInit, <1>1, Invariance, PTL
     DEF Spec, ImplementsContract, Contract!Spec
=============================================================================
