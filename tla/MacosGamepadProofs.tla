-------------------------- MODULE MacosGamepadProofs --------------------------
(* Proofs about MacosGamepad, for any number of threads, calls and outputs,    *)
(* any limit of the queue and any number of reports of a submit.               *)
EXTENDS MacosGamepad, SequenceTheorems, TLAPS

Outputs == 1..MaxOutputs
ToBroker == [type : {"submit"}, report : ReportIds] \cup {CloseMessage}
ToClient == [type : {"response"}, report : Nat, ok : BOOLEAN]
              \cup [type : {"output"}, output : Outputs]

\* Where a thread is with the device mutex held.
Sending == {"send", "await"}
Closing == {"shut", "join_reader", "join_worker"}

\* The types, and which thread does what.
ThreadTypes ==
  /\ pc \in [Threads -> Labels] /\ left \in [Threads -> 0..NumReports]
  /\ calls \in [Threads -> Nat] /\ \A t \in Threads : calls[t] <= MaxCalls[t]
  /\ \A t \in Threads : pc[t] \in Sending => left[t] # 0
  /\ pc[Worker] \notin {"idle", "want_submit"} \cup Sending

FlagTypes ==
  /\ lock \in Threads \cup {None} /\ open \in BOOLEAN
  /\ created \in {"no", "constructing", "yes", "failed"}
  /\ fd \in {"open", "shut", "closed"} /\ reader \in {"none", "reading", "ended"}
  /\ disconnected \in BOOLEAN /\ stop \in BOOLEAN
  /\ callback \in BOOLEAN /\ detached \in BOOLEAN
  /\ session \in {"activated", "serving", "ending", "gone"}

Answers == [ready : BOOLEAN, report : Nat, ok : BOOLEAN]

MessageTypes ==
  /\ upstream \in Seq(ToBroker) /\ downstream \in Seq(ToClient)
  /\ reports \in Seq(Outputs) /\ Len(reports) <= QueueLimit /\ heard \in Seq(Outputs)
  /\ answer \in Answers
  /\ written \in 0..MaxOutputs

ReportTypes ==
  /\ counted \subseteq ReportIds /\ accepted \subseteq ReportIds
  /\ sent \in Nat

TypeInv == ThreadTypes /\ FlagTypes /\ MessageTypes /\ ReportTypes

\* The mutex is held inside the two calls, on an open handle.
LockInv ==
  \A t \in Threads : pc[t] \in Sending \cup Closing => lock = t /\ open

\* How the gamepad comes to be and ends: no call before, no reader after.
LifeInv ==
  /\ created = "no" => /\ reader = "none" /\ fd = "open" /\ open /\ upstream = <<>> /\ sent = 0
                       /\ ~disconnected
  /\ created = "failed" => fd = "closed"
  /\ created \in {"constructing", "yes"} => reader # "none" /\ session # "activated"
  /\ created # "yes" => \A t \in Threads : pc[t] \in {"idle", "wait", "done", "dead", "calling"}
  /\ created \in {"no", "constructing"} => open
  /\ \A t \in Threads : pc[t] = "join_worker" => reader = "ended"
  /\ \A t \in Threads : pc[t] = "await" => fd = "open"
  /\ disconnected /\ fd = "open" => session = "gone" /\ downstream = <<>>

Awaiting == \E t \in Clients : pc[t] = "await" /\ ~answer.ready

IsResponse(m) == m.type = "response"
IsOutput(m) == m.type = "output"

\* As long as the socket is in use one request at most is on its way, or its answer,
\* and somebody waits for it.
OneRequest ==
  /\ fd = "open" /\ session # "gone" /\ upstream # <<>> =>
       /\ Awaiting /\ Len(upstream) = 1 /\ upstream[1] = Submit(sent)
       /\ \A i \in 1..Len(downstream) : ~IsResponse(downstream[i])
  /\ fd = "open" =>
       \A i, j \in 1..Len(downstream) :
         IsResponse(downstream[i]) /\ IsResponse(downstream[j]) => i = j
  /\ fd = "open" /\ created # "no" =>
       \A i \in 1..Len(downstream) :
         IsResponse(downstream[i]) => Awaiting /\ downstream[i].report = sent
  /\ created = "no" /\ session = "activated" =>
       \A i \in 1..Len(downstream) : ~IsResponse(downstream[i])

\* An answer says that a report was accepted only if it was; a submit has come as far as
\* its reports were.
AcceptedInv ==
  /\ \A i \in 1..Len(downstream) :
       IsResponse(downstream[i]) /\ downstream[i].ok =>
         downstream[i].report \in accepted \cup {0}
  /\ answer.ready /\ answer.ok => answer.report \in accepted \cup {0}
  /\ \A t \in Clients :
       /\ pc[t] = "send" => ((sent - (NumReports - left[t]) + 1)..sent) \subseteq accepted
       /\ pc[t] = "await" => /\ sent # 0
                             /\ ((sent - (NumReports - left[t]))..(sent - 1)) \subseteq accepted

\* What was heard came before what waits for the callback, and that before what is in the
\* socket; each of the three is in the order in which it was written.
HeardInOrder ==
  /\ \A i, j \in 1..Len(heard) : i < j => heard[i] < heard[j]
  /\ \A i \in 1..Len(heard) : heard[i] <= written

WaitingInOrder ==
  /\ \A i, j \in 1..Len(reports) : i < j => reports[i] < reports[j]
  /\ \A i \in 1..Len(reports) : reports[i] <= written
  /\ \A i \in 1..Len(heard), j \in 1..Len(reports) : heard[i] < reports[j]

SentInOrder ==
  /\ \A i, j \in 1..Len(downstream) :
       i < j /\ IsOutput(downstream[i]) /\ IsOutput(downstream[j]) =>
         downstream[i].output < downstream[j].output
  /\ \A j \in 1..Len(downstream) : IsOutput(downstream[j]) =>
       /\ downstream[j].output <= written
       /\ \A i \in 1..Len(heard) : heard[i] < downstream[j].output
       /\ \A i \in 1..Len(reports) : reports[i] < downstream[j].output

OrderInv == HeardInOrder /\ WaitingInOrder /\ SentInOrder

IInv ==
  /\ TypeInv /\ LockInv /\ LifeInv /\ ClosedIsQuiet
  /\ OneRequest /\ AnswerIsOwn /\ AcceptedInv /\ CountedWereAccepted
  /\ OrderInv

-----------------------------------------------------------------------------
(* The messages and the sequences they travel in.                            *)

LEMMA Messages ==
  /\ CloseMessage \in ToBroker /\ CloseMessage.type = "close"
  /\ \A n \in ReportIds : Submit(n) \in ToBroker
  /\ \A n \in Nat, ok \in BOOLEAN :
       Response(n, ok) \in ToClient /\ IsResponse(Response(n, ok))
  /\ \A n \in Outputs :
       Output(n) \in ToClient /\ IsOutput(Output(n)) /\ ~IsResponse(Output(n))
BY DEF CloseMessage, ToBroker, ToClient, Submit, Response, Output, IsResponse, IsOutput

LEMMA MessageFields ==
  /\ \A m \in ToClient : IsResponse(m) => m.report \in Nat /\ m.ok \in BOOLEAN
  /\ \A m \in ToClient : ~IsResponse(m) => IsOutput(m) /\ m.output \in Outputs
  /\ \A m \in ToBroker : m.type = "submit" => m.report \in ReportIds /\ m = Submit(m.report)
BY DEF CloseMessage, ToBroker, ToClient, Submit, IsResponse, IsOutput

\* What follows the first element of a sequence.
LEMMA Shorter ==
  ASSUME NEW S, NEW s \in Seq(S), s # <<>>
  PROVE  /\ Head(s) \in S /\ Head(s) = s[1] /\ 1 \in 1..Len(s)
         /\ Tail(s) \in Seq(S) /\ Len(s) \in Nat /\ Len(Tail(s)) = Len(s) - 1
         /\ \A i \in 1..Len(Tail(s)) : i + 1 \in 1..Len(s) /\ Tail(s)[i] = s[i + 1]
BY HeadTailProperties, LenProperties, EmptySeq

\* What the broker sends arrives behind what is in the socket, if that is in use.
LEMMA Delivered ==
  ASSUME downstream \in Seq(ToClient), NEW m \in ToClient, Deliver(m)
  PROVE  /\ downstream' \in Seq(ToClient)
         /\ Len(downstream) \in Nat
         /\ fd # "open" => downstream' = downstream
         /\ fd = "open" => /\ Len(downstream') = Len(downstream) + 1
                           /\ downstream'[Len(downstream) + 1] = m
                           /\ \A i \in 1..Len(downstream) : downstream'[i] = downstream[i]
BY AppendProperties, LenProperties DEF Deliver
LEMMA TypesAreRight == TypeInv => TypeOK
BY DEF TypeInv, ThreadTypes, FlagTypes, MessageTypes, ReportTypes, TypeOK, ReportIds,
  Answers, Outputs

LEMMA ThreadFacts ==
  /\ Worker \in Threads /\ None \notin Threads /\ Clients \subseteq Threads
  /\ \A t \in Threads : t # Worker => t \in Clients
  /\ Worker \notin Clients
BY MacosAssumption DEF Threads

\* The types are kept: those of the threads,
LEMMA ThreadTypesNext ==
  ASSUME ThreadTypes, [Next]_vars PROVE ThreadTypes'
<1> USE MacosAssumption, ThreadFacts DEF ThreadTypes, Labels, Sending
<1>1. ASSUME Create PROVE ThreadTypes'
  BY <1>1 DEF Create, handleVars, threadVars, callbackVars, brokerVars
<1>2. ASSUME CreateDisconnected PROVE ThreadTypes'
  BY <1>2 DEF CreateDisconnected, handleVars, threadVars, callbackVars, brokerVars
<1>3. ASSUME Construct PROVE ThreadTypes'
  BY <1>3 DEF Construct, Unanswered, handleVars, threadVars, callbackVars, brokerVars
<1>4. ASSUME ReaderTakes PROVE ThreadTypes'
  BY <1>4 DEF ReaderTakes, handleVars, threadVars, brokerVars
<1>5. ASSUME ReaderEnds PROVE ThreadTypes'
  BY <1>5 DEF ReaderEnds, handleVars, threadVars, brokerVars
<1>6. ASSUME WorkerTakes PROVE ThreadTypes'
  BY <1>6 DEF WorkerTakes, Goto, handleVars, clientVars, brokerVars
<1>7. ASSUME CallbackReturns PROVE ThreadTypes'
  BY <1>7 DEF CallbackReturns, Goto, handleVars, clientVars, callbackVars, brokerVars
<1>8. ASSUME WorkerEnds PROVE ThreadTypes'
  BY <1>8 DEF WorkerEnds, Goto, handleVars, clientVars, callbackVars, brokerVars
<1>9. ASSUME ProcessDies PROVE ThreadTypes'
  BY <1>9 DEF ProcessDies, handleVars, callbackVars, brokerVars
<1>10. ASSUME AnswerCreate PROVE ThreadTypes'
  BY <1>10 DEF AnswerCreate, Deliver, Response, handleVars, threadVars, clientVars,
    callbackVars
<1>11. ASSUME NEW ok \in BOOLEAN, ReceiveSubmit(ok) PROVE ThreadTypes'
  BY <1>11 DEF ReceiveSubmit, Deliver, Response, handleVars, threadVars, clientVars,
    callbackVars
<1>12. ASSUME Revoke PROVE ThreadTypes'
  BY <1>12 DEF Revoke, handleVars, threadVars, clientVars, callbackVars
<1>13. ASSUME BrokerDies PROVE ThreadTypes'
  BY <1>13 DEF BrokerDies, handleVars, threadVars, clientVars, callbackVars
<1>14. ASSUME ReceiveEnd PROVE ThreadTypes'
  BY <1>14 DEF ReceiveEnd, handleVars, threadVars, clientVars, callbackVars
<1>15. ASSUME EndSession PROVE ThreadTypes'
  BY <1>15 DEF EndSession, handleVars, threadVars, clientVars, callbackVars
<1>16. ASSUME HostWrites PROVE ThreadTypes'
  BY <1>16 DEF HostWrites, Deliver, Output, handleVars, threadVars, clientVars,
    callbackVars
<1>17. ASSUME NEW t \in Threads, CallSubmit(t) PROVE ThreadTypes'
  BY <1>17 DEF CallSubmit, Call, Home, handleVars, clientVars, callbackVars,
    brokerVars
<1>18. ASSUME NEW t \in Threads, CallClose(t) PROVE ThreadTypes'
  BY <1>18 DEF CallClose, Call, Home, handleVars, clientVars, callbackVars,
    brokerVars
<1>19. ASSUME NEW t \in Threads, NEW c \in BOOLEAN, SetOutputCallback(t, c)
      PROVE ThreadTypes'
  BY <1>19 DEF SetOutputCallback, handleVars, clientVars, brokerVars
<1>20. ASSUME NEW t \in Threads, EnterClosed(t) PROVE ThreadTypes'
  BY <1>20 DEF EnterClosed, Goto, Home, handleVars, clientVars, callbackVars,
    brokerVars
<1>21. ASSUME NEW t \in Threads, EnterSubmit(t) PROVE ThreadTypes'
  BY <1>21 DEF EnterSubmit, Goto, clientVars, callbackVars, brokerVars
<1>22. ASSUME NEW t \in Threads, SendReport(t) PROVE ThreadTypes'
  BY <1>22 DEF SendReport, Unanswered, Submit, Goto, handleVars, callbackVars,
    brokerVars
<1>23. ASSUME NEW t \in Threads, SendFails(t) PROVE ThreadTypes'
  BY <1>23 DEF SendFails, Unanswered, FinishSubmit, callbackVars, brokerVars, Goto
<1>24. ASSUME NEW t \in Threads, Answered(t) PROVE ThreadTypes'
  BY <1>24 DEF Answered, Goto, handleVars, FinishSubmit, clientVars, callbackVars,
    brokerVars
<1>25. ASSUME NEW t \in Threads, AnswerLost(t) PROVE ThreadTypes'
  BY <1>25 DEF AnswerLost, FinishSubmit, clientVars, callbackVars, brokerVars, Goto
<1>26. ASSUME NEW t \in Threads, TimesOut(t) PROVE ThreadTypes'
  BY <1>26 DEF TimesOut, FinishSubmit, callbackVars, brokerVars, Goto
<1>27. ASSUME NEW t \in Threads, EnterClose(t) PROVE ThreadTypes'
  BY <1>27 DEF EnterClose, Goto, clientVars, callbackVars, brokerVars
<1>28. ASSUME NEW t \in Threads, CloseSocket(t) PROVE ThreadTypes'
  BY <1>28 DEF CloseSocket, CloseMessage, Goto, handleVars, callbackVars, brokerVars
<1>29. ASSUME NEW t \in Threads, JoinReader(t) PROVE ThreadTypes'
  BY <1>29 DEF JoinReader, Goto, handleVars, clientVars, brokerVars
<1>30. ASSUME NEW t \in Threads, FinishClose(t) PROVE ThreadTypes'
  BY <1>30 DEF FinishClose, Goto, Home, clientVars, brokerVars
<1>31. CASE UNCHANGED vars
  BY <1>31 DEF vars, handleVars, threadVars, clientVars, callbackVars, brokerVars
<1> HIDE DEF ThreadTypes
<1>32. QED
  BY <1>1, <1>2, <1>3, <1>4, <1>5, <1>6, <1>7, <1>8, <1>9, <1>10, <1>11, <1>12,
    <1>13, <1>14, <1>15, <1>16, <1>17, <1>18, <1>19, <1>20, <1>21, <1>22, <1>23,
    <1>24, <1>25, <1>26, <1>27, <1>28, <1>29, <1>30, <1>31 DEF Next, Creation,
    Reader, CallbackThread, Serving, Broker, Application, Inside

\* of the flags and states,
LEMMA FlagTypesNext ==
  ASSUME FlagTypes, [Next]_vars PROVE FlagTypes'
<1> USE MacosAssumption, ThreadFacts DEF FlagTypes
<1>1. ASSUME Create PROVE FlagTypes'
  BY <1>1 DEF Create, handleVars, threadVars, callbackVars, brokerVars
<1>2. ASSUME CreateDisconnected PROVE FlagTypes'
  BY <1>2 DEF CreateDisconnected, handleVars, threadVars, callbackVars, brokerVars
<1>3. ASSUME Construct PROVE FlagTypes'
  BY <1>3 DEF Construct, Unanswered, handleVars, threadVars, callbackVars, brokerVars
<1>4. ASSUME ReaderTakes PROVE FlagTypes'
  BY <1>4 DEF ReaderTakes, handleVars, threadVars, brokerVars
<1>5. ASSUME ReaderEnds PROVE FlagTypes'
  BY <1>5 DEF ReaderEnds, handleVars, threadVars, brokerVars
<1>6. ASSUME WorkerTakes PROVE FlagTypes'
  BY <1>6 DEF WorkerTakes, Goto, handleVars, clientVars, brokerVars
<1>7. ASSUME CallbackReturns PROVE FlagTypes'
  BY <1>7 DEF CallbackReturns, Goto, handleVars, clientVars, callbackVars, brokerVars
<1>8. ASSUME WorkerEnds PROVE FlagTypes'
  BY <1>8 DEF WorkerEnds, Goto, handleVars, clientVars, callbackVars, brokerVars
<1>9. ASSUME ProcessDies PROVE FlagTypes'
  BY <1>9 DEF ProcessDies, handleVars, callbackVars, brokerVars
<1>10. ASSUME AnswerCreate PROVE FlagTypes'
  BY <1>10 DEF AnswerCreate, Deliver, Response, handleVars, threadVars, clientVars,
    callbackVars
<1>11. ASSUME NEW ok \in BOOLEAN, ReceiveSubmit(ok) PROVE FlagTypes'
  BY <1>11 DEF ReceiveSubmit, Deliver, Response, handleVars, threadVars, clientVars,
    callbackVars
<1>12. ASSUME Revoke PROVE FlagTypes'
  BY <1>12 DEF Revoke, handleVars, threadVars, clientVars, callbackVars
<1>13. ASSUME BrokerDies PROVE FlagTypes'
  BY <1>13 DEF BrokerDies, handleVars, threadVars, clientVars, callbackVars
<1>14. ASSUME ReceiveEnd PROVE FlagTypes'
  BY <1>14 DEF ReceiveEnd, handleVars, threadVars, clientVars, callbackVars
<1>15. ASSUME EndSession PROVE FlagTypes'
  BY <1>15 DEF EndSession, handleVars, threadVars, clientVars, callbackVars
<1>16. ASSUME HostWrites PROVE FlagTypes'
  BY <1>16 DEF HostWrites, Deliver, Output, handleVars, threadVars, clientVars,
    callbackVars
<1>17. ASSUME NEW t \in Threads, CallSubmit(t) PROVE FlagTypes'
  BY <1>17 DEF CallSubmit, Call, Home, handleVars, clientVars, callbackVars,
    brokerVars
<1>18. ASSUME NEW t \in Threads, CallClose(t) PROVE FlagTypes'
  BY <1>18 DEF CallClose, Call, Home, handleVars, clientVars, callbackVars,
    brokerVars
<1>19. ASSUME NEW t \in Threads, NEW c \in BOOLEAN, SetOutputCallback(t, c) PROVE FlagTypes'
  BY <1>19 DEF SetOutputCallback, handleVars, clientVars, brokerVars
<1>20. ASSUME NEW t \in Threads, EnterClosed(t) PROVE FlagTypes'
  BY <1>20 DEF EnterClosed, Goto, Home, handleVars, clientVars, callbackVars,
    brokerVars
<1>21. ASSUME NEW t \in Threads, EnterSubmit(t) PROVE FlagTypes'
  BY <1>21 DEF EnterSubmit, Goto, clientVars, callbackVars, brokerVars
<1>22. ASSUME NEW t \in Threads, SendReport(t) PROVE FlagTypes'
  BY <1>22 DEF SendReport, Unanswered, Submit, Goto, handleVars, callbackVars,
    brokerVars
<1>23. ASSUME NEW t \in Threads, SendFails(t) PROVE FlagTypes'
  BY <1>23 DEF SendFails, Unanswered, FinishSubmit, callbackVars, brokerVars, Goto
<1>24. ASSUME NEW t \in Threads, Answered(t) PROVE FlagTypes'
  BY <1>24 DEF Answered, Goto, handleVars, FinishSubmit, clientVars, callbackVars,
    brokerVars
<1>25. ASSUME NEW t \in Threads, AnswerLost(t) PROVE FlagTypes'
  BY <1>25 DEF AnswerLost, FinishSubmit, clientVars, callbackVars, brokerVars, Goto
<1>26. ASSUME NEW t \in Threads, TimesOut(t) PROVE FlagTypes'
  BY <1>26 DEF TimesOut, FinishSubmit, callbackVars, brokerVars, Goto
<1>27. ASSUME NEW t \in Threads, EnterClose(t) PROVE FlagTypes'
  BY <1>27 DEF EnterClose, Goto, clientVars, callbackVars, brokerVars
<1>28. ASSUME NEW t \in Threads, CloseSocket(t) PROVE FlagTypes'
  BY <1>28 DEF CloseSocket, CloseMessage, Goto, handleVars, callbackVars, brokerVars
<1>29. ASSUME NEW t \in Threads, JoinReader(t) PROVE FlagTypes'
  BY <1>29 DEF JoinReader, Goto, handleVars, clientVars, brokerVars
<1>30. ASSUME NEW t \in Threads, FinishClose(t) PROVE FlagTypes'
  BY <1>30 DEF FinishClose, Goto, Home, clientVars, brokerVars
<1>31. CASE UNCHANGED vars
  BY <1>31 DEF vars, handleVars, threadVars, clientVars, callbackVars, brokerVars
<1> HIDE DEF FlagTypes
<1>32. QED
  BY <1>1, <1>2, <1>3, <1>4, <1>5, <1>6, <1>7, <1>8, <1>9, <1>10, <1>11, <1>12,
    <1>13, <1>14, <1>15, <1>16, <1>17, <1>18, <1>19, <1>20, <1>21, <1>22, <1>23,
    <1>24, <1>25, <1>26, <1>27, <1>28, <1>29, <1>30, <1>31 DEF Next, Creation,
    Reader, CallbackThread, Serving, Broker, Application, Inside

\* of what is sent,
LEMMA MessageTypesNext ==
  ASSUME MessageTypes, ReportTypes, [Next]_vars PROVE MessageTypes'
<1> USE DEF MessageTypes
<1>1. ASSUME Create PROVE MessageTypes'
  BY <1>1, Shorter DEF Create, brokerVars, callbackVars
<1>2. ASSUME CreateDisconnected PROVE MessageTypes'
  BY <1>2 DEF CreateDisconnected, handleVars, threadVars, callbackVars, brokerVars
<1>3. ASSUME Construct PROVE MessageTypes'
  BY <1>3 DEF Construct, Unanswered, Answers, callbackVars, brokerVars
<1>4. ASSUME ReaderTakes PROVE MessageTypes'
  <2>1. downstream' \in Seq(ToClient) /\ Head(downstream) \in ToClient
    BY <1>4, Shorter DEF ReaderTakes
  <2>2. UNCHANGED <<heard, upstream, written>>
    BY <1>4 DEF ReaderTakes, brokerVars
  <2>3. CASE IsResponse(Head(downstream))
    <3>1. /\ answer' = [ready |-> TRUE, report |-> Head(downstream).report,
                        ok |-> Head(downstream).ok]
          /\ UNCHANGED reports
      BY <1>4, <2>3 DEF ReaderTakes, IsResponse
    <3>2. answer' \in Answers
      BY <2>1, <2>3, <3>1, MessageFields DEF Answers
    <3>3. QED
      BY <2>1, <2>2, <3>1, <3>2
  <2>4. CASE ~IsResponse(Head(downstream))
    <3>1. Head(downstream).output \in Outputs
      BY <2>1, <2>4, MessageFields
    <3>2. /\ reports' = IF Len(reports) < QueueLimit
                          THEN Append(reports, Head(downstream).output) ELSE reports
          /\ UNCHANGED answer
      BY <1>4, <2>4 DEF ReaderTakes, IsResponse
    <3>3. reports' \in Seq(Outputs) /\ Len(reports') <= QueueLimit
      BY <3>1, <3>2, AppendProperties, LenProperties, MacosAssumption
    <3>4. QED
      BY <2>1, <2>2, <3>2, <3>3
  <2>5. QED
    BY <2>3, <2>4
<1>5. ASSUME ReaderEnds PROVE MessageTypes'
  BY <1>5 DEF ReaderEnds, handleVars, threadVars, brokerVars
<1>6. ASSUME WorkerTakes PROVE MessageTypes'
  <2>1. /\ Head(reports) \in Outputs /\ reports' = Tail(reports)
        /\ reports' \in Seq(Outputs) /\ Len(reports') <= QueueLimit
    BY <1>6, Shorter, MacosAssumption DEF WorkerTakes
  <2>2. heard' \in {heard, Append(heard, Head(reports))}
    BY <1>6 DEF WorkerTakes
  <2>3. heard \in Seq(Outputs) /\ Append(heard, Head(reports)) \in Seq(Outputs)
    BY <2>1, AppendProperties
  <2>4. QED
    BY <1>6, <2>1, <2>2, <2>3 DEF WorkerTakes, clientVars, brokerVars
<1>7. ASSUME CallbackReturns PROVE MessageTypes'
  BY <1>7 DEF CallbackReturns, Goto, handleVars, clientVars, callbackVars, brokerVars
<1>8. ASSUME WorkerEnds PROVE MessageTypes'
  BY <1>8 DEF WorkerEnds, Goto, handleVars, clientVars, callbackVars, brokerVars
<1>9. ASSUME ProcessDies PROVE MessageTypes'
  BY <1>9 DEF ProcessDies, handleVars, callbackVars, brokerVars
<1>10. ASSUME AnswerCreate PROVE MessageTypes'
  <2>1. downstream' \in Seq(ToClient)
    BY <1>10, Messages, Delivered DEF AnswerCreate
  <2>2. QED
    BY <1>10, <2>1 DEF AnswerCreate, clientVars, callbackVars
<1>11. ASSUME NEW ok \in BOOLEAN, ReceiveSubmit(ok) PROVE MessageTypes'
  <2>1. /\ upstream' = Tail(upstream) /\ upstream' \in Seq(ToBroker)
        /\ Head(upstream).report \in ReportIds
    BY <1>11, Shorter, MessageFields DEF ReceiveSubmit
  <2>2. Deliver(Response(Head(upstream).report, ok))
    BY <1>11 DEF ReceiveSubmit
  <2>3. downstream' \in Seq(ToClient)
    BY <2>1, <2>2, Messages, Delivered DEF ReportIds
  <2>4. QED
    BY <1>11, <2>1, <2>3 DEF ReceiveSubmit, clientVars, callbackVars
<1>12. ASSUME Revoke PROVE MessageTypes'
  BY <1>12 DEF Revoke, handleVars, threadVars, clientVars, callbackVars
<1>13. ASSUME BrokerDies PROVE MessageTypes'
  BY <1>13 DEF BrokerDies, handleVars, threadVars, clientVars, callbackVars
<1>14. ASSUME ReceiveEnd PROVE MessageTypes'
  BY <1>14 DEF ReceiveEnd, handleVars, threadVars, clientVars, callbackVars
<1>15. ASSUME EndSession PROVE MessageTypes'
  BY <1>15 DEF EndSession, handleVars, threadVars, clientVars, callbackVars
<1>16. ASSUME HostWrites PROVE MessageTypes'
  <2>1. written' = written + 1 /\ written' \in Outputs /\ Deliver(Output(written'))
    BY <1>16, MacosAssumption DEF HostWrites, Outputs
  <2>2. downstream' \in Seq(ToClient)
    BY <2>1, Messages, Delivered
  <2>3. QED
    BY <1>16, <2>1, <2>2, MacosAssumption DEF HostWrites, Outputs, clientVars, callbackVars
<1>17. ASSUME NEW t \in Threads, CallSubmit(t) PROVE MessageTypes'
  BY <1>17 DEF CallSubmit, Call, Home, handleVars, clientVars, callbackVars,
    brokerVars
<1>18. ASSUME NEW t \in Threads, CallClose(t) PROVE MessageTypes'
  BY <1>18 DEF CallClose, Call, Home, handleVars, clientVars, callbackVars,
    brokerVars
<1>19. ASSUME NEW t \in Threads, NEW c \in BOOLEAN, SetOutputCallback(t, c)
      PROVE MessageTypes'
  BY <1>19 DEF SetOutputCallback, handleVars, clientVars, brokerVars
<1>20. ASSUME NEW t \in Threads, EnterClosed(t) PROVE MessageTypes'
  BY <1>20 DEF EnterClosed, Goto, Home, handleVars, clientVars, callbackVars,
    brokerVars
<1>21. ASSUME NEW t \in Threads, EnterSubmit(t) PROVE MessageTypes'
  BY <1>21 DEF EnterSubmit, Goto, clientVars, callbackVars, brokerVars
<1>22. ASSUME NEW t \in Threads, SendReport(t) PROVE MessageTypes'
  <2>1. sent + 1 \in ReportIds /\ upstream' = Append(upstream, Submit(sent + 1))
    BY <1>22 DEF SendReport, ReportTypes, ReportIds
  <2>2. upstream' \in Seq(ToBroker)
    BY <2>1, Messages, AppendProperties
  <2>3. QED
    BY <1>22, <2>2 DEF SendReport, Unanswered, Answers, callbackVars, brokerVars
<1>23. ASSUME NEW t \in Threads, SendFails(t) PROVE MessageTypes'
  BY <1>23 DEF SendFails, Unanswered, Answers, callbackVars, brokerVars
<1>24. ASSUME NEW t \in Threads, Answered(t) PROVE MessageTypes'
  BY <1>24 DEF Answered, Goto, handleVars, FinishSubmit, clientVars, callbackVars,
    brokerVars
<1>25. ASSUME NEW t \in Threads, AnswerLost(t) PROVE MessageTypes'
  BY <1>25 DEF AnswerLost, FinishSubmit, clientVars, callbackVars, brokerVars, Goto
<1>26. ASSUME NEW t \in Threads, TimesOut(t) PROVE MessageTypes'
  BY <1>26 DEF TimesOut, FinishSubmit, callbackVars, brokerVars, Goto
<1>27. ASSUME NEW t \in Threads, EnterClose(t) PROVE MessageTypes'
  BY <1>27 DEF EnterClose, Goto, clientVars, callbackVars, brokerVars
<1>28. ASSUME NEW t \in Threads, CloseSocket(t) PROVE MessageTypes'
  <2>1. upstream' \in Seq(ToBroker)
    BY <1>28, Messages, AppendProperties DEF CloseSocket
  <2>2. QED
    BY <1>28, <2>1 DEF CloseSocket, callbackVars, brokerVars
<1>29. ASSUME NEW t \in Threads, JoinReader(t) PROVE MessageTypes'
  BY <1>29 DEF JoinReader, Goto, handleVars, clientVars, brokerVars
<1>30. ASSUME NEW t \in Threads, FinishClose(t) PROVE MessageTypes'
  BY <1>30 DEF FinishClose, Goto, Home, clientVars, brokerVars
<1>31. CASE UNCHANGED vars
  BY <1>31 DEF vars, handleVars, threadVars, clientVars, callbackVars, brokerVars
<1> HIDE DEF MessageTypes
<1>32. QED
  BY <1>1, <1>2, <1>3, <1>4, <1>5, <1>6, <1>7, <1>8, <1>9, <1>10, <1>11, <1>12,
    <1>13, <1>14, <1>15, <1>16, <1>17, <1>18, <1>19, <1>20, <1>21, <1>22, <1>23,
    <1>24, <1>25, <1>26, <1>27, <1>28, <1>29, <1>30, <1>31 DEF Next, Creation,
    Reader, CallbackThread, Serving, Broker, Application, Inside

\* and of the reports.
LEMMA ReportTypesNext ==
  ASSUME ThreadTypes, MessageTypes, ReportTypes, AcceptedInv, [Next]_vars PROVE ReportTypes'
<1> USE DEF ReportTypes
<1>1. ASSUME Create PROVE ReportTypes'
  BY <1>1 DEF Create, handleVars, threadVars, callbackVars, brokerVars
<1>2. ASSUME CreateDisconnected PROVE ReportTypes'
  BY <1>2 DEF CreateDisconnected, handleVars, threadVars, callbackVars, brokerVars
<1>3. ASSUME Construct PROVE ReportTypes'
  BY <1>3 DEF Construct, Unanswered, handleVars, threadVars, callbackVars, brokerVars
<1>4. ASSUME ReaderTakes PROVE ReportTypes'
  BY <1>4 DEF ReaderTakes, handleVars, threadVars, brokerVars
<1>5. ASSUME ReaderEnds PROVE ReportTypes'
  BY <1>5 DEF ReaderEnds, handleVars, threadVars, brokerVars
<1>6. ASSUME WorkerTakes PROVE ReportTypes'
  BY <1>6 DEF WorkerTakes, Goto, handleVars, clientVars, brokerVars
<1>7. ASSUME CallbackReturns PROVE ReportTypes'
  BY <1>7 DEF CallbackReturns, Goto, handleVars, clientVars, callbackVars, brokerVars
<1>8. ASSUME WorkerEnds PROVE ReportTypes'
  BY <1>8 DEF WorkerEnds, Goto, handleVars, clientVars, callbackVars, brokerVars
<1>9. ASSUME ProcessDies PROVE ReportTypes'
  BY <1>9 DEF ProcessDies, handleVars, callbackVars, brokerVars
<1>10. ASSUME AnswerCreate PROVE ReportTypes'
  BY <1>10 DEF AnswerCreate, Deliver, Response, handleVars, threadVars, clientVars,
    callbackVars
<1>11. ASSUME NEW ok \in BOOLEAN, ReceiveSubmit(ok) PROVE ReportTypes'
  <2>1. Head(upstream).report \in ReportIds
    BY <1>11, Shorter, MessageFields DEF ReceiveSubmit, MessageTypes
  <2>2. accepted' \subseteq ReportIds
    BY <1>11, <2>1 DEF ReceiveSubmit
  <2>3. QED
    BY <1>11, <2>2 DEF ReceiveSubmit, handleVars
<1>12. ASSUME Revoke PROVE ReportTypes'
  BY <1>12 DEF Revoke, handleVars, threadVars, clientVars, callbackVars
<1>13. ASSUME BrokerDies PROVE ReportTypes'
  BY <1>13 DEF BrokerDies, handleVars, threadVars, clientVars, callbackVars
<1>14. ASSUME ReceiveEnd PROVE ReportTypes'
  BY <1>14 DEF ReceiveEnd, handleVars, threadVars, clientVars, callbackVars
<1>15. ASSUME EndSession PROVE ReportTypes'
  BY <1>15 DEF EndSession, handleVars, threadVars, clientVars, callbackVars
<1>16. ASSUME HostWrites PROVE ReportTypes'
  BY <1>16 DEF HostWrites, Deliver, Output, handleVars, threadVars, clientVars,
    callbackVars
<1>17. ASSUME NEW t \in Threads, CallSubmit(t) PROVE ReportTypes'
  BY <1>17 DEF CallSubmit, Call, Home, handleVars, clientVars, callbackVars,
    brokerVars
<1>18. ASSUME NEW t \in Threads, CallClose(t) PROVE ReportTypes'
  BY <1>18 DEF CallClose, Call, Home, handleVars, clientVars, callbackVars,
    brokerVars
<1>19. ASSUME NEW t \in Threads, NEW c \in BOOLEAN, SetOutputCallback(t, c)
      PROVE ReportTypes'
  BY <1>19 DEF SetOutputCallback, handleVars, clientVars, brokerVars
<1>20. ASSUME NEW t \in Threads, EnterClosed(t) PROVE ReportTypes'
  BY <1>20 DEF EnterClosed, Goto, Home, handleVars, clientVars, callbackVars,
    brokerVars
<1>21. ASSUME NEW t \in Threads, EnterSubmit(t) PROVE ReportTypes'
  BY <1>21 DEF EnterSubmit, Goto, clientVars, callbackVars, brokerVars
<1>22. ASSUME NEW t \in Threads, SendReport(t) PROVE ReportTypes'
  BY <1>22 DEF SendReport, handleVars, brokerVars, ReportIds
<1>23. ASSUME NEW t \in Threads, SendFails(t) PROVE ReportTypes'
  BY <1>23 DEF SendFails, Unanswered, FinishSubmit, callbackVars, brokerVars, Goto
<1>24. ASSUME NEW t \in Threads, Answered(t) PROVE ReportTypes'
  <2>1. t \in Clients /\ left[t] # 0 /\ left[t] \in 0..NumReports
    BY <1>24, ThreadFacts DEF Answered, ThreadTypes, Sending
  <2>2. accepted' = accepted /\ sent' = sent
    BY <1>24 DEF Answered, brokerVars
  <2>3. CASE answer.ok /\ left[t] > 1
    BY <1>24, <2>2, <2>3 DEF Answered, handleVars
  <2>4. CASE ~(answer.ok /\ left[t] > 1)
    <3>1. counted' = IF answer.ok THEN counted \cup ((sent - NumReports + 1)..sent)
                                 ELSE counted
      BY <1>24, <2>4 DEF Answered, FinishSubmit
    <3>2. ASSUME answer.ok
          PROVE  ((sent - NumReports + 1)..sent) \subseteq ReportIds
      <4>1. left[t] = 1 /\ sent \in ReportIds
        BY <1>24, <2>1, <2>4, <3>2, MacosAssumption DEF Answered, AcceptedInv, ReportIds
      <4>2. ((sent - (NumReports - 1))..(sent - 1)) \subseteq ReportIds
        BY <1>24, <2>1, <4>1 DEF Answered, AcceptedInv
      <4>3. \A n \in (sent - NumReports + 1)..sent :
              n \in (sent - (NumReports - 1))..(sent - 1) \/ n = sent
        BY <4>1, MacosAssumption DEF ReportIds
      <4>4. QED
        BY <4>1, <4>2, <4>3
    <3>3. QED
      BY <2>2, <3>1, <3>2
  <2>5. QED
    BY <2>3, <2>4
<1>25. ASSUME NEW t \in Threads, AnswerLost(t) PROVE ReportTypes'
  BY <1>25 DEF AnswerLost, FinishSubmit, clientVars, callbackVars, brokerVars, Goto
<1>26. ASSUME NEW t \in Threads, TimesOut(t) PROVE ReportTypes'
  BY <1>26 DEF TimesOut, FinishSubmit, callbackVars, brokerVars, Goto
<1>27. ASSUME NEW t \in Threads, EnterClose(t) PROVE ReportTypes'
  BY <1>27 DEF EnterClose, Goto, clientVars, callbackVars, brokerVars
<1>28. ASSUME NEW t \in Threads, CloseSocket(t) PROVE ReportTypes'
  BY <1>28 DEF CloseSocket, CloseMessage, Goto, handleVars, callbackVars, brokerVars
<1>29. ASSUME NEW t \in Threads, JoinReader(t) PROVE ReportTypes'
  BY <1>29 DEF JoinReader, Goto, handleVars, clientVars, brokerVars
<1>30. ASSUME NEW t \in Threads, FinishClose(t) PROVE ReportTypes'
  BY <1>30 DEF FinishClose, Goto, Home, clientVars, brokerVars
<1>31. CASE UNCHANGED vars
  BY <1>31 DEF vars, handleVars, threadVars, clientVars, callbackVars, brokerVars
<1> HIDE DEF ReportTypes
<1>32. QED
  BY <1>1, <1>2, <1>3, <1>4, <1>5, <1>6, <1>7, <1>8, <1>9, <1>10, <1>11, <1>12,
    <1>13, <1>14, <1>15, <1>16, <1>17, <1>18, <1>19, <1>20, <1>21, <1>22, <1>23,
    <1>24, <1>25, <1>26, <1>27, <1>28, <1>29, <1>30, <1>31 DEF Next, Creation,
    Reader, CallbackThread, Serving, Broker, Application, Inside

\* No thread enters while another is inside.
LEMMA LockInvNext ==
  ASSUME ThreadTypes, LockInv, [Next]_vars PROVE LockInv'
<1> USE ThreadFacts DEF ThreadTypes, LockInv, Sending, Closing
<1>1. ASSUME Create PROVE LockInv'
  BY <1>1 DEF Create, handleVars, threadVars, callbackVars, brokerVars
<1>2. ASSUME CreateDisconnected PROVE LockInv'
  BY <1>2 DEF CreateDisconnected, handleVars, threadVars, callbackVars, brokerVars
<1>3. ASSUME Construct PROVE LockInv'
  BY <1>3 DEF Construct, Unanswered, handleVars, threadVars, callbackVars, brokerVars
<1>4. ASSUME ReaderTakes PROVE LockInv'
  BY <1>4 DEF ReaderTakes, handleVars, threadVars, brokerVars
<1>5. ASSUME ReaderEnds PROVE LockInv'
  BY <1>5 DEF ReaderEnds, handleVars, threadVars, brokerVars
<1>6. ASSUME WorkerTakes PROVE LockInv'
  BY <1>6 DEF WorkerTakes, Goto, handleVars, clientVars, brokerVars
<1>7. ASSUME CallbackReturns PROVE LockInv'
  BY <1>7 DEF CallbackReturns, Goto, handleVars, clientVars, callbackVars, brokerVars
<1>8. ASSUME WorkerEnds PROVE LockInv'
  BY <1>8 DEF WorkerEnds, Goto, handleVars, clientVars, callbackVars, brokerVars
<1>9. ASSUME ProcessDies PROVE LockInv'
  BY <1>9 DEF ProcessDies, handleVars, callbackVars, brokerVars
<1>10. ASSUME AnswerCreate PROVE LockInv'
  BY <1>10 DEF AnswerCreate, Deliver, Response, handleVars, threadVars, clientVars,
    callbackVars
<1>11. ASSUME NEW ok \in BOOLEAN, ReceiveSubmit(ok) PROVE LockInv'
  BY <1>11 DEF ReceiveSubmit, Deliver, Response, handleVars, threadVars, clientVars,
    callbackVars
<1>12. ASSUME Revoke PROVE LockInv'
  BY <1>12 DEF Revoke, handleVars, threadVars, clientVars, callbackVars
<1>13. ASSUME BrokerDies PROVE LockInv'
  BY <1>13 DEF BrokerDies, handleVars, threadVars, clientVars, callbackVars
<1>14. ASSUME ReceiveEnd PROVE LockInv'
  BY <1>14 DEF ReceiveEnd, handleVars, threadVars, clientVars, callbackVars
<1>15. ASSUME EndSession PROVE LockInv'
  BY <1>15 DEF EndSession, handleVars, threadVars, clientVars, callbackVars
<1>16. ASSUME HostWrites PROVE LockInv'
  BY <1>16 DEF HostWrites, Deliver, Output, handleVars, threadVars, clientVars,
    callbackVars
<1>17. ASSUME NEW t \in Threads, CallSubmit(t) PROVE LockInv'
  BY <1>17 DEF CallSubmit, Call, Home, handleVars, clientVars, callbackVars,
    brokerVars
<1>18. ASSUME NEW t \in Threads, CallClose(t) PROVE LockInv'
  BY <1>18 DEF CallClose, Call, Home, handleVars, clientVars, callbackVars,
    brokerVars
<1>19. ASSUME NEW t \in Threads, NEW c \in BOOLEAN, SetOutputCallback(t, c) PROVE LockInv'
  BY <1>19 DEF SetOutputCallback, handleVars, clientVars, brokerVars
<1>20. ASSUME NEW t \in Threads, EnterClosed(t) PROVE LockInv'
  BY <1>20 DEF EnterClosed, Goto, Home, handleVars, clientVars, callbackVars,
    brokerVars
<1>21. ASSUME NEW t \in Threads, EnterSubmit(t) PROVE LockInv'
  BY <1>21 DEF EnterSubmit, Goto, clientVars, callbackVars, brokerVars
<1>22. ASSUME NEW t \in Threads, SendReport(t) PROVE LockInv'
  BY <1>22 DEF SendReport, Unanswered, Submit, Goto, handleVars, callbackVars,
    brokerVars
<1>23. ASSUME NEW t \in Threads, SendFails(t) PROVE LockInv'
  BY <1>23 DEF SendFails, Unanswered, FinishSubmit, callbackVars, brokerVars, Goto
<1>24. ASSUME NEW t \in Threads, Answered(t) PROVE LockInv'
  BY <1>24 DEF Answered, Goto, handleVars, FinishSubmit, clientVars, callbackVars,
    brokerVars
<1>25. ASSUME NEW t \in Threads, AnswerLost(t) PROVE LockInv'
  BY <1>25 DEF AnswerLost, FinishSubmit, clientVars, callbackVars, brokerVars, Goto
<1>26. ASSUME NEW t \in Threads, TimesOut(t) PROVE LockInv'
  BY <1>26 DEF TimesOut, FinishSubmit, callbackVars, brokerVars, Goto
<1>27. ASSUME NEW t \in Threads, EnterClose(t) PROVE LockInv'
  BY <1>27 DEF EnterClose, Goto, clientVars, callbackVars, brokerVars
<1>28. ASSUME NEW t \in Threads, CloseSocket(t) PROVE LockInv'
  BY <1>28 DEF CloseSocket, CloseMessage, Goto, handleVars, callbackVars, brokerVars
<1>29. ASSUME NEW t \in Threads, JoinReader(t) PROVE LockInv'
  BY <1>29 DEF JoinReader, Goto, handleVars, clientVars, brokerVars
<1>30. ASSUME NEW t \in Threads, FinishClose(t) PROVE LockInv'
  BY <1>30 DEF FinishClose, Goto, Home, clientVars, brokerVars
<1>31. CASE UNCHANGED vars
  BY <1>31 DEF vars, handleVars, threadVars, clientVars, callbackVars, brokerVars
<1> HIDE DEF LockInv
<1>32. QED
  BY <1>1, <1>2, <1>3, <1>4, <1>5, <1>6, <1>7, <1>8, <1>9, <1>10, <1>11, <1>12,
    <1>13, <1>14, <1>15, <1>16, <1>17, <1>18, <1>19, <1>20, <1>21, <1>22, <1>23,
    <1>24, <1>25, <1>26, <1>27, <1>28, <1>29, <1>30, <1>31 DEF Next, Creation,
    Reader, CallbackThread, Serving, Broker, Application, Inside

\* The stages of creation and of the end are passed in order.
LEMMA LifeInvNext ==
  ASSUME TypeInv, LockInv, LifeInv, OneRequest, [Next]_vars PROVE LifeInv'
<1> USE ThreadFacts DEF TypeInv, ThreadTypes, FlagTypes, LockInv, LifeInv, Sending, Closing
<1>1. ASSUME Create PROVE LifeInv'
  <2>1. downstream # <<>> /\ Head(downstream) = downstream[1] /\ 1 \in 1..Len(downstream)
    BY <1>1, Shorter DEF Create, MessageTypes
  <2>2. Head(downstream).type = "response" => session # "activated"
    BY <1>1, <2>1 DEF Create, OneRequest, IsResponse
  <2>3. QED
    BY <1>1, <2>2 DEF Create, handleVars, threadVars, callbackVars, brokerVars
<1>2. ASSUME CreateDisconnected PROVE LifeInv'
  BY <1>2 DEF CreateDisconnected, handleVars, threadVars, callbackVars, brokerVars
<1>3. ASSUME Construct PROVE LifeInv'
  BY <1>3 DEF Construct, Unanswered, handleVars, threadVars, callbackVars, brokerVars
<1>4. ASSUME ReaderTakes PROVE LifeInv'
  BY <1>4 DEF ReaderTakes, handleVars, threadVars, brokerVars
<1>5. ASSUME ReaderEnds PROVE LifeInv'
  BY <1>5 DEF ReaderEnds, handleVars, threadVars, brokerVars
<1>6. ASSUME WorkerTakes PROVE LifeInv'
  BY <1>6 DEF WorkerTakes, Goto, handleVars, clientVars, brokerVars
<1>7. ASSUME CallbackReturns PROVE LifeInv'
  BY <1>7 DEF CallbackReturns, Goto, handleVars, clientVars, callbackVars, brokerVars
<1>8. ASSUME WorkerEnds PROVE LifeInv'
  BY <1>8 DEF WorkerEnds, Goto, handleVars, clientVars, callbackVars, brokerVars
<1>9. ASSUME ProcessDies PROVE LifeInv'
  BY <1>9 DEF ProcessDies, handleVars, callbackVars, brokerVars
<1>10. ASSUME AnswerCreate PROVE LifeInv'
  BY <1>10 DEF AnswerCreate, Deliver, Response, handleVars, threadVars, clientVars,
    callbackVars
<1>11. ASSUME NEW ok \in BOOLEAN, ReceiveSubmit(ok) PROVE LifeInv'
  BY <1>11 DEF ReceiveSubmit, Deliver, Response, handleVars, threadVars, clientVars,
    callbackVars
<1>12. ASSUME Revoke PROVE LifeInv'
  BY <1>12 DEF Revoke, handleVars, threadVars, clientVars, callbackVars
<1>13. ASSUME BrokerDies PROVE LifeInv'
  BY <1>13 DEF BrokerDies, handleVars, threadVars, clientVars, callbackVars
<1>14. ASSUME ReceiveEnd PROVE LifeInv'
  BY <1>14 DEF ReceiveEnd, handleVars, threadVars, clientVars, callbackVars
<1>15. ASSUME EndSession PROVE LifeInv'
  BY <1>15 DEF EndSession, handleVars, threadVars, clientVars, callbackVars
<1>16. ASSUME HostWrites PROVE LifeInv'
  BY <1>16 DEF HostWrites, Deliver, Output, handleVars, threadVars, clientVars,
    callbackVars
<1>17. ASSUME NEW t \in Threads, CallSubmit(t) PROVE LifeInv'
  BY <1>17 DEF CallSubmit, Call, Home, handleVars, clientVars, callbackVars,
    brokerVars
<1>18. ASSUME NEW t \in Threads, CallClose(t) PROVE LifeInv'
  BY <1>18 DEF CallClose, Call, Home, handleVars, clientVars, callbackVars,
    brokerVars
<1>19. ASSUME NEW t \in Threads, NEW c \in BOOLEAN, SetOutputCallback(t, c) PROVE LifeInv'
  BY <1>19 DEF SetOutputCallback, handleVars, clientVars, brokerVars
<1>20. ASSUME NEW t \in Threads, EnterClosed(t) PROVE LifeInv'
  BY <1>20 DEF EnterClosed, Goto, Home, handleVars, clientVars, callbackVars,
    brokerVars
<1>21. ASSUME NEW t \in Threads, EnterSubmit(t) PROVE LifeInv'
  BY <1>21 DEF EnterSubmit, Goto, clientVars, callbackVars, brokerVars
<1>22. ASSUME NEW t \in Threads, SendReport(t) PROVE LifeInv'
  BY <1>22 DEF SendReport, Unanswered, Submit, Goto, handleVars, callbackVars,
    brokerVars
<1>23. ASSUME NEW t \in Threads, SendFails(t) PROVE LifeInv'
  BY <1>23 DEF SendFails, Unanswered, FinishSubmit, callbackVars, brokerVars, Goto
<1>24. ASSUME NEW t \in Threads, Answered(t) PROVE LifeInv'
  BY <1>24 DEF Answered, Goto, handleVars, FinishSubmit, clientVars, callbackVars,
    brokerVars
<1>25. ASSUME NEW t \in Threads, AnswerLost(t) PROVE LifeInv'
  BY <1>25 DEF AnswerLost, FinishSubmit, clientVars, callbackVars, brokerVars, Goto
<1>26. ASSUME NEW t \in Threads, TimesOut(t) PROVE LifeInv'
  BY <1>26 DEF TimesOut, FinishSubmit, callbackVars, brokerVars, Goto
<1>27. ASSUME NEW t \in Threads, EnterClose(t) PROVE LifeInv'
  BY <1>27 DEF EnterClose, Goto, clientVars, callbackVars, brokerVars
<1>28. ASSUME NEW t \in Threads, CloseSocket(t) PROVE LifeInv'
  BY <1>28 DEF CloseSocket, CloseMessage, Goto, handleVars, callbackVars, brokerVars
<1>29. ASSUME NEW t \in Threads, JoinReader(t) PROVE LifeInv'
  BY <1>29 DEF JoinReader, Goto, handleVars, clientVars, brokerVars
<1>30. ASSUME NEW t \in Threads, FinishClose(t) PROVE LifeInv'
  BY <1>30 DEF FinishClose, Goto, Home, clientVars, brokerVars
<1>31. CASE UNCHANGED vars
  BY <1>31 DEF vars, handleVars, threadVars, clientVars, callbackVars, brokerVars
<1> HIDE DEF LifeInv
<1>32. QED
  BY <1>1, <1>2, <1>3, <1>4, <1>5, <1>6, <1>7, <1>8, <1>9, <1>10, <1>11, <1>12,
    <1>13, <1>14, <1>15, <1>16, <1>17, <1>18, <1>19, <1>20, <1>21, <1>22, <1>23,
    <1>24, <1>25, <1>26, <1>27, <1>28, <1>29, <1>30, <1>31 DEF Next, Creation,
    Reader, CallbackThread, Serving, Broker, Application, Inside

\* A gamepad that is closed stays quiet.
LEMMA QuietNext ==
  ASSUME TypeInv, LockInv, LifeInv, ClosedIsQuiet, [Next]_vars PROVE ClosedIsQuiet'
<1> USE ThreadFacts DEF TypeInv, ThreadTypes, FlagTypes, LockInv, LifeInv,
  ClosedIsQuiet, Sending, Closing
<1>1. ASSUME Create PROVE ClosedIsQuiet'
  BY <1>1 DEF Create, handleVars, threadVars, callbackVars, brokerVars
<1>2. ASSUME CreateDisconnected PROVE ClosedIsQuiet'
  BY <1>2 DEF CreateDisconnected, handleVars, threadVars, callbackVars, brokerVars
<1>3. ASSUME Construct PROVE ClosedIsQuiet'
  BY <1>3 DEF Construct, Unanswered, handleVars, threadVars, callbackVars, brokerVars
<1>4. ASSUME ReaderTakes PROVE ClosedIsQuiet'
  BY <1>4 DEF ReaderTakes, handleVars, threadVars, brokerVars
<1>5. ASSUME ReaderEnds PROVE ClosedIsQuiet'
  BY <1>5 DEF ReaderEnds, handleVars, threadVars, brokerVars
<1>6. ASSUME WorkerTakes PROVE ClosedIsQuiet'
  BY <1>6 DEF WorkerTakes, Goto, handleVars, clientVars, brokerVars
<1>7. ASSUME CallbackReturns PROVE ClosedIsQuiet'
  BY <1>7 DEF CallbackReturns, Goto, handleVars, clientVars, callbackVars, brokerVars
<1>8. ASSUME WorkerEnds PROVE ClosedIsQuiet'
  BY <1>8 DEF WorkerEnds, Goto, handleVars, clientVars, callbackVars, brokerVars
<1>9. ASSUME ProcessDies PROVE ClosedIsQuiet'
  BY <1>9 DEF ProcessDies, handleVars, callbackVars, brokerVars
<1>10. ASSUME AnswerCreate PROVE ClosedIsQuiet'
  BY <1>10 DEF AnswerCreate, Deliver, Response, handleVars, threadVars, clientVars,
    callbackVars
<1>11. ASSUME NEW ok \in BOOLEAN, ReceiveSubmit(ok) PROVE ClosedIsQuiet'
  BY <1>11 DEF ReceiveSubmit, Deliver, Response, handleVars, threadVars, clientVars,
    callbackVars
<1>12. ASSUME Revoke PROVE ClosedIsQuiet'
  BY <1>12 DEF Revoke, handleVars, threadVars, clientVars, callbackVars
<1>13. ASSUME BrokerDies PROVE ClosedIsQuiet'
  BY <1>13 DEF BrokerDies, handleVars, threadVars, clientVars, callbackVars
<1>14. ASSUME ReceiveEnd PROVE ClosedIsQuiet'
  BY <1>14 DEF ReceiveEnd, handleVars, threadVars, clientVars, callbackVars
<1>15. ASSUME EndSession PROVE ClosedIsQuiet'
  BY <1>15 DEF EndSession, handleVars, threadVars, clientVars, callbackVars
<1>16. ASSUME HostWrites PROVE ClosedIsQuiet'
  BY <1>16 DEF HostWrites, Deliver, Output, handleVars, threadVars, clientVars,
    callbackVars
<1>17. ASSUME NEW t \in Threads, CallSubmit(t) PROVE ClosedIsQuiet'
  BY <1>17 DEF CallSubmit, Call, Home, handleVars, clientVars, callbackVars,
    brokerVars
<1>18. ASSUME NEW t \in Threads, CallClose(t) PROVE ClosedIsQuiet'
  BY <1>18 DEF CallClose, Call, Home, handleVars, clientVars, callbackVars,
    brokerVars
<1>19. ASSUME NEW t \in Threads, NEW c \in BOOLEAN, SetOutputCallback(t, c)
      PROVE ClosedIsQuiet'
  BY <1>19 DEF SetOutputCallback, handleVars, clientVars, brokerVars
<1>20. ASSUME NEW t \in Threads, EnterClosed(t) PROVE ClosedIsQuiet'
  BY <1>20 DEF EnterClosed, Goto, Home, handleVars, clientVars, callbackVars,
    brokerVars
<1>21. ASSUME NEW t \in Threads, EnterSubmit(t) PROVE ClosedIsQuiet'
  BY <1>21 DEF EnterSubmit, Goto, clientVars, callbackVars, brokerVars
<1>22. ASSUME NEW t \in Threads, SendReport(t) PROVE ClosedIsQuiet'
  BY <1>22 DEF SendReport, Unanswered, Submit, Goto, handleVars, callbackVars,
    brokerVars
<1>23. ASSUME NEW t \in Threads, SendFails(t) PROVE ClosedIsQuiet'
  BY <1>23 DEF SendFails, Unanswered, FinishSubmit, callbackVars, brokerVars, Goto
<1>24. ASSUME NEW t \in Threads, Answered(t) PROVE ClosedIsQuiet'
  BY <1>24 DEF Answered, Goto, handleVars, FinishSubmit, clientVars, callbackVars,
    brokerVars
<1>25. ASSUME NEW t \in Threads, AnswerLost(t) PROVE ClosedIsQuiet'
  BY <1>25 DEF AnswerLost, FinishSubmit, clientVars, callbackVars, brokerVars, Goto
<1>26. ASSUME NEW t \in Threads, TimesOut(t) PROVE ClosedIsQuiet'
  BY <1>26 DEF TimesOut, FinishSubmit, callbackVars, brokerVars, Goto
<1>27. ASSUME NEW t \in Threads, EnterClose(t) PROVE ClosedIsQuiet'
  BY <1>27 DEF EnterClose, Goto, clientVars, callbackVars, brokerVars
<1>28. ASSUME NEW t \in Threads, CloseSocket(t) PROVE ClosedIsQuiet'
  BY <1>28 DEF CloseSocket, CloseMessage, Goto, handleVars, callbackVars, brokerVars
<1>29. ASSUME NEW t \in Threads, JoinReader(t) PROVE ClosedIsQuiet'
  BY <1>29 DEF JoinReader, Goto, handleVars, clientVars, brokerVars
<1>30. ASSUME NEW t \in Threads, FinishClose(t) PROVE ClosedIsQuiet'
  BY <1>30 DEF FinishClose, Goto, Home, clientVars, brokerVars
<1>31. CASE UNCHANGED vars
  BY <1>31 DEF vars, handleVars, threadVars, clientVars, callbackVars, brokerVars
<1> HIDE DEF ClosedIsQuiet
<1>32. QED
  BY <1>1, <1>2, <1>3, <1>4, <1>5, <1>6, <1>7, <1>8, <1>9, <1>10, <1>11, <1>12,
    <1>13, <1>14, <1>15, <1>16, <1>17, <1>18, <1>19, <1>20, <1>21, <1>22, <1>23,
    <1>24, <1>25, <1>26, <1>27, <1>28, <1>29, <1>30, <1>31 DEF Next, Creation,
    Reader, CallbackThread, Serving, Broker, Application, Inside

\* There is one request at a time, or one answer.
LEMMA OneRequestNext ==
  ASSUME TypeInv, LockInv, LifeInv, OneRequest, [Next]_vars PROVE OneRequest'
<1> USE ThreadFacts DEF TypeInv, ThreadTypes, FlagTypes, LockInv, LifeInv, OneRequest,
  Awaiting, Sending, Closing
<1>1. ASSUME Create PROVE OneRequest'
  <2>1. /\ downstream # <<>> /\ downstream' = Tail(downstream)
        /\ Head(downstream) = downstream[1] /\ 1 \in 1..Len(downstream)
        /\ Len(downstream) \in Nat /\ Len(downstream') = Len(downstream) - 1
        /\ \A i \in 1..Len(downstream') :
             i + 1 \in 1..Len(downstream) /\ downstream'[i] = downstream[i + 1]
    BY <1>1, Shorter DEF Create, MessageTypes
  <2>2. CASE IsResponse(Head(downstream))
    <3>1. UNCHANGED <<upstream, session, fd, pc, answer, sent>> /\ created = "no" /\ upstream = <<>>
      BY <1>1, <2>2 DEF Create, IsResponse, threadVars, brokerVars
    <3>2. \A i \in 1..Len(downstream') : fd = "open" => ~IsResponse(downstream'[i])
      BY <2>1, <2>2
    <3>3. QED
      BY <3>1, <3>2, <1>1 DEF Create
  <2>3. CASE ~IsResponse(Head(downstream))
    BY <1>1, <2>3 DEF Create, IsResponse
  <2>4. QED
    BY <2>2, <2>3
<1>2. ASSUME CreateDisconnected PROVE OneRequest'
  BY <1>2 DEF CreateDisconnected, handleVars, threadVars, callbackVars, brokerVars
<1>3. ASSUME Construct PROVE OneRequest'
  BY <1>3 DEF Construct, Unanswered, handleVars, threadVars, callbackVars, brokerVars
<1>4. ASSUME ReaderTakes PROVE OneRequest'
  <2>1. /\ downstream # <<>> /\ downstream' = Tail(downstream)
        /\ Head(downstream) = downstream[1] /\ 1 \in 1..Len(downstream)
        /\ Len(downstream) \in Nat /\ Len(downstream') = Len(downstream) - 1
        /\ \A i \in 1..Len(downstream') :
             i + 1 \in 1..Len(downstream) /\ downstream'[i] = downstream[i + 1]
    BY <1>4, Shorter DEF ReaderTakes, MessageTypes
  <2>2. UNCHANGED <<upstream, session, fd, pc, sent, created>> /\ created # "no"
    BY <1>4 DEF ReaderTakes, threadVars, brokerVars
  <2>3. \A i, j \in 1..Len(downstream') :
          fd = "open" /\ IsResponse(downstream'[i]) /\ IsResponse(downstream'[j]) => i = j
    <3>1. SUFFICES ASSUME NEW i \in 1..Len(downstream'), NEW j \in 1..Len(downstream'),
                          fd = "open", IsResponse(downstream'[i]),
                          IsResponse(downstream'[j])
                   PROVE  i = j
      OBVIOUS
    <3>2. /\ i + 1 \in 1..Len(downstream) /\ j + 1 \in 1..Len(downstream)
          /\ downstream'[i] = downstream[i + 1] /\ downstream'[j] = downstream[j + 1]
      BY <2>1
    <3>3. i + 1 = j + 1
      BY <3>1, <3>2
    <3>4. QED
      BY <3>3
  <2>4. CASE IsResponse(Head(downstream))
    <3>1. fd = "open" => /\ upstream # <<>> => session = "gone"
                         /\ \A i \in 1..Len(downstream') : ~IsResponse(downstream'[i])
      BY <2>1, <2>4
    <3>2. QED
      BY <2>2, <2>3, <3>1
  <2>5. CASE ~IsResponse(Head(downstream))
    <3>1. answer' = answer
      BY <1>4, <2>5 DEF ReaderTakes, IsResponse
    <3>2. QED
      BY <2>1, <2>2, <2>3, <3>1
  <2>6. QED
    BY <2>4, <2>5
<1>5. ASSUME ReaderEnds PROVE OneRequest'
  BY <1>5 DEF ReaderEnds, handleVars, threadVars, brokerVars
<1>6. ASSUME WorkerTakes PROVE OneRequest'
  BY <1>6 DEF WorkerTakes, Goto, handleVars, clientVars, brokerVars
<1>7. ASSUME CallbackReturns PROVE OneRequest'
  BY <1>7 DEF CallbackReturns, Goto, handleVars, clientVars, callbackVars, brokerVars
<1>8. ASSUME WorkerEnds PROVE OneRequest'
  BY <1>8 DEF WorkerEnds, Goto, handleVars, clientVars, callbackVars, brokerVars
<1>9. ASSUME ProcessDies PROVE OneRequest'
  BY <1>9 DEF ProcessDies, handleVars, callbackVars, brokerVars
<1>10. ASSUME AnswerCreate PROVE OneRequest'
  <2>1. Deliver(Response(0, TRUE)) /\ UNCHANGED <<upstream, fd, pc, sent, created, answer>>
        /\ session' = "serving" /\ created \in {"no", "failed"}
    BY <1>10 DEF AnswerCreate, threadVars, clientVars
  <2>2. CASE created = "no"
    <3>1. upstream = <<>> /\ \A i \in 1..Len(downstream) : ~IsResponse(downstream[i])
      BY <1>10, <2>2 DEF AnswerCreate
    <3>2. /\ Len(downstream) \in Nat
          /\ fd = "open" => Len(downstream') = Len(downstream) + 1
          /\ fd = "open" => \A i \in 1..Len(downstream) : downstream'[i] = downstream[i]
      BY <2>1, Messages, Delivered DEF MessageTypes
    <3>3. \A i \in 1..Len(downstream') :
            fd = "open" /\ IsResponse(downstream'[i]) => i = Len(downstream) + 1
      <4> HIDE DEF TypeInv, LockInv, LifeInv, OneRequest
      <4>1. QED
        BY <3>1, <3>2
    <3>4. QED
      BY <2>1, <2>2, <3>1, <3>3
  <2>3. CASE created = "failed"
    BY <2>1, <2>3
  <2>4. QED
    BY <2>1, <2>2, <2>3
<1>11. ASSUME NEW ok \in BOOLEAN, ReceiveSubmit(ok) PROVE OneRequest'
  <2>1. /\ upstream # <<>> /\ upstream' = Tail(upstream)
        /\ Head(upstream) = upstream[1] /\ Len(upstream') = Len(upstream) - 1
        /\ Head(upstream).report \in ReportIds /\ upstream' \in Seq(ToBroker)
    BY <1>11, Shorter, MessageFields DEF ReceiveSubmit, MessageTypes
  <2>2. /\ Deliver(Response(Head(upstream).report, ok)) /\ session = "serving"
        /\ UNCHANGED <<fd, pc, sent, created, answer>> /\ created # "no"
    BY <1>11, <2>1 DEF ReceiveSubmit, threadVars, clientVars
  <2>3. CASE fd = "open"
    <3>1. /\ Awaiting /\ upstream[1] = Submit(sent) /\ Len(upstream) = 1
          /\ \A i \in 1..Len(downstream) : ~IsResponse(downstream[i])
      BY <2>1, <2>2, <2>3
    <3>2. Head(upstream).report = sent /\ upstream' = <<>>
      BY <2>1, <3>1, EmptySeq DEF Submit
    <3>3. /\ Len(downstream) \in Nat
          /\ Len(downstream') = Len(downstream) + 1
          /\ downstream'[Len(downstream) + 1] = Response(sent, ok)
          /\ \A i \in 1..Len(downstream) : downstream'[i] = downstream[i]
      BY <2>1, <2>2, <2>3, <3>2, Messages, Delivered DEF MessageTypes, ReportIds
    <3>4. Response(sent, ok).report = sent
      BY DEF Response
    <3>5. \A i \in 1..Len(downstream') : IsResponse(downstream'[i]) =>
            i = Len(downstream) + 1 /\ downstream'[i].report = sent
      BY <3>1, <3>3, <3>4
    <3>6. QED
      BY <2>2, <2>3, <3>1, <3>2, <3>3, <3>5
  <2>4. CASE fd # "open"
    BY <2>2, <2>4
  <2>5. QED
    BY <2>3, <2>4
<1>12. ASSUME Revoke PROVE OneRequest'
  BY <1>12 DEF Revoke, handleVars, threadVars, clientVars, callbackVars
<1>13. ASSUME BrokerDies PROVE OneRequest'
  BY <1>13 DEF BrokerDies, handleVars, threadVars, clientVars, callbackVars
<1>14. ASSUME ReceiveEnd PROVE OneRequest'
  BY <1>14 DEF ReceiveEnd, handleVars, threadVars, clientVars, callbackVars
<1>15. ASSUME EndSession PROVE OneRequest'
  BY <1>15 DEF EndSession, handleVars, threadVars, clientVars, callbackVars
<1>16. ASSUME HostWrites PROVE OneRequest'
  <2>1. /\ Deliver(Output(written + 1)) /\ Output(written + 1) \in ToClient
        /\ ~IsResponse(Output(written + 1))
        /\ UNCHANGED <<upstream, session, fd, pc, sent, created, answer>>
    BY <1>16, Messages, MacosAssumption DEF HostWrites, MessageTypes, Outputs,
      threadVars, clientVars
  <2>2. /\ Len(downstream) \in Nat
        /\ fd # "open" => downstream' = downstream
        /\ fd = "open" => /\ Len(downstream') = Len(downstream) + 1
                          /\ ~IsResponse(downstream'[Len(downstream) + 1])
                          /\ \A i \in 1..Len(downstream) : downstream'[i] = downstream[i]
    BY <2>1, Delivered DEF MessageTypes
  <2>3. CASE fd = "open"
    <3>1. \A i \in 1..Len(downstream') :
            IsResponse(downstream'[i]) => i \in 1..Len(downstream) /\ downstream'[i] = downstream[i]
      BY <2>2, <2>3
    <3>2. QED
      BY <2>1, <2>3, <3>1
  <2>4. CASE fd # "open"
    BY <2>1, <2>2, <2>4
  <2>5. QED
    BY <2>3, <2>4
<1>17. ASSUME NEW t \in Threads, CallSubmit(t) PROVE OneRequest'
  BY <1>17 DEF CallSubmit, Call, Home, handleVars, clientVars, callbackVars,
    brokerVars
<1>18. ASSUME NEW t \in Threads, CallClose(t) PROVE OneRequest'
  BY <1>18 DEF CallClose, Call, Home, handleVars, clientVars, callbackVars,
    brokerVars
<1>19. ASSUME NEW t \in Threads, NEW c \in BOOLEAN, SetOutputCallback(t, c)
      PROVE OneRequest'
  BY <1>19 DEF SetOutputCallback, handleVars, clientVars, brokerVars
<1>20. ASSUME NEW t \in Threads, EnterClosed(t) PROVE OneRequest'
  BY <1>20 DEF EnterClosed, Goto, Home, handleVars, clientVars, callbackVars,
    brokerVars
<1>21. ASSUME NEW t \in Threads, EnterSubmit(t) PROVE OneRequest'
  BY <1>21 DEF EnterSubmit, Goto, clientVars, callbackVars, brokerVars
<1>22. ASSUME NEW t \in Threads, SendReport(t) PROVE OneRequest'
  <2>1. /\ t \in Clients /\ lock = t /\ created = "yes" /\ ~Awaiting
        /\ fd = "open" /\ session # "gone"
    BY <1>22 DEF SendReport
  <2>2. upstream = <<>> /\ \A i \in 1..Len(downstream) : ~IsResponse(downstream[i])
    BY <2>1
  <2>3. upstream' = Append(upstream, Submit(sent + 1)) /\ sent' = sent + 1
        /\ UNCHANGED <<downstream, fd, created, session>>
    BY <1>22 DEF SendReport, brokerVars
  <2>4. Len(upstream') = 1 /\ upstream'[1] = Submit(sent')
    BY <2>2, <2>3
  <2>5. answer' = Unanswered /\ pc'[t] = "await"
    BY <1>22 DEF SendReport, Goto
  <2>6. Awaiting'
    BY <2>1, <2>5 DEF Unanswered
  <2>7. QED
    BY <2>1, <2>2, <2>3, <2>4, <2>6
<1>23. ASSUME NEW t \in Threads, SendFails(t) PROVE OneRequest'
  BY <1>23 DEF SendFails, Unanswered, FinishSubmit, callbackVars, brokerVars, Goto
<1>24. ASSUME NEW t \in Threads, Answered(t) PROVE OneRequest'
  BY <1>24 DEF Answered, Goto, handleVars, FinishSubmit, clientVars, callbackVars,
    brokerVars
<1>25. ASSUME NEW t \in Threads, AnswerLost(t) PROVE OneRequest'
  BY <1>25 DEF AnswerLost, FinishSubmit, clientVars, callbackVars, brokerVars, Goto
<1>26. ASSUME NEW t \in Threads, TimesOut(t) PROVE OneRequest'
  BY <1>26 DEF TimesOut, FinishSubmit, callbackVars, brokerVars, Goto
<1>27. ASSUME NEW t \in Threads, EnterClose(t) PROVE OneRequest'
  BY <1>27 DEF EnterClose, Goto, clientVars, callbackVars, brokerVars
<1>28. ASSUME NEW t \in Threads, CloseSocket(t) PROVE OneRequest'
  BY <1>28 DEF CloseSocket, CloseMessage, Goto, handleVars, callbackVars, brokerVars
<1>29. ASSUME NEW t \in Threads, JoinReader(t) PROVE OneRequest'
  BY <1>29 DEF JoinReader, Goto, handleVars, clientVars, brokerVars
<1>30. ASSUME NEW t \in Threads, FinishClose(t) PROVE OneRequest'
  BY <1>30 DEF FinishClose, Goto, Home, clientVars, brokerVars
<1>31. CASE UNCHANGED vars
  BY <1>31 DEF vars, handleVars, threadVars, clientVars, callbackVars, brokerVars
<1> HIDE DEF OneRequest
<1>32. QED
  BY <1>1, <1>2, <1>3, <1>4, <1>5, <1>6, <1>7, <1>8, <1>9, <1>10, <1>11, <1>12,
    <1>13, <1>14, <1>15, <1>16, <1>17, <1>18, <1>19, <1>20, <1>21, <1>22, <1>23,
    <1>24, <1>25, <1>26, <1>27, <1>28, <1>29, <1>30, <1>31 DEF Next, Creation,
    Reader, CallbackThread, Serving, Broker, Application, Inside

\* An answer that is stored belongs to the report that is waited for.
LEMMA AnswerIsOwnNext ==
  ASSUME TypeInv, LockInv, LifeInv, OneRequest, AnswerIsOwn, [Next]_vars PROVE AnswerIsOwn'
<1> USE ThreadFacts DEF TypeInv, ThreadTypes, FlagTypes, LockInv, LifeInv, AnswerIsOwn,
  Sending, Closing
<1>1. ASSUME Create PROVE AnswerIsOwn'
  BY <1>1 DEF Create, handleVars, threadVars, callbackVars, brokerVars
<1>2. ASSUME CreateDisconnected PROVE AnswerIsOwn'
  BY <1>2 DEF CreateDisconnected, handleVars, threadVars, callbackVars, brokerVars
<1>3. ASSUME Construct PROVE AnswerIsOwn'
  BY <1>3 DEF Construct, Unanswered, handleVars, threadVars, callbackVars, brokerVars
<1>4. ASSUME ReaderTakes PROVE AnswerIsOwn'
  <2>1. /\ downstream # <<>> /\ Head(downstream) = downstream[1] /\ 1 \in 1..Len(downstream)
    BY <1>4, Shorter DEF ReaderTakes, MessageTypes
  <2>2. UNCHANGED <<fd, pc, sent>> /\ created # "no"
    BY <1>4 DEF ReaderTakes, threadVars
  <2>3. CASE IsResponse(Head(downstream))
    <3>1. answer'.report = downstream[1].report
      BY <1>4, <2>1, <2>3 DEF ReaderTakes, IsResponse
    <3>2. fd = "open" => downstream[1].report = sent
      BY <2>1, <2>2, <2>3 DEF OneRequest
    <3>3. QED
      BY <2>2, <3>1, <3>2
  <2>4. CASE ~IsResponse(Head(downstream))
    <3>1. answer' = answer
      BY <1>4, <2>4 DEF ReaderTakes, IsResponse
    <3>2. QED
      BY <2>2, <3>1
  <2>5. QED
    BY <2>3, <2>4
<1>5. ASSUME ReaderEnds PROVE AnswerIsOwn'
  BY <1>5 DEF ReaderEnds, handleVars, threadVars, brokerVars
<1>6. ASSUME WorkerTakes PROVE AnswerIsOwn'
  BY <1>6 DEF WorkerTakes, Goto, handleVars, clientVars, brokerVars
<1>7. ASSUME CallbackReturns PROVE AnswerIsOwn'
  BY <1>7 DEF CallbackReturns, Goto, handleVars, clientVars, callbackVars, brokerVars
<1>8. ASSUME WorkerEnds PROVE AnswerIsOwn'
  BY <1>8 DEF WorkerEnds, Goto, handleVars, clientVars, callbackVars, brokerVars
<1>9. ASSUME ProcessDies PROVE AnswerIsOwn'
  BY <1>9 DEF ProcessDies, handleVars, callbackVars, brokerVars
<1>10. ASSUME AnswerCreate PROVE AnswerIsOwn'
  BY <1>10 DEF AnswerCreate, Deliver, Response, handleVars, threadVars, clientVars,
    callbackVars
<1>11. ASSUME NEW ok \in BOOLEAN, ReceiveSubmit(ok) PROVE AnswerIsOwn'
  BY <1>11 DEF ReceiveSubmit, Deliver, Response, handleVars, threadVars, clientVars,
    callbackVars
<1>12. ASSUME Revoke PROVE AnswerIsOwn'
  BY <1>12 DEF Revoke, handleVars, threadVars, clientVars, callbackVars
<1>13. ASSUME BrokerDies PROVE AnswerIsOwn'
  BY <1>13 DEF BrokerDies, handleVars, threadVars, clientVars, callbackVars
<1>14. ASSUME ReceiveEnd PROVE AnswerIsOwn'
  BY <1>14 DEF ReceiveEnd, handleVars, threadVars, clientVars, callbackVars
<1>15. ASSUME EndSession PROVE AnswerIsOwn'
  BY <1>15 DEF EndSession, handleVars, threadVars, clientVars, callbackVars
<1>16. ASSUME HostWrites PROVE AnswerIsOwn'
  BY <1>16 DEF HostWrites, Deliver, Output, handleVars, threadVars, clientVars,
    callbackVars
<1>17. ASSUME NEW t \in Threads, CallSubmit(t) PROVE AnswerIsOwn'
  BY <1>17 DEF CallSubmit, Call, Home, handleVars, clientVars, callbackVars,
    brokerVars
<1>18. ASSUME NEW t \in Threads, CallClose(t) PROVE AnswerIsOwn'
  BY <1>18 DEF CallClose, Call, Home, handleVars, clientVars, callbackVars,
    brokerVars
<1>19. ASSUME NEW t \in Threads, NEW c \in BOOLEAN, SetOutputCallback(t, c)
      PROVE AnswerIsOwn'
  BY <1>19 DEF SetOutputCallback, handleVars, clientVars, brokerVars
<1>20. ASSUME NEW t \in Threads, EnterClosed(t) PROVE AnswerIsOwn'
  BY <1>20 DEF EnterClosed, Goto, Home, handleVars, clientVars, callbackVars,
    brokerVars
<1>21. ASSUME NEW t \in Threads, EnterSubmit(t) PROVE AnswerIsOwn'
  BY <1>21 DEF EnterSubmit, Goto, clientVars, callbackVars, brokerVars
<1>22. ASSUME NEW t \in Threads, SendReport(t) PROVE AnswerIsOwn'
  BY <1>22 DEF SendReport, Unanswered, Submit, Goto, handleVars, callbackVars,
    brokerVars
<1>23. ASSUME NEW t \in Threads, SendFails(t) PROVE AnswerIsOwn'
  BY <1>23 DEF SendFails, Unanswered, FinishSubmit, callbackVars, brokerVars, Goto
<1>24. ASSUME NEW t \in Threads, Answered(t) PROVE AnswerIsOwn'
  BY <1>24 DEF Answered, Goto, handleVars, FinishSubmit, clientVars, callbackVars,
    brokerVars
<1>25. ASSUME NEW t \in Threads, AnswerLost(t) PROVE AnswerIsOwn'
  BY <1>25 DEF AnswerLost, FinishSubmit, clientVars, callbackVars, brokerVars, Goto
<1>26. ASSUME NEW t \in Threads, TimesOut(t) PROVE AnswerIsOwn'
  BY <1>26 DEF TimesOut, FinishSubmit, callbackVars, brokerVars, Goto
<1>27. ASSUME NEW t \in Threads, EnterClose(t) PROVE AnswerIsOwn'
  BY <1>27 DEF EnterClose, Goto, clientVars, callbackVars, brokerVars
<1>28. ASSUME NEW t \in Threads, CloseSocket(t) PROVE AnswerIsOwn'
  BY <1>28 DEF CloseSocket, CloseMessage, Goto, handleVars, callbackVars, brokerVars
<1>29. ASSUME NEW t \in Threads, JoinReader(t) PROVE AnswerIsOwn'
  BY <1>29 DEF JoinReader, Goto, handleVars, clientVars, brokerVars
<1>30. ASSUME NEW t \in Threads, FinishClose(t) PROVE AnswerIsOwn'
  BY <1>30 DEF FinishClose, Goto, Home, clientVars, brokerVars
<1>31. CASE UNCHANGED vars
  BY <1>31 DEF vars, handleVars, threadVars, clientVars, callbackVars, brokerVars
<1> HIDE DEF AnswerIsOwn
<1>32. QED
  BY <1>1, <1>2, <1>3, <1>4, <1>5, <1>6, <1>7, <1>8, <1>9, <1>10, <1>11, <1>12,
    <1>13, <1>14, <1>15, <1>16, <1>17, <1>18, <1>19, <1>20, <1>21, <1>22, <1>23,
    <1>24, <1>25, <1>26, <1>27, <1>28, <1>29, <1>30, <1>31 DEF Next, Creation,
    Reader, CallbackThread, Serving, Broker, Application, Inside

\* What is said to be accepted is.
LEMMA AcceptedNext ==
  ASSUME TypeInv, LockInv, AnswerIsOwn, AcceptedInv, [Next]_vars PROVE AcceptedInv'
<1> USE MacosAssumption, ThreadFacts DEF TypeInv, ThreadTypes, FlagTypes, ReportTypes,
  LockInv, AcceptedInv, Sending, Closing
<1>1. ASSUME Create PROVE AcceptedInv'
  <2>1. /\ downstream # <<>> /\ downstream' = Tail(downstream)
        /\ Head(downstream) = downstream[1] /\ 1 \in 1..Len(downstream)
        /\ \A i \in 1..Len(downstream') :
             i + 1 \in 1..Len(downstream) /\ downstream'[i] = downstream[i + 1]
    BY <1>1, Shorter DEF Create, MessageTypes
  <2>2. \A i \in 1..Len(downstream') : IsResponse(downstream'[i]) /\ downstream'[i].ok =>
          downstream'[i].report \in accepted \cup {0}
    BY <2>1
  <2>3. QED
    BY <1>1, <2>2 DEF Create, threadVars, brokerVars
<1>2. ASSUME CreateDisconnected PROVE AcceptedInv'
  BY <1>2 DEF CreateDisconnected, handleVars, threadVars, callbackVars, brokerVars
<1>3. ASSUME Construct PROVE AcceptedInv'
  BY <1>3 DEF Construct, Unanswered, handleVars, threadVars, callbackVars, brokerVars
<1>4. ASSUME ReaderTakes PROVE AcceptedInv'
  <2>1. /\ downstream # <<>> /\ downstream' = Tail(downstream)
        /\ Head(downstream) = downstream[1] /\ 1 \in 1..Len(downstream)
        /\ \A i \in 1..Len(downstream') :
             i + 1 \in 1..Len(downstream) /\ downstream'[i] = downstream[i + 1]
    BY <1>4, Shorter DEF ReaderTakes, MessageTypes
  <2>2. UNCHANGED <<fd, pc, left, sent, accepted>>
    BY <1>4 DEF ReaderTakes, threadVars, brokerVars
  <2>3. \A i \in 1..Len(downstream') : IsResponse(downstream'[i]) /\ downstream'[i].ok =>
          downstream'[i].report \in accepted \cup {0}
    BY <2>1
  <2>4. answer'.ready /\ answer'.ok => answer'.report \in accepted \cup {0}
    <3>1. CASE IsResponse(Head(downstream))
      <4>1. answer' = [ready |-> TRUE, report |-> downstream[1].report, ok |-> downstream[1].ok]
        BY <1>4, <2>1, <3>1 DEF ReaderTakes, IsResponse
      <4>2. QED
        BY <2>1, <3>1, <4>1
    <3>2. CASE ~IsResponse(Head(downstream))
      BY <1>4, <3>2 DEF ReaderTakes, IsResponse
    <3>3. QED
      BY <3>1, <3>2
  <2>5. QED
    BY <2>2, <2>3, <2>4
<1>5. ASSUME ReaderEnds PROVE AcceptedInv'
  BY <1>5 DEF ReaderEnds, handleVars, threadVars, brokerVars
<1>6. ASSUME WorkerTakes PROVE AcceptedInv'
  BY <1>6 DEF WorkerTakes, Goto, handleVars, clientVars, brokerVars
<1>7. ASSUME CallbackReturns PROVE AcceptedInv'
  BY <1>7 DEF CallbackReturns, Goto, handleVars, clientVars, callbackVars, brokerVars
<1>8. ASSUME WorkerEnds PROVE AcceptedInv'
  BY <1>8 DEF WorkerEnds, Goto, handleVars, clientVars, callbackVars, brokerVars
<1>9. ASSUME ProcessDies PROVE AcceptedInv'
  BY <1>9 DEF ProcessDies, handleVars, callbackVars, brokerVars
<1>10. ASSUME AnswerCreate PROVE AcceptedInv'
  <2>1. Deliver(Response(0, TRUE)) /\ Response(0, TRUE).report = 0
        /\ UNCHANGED <<pc, left, sent, accepted, answer>>
    BY <1>10 DEF AnswerCreate, threadVars, clientVars, Response
  <2>2. \A i \in 1..Len(downstream') : IsResponse(downstream'[i]) /\ downstream'[i].ok =>
          downstream'[i].report \in accepted \cup {0}
    <3>1. /\ Len(downstream) \in Nat
          /\ downstream' = downstream \/
               /\ Len(downstream') = Len(downstream) + 1
               /\ downstream'[Len(downstream) + 1].report = 0
               /\ \A i \in 1..Len(downstream) : downstream'[i] = downstream[i]
      BY <2>1, Messages, Delivered DEF MessageTypes
    <3> HIDE DEF TypeInv, LockInv, AnswerIsOwn
    <3>2. QED
      BY <2>1, <3>1
  <2>3. QED
    BY <2>1, <2>2
<1>11. ASSUME NEW ok \in BOOLEAN, ReceiveSubmit(ok) PROVE AcceptedInv'
  <2>1. /\ upstream # <<>> /\ Head(upstream).report \in ReportIds
    BY <1>11, Shorter, MessageFields DEF ReceiveSubmit, MessageTypes
  <2> DEFINE n == Head(upstream).report
  <2>2. /\ Deliver(Response(n, ok)) /\ UNCHANGED <<fd, pc, left, sent, answer>>
        /\ accepted' = IF ok THEN accepted \cup {n} ELSE accepted
    BY <1>11 DEF ReceiveSubmit, threadVars, clientVars
  <2>3. /\ Response(n, ok) \in ToClient
        /\ Response(n, ok).report = n /\ Response(n, ok).ok = ok
    BY <2>1, Messages DEF Response, ReportIds
  <2>4. \A i \in 1..Len(downstream') : IsResponse(downstream'[i]) /\ downstream'[i].ok =>
          downstream'[i].report \in accepted' \cup {0}
    <3> HIDE DEF n
    <3>1. /\ Len(downstream) \in Nat
          /\ downstream' = downstream \/
               /\ Len(downstream') = Len(downstream) + 1
               /\ downstream'[Len(downstream) + 1] = Response(n, ok)
               /\ \A i \in 1..Len(downstream) : downstream'[i] = downstream[i]
      BY <2>2, <2>3, Delivered DEF MessageTypes
    <3>2. QED
      BY <2>2, <2>3, <3>1
  <2>5. QED
    BY <2>2, <2>4
<1>12. ASSUME Revoke PROVE AcceptedInv'
  BY <1>12 DEF Revoke, handleVars, threadVars, clientVars, callbackVars
<1>13. ASSUME BrokerDies PROVE AcceptedInv'
  BY <1>13 DEF BrokerDies, handleVars, threadVars, clientVars, callbackVars
<1>14. ASSUME ReceiveEnd PROVE AcceptedInv'
  BY <1>14 DEF ReceiveEnd, handleVars, threadVars, clientVars, callbackVars
<1>15. ASSUME EndSession PROVE AcceptedInv'
  BY <1>15 DEF EndSession, handleVars, threadVars, clientVars, callbackVars
<1>16. ASSUME HostWrites PROVE AcceptedInv'
  <2>1. /\ Deliver(Output(written + 1)) /\ Output(written + 1) \in ToClient
        /\ ~IsResponse(Output(written + 1))
        /\ UNCHANGED <<pc, left, sent, accepted, answer>>
    BY <1>16, Messages, MacosAssumption DEF HostWrites, MessageTypes, Outputs,
      threadVars, clientVars
  <2>2. \A i \in 1..Len(downstream') : IsResponse(downstream'[i]) /\ downstream'[i].ok =>
          downstream'[i].report \in accepted \cup {0}
    <3>1. /\ Len(downstream) \in Nat
          /\ downstream' = downstream \/
               /\ Len(downstream') = Len(downstream) + 1
               /\ ~IsResponse(downstream'[Len(downstream) + 1])
               /\ \A i \in 1..Len(downstream) : downstream'[i] = downstream[i]
      BY <2>1, Delivered DEF MessageTypes
    <3>2. QED
      BY <2>1, <3>1
  <2>3. QED
    BY <2>1, <2>2
<1>17. ASSUME NEW t \in Threads, CallSubmit(t) PROVE AcceptedInv'
  BY <1>17 DEF CallSubmit, Call, Home, handleVars, clientVars, callbackVars,
    brokerVars
<1>18. ASSUME NEW t \in Threads, CallClose(t) PROVE AcceptedInv'
  BY <1>18 DEF CallClose, Call, Home, handleVars, clientVars, callbackVars,
    brokerVars
<1>19. ASSUME NEW t \in Threads, NEW c \in BOOLEAN, SetOutputCallback(t, c)
      PROVE AcceptedInv'
  BY <1>19 DEF SetOutputCallback, handleVars, clientVars, brokerVars
<1>20. ASSUME NEW t \in Threads, EnterClosed(t) PROVE AcceptedInv'
  BY <1>20 DEF EnterClosed, Goto, Home, handleVars, clientVars, callbackVars,
    brokerVars
<1>21. ASSUME NEW t \in Threads, EnterSubmit(t) PROVE AcceptedInv'
  BY <1>21 DEF EnterSubmit, Goto, clientVars, callbackVars, brokerVars
<1>22. ASSUME NEW t \in Threads, SendReport(t) PROVE AcceptedInv'
  <2>1. /\ t \in Clients /\ pc' = [pc EXCEPT ![t] = "await"] /\ pc[t] = "send" /\ lock = t
        /\ sent' = sent + 1 /\ ~answer'.ready /\ UNCHANGED <<left, accepted, downstream>>
        /\ left[t] \in 0..NumReports /\ sent \in Nat
        /\ ((sent - (NumReports - left[t]) + 1)..sent) \subseteq accepted
    BY <1>22 DEF SendReport, Unanswered, Goto, handleVars, brokerVars
  <2>2. \A u \in Clients \ {t} : pc[u] \notin Sending /\ pc'[u] = pc[u]
    BY <2>1
  <2>3. ((sent' - (NumReports - left'[t]))..(sent' - 1)) \subseteq accepted' /\ sent' # 0
    BY <2>1
  <2>4. pc'[t] = "await"
    BY <2>1
  <2>5. QED
    BY <2>1, <2>2, <2>3, <2>4
<1>23. ASSUME NEW t \in Threads, SendFails(t) PROVE AcceptedInv'
  BY <1>23 DEF SendFails, Unanswered, FinishSubmit, callbackVars, brokerVars, Goto
<1>24. ASSUME NEW t \in Threads, Answered(t) PROVE AcceptedInv'
  <2>1. /\ t \in Clients /\ lock = t /\ left[t] \in 0..NumReports /\ left[t] # 0
        /\ sent # 0 /\ answer.ready /\ answer.report = sent
        /\ UNCHANGED <<accepted, sent, downstream, answer>>
        /\ ((sent - (NumReports - left[t]))..(sent - 1)) \subseteq accepted
    BY <1>24 DEF Answered, AnswerIsOwn, clientVars, brokerVars
  <2>2. left' = [left EXCEPT ![t] = @ - 1] /\ left'[t] = left[t] - 1
    BY <1>24, <2>1 DEF Answered
  <2>3. \A u \in Clients \ {t} : pc[u] \notin Sending /\ pc'[u] = pc[u]
    BY <1>24, <2>1 DEF Answered, FinishSubmit, Goto
  <2>4. CASE answer.ok /\ left[t] > 1
    <3>1. pc'[t] = "send" /\ sent \in accepted
      BY <1>24, <2>1, <2>4 DEF Answered, Goto
    <3>2. \A n \in (sent - (NumReports - left'[t]) + 1)..sent :
            n \in (sent - (NumReports - left[t]))..(sent - 1) \/ n = sent
      BY <2>1, <2>2
    <3>3. QED
      BY <2>1, <2>3, <3>1, <3>2
  <2>5. CASE ~(answer.ok /\ left[t] > 1)
    <3>1. pc'[t] = "idle"
      BY <1>24, <2>1, <2>5 DEF Answered, FinishSubmit, Goto
    <3>2. QED
      BY <2>1, <2>3, <3>1
  <2>6. QED
    BY <2>4, <2>5
<1>25. ASSUME NEW t \in Threads, AnswerLost(t) PROVE AcceptedInv'
  BY <1>25 DEF AnswerLost, FinishSubmit, clientVars, callbackVars, brokerVars, Goto
<1>26. ASSUME NEW t \in Threads, TimesOut(t) PROVE AcceptedInv'
  BY <1>26 DEF TimesOut, FinishSubmit, callbackVars, brokerVars, Goto
<1>27. ASSUME NEW t \in Threads, EnterClose(t) PROVE AcceptedInv'
  BY <1>27 DEF EnterClose, Goto, clientVars, callbackVars, brokerVars
<1>28. ASSUME NEW t \in Threads, CloseSocket(t) PROVE AcceptedInv'
  BY <1>28 DEF CloseSocket, CloseMessage, Goto, handleVars, callbackVars, brokerVars
<1>29. ASSUME NEW t \in Threads, JoinReader(t) PROVE AcceptedInv'
  BY <1>29 DEF JoinReader, Goto, handleVars, clientVars, brokerVars
<1>30. ASSUME NEW t \in Threads, FinishClose(t) PROVE AcceptedInv'
  BY <1>30 DEF FinishClose, Goto, Home, clientVars, brokerVars
<1>31. CASE UNCHANGED vars
  BY <1>31 DEF vars, handleVars, threadVars, clientVars, callbackVars, brokerVars
<1> HIDE DEF AcceptedInv
<1>32. QED
  BY <1>1, <1>2, <1>3, <1>4, <1>5, <1>6, <1>7, <1>8, <1>9, <1>10, <1>11, <1>12,
    <1>13, <1>14, <1>15, <1>16, <1>17, <1>18, <1>19, <1>20, <1>21, <1>22, <1>23,
    <1>24, <1>25, <1>26, <1>27, <1>28, <1>29, <1>30, <1>31 DEF Next, Creation,
    Reader, CallbackThread, Serving, Broker, Application, Inside

\* A submit counts when all its reports were accepted.
LEMMA CountedNext ==
  ASSUME TypeInv, AnswerIsOwn, AcceptedInv, CountedWereAccepted, [Next]_vars
  PROVE  CountedWereAccepted'
<1> USE MacosAssumption, ThreadFacts DEF TypeInv, ThreadTypes, ReportTypes,
  CountedWereAccepted, Sending
<1>1. ASSUME Create PROVE CountedWereAccepted'
  BY <1>1 DEF Create, handleVars, threadVars, callbackVars, brokerVars
<1>2. ASSUME CreateDisconnected PROVE CountedWereAccepted'
  BY <1>2 DEF CreateDisconnected, handleVars, threadVars, callbackVars, brokerVars
<1>3. ASSUME Construct PROVE CountedWereAccepted'
  BY <1>3 DEF Construct, Unanswered, handleVars, threadVars, callbackVars, brokerVars
<1>4. ASSUME ReaderTakes PROVE CountedWereAccepted'
  BY <1>4 DEF ReaderTakes, handleVars, threadVars, brokerVars
<1>5. ASSUME ReaderEnds PROVE CountedWereAccepted'
  BY <1>5 DEF ReaderEnds, handleVars, threadVars, brokerVars
<1>6. ASSUME WorkerTakes PROVE CountedWereAccepted'
  BY <1>6 DEF WorkerTakes, Goto, handleVars, clientVars, brokerVars
<1>7. ASSUME CallbackReturns PROVE CountedWereAccepted'
  BY <1>7 DEF CallbackReturns, Goto, handleVars, clientVars, callbackVars, brokerVars
<1>8. ASSUME WorkerEnds PROVE CountedWereAccepted'
  BY <1>8 DEF WorkerEnds, Goto, handleVars, clientVars, callbackVars, brokerVars
<1>9. ASSUME ProcessDies PROVE CountedWereAccepted'
  BY <1>9 DEF ProcessDies, handleVars, callbackVars, brokerVars
<1>10. ASSUME AnswerCreate PROVE CountedWereAccepted'
  BY <1>10 DEF AnswerCreate, Deliver, Response, handleVars, threadVars, clientVars,
    callbackVars
<1>11. ASSUME NEW ok \in BOOLEAN, ReceiveSubmit(ok) PROVE CountedWereAccepted'
  BY <1>11 DEF ReceiveSubmit, Deliver, Response, handleVars, threadVars, clientVars,
    callbackVars
<1>12. ASSUME Revoke PROVE CountedWereAccepted'
  BY <1>12 DEF Revoke, handleVars, threadVars, clientVars, callbackVars
<1>13. ASSUME BrokerDies PROVE CountedWereAccepted'
  BY <1>13 DEF BrokerDies, handleVars, threadVars, clientVars, callbackVars
<1>14. ASSUME ReceiveEnd PROVE CountedWereAccepted'
  BY <1>14 DEF ReceiveEnd, handleVars, threadVars, clientVars, callbackVars
<1>15. ASSUME EndSession PROVE CountedWereAccepted'
  BY <1>15 DEF EndSession, handleVars, threadVars, clientVars, callbackVars
<1>16. ASSUME HostWrites PROVE CountedWereAccepted'
  BY <1>16 DEF HostWrites, Deliver, Output, handleVars, threadVars, clientVars,
    callbackVars
<1>17. ASSUME NEW t \in Threads, CallSubmit(t) PROVE CountedWereAccepted'
  BY <1>17 DEF CallSubmit, Call, Home, handleVars, clientVars, callbackVars,
    brokerVars
<1>18. ASSUME NEW t \in Threads, CallClose(t) PROVE CountedWereAccepted'
  BY <1>18 DEF CallClose, Call, Home, handleVars, clientVars, callbackVars,
    brokerVars
<1>19. ASSUME NEW t \in Threads, NEW c \in BOOLEAN, SetOutputCallback(t, c)
      PROVE CountedWereAccepted'
  BY <1>19 DEF SetOutputCallback, handleVars, clientVars, brokerVars
<1>20. ASSUME NEW t \in Threads, EnterClosed(t) PROVE CountedWereAccepted'
  BY <1>20 DEF EnterClosed, Goto, Home, handleVars, clientVars, callbackVars,
    brokerVars
<1>21. ASSUME NEW t \in Threads, EnterSubmit(t) PROVE CountedWereAccepted'
  BY <1>21 DEF EnterSubmit, Goto, clientVars, callbackVars, brokerVars
<1>22. ASSUME NEW t \in Threads, SendReport(t) PROVE CountedWereAccepted'
  BY <1>22 DEF SendReport, Unanswered, Submit, Goto, handleVars, callbackVars,
    brokerVars
<1>23. ASSUME NEW t \in Threads, SendFails(t) PROVE CountedWereAccepted'
  BY <1>23 DEF SendFails, Unanswered, FinishSubmit, callbackVars, brokerVars, Goto
<1>24. ASSUME NEW t \in Threads, Answered(t) PROVE CountedWereAccepted'
  <2>1. accepted' = accepted
    BY <1>24 DEF Answered, brokerVars
  <2>2. CASE answer.ok /\ left[t] > 1
    BY <1>24, <2>1, <2>2 DEF Answered, handleVars
  <2>3. CASE ~answer.ok
    BY <1>24, <2>1, <2>3 DEF Answered, FinishSubmit
  <2>4. CASE answer.ok /\ ~(left[t] > 1)
    <3>1. /\ counted' = counted \cup ((sent - NumReports + 1)..sent)
          /\ t \in Clients /\ left[t] \in 0..NumReports /\ left[t] # 0
      BY <1>24, <2>4 DEF Answered, FinishSubmit
    <3>2. /\ sent # 0 /\ sent \in accepted
          /\ ((sent - (NumReports - 1))..(sent - 1)) \subseteq accepted
      BY <1>24, <2>4, <3>1 DEF Answered, AnswerIsOwn, AcceptedInv
    <3>3. \A n \in (sent - NumReports + 1)..sent :
            n \in (sent - (NumReports - 1))..(sent - 1) \/ n = sent
      OBVIOUS
    <3>4. QED
      BY <2>1, <3>1, <3>2, <3>3
  <2>5. QED
    BY <2>2, <2>3, <2>4
<1>25. ASSUME NEW t \in Threads, AnswerLost(t) PROVE CountedWereAccepted'
  BY <1>25 DEF AnswerLost, FinishSubmit, clientVars, callbackVars, brokerVars, Goto
<1>26. ASSUME NEW t \in Threads, TimesOut(t) PROVE CountedWereAccepted'
  BY <1>26 DEF TimesOut, FinishSubmit, callbackVars, brokerVars, Goto
<1>27. ASSUME NEW t \in Threads, EnterClose(t) PROVE CountedWereAccepted'
  BY <1>27 DEF EnterClose, Goto, clientVars, callbackVars, brokerVars
<1>28. ASSUME NEW t \in Threads, CloseSocket(t) PROVE CountedWereAccepted'
  BY <1>28 DEF CloseSocket, CloseMessage, Goto, handleVars, callbackVars, brokerVars
<1>29. ASSUME NEW t \in Threads, JoinReader(t) PROVE CountedWereAccepted'
  BY <1>29 DEF JoinReader, Goto, handleVars, clientVars, brokerVars
<1>30. ASSUME NEW t \in Threads, FinishClose(t) PROVE CountedWereAccepted'
  BY <1>30 DEF FinishClose, Goto, Home, clientVars, brokerVars
<1>31. CASE UNCHANGED vars
  BY <1>31 DEF vars, handleVars, threadVars, clientVars, callbackVars, brokerVars
<1> HIDE DEF CountedWereAccepted
<1>32. QED
  BY <1>1, <1>2, <1>3, <1>4, <1>5, <1>6, <1>7, <1>8, <1>9, <1>10, <1>11, <1>12,
    <1>13, <1>14, <1>15, <1>16, <1>17, <1>18, <1>19, <1>20, <1>21, <1>22, <1>23,
    <1>24, <1>25, <1>26, <1>27, <1>28, <1>29, <1>30, <1>31 DEF Next, Creation,
    Reader, CallbackThread, Serving, Broker, Application, Inside

\* A response that is sent leaves the outputs in the socket as they are.
LEMMA RespondedOutputs ==
  ASSUME downstream \in Seq(ToClient), NEW n \in Nat, NEW ok \in BOOLEAN, Deliver(Response(n, ok))
  PROVE  /\ Len(downstream) \in Nat
         /\ \A i \in 1..Len(downstream') : IsOutput(downstream'[i]) =>
              i \in 1..Len(downstream) /\ downstream'[i] = downstream[i]
<1>1. Response(n, ok) \in ToClient /\ ~IsOutput(Response(n, ok))
  BY Messages DEF IsOutput, Response
<1>2. /\ Len(downstream) \in Nat
      /\ downstream' = downstream \/
           /\ Len(downstream') = Len(downstream) + 1
           /\ ~IsOutput(downstream'[Len(downstream) + 1])
           /\ \A i \in 1..Len(downstream) : downstream'[i] = downstream[i]
  BY <1>1, Delivered
<1>3. QED
  BY <1>2

LEMMA OutputsAreNumbers ==
  ASSUME MessageTypes
  PROVE  /\ \A i \in 1..Len(heard) : heard[i] \in Nat
         /\ \A i \in 1..Len(reports) : reports[i] \in Nat
         /\ \A i \in 1..Len(downstream) : IsOutput(downstream[i]) => downstream[i].output \in Nat
<1>1. \A i \in 1..Len(downstream) : downstream[i] \in ToClient
  BY ElementOfSeq DEF MessageTypes
<1>2. \A m \in ToClient : IsOutput(m) => ~IsResponse(m)
  BY DEF IsOutput, IsResponse
<1>3. \A n \in Outputs : n \in Nat
  BY MacosAssumption DEF Outputs
<1>4. \A i \in 1..Len(downstream) : IsOutput(downstream[i]) => downstream[i].output \in Nat
  BY <1>1, <1>2, <1>3, MessageFields
<1>5. \A i \in 1..Len(heard) : heard[i] \in Outputs
  BY ElementOfSeq DEF MessageTypes
<1>6. \A i \in 1..Len(reports) : reports[i] \in Outputs
  BY ElementOfSeq DEF MessageTypes
<1>7. QED
  BY <1>3, <1>4, <1>5, <1>6

\* Outputs stay in order from the socket to the callback.
LEMMA OrderNext ==
  ASSUME MessageTypes, OrderInv, [Next]_vars PROVE OrderInv'
<1> USE MacosAssumption DEF OrderInv, HeardInOrder, WaitingInOrder, SentInOrder
<1>1. ASSUME Create PROVE OrderInv'
  <2>1. /\ downstream # <<>> /\ downstream' = Tail(downstream)
        /\ Head(downstream) = downstream[1] /\ 1 \in 1..Len(downstream)
        /\ Len(downstream) \in Nat /\ Len(downstream') = Len(downstream) - 1
        /\ \A i \in 1..Len(downstream') :
             i + 1 \in 1..Len(downstream) /\ downstream'[i] = downstream[i + 1]
    BY <1>1, Shorter DEF Create, MessageTypes
  <2>2. UNCHANGED <<heard, reports, written>>
    BY <1>1 DEF Create, callbackVars, brokerVars
  <2>3. QED
    BY <2>1, <2>2
<1>2. ASSUME CreateDisconnected PROVE OrderInv'
  BY <1>2 DEF CreateDisconnected, handleVars, threadVars, callbackVars, brokerVars
<1>3. ASSUME Construct PROVE OrderInv'
  BY <1>3 DEF Construct, Unanswered, handleVars, threadVars, callbackVars, brokerVars
<1>4. ASSUME ReaderTakes PROVE OrderInv'
  <2>1. /\ downstream # <<>> /\ downstream' = Tail(downstream)
        /\ Head(downstream) = downstream[1] /\ 1 \in 1..Len(downstream)
        /\ Len(downstream) \in Nat /\ Len(downstream') = Len(downstream) - 1
        /\ \A i \in 1..Len(downstream') :
             i + 1 \in 1..Len(downstream) /\ downstream'[i] = downstream[i + 1]
    BY <1>4, Shorter DEF ReaderTakes, MessageTypes
  <2>2. UNCHANGED <<heard, written>>
    BY <1>4 DEF ReaderTakes, brokerVars
  <2>3. CASE reports' = reports
    BY <2>1, <2>2, <2>3
  <2>4. CASE reports' # reports
    <3>1. /\ IsOutput(downstream[1]) /\ downstream[1].output \in Outputs
          /\ reports' = Append(reports, downstream[1].output)
      BY <1>4, <2>1, <2>4, Shorter, MessageFields DEF ReaderTakes, IsResponse, MessageTypes
    <3>2. /\ Len(reports) \in Nat /\ Len(reports') = Len(reports) + 1
          /\ reports'[Len(reports) + 1] = downstream[1].output
          /\ \A i \in 1..Len(reports) : reports'[i] = reports[i]
      BY <3>1, AppendProperties, LenProperties DEF MessageTypes
    <3>3. \A i \in 1..Len(reports') : i \in 1..Len(reports) \/ i = Len(reports) + 1
      BY <3>2
    <3>4. \A j \in 1..Len(downstream') : IsOutput(downstream'[j]) =>
            downstream[1].output < downstream'[j].output
      BY <2>1, <3>1
    <3>5. \A i \in 1..Len(reports) : reports[i] < downstream[1].output
      BY <2>1, <3>1
    <3>6. \A i \in 1..Len(heard) : heard[i] < downstream[1].output
      BY <2>1, <3>1
    <3>7. downstream[1].output <= written
      BY <2>1, <3>1
    <3> HIDE DEF HeardInOrder, SentInOrder
    <3>8. WaitingInOrder'
      <4>1. ASSUME NEW i \in 1..Len(reports'), NEW j \in 1..Len(reports'), i < j
            PROVE  reports'[i] < reports'[j]
        <5>1. i \in 1..Len(reports)
          BY <3>2, <3>3, <4>1
        <5>2. CASE j = Len(reports) + 1
          BY <3>2, <3>5, <5>1, <5>2
        <5>3. CASE j \in 1..Len(reports)
          BY <3>2, <4>1, <5>1, <5>3
        <5>4. QED
          BY <3>3, <5>2, <5>3
      <4>2. \A j \in 1..Len(reports') : reports'[j] <= written
        BY <3>2, <3>3, <3>7
      <4>3. \A i \in 1..Len(heard), j \in 1..Len(reports') : heard[i] < reports'[j]
        BY <3>2, <3>3, <3>6
      <4>4. QED
        BY <2>2, <4>1, <4>2, <4>3
    <3>9. HeardInOrder'
      BY <2>2 DEF HeardInOrder
    <3> HIDE DEF WaitingInOrder
    <3> USE DEF SentInOrder
    <3>10. SentInOrder'
      <4>1. ASSUME NEW i \in 1..Len(downstream'), NEW j \in 1..Len(downstream'), i < j,
                   IsOutput(downstream'[i]), IsOutput(downstream'[j])
            PROVE  downstream'[i].output < downstream'[j].output
        BY <2>1, <4>1
      <4>2. ASSUME NEW j \in 1..Len(downstream'), IsOutput(downstream'[j])
            PROVE  /\ downstream'[j].output <= written
                   /\ \A i \in 1..Len(heard) : heard[i] < downstream'[j].output
        BY <2>1, <4>2
      <4>3. ASSUME NEW j \in 1..Len(downstream'), IsOutput(downstream'[j]),
                   NEW i \in 1..Len(reports')
            PROVE  reports'[i] < downstream'[j].output
        <5>1. CASE i \in 1..Len(reports)
          BY <2>1, <3>2, <4>3, <5>1
        <5>2. CASE i = Len(reports) + 1
          BY <3>2, <3>4, <4>3, <5>2
        <5>3. QED
          BY <3>3, <5>1, <5>2
      <4>4. QED
        BY <2>2, <4>1, <4>2, <4>3
    <3>11. QED
      BY <3>8, <3>9, <3>10
  <2>5. QED
    BY <2>3, <2>4
<1>5. ASSUME ReaderEnds PROVE OrderInv'
  BY <1>5 DEF ReaderEnds, handleVars, threadVars, brokerVars
<1>6. ASSUME WorkerTakes PROVE OrderInv'
  <2>1. /\ reports # <<>> /\ reports' = Tail(reports)
        /\ Head(reports) = reports[1] /\ 1 \in 1..Len(reports) /\ reports[1] \in Outputs
        /\ Len(reports) \in Nat /\ Len(reports') = Len(reports) - 1
        /\ \A i \in 1..Len(reports') : i + 1 \in 1..Len(reports) /\ reports'[i] = reports[i + 1]
    BY <1>6, Shorter DEF WorkerTakes, MessageTypes
  <2>2. UNCHANGED <<downstream, written>>
    BY <1>6 DEF WorkerTakes, brokerVars
  <2>3. /\ \A i, j \in 1..Len(reports') : i < j => reports'[i] < reports'[j]
        /\ \A j \in 1..Len(reports') : reports'[j] <= written
        /\ \A i \in 1..Len(heard), j \in 1..Len(reports') : heard[i] < reports'[j]
    <3>1. \A i, j \in 1..Len(reports') : i < j => i + 1 < j + 1
      OBVIOUS
    <3>2. QED
      BY <2>1, <3>1
  <2>4. CASE heard' = heard
    <3>1. HeardInOrder'
      BY <2>2, <2>3, <2>4
    <3>2. WaitingInOrder'
      BY <2>2, <2>3, <2>4
    <3>3. SentInOrder'
      BY <2>1, <2>2, <2>4
    <3>4. QED
      BY <3>1, <3>2, <3>3
  <2>5. CASE heard' # heard
    <3>1. heard' = Append(heard, reports[1])
      BY <1>6, <2>1, <2>5 DEF WorkerTakes
    <3>2. /\ Len(heard) \in Nat /\ Len(heard') = Len(heard) + 1
          /\ heard'[Len(heard) + 1] = reports[1]
          /\ \A i \in 1..Len(heard) : heard'[i] = heard[i]
      BY <2>1, <3>1, AppendProperties, LenProperties DEF MessageTypes
    <3>3. \A i \in 1..Len(heard') : i \in 1..Len(heard) \/ i = Len(heard) + 1
      BY <3>2
    <3>4. \A i \in 1..Len(heard) : heard[i] < reports[1]
      BY <2>1
    <3>5. \A j \in 1..Len(reports') : reports[1] < reports'[j]
      BY <2>1
    <3>6. HeardInOrder'
      <4>1. ASSUME NEW i \in 1..Len(heard'), NEW j \in 1..Len(heard'), i < j
            PROVE  heard'[i] < heard'[j]
        <5>1. i \in 1..Len(heard)
          BY <3>2, <3>3, <4>1
        <5>2. CASE j = Len(heard) + 1
          BY <3>2, <3>4, <5>1, <5>2
        <5>3. CASE j \in 1..Len(heard)
          BY <3>2, <4>1, <5>1, <5>3
        <5>4. QED
          BY <3>3, <5>2, <5>3
      <4>2. \A i \in 1..Len(heard') : heard'[i] <= written
        BY <2>1, <3>2, <3>3
      <4>3. QED
        BY <2>2, <4>1, <4>2
    <3>7. WaitingInOrder'
      BY <2>2, <2>3, <3>2, <3>3, <3>5
    <3>8. SentInOrder'
      <4>1. ASSUME NEW j \in 1..Len(downstream), IsOutput(downstream[j])
            PROVE  /\ \A i \in 1..Len(heard') : heard'[i] < downstream[j].output
                   /\ \A i \in 1..Len(reports') : reports'[i] < downstream[j].output
        BY <2>1, <3>2, <3>3, <4>1
      <4>2. QED
        BY <2>2, <4>1
    <3>9. QED
      BY <3>6, <3>7, <3>8
  <2>6. QED
    BY <2>4, <2>5
<1>7. ASSUME CallbackReturns PROVE OrderInv'
  BY <1>7 DEF CallbackReturns, Goto, handleVars, clientVars, callbackVars, brokerVars
<1>8. ASSUME WorkerEnds PROVE OrderInv'
  BY <1>8 DEF WorkerEnds, Goto, handleVars, clientVars, callbackVars, brokerVars
<1>9. ASSUME ProcessDies PROVE OrderInv'
  BY <1>9 DEF ProcessDies, handleVars, callbackVars, brokerVars
<1>10. ASSUME AnswerCreate PROVE OrderInv'
  <2>1. UNCHANGED <<heard, reports, written>>
    BY <1>10 DEF AnswerCreate, callbackVars
  <2>2. \E n \in Nat : \E b \in BOOLEAN : Deliver(Response(n, b))
    BY <1>10 DEF AnswerCreate
  <2>3. /\ Len(downstream) \in Nat
        /\ \A i \in 1..Len(downstream') : IsOutput(downstream'[i]) =>
             i \in 1..Len(downstream) /\ downstream'[i] = downstream[i]
    BY <2>2, RespondedOutputs DEF MessageTypes
  <2>4. QED
    BY <2>1, <2>3
<1>11. ASSUME NEW ok \in BOOLEAN, ReceiveSubmit(ok) PROVE OrderInv'
  <2>1. UNCHANGED <<heard, reports, written>>
    BY <1>11 DEF ReceiveSubmit, callbackVars
  <2>2. \E n \in Nat : \E b \in BOOLEAN : Deliver(Response(n, b))
    BY <1>11, Shorter, MessageFields DEF ReceiveSubmit, ReportIds, MessageTypes
  <2>3. /\ Len(downstream) \in Nat
        /\ \A i \in 1..Len(downstream') : IsOutput(downstream'[i]) =>
             i \in 1..Len(downstream) /\ downstream'[i] = downstream[i]
    BY <2>2, RespondedOutputs DEF MessageTypes
  <2>4. QED
    BY <2>1, <2>3
<1>12. ASSUME Revoke PROVE OrderInv'
  BY <1>12 DEF Revoke, handleVars, threadVars, clientVars, callbackVars
<1>13. ASSUME BrokerDies PROVE OrderInv'
  BY <1>13 DEF BrokerDies, handleVars, threadVars, clientVars, callbackVars
<1>14. ASSUME ReceiveEnd PROVE OrderInv'
  BY <1>14 DEF ReceiveEnd, handleVars, threadVars, clientVars, callbackVars
<1>15. ASSUME EndSession PROVE OrderInv'
  BY <1>15 DEF EndSession, handleVars, threadVars, clientVars, callbackVars
<1>16. ASSUME HostWrites PROVE OrderInv'
  <2>1. /\ Deliver(Output(written + 1)) /\ written + 1 \in Outputs
        /\ written' = written + 1 /\ UNCHANGED <<heard, reports>>
    BY <1>16 DEF HostWrites, Outputs, callbackVars, MessageTypes
  <2>2. Output(written + 1) \in ToClient /\ Output(written + 1).output = written'
    BY <2>1, Messages DEF Output
  <2>3. /\ Len(downstream) \in Nat
        /\ downstream' = downstream \/
             /\ Len(downstream') = Len(downstream) + 1
             /\ downstream'[Len(downstream) + 1].output = written'
             /\ \A i \in 1..Len(downstream) : downstream'[i] = downstream[i]
    BY <2>1, <2>2, Delivered DEF MessageTypes
  <2>4. \A n \in Nat : n <= written => n <= written' /\ n < written'
    BY <2>1 DEF MessageTypes
  <2>5. /\ \A i \in 1..Len(heard) : heard[i] < written' /\ heard[i] <= written'
        /\ \A i \in 1..Len(reports) : reports[i] < written' /\ reports[i] <= written'
        /\ \A i \in 1..Len(downstream) : IsOutput(downstream[i]) =>
             downstream[i].output < written' /\ downstream[i].output <= written'
    BY <2>4, OutputsAreNumbers
  <2>6. HeardInOrder' /\ WaitingInOrder'
    BY <2>1, <2>5
  <2>7. CASE downstream' = downstream
    BY <2>1, <2>5, <2>6, <2>7
  <2>8. CASE downstream' # downstream
    <3>1. \A i \in 1..Len(downstream') : i \in 1..Len(downstream) \/ i = Len(downstream) + 1
      BY <2>3, <2>8
    <3>2. ASSUME NEW i \in 1..Len(downstream'), NEW j \in 1..Len(downstream'), i < j,
                 IsOutput(downstream'[i]), IsOutput(downstream'[j])
          PROVE  downstream'[i].output < downstream'[j].output
      <4>1. i \in 1..Len(downstream)
        BY <2>3, <2>8, <3>2
      <4>2. CASE j = Len(downstream) + 1
        BY <2>3, <2>5, <2>8, <3>2, <4>1, <4>2
      <4>3. CASE j \in 1..Len(downstream)
        BY <2>3, <2>8, <3>2, <4>1, <4>3
      <4>4. QED
        BY <3>1, <4>2, <4>3
    <3>3. ASSUME NEW j \in 1..Len(downstream'), IsOutput(downstream'[j])
          PROVE  /\ downstream'[j].output <= written'
                 /\ \A i \in 1..Len(heard) : heard[i] < downstream'[j].output
                 /\ \A i \in 1..Len(reports) : reports[i] < downstream'[j].output
      <4>1. CASE j \in 1..Len(downstream)
        BY <2>3, <2>5, <2>8, <3>3, <4>1
      <4>2. CASE j = Len(downstream) + 1
        <5>1. downstream'[j].output = written' /\ written' <= written'
          BY <2>1, <2>3, <2>8, <4>2 DEF Outputs
        <5>2. QED
          BY <2>5, <5>1
      <4>3. QED
        BY <3>1, <4>1, <4>2
    <3>4. QED
      BY <2>1, <2>6, <3>2, <3>3
  <2>9. QED
    BY <2>7, <2>8
<1>17. ASSUME NEW t \in Threads, CallSubmit(t) PROVE OrderInv'
  BY <1>17 DEF CallSubmit, Call, Home, handleVars, clientVars, callbackVars,
    brokerVars
<1>18. ASSUME NEW t \in Threads, CallClose(t) PROVE OrderInv'
  BY <1>18 DEF CallClose, Call, Home, handleVars, clientVars, callbackVars,
    brokerVars
<1>19. ASSUME NEW t \in Threads, NEW c \in BOOLEAN, SetOutputCallback(t, c) PROVE OrderInv'
  BY <1>19 DEF SetOutputCallback, handleVars, clientVars, brokerVars
<1>20. ASSUME NEW t \in Threads, EnterClosed(t) PROVE OrderInv'
  BY <1>20 DEF EnterClosed, Goto, Home, handleVars, clientVars, callbackVars,
    brokerVars
<1>21. ASSUME NEW t \in Threads, EnterSubmit(t) PROVE OrderInv'
  BY <1>21 DEF EnterSubmit, Goto, clientVars, callbackVars, brokerVars
<1>22. ASSUME NEW t \in Threads, SendReport(t) PROVE OrderInv'
  BY <1>22 DEF SendReport, Unanswered, Submit, Goto, handleVars, callbackVars,
    brokerVars
<1>23. ASSUME NEW t \in Threads, SendFails(t) PROVE OrderInv'
  BY <1>23 DEF SendFails, Unanswered, FinishSubmit, callbackVars, brokerVars, Goto
<1>24. ASSUME NEW t \in Threads, Answered(t) PROVE OrderInv'
  BY <1>24 DEF Answered, Goto, handleVars, FinishSubmit, clientVars, callbackVars,
    brokerVars
<1>25. ASSUME NEW t \in Threads, AnswerLost(t) PROVE OrderInv'
  BY <1>25 DEF AnswerLost, FinishSubmit, clientVars, callbackVars, brokerVars, Goto
<1>26. ASSUME NEW t \in Threads, TimesOut(t) PROVE OrderInv'
  BY <1>26 DEF TimesOut, FinishSubmit, callbackVars, brokerVars, Goto
<1>27. ASSUME NEW t \in Threads, EnterClose(t) PROVE OrderInv'
  BY <1>27 DEF EnterClose, Goto, clientVars, callbackVars, brokerVars
<1>28. ASSUME NEW t \in Threads, CloseSocket(t) PROVE OrderInv'
  BY <1>28 DEF CloseSocket, CloseMessage, Goto, handleVars, callbackVars, brokerVars
<1>29. ASSUME NEW t \in Threads, JoinReader(t) PROVE OrderInv'
  BY <1>29 DEF JoinReader, Goto, handleVars, clientVars, brokerVars
<1>30. ASSUME NEW t \in Threads, FinishClose(t) PROVE OrderInv'
  BY <1>30 DEF FinishClose, Goto, Home, clientVars, brokerVars
<1>31. CASE UNCHANGED vars
  BY <1>31 DEF vars, handleVars, threadVars, clientVars, callbackVars, brokerVars
<1> HIDE DEF OrderInv
<1>32. QED
  BY <1>1, <1>2, <1>3, <1>4, <1>5, <1>6, <1>7, <1>8, <1>9, <1>10, <1>11, <1>12,
    <1>13, <1>14, <1>15, <1>16, <1>17, <1>18, <1>19, <1>20, <1>21, <1>22, <1>23,
    <1>24, <1>25, <1>26, <1>27, <1>28, <1>29, <1>30, <1>31 DEF Next, Creation,
    Reader, CallbackThread, Serving, Broker, Application, Inside

-----------------------------------------------------------------------------
(* The inductive invariant and what follows from it.                         *)

LEMMA InvariantInit == Init => IInv
<1> SUFFICES ASSUME Init PROVE IInv
  OBVIOUS
<1> USE MacosAssumption, ThreadFacts DEF Init
<1>1. TypeInv
  <2>1. ThreadTypes
    BY DEF ThreadTypes, Labels, Sending
  <2>2. FlagTypes /\ ReportTypes
    BY DEF FlagTypes, ReportTypes
  <2>3. MessageTypes
    BY EmptySeq DEF MessageTypes, Answers, Unanswered
  <2>4. QED
    BY <2>1, <2>2, <2>3 DEF TypeInv
<1>2. LockInv /\ LifeInv /\ ClosedIsQuiet /\ AnswerIsOwn /\ CountedWereAccepted
  BY DEF LockInv, LifeInv, ClosedIsQuiet, AnswerIsOwn, CountedWereAccepted, Sending,
    Closing,
    Unanswered
<1>3. Len(downstream) = 0 /\ Len(heard) = 0 /\ Len(reports) = 0
  BY EmptySeq
<1>4. OneRequest /\ OrderInv
  BY <1>3 DEF OneRequest, OrderInv, HeardInOrder, WaitingInOrder, SentInOrder
<1>5. AcceptedInv
  BY <1>3 DEF AcceptedInv, Unanswered
<1>6. QED
  BY <1>1, <1>2, <1>4, <1>5 DEF IInv

\* Every reachable state satisfies the inductive invariant: types need that a submit has
\* come as far as its reports (AcceptedInv), that needs answers to be one's own, and
\* those that one request at most is on its way.
THEOREM Invariance == Spec => []IInv
<1>1. IInv /\ [Next]_vars => IInv'
  BY ThreadTypesNext, FlagTypesNext, MessageTypesNext, ReportTypesNext, LockInvNext,
    LifeInvNext, QuietNext, OneRequestNext, AnswerIsOwnNext, AcceptedNext, CountedNext,
    OrderNext DEF IInv, TypeInv
<1>2. QED
  BY InvariantInit, <1>1, PTL DEF Spec

\* Handle, client, socket and session keep their types, the queue of outputs its limit
\* and a submit its number of reports, whatever threads, host, broker and licence do.
THEOREM MacosTypeCorrect == Spec => []TypeOK
<1>1. IInv => TypeOK
  BY TypesAreRight DEF IInv
<1>2. QED
  BY <1>1, Invariance, PTL

\* Neither direction of the socket mixes up messages: however timeouts, late answers, a
\* withdrawn licence and dying processes fall, a submit takes the answer to its own
\* report, the handle counts a submit as successful only if the HID device took each of
\* its reports, and the callback hears outputs in order, each once (call(), read_loop()
\* and callback_loop() of macos_broker_client.cpp).
THEOREM MessagesKeptApart == Spec => []MessagesMatch
<1>1. ASSUME IInv PROVE OutputsInOrder
  <2>1. DOMAIN heard = 1..Len(heard)
    BY <1>1, LenProperties DEF IInv, TypeInv, MessageTypes
  <2>2. QED
    BY <1>1, <2>1 DEF IInv, OrderInv, HeardInOrder, OutputsInOrder
<1>2. IInv => MessagesMatch
  BY <1>1 DEF IInv, MessagesMatch
<1>3. QED
  BY <1>2, Invariance, PTL

\* Once close() has returned on another thread than the callback's, the reader thread has
\* ended and no callback runs or will run, whatever other threads called meanwhile.
THEOREM ClosedStaysQuiet == Spec => []ClosedIsQuiet
<1>1. IInv => ClosedIsQuiet
  BY DEF IInv
<1>2. QED
  BY <1>1, Invariance, PTL

=============================================================================
