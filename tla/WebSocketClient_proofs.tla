----------------------- MODULE WebSocketClient_proofs -----------------------
(***************************************************************************)
(* Proofs about WebSocketClient, for any sizes and any number of calls.    *)
(***************************************************************************)
EXTENDS WebSocketClient, TLAPS

(***************************************************************************)
(* Types.                                                                  *)
(***************************************************************************)
LEMMA NothingIsMessage == Nothing \in Messages
  BY DEF Nothing, Message, Messages, Kinds, Sizes

LEMMA AnswersAreKinds == \A r : Answers(r) \subseteq Kinds
  BY ClientAssumption DEF Answers, Kinds

LEMMA TypeInit == Init => TypeOK
<1> SUFFICES ASSUME Init PROVE TypeOK
  OBVIOUS
<1>1. ClientTypeOK
  BY NothingIsMessage DEF Init, ClientTypeOK, Sizes
<1>2. NetworkTypeOK
  BY DEF Init, NetworkTypeOK
<1>3. HostTypeOK
  BY DEF Init, HostTypeOK
<1>4. CountsTypeOK
  <2>1. calls = 0 /\ before = 0 /\ replaced = 0
    BY DEF Init
  <2>2. ranOut \in BOOLEAN
    BY Zenon DEF Init
  <2> QED
    BY <2>1, <2>2, ClientAssumption DEF CountsTypeOK
<1> QED
  BY <1>1, <1>2, <1>3, <1>4 DEF TypeOK, Init

LEMMA ClientTypeStep == TypeOK /\ [Next]_vars => ClientTypeOK'
<1> SUFFICES ASSUME TypeOK, [Next]_vars PROVE ClientTypeOK'
  OBVIOUS
<1>1. ClientTypeOK
  BY DEF TypeOK
<1> USE DEF ClientTypeOK
<1>2. CASE ConnectFails \/ WriteFails \/ Write \/ ReadFails \/ RunsOutOfMemory
  BY <1>1, <1>2 DEF ConnectFails, WriteFails, Write, ReadFails, FailsReadIf, RunsOutOfMemory
<1>3. CASE Connect \/ \E r \in Requests : Call(r)
  BY <1>1, <1>3, NothingIsMessage DEF Connect, Call, Begin, BeginWith
<1>4. CASE Read
  BY <1>1, <1>4 DEF Read, ReadTo, TypeOK, NetworkTypeOK
<1>5. CASE ConstructorReturns \/ MetadataReturns
  BY <1>1, <1>5 DEF ConstructorReturns, MetadataReturns, Returns, ReturnsFrom, Parsed, Format,
                    Messages, Sizes
<1>6. CASE NextFrameFails \/ OtherReturns \/ NextFrameSucceeds
  BY <1>1, <1>6 DEF NextFrameFails, FailsWith, OtherReturns, NextFrameSucceeds, Returns, ReturnsFrom
<1>7. CASE StoreFrame
  BY <1>1, <1>7 DEF StoreFrame
<1>8. CASE ServerAnswers \/ ServerResizes \/ LinkBreaks \/ UNCHANGED vars
  BY <1>1, <1>8 DEF ServerAnswers, ServerResizes, LinkBreaks, vars, client
<1> QED
  BY <1>2, <1>3, <1>4, <1>5, <1>6, <1>7, <1>8 DEF Next, ClientStep

LEMMA NetworkTypeStep == TypeOK /\ [Next]_vars => NetworkTypeOK'
<1> SUFFICES ASSUME TypeOK, [Next]_vars PROVE NetworkTypeOK'
  OBVIOUS
<1>1. NetworkTypeOK
  BY DEF TypeOK
<1> USE DEF NetworkTypeOK, network, past
<1>2. CASE ConnectFails \/ WriteFails \/ ReadFails \/ RunsOutOfMemory \/ StoreFrame
           \/ UNCHANGED vars
  BY <1>1, <1>2 DEF ConnectFails, WriteFails, ReadFails, FailsReadIf, RunsOutOfMemory,
                    StoreFrame, vars
<1>3. CASE Connect \/ \E r \in Requests : Call(r)
  BY <1>1, <1>3 DEF Connect, Call
<1>4. CASE Write
  <2>1. [to |-> calls, request |-> Request] \in Asked
    BY <1>4 DEF Write, TypeOK, HostTypeOK, CountsTypeOK, Request, Requests, Asked
  <2> QED
    BY <1>1, <1>4, <2>1 DEF Write
<1>5. CASE Read
  BY <1>1, <1>5 DEF Read, ReadTo
<1>6. CASE ConstructorReturns \/ MetadataReturns \/ NextFrameFails \/ OtherReturns
           \/ NextFrameSucceeds
  BY <1>1, <1>6 DEF ConstructorReturns, MetadataReturns, NextFrameFails, FailsWith, OtherReturns,
                    NextFrameSucceeds, Returns, ReturnsFrom
<1>7. CASE ServerAnswers
  <2>1. Head(toServer) \in Asked /\ Tail(toServer) \in Seq(Asked)
    BY <1>1, <1>7 DEF ServerAnswers
  <2>2. \A k \in Kinds : Message(Head(toServer).to, k, size) \in Messages
    BY <1>1, <2>1 DEF Message, Messages, Sizes, Asked
  <2>3. \A m \in Messages : Append(toClient, m) \in Seq(Messages)
    BY <1>1
  <2>4. toClient' \in Seq(Messages)
    BY <1>7, <2>2, <2>3, AnswersAreKinds DEF ServerAnswers
  <2>5. toServer' = Tail(toServer) /\ UNCHANGED <<link, linkAtCall, size>>
    BY <1>7 DEF ServerAnswers
  <2> HIDE DEF network, past
  <2> QED
    BY <1>1, <2>1, <2>4, <2>5
<1>8. CASE ServerResizes
  BY <1>1, <1>8 DEF ServerResizes
<1>9. CASE LinkBreaks
  <2>1. <<>> \in Seq(Messages) /\ <<>> \in Seq(Asked)
    OBVIOUS
  <2>2. CASE toClient' = toClient
    BY <1>1, <1>9, <2>1, <2>2 DEF LinkBreaks
  <2>3. CASE toClient' = <<>>
    BY <1>1, <1>9, <2>1, <2>3 DEF LinkBreaks
  <2> QED
    BY <1>9, <2>2, <2>3 DEF LinkBreaks
<1> QED
  BY <1>2, <1>3, <1>4, <1>5, <1>6, <1>7, <1>8, <1>9 DEF Next, ClientStep

(* A call keeps its name and its number while it runs. *)
QuietReturn == ConstructorReturns \/ MetadataReturns \/ NextFrameFails \/ OtherReturns
               \/ NextFrameSucceeds

LEMMA ReturnsAreQuiet ==
  ASSUME QuietReturn
  PROVE  /\ pc \in {"received", "stored"} /\ pc' = "idle"
         /\ UNCHANGED <<ec, m_buffer, toServer, toClient, link, call, calls, linkAtCall,
                        ranOut, before, replaced>>
  BY DEF QuietReturn, ConstructorReturns, MetadataReturns, NextFrameFails, FailsWith, OtherReturns,
         NextFrameSucceeds, Returns, ReturnsFrom, network, past

LEMMA HostTypeStep == TypeOK /\ [Next]_vars => HostTypeOK'
<1> SUFFICES ASSUME TypeOK, [Next]_vars PROVE HostTypeOK'
  OBVIOUS
<1>1. HostTypeOK
  BY DEF TypeOK
<1> USE DEF HostTypeOK, host
<1>2. CASE Connect \/ \E r \in Requests : Call(r)
  BY <1>1, <1>2 DEF Connect, Call, Begin, BeginWith
<1>3. CASE QuietReturn
  BY <1>1, <1>3 DEF QuietReturn, ConstructorReturns, MetadataReturns, NextFrameFails, FailsWith,
                    OtherReturns, NextFrameSucceeds, Returns, ReturnsFrom
<1>4. CASE \/ ConnectFails \/ WriteFails \/ Write \/ Read \/ ReadFails \/ RunsOutOfMemory
           \/ StoreFrame \/ ServerAnswers \/ ServerResizes \/ LinkBreaks \/ UNCHANGED vars
  BY <1>1, <1>4 DEF ConnectFails, WriteFails, Write, Read, ReadTo, ReadFails, FailsReadIf,
                    RunsOutOfMemory, StoreFrame, ServerAnswers, ServerResizes,
                    LinkBreaks, vars
<1> QED
  BY <1>2, <1>3, <1>4 DEF Next, ClientStep, QuietReturn

LEMMA CountsTypeStep == TypeOK /\ [Next]_vars => CountsTypeOK'
<1> SUFFICES ASSUME TypeOK, [Next]_vars PROVE CountsTypeOK'
  OBVIOUS
<1>1. CountsTypeOK
  BY DEF TypeOK
<1> USE ClientAssumption DEF CountsTypeOK, past
<1>2. CASE Connect \/ \E r \in Requests : Call(r)
  BY <1>1, <1>2 DEF Connect, Call, Begin, BeginWith
<1>3. CASE StoreFrame
  BY <1>1, <1>3 DEF StoreFrame
<1>4. CASE ConstructorReturns \/ MetadataReturns \/ NextFrameFails \/ OtherReturns
           \/ NextFrameSucceeds
  BY <1>1, <1>4 DEF ConstructorReturns, MetadataReturns, NextFrameFails, FailsWith, OtherReturns,
                    NextFrameSucceeds, Returns, ReturnsFrom
<1>5. CASE \/ ConnectFails \/ WriteFails \/ Write \/ Read \/ ReadFails \/ RunsOutOfMemory
           \/ ServerAnswers \/ ServerResizes \/ LinkBreaks \/ UNCHANGED vars
  BY <1>1, <1>5 DEF ConnectFails, WriteFails, Write, Read, ReadTo, ReadFails, FailsReadIf,
                    RunsOutOfMemory, ServerAnswers, ServerResizes, LinkBreaks, vars
<1> QED
  BY <1>2, <1>3, <1>4, <1>5 DEF Next, ClientStep

LEMMA TypeStep == TypeOK /\ [Next]_vars => TypeOK'
<1> SUFFICES ASSUME TypeOK, [Next]_vars PROVE TypeOK'
  OBVIOUS
<1>1. /\ pc' \in {"calling", "reading"} => ~ec' /\ m_buffer' = Nothing
      /\ pc' = "new" => call' = "none"
      /\ pc' \notin {"new", "idle"} => call' # "none"
  <2> USE DEF TypeOK
  <2>1. CASE Connect \/ \E r \in Requests : Call(r)
    BY <2>1 DEF Connect, Call, Begin, BeginWith, Requests
  <2>2. CASE QuietReturn
    BY <2>2, ReturnsAreQuiet
  <2>3. CASE \/ ConnectFails \/ WriteFails \/ Write \/ Read \/ ReadFails \/ RunsOutOfMemory
             \/ StoreFrame \/ ServerAnswers \/ ServerResizes \/ LinkBreaks \/ UNCHANGED vars
    BY <2>3 DEF ConnectFails, WriteFails, Write, Read, ReadTo, ReadFails, FailsReadIf,
                RunsOutOfMemory, StoreFrame, ServerAnswers, ServerResizes,
                LinkBreaks, vars, host, client
  <2> QED
    BY <2>1, <2>2, <2>3 DEF Next, ClientStep, QuietReturn
<1> QED
  BY <1>1, ClientTypeStep, NetworkTypeStep, HostTypeStep, CountsTypeStep DEF TypeOK

(* The type invariant holds. *)
THEOREM TypeCorrect == Spec => []TypeOK
  BY TypeInit, TypeStep, PTL DEF Spec

(***************************************************************************)
(* Until an allocation fails: requests and answers.                        *)
(***************************************************************************)
(* No step forgets that an allocation has failed. *)
LEMMA FailureIsRemembered ==
  ASSUME TypeOK, [Next]_vars, ~ranOut'
  PROVE  ~ranOut /\ ~RunsOutOfMemory
<1> USE DEF past
<1>1. CASE RunsOutOfMemory
  BY <1>1 DEF RunsOutOfMemory
<1>2. CASE Connect \/ \E r \in Requests : Call(r)
  BY <1>2 DEF Connect, Call, Begin, BeginWith, RunsOutOfMemory
<1>3. CASE QuietReturn
  BY <1>3, ReturnsAreQuiet DEF RunsOutOfMemory
<1>4. CASE \/ ConnectFails \/ WriteFails \/ Write \/ Read \/ ReadFails
           \/ StoreFrame \/ ServerAnswers \/ ServerResizes \/ LinkBreaks \/ UNCHANGED vars
  BY <1>4 DEF ConnectFails, WriteFails, Write, Read, ReadTo, ReadFails, FailsReadIf,
              StoreFrame, ServerAnswers, ServerResizes, LinkBreaks, vars,
              RunsOutOfMemory
<1> QED
  BY <1>1, <1>2, <1>3, <1>4 DEF Next, ClientStep, QuietReturn

LEMMA InStepStep ==
  ASSUME TypeOK, InStep, [Next]_vars
  PROVE  InStep'
<1> SUFFICES ASSUME ~ranOut' PROVE InStep'
  BY DEF InStep
<1>0. ~ranOut /\ ~RunsOutOfMemory
  BY FailureIsRemembered
<1> USE <1>0 DEF InStep, past
<1>1. CASE ConnectFails \/ WriteFails \/ ReadFails
  BY <1>1 DEF ConnectFails, WriteFails, ReadFails, FailsReadIf, network, host, Request
<1>2. CASE Connect \/ \E r \in Requests : Call(r)
  BY <1>2 DEF Connect, Call, Begin, BeginWith, network
<1>3. CASE Write
  <2>1. toServer = <<>> /\ toClient = <<>>
    BY <1>3 DEF Write
  <2>2. /\ pc' = "reading" /\ UNCHANGED <<toClient, calls, call>>
        /\ \/ toServer' = <<[to |-> calls, request |-> Request]>> /\ link' = "open"
           \/ toServer' = <<>>
    BY <1>3, <2>1 DEF Write, host
  <2>3. Request' = Request
    BY <2>2 DEF Request
  <2> QED
    BY <2>1, <2>2, <2>3
<1>4. CASE Read
  <2>1. PICK m : toClient = <<m>>
    BY <1>4 DEF Read, ReadTo
  <2>2. toClient' = <<>> /\ toServer' = <<>>
    BY <1>4, <2>1 DEF Read, ReadTo
  <2> QED
    BY <2>2
<1>5. CASE QuietReturn
  BY <1>5, ReturnsAreQuiet
<1>6. CASE StoreFrame
  BY <1>6 DEF StoreFrame, network
<1>7. CASE ServerAnswers
  <2>1. /\ toServer = <<[to |-> calls, request |-> Request]>> /\ toClient = <<>>
        /\ pc = "reading" /\ UNCHANGED <<pc, calls, call>>
    BY <1>7 DEF ServerAnswers, client, host
  <2>2. PICK k \in Answers(Request) :
           toClient' = Append(toClient, Message(calls, k, size))
    BY <1>7, <2>1 DEF ServerAnswers
  <2>3. toClient' = <<Message(calls, k, size)>> /\ toServer' = <<>>
    BY <1>7, <2>1, <2>2 DEF ServerAnswers
  <2>4. size \in Dims
    BY DEF TypeOK, NetworkTypeOK
  <2> QED
    BY <2>1, <2>3, <2>4 DEF Request
<1>8. CASE ServerResizes \/ UNCHANGED vars
  BY <1>8 DEF ServerResizes, vars, client, network, host, Request
<1>9. CASE LinkBreaks
  BY <1>9 DEF LinkBreaks, client, host, Request
<1> QED
  BY <1>1, <1>2, <1>3, <1>4, <1>5, <1>6, <1>7, <1>8, <1>9 DEF Next, ClientStep, QuietReturn

(* Client and server stay in step until an allocation fails.               *)
THEOREM StaysInStep == Spec => []InStep
<1>1. Init => InStep
  BY DEF Init, InStep
<1>2. TypeOK /\ InStep /\ [Next]_vars => InStep'
  BY InStepStep
<1> QED
  BY <1>1, <1>2, TypeCorrect, PTL DEF Spec

(***************************************************************************)
(* What nextFrame() reports, until an allocation fails.                    *)
(***************************************************************************)
CallInv ==
  SuccessHasFrame /\ BrokenIsReported /\ (~ranOut => ReceivedInv /\ LostInv)

LEMMA CallStep ==
  ASSUME TypeOK, InStep, CallInv, [Next]_vars
  PROVE  CallInv'
<1> SUFFICES ASSUME ~ranOut' PROVE CallInv'
  BY DEF CallInv, SuccessHasFrame, BrokenIsReported
<1>0. ~ranOut /\ ~RunsOutOfMemory
  BY FailureIsRemembered
<1> USE <1>0 DEF CallInv, ReceivedInv, LostInv, SuccessHasFrame, BrokenIsReported, past
<1>1. CASE ConnectFails
  BY <1>1 DEF ConnectFails, host, TypeOK
<1>2. CASE Connect \/ \E r \in Requests : Call(r)
  BY <1>2 DEF Connect, Call, Begin, BeginWith, InStep, network
<1>3. CASE Write \/ WriteFails \/ ReadFails
  BY <1>3 DEF Write, WriteFails, ReadFails, FailsReadIf, network, host
<1>4. CASE Read
  <2>1. PICK k \in Answers(Request), d \in Dims : toClient = <<Message(calls, k, d)>>
    BY <1>4 DEF Read, ReadTo, InStep
  <2>2. m_buffer' = Message(calls, k, d) /\ pc' = "received" /\ pc = "reading"
    BY <1>4, <2>1 DEF Read, ReadTo
  <2>3. m_buffer'.to = calls /\ m_buffer'.kind = k
    BY <2>2 DEF Message
  <2>4. UNCHANGED <<m_frameCache, ec, link, host, past>>
    BY <1>4 DEF Read, ReadTo
  <2>5. linkAtCall = "open"
    BY <2>1, <2>2
  <2> QED
    BY <2>2, <2>3, <2>4, <2>5 DEF host, Request
<1>6. CASE ConstructorReturns \/ MetadataReturns \/ OtherReturns
  BY <1>6 DEF ConstructorReturns, MetadataReturns, OtherReturns, Returns, ReturnsFrom
<1>7. CASE NextFrameFails
  BY <1>7 DEF NextFrameFails, FailsWith, Returns, ReturnsFrom
<1>8. CASE StoreFrame
  <2>1. m_frameCache'.data = m_buffer
    BY <1>8 DEF StoreFrame, TypeOK, ClientTypeOK
  <2>2. m_buffer.to = calls /\ m_buffer.kind = "frame"
    BY <1>8 DEF StoreFrame, Request, Answers
  <2> QED
    BY <1>8, <2>1, <2>2 DEF StoreFrame, network, host
<1>9. CASE NextFrameSucceeds
  BY <1>9 DEF NextFrameSucceeds, ReturnsFrom
<1>10. CASE ServerAnswers
  BY <1>10 DEF ServerAnswers, InStep, client, host, Request
<1>11. CASE ServerResizes \/ UNCHANGED vars
  BY <1>11 DEF ServerResizes, vars, client, network, host, Request
<1>12. CASE LinkBreaks
  BY <1>12 DEF LinkBreaks, client, host, Request
<1> QED
  BY <1>1, <1>2, <1>3, <1>4, <1>6, <1>7, <1>8, <1>9, <1>10, <1>11, <1>12
     DEF Next, ClientStep

(* The inductive invariant holds. *)
THEOREM Invariance == Spec => []IInv
<1>1. Init => CallInv
  BY DEF Init, CallInv, ReceivedInv, LostInv, SuccessHasFrame, BrokenIsReported
<1>2. TypeOK /\ InStep /\ CallInv /\ [Next]_vars => CallInv'
  BY CallStep
<1>3. TypeOK /\ InStep /\ CallInv => IInv
  BY DEF IInv, CallInv
<1>4. Spec => []InStep
  BY StaysInStep
<1> QED
  BY <1>1, <1>2, <1>3, <1>4, TypeCorrect, PTL DEF Spec

(* A nextFrame() that reports success has the frame it asked for, until an *)
(* allocation fails.                                                       *)
THEOREM SuccessIsAFrame == Spec => []SuccessHasFrame
<1>1. IInv => SuccessHasFrame
  BY DEF IInv
<1> QED
  BY <1>1, Invariance, PTL

(* A connection that is not there is reported by every nextFrame(), until  *)
(* an allocation fails.                                                    *)
THEOREM LossIsReported == Spec => []BrokenIsReported
<1>1. IInv => BrokenIsReported
  BY DEF IInv
<1> QED
  BY <1>1, Invariance, PTL

(***************************************************************************)
(* The client implements FrameSource, even when allocations fail.          *)
(***************************************************************************)
Calling == pc # "idle" /\ call = "frame"
ReplacedInv ==
  Calling => replaced = before + (IF pc = "stored" THEN 1 ELSE 0)

LEMMA FrameStep ==
  ASSUME TypeOK, ReplacedInv, [Next]_vars
  PROVE  ReplacedInv' /\ [F!Next]_F!vars
<1> DEFINE outcome == IF result \in {"none", "success"} THEN result ELSE "failure"
<1>1. before \in Nat /\ replaced \in Nat
  BY DEF TypeOK, CountsTypeOK
<1> USE DEF ReplacedInv, Calling, F!vars, F!Next
<1>2. CASE ConnectFails
  BY <1>2 DEF ConnectFails, host, TypeOK
<1>3. CASE Connect
  BY <1>3 DEF Connect, Begin, BeginWith, TypeOK
<1>4. ASSUME NEW r \in Requests, Call(r)
      PROVE  ReplacedInv' /\ [F!Next]_F!vars
  BY <1>1, <1>4 DEF Call, Begin, BeginWith, F!Call
<1>5. CASE Write \/ WriteFails \/ Read \/ ReadFails \/ RunsOutOfMemory
  BY <1>5 DEF Write, WriteFails, Read, ReadTo, ReadFails, FailsReadIf, RunsOutOfMemory, host
<1>6. CASE ConstructorReturns \/ MetadataReturns \/ OtherReturns
  BY <1>6 DEF ConstructorReturns, MetadataReturns, OtherReturns, Returns, ReturnsFrom
<1>7. CASE NextFrameFails
  BY <1>1, <1>7 DEF NextFrameFails, FailsWith, Returns, ReturnsFrom, F!Return
<1>8. CASE StoreFrame
  BY <1>1, <1>8 DEF StoreFrame, host, F!Refresh
<1>9. CASE NextFrameSucceeds
  BY <1>1, <1>9 DEF NextFrameSucceeds, ReturnsFrom, F!Return
<1>10. CASE ServerAnswers \/ ServerResizes \/ LinkBreaks \/ UNCHANGED vars
  BY <1>10 DEF ServerAnswers, ServerResizes, LinkBreaks, vars, client, host
<1> QED
  BY <1>2, <1>3, <1>4, <1>5, <1>6, <1>7, <1>8, <1>9, <1>10 DEF Next, ClientStep

(* The client does what VideoSource.h asks of a source. *)
THEOREM ClientImplementsFrameSource == Spec => ImplementsFrameSource
<1>1. Init => ReplacedInv /\ F!Init
  BY DEF Init, ReplacedInv, Calling, F!Init
<1>2. TypeOK /\ ReplacedInv /\ [Next]_vars => ReplacedInv' /\ [F!Next]_F!vars
  BY FrameStep
<1> QED
  BY <1>1, <1>2, TypeCorrect, PTL DEF Spec, ImplementsFrameSource, F!Spec

(***************************************************************************)
(* Liveness, even when allocations fail.  tlapm 1.4.5 cannot look into     *)
(* ENABLED: what it would need to know of it, that a thread which has all  *)
(* it waits for can take a step, is the hypothesis RunnableIsEnabled.      *)
(***************************************************************************)
(* Whoever reads over a connection that is there will get something, or    *)
(* the server has been asked; only nextFrame() stores.                     *)
ReadingInv ==
  /\ pc = "reading" /\ link = "open" => toServer # <<>> \/ toClient # <<>>
  /\ pc = "stored" => call = "frame"

LEMMA ReadingStep ==
  ASSUME TypeOK, ReadingInv, [Next]_vars
  PROVE  ReadingInv'
<1> USE DEF ReadingInv
<1>1. CASE Connect \/ ConnectFails \/ \E r \in Requests : Call(r)
  BY <1>1 DEF Connect, ConnectFails, Call, Begin, BeginWith
<1>2. CASE Write
  <2>1. link = "open" => toServer' # <<>>
    BY <1>2 DEF Write, TypeOK, NetworkTypeOK
  <2> QED
    BY <1>2, <2>1 DEF Write
<1>3. CASE WriteFails \/ Read \/ ReadFails \/ RunsOutOfMemory
  BY <1>3 DEF WriteFails, Read, ReadTo, ReadFails, FailsReadIf, RunsOutOfMemory
<1>4. CASE QuietReturn
  BY <1>4, ReturnsAreQuiet
<1>5. CASE StoreFrame
  BY <1>5 DEF StoreFrame, host
<1>6. CASE ServerAnswers
  <2>1. toClient' # <<>>
    BY <1>6 DEF ServerAnswers, TypeOK, NetworkTypeOK
  <2> QED
    BY <1>6, <2>1 DEF ServerAnswers, client, host
<1>7. CASE ServerResizes \/ LinkBreaks \/ UNCHANGED vars
  BY <1>7 DEF ServerResizes, LinkBreaks, vars, client, network, host
<1> QED
  BY <1>1, <1>2, <1>3, <1>4, <1>5, <1>6, <1>7 DEF Next, ClientStep, QuietReturn

(* Whoever reads gets something, or somebody has been asked for it.        *)
THEOREM ReadingInvariance == Spec => []ReadingInv
<1>1. Init => ReadingInv
  BY DEF Init, ReadingInv
<1>2. TypeOK /\ ReadingInv /\ [Next]_vars => ReadingInv'
  BY ReadingStep
<1> QED
  BY <1>1, <1>2, TypeCorrect, PTL DEF Spec

(* The stages of a call: with nothing to read yet, and with an answer, or  *)
(* the end of the connection, at hand.                                     *)
Asking == pc = "calling"
Waiting == pc = "reading" /\ link = "open" /\ toClient = <<>>
Ready == pc = "reading" /\ (toClient # <<>> \/ link # "open")
Received == pc = "received"
Stored == pc = "stored"
Idle == pc = "idle"

(* Where a step of the client takes the call. *)
LEMMA CallGoesOn ==
  ASSUME TypeOK, ReadingInv, ClientStep
  PROVE  /\ Asking => (Waiting \/ Ready \/ Received)'
         /\ ~Waiting
         /\ Ready => Received'
         /\ Received => (Stored \/ Idle)'
         /\ Stored => Idle'
<1> USE DEF Asking, Waiting, Ready, Received, Stored, Idle
<1>1. CASE Write \/ WriteFails \/ Read \/ ReadFails \/ RunsOutOfMemory
  BY <1>1 DEF Write, WriteFails, Read, ReadTo, ReadFails, FailsReadIf, RunsOutOfMemory
<1>2. CASE QuietReturn
  BY <1>2, ReturnsAreQuiet
<1>3. CASE StoreFrame
  BY <1>3 DEF StoreFrame
<1> QED
  BY <1>1, <1>2, <1>3 DEF ClientStep, QuietReturn

(* The others leave a call at its stage, or bring what it waits for.       *)
LEMMA OthersLeaveCall ==
  ASSUME TypeOK, ReadingInv, [Next]_vars, ~ClientStep
  PROVE  /\ Asking => Asking'
         /\ Waiting => (Waiting \/ Ready)'
         /\ Waiting /\ ServerAnswers => Ready'
         /\ Ready => Ready'
         /\ Received => Received'
         /\ Stored => Stored'
<1> USE DEF Asking, Waiting, Ready, Received, Stored
<1>1. CASE Connect \/ ConnectFails \/ \E r \in Requests : Call(r)
  BY <1>1 DEF Connect, ConnectFails, Call
<1>2. CASE ServerAnswers
  <2>1. toClient' # <<>>
    BY <1>2 DEF ServerAnswers, TypeOK, NetworkTypeOK
  <2> QED
    BY <1>2, <2>1 DEF ServerAnswers, client
<1>3. CASE LinkBreaks
  BY <1>3 DEF LinkBreaks, client
<1>4. CASE ServerResizes \/ UNCHANGED vars
  <2>1. UNCHANGED <<pc, link, toClient, toServer>>
    BY <1>4 DEF ServerResizes, vars, client, network
  <2>2. ServerAnswers => toClient' # <<>>
    BY DEF ServerAnswers, TypeOK, NetworkTypeOK
  <2> QED
    BY <2>1, <2>2
<1> QED
  BY <1>1, <1>2, <1>3, <1>4 DEF Next

(* At each stage the client's thread, or the server, has what it needs.    *)
LEMMA StagesAreRunnable ==
  ASSUME TypeOK, ReadingInv
  PROVE  /\ Asking \/ Ready \/ Received \/ Stored => ClientRunnable
         /\ Waiting /\ Metadata # {} => ServerRunnable
  BY DEF TypeOK, ReadingInv, Asking, Waiting, Ready, Received, Stored, ClientRunnable,
         ServerRunnable

(* Every call returns, whatever is sent and whenever the connection breaks *)
(* or an allocation fails, if the client's thread is scheduled and the     *)
(* server answers each request over a connection that holds.               *)
THEOREM CallsReturn ==
  ASSUME Metadata # {}
  PROVE  FairSpec /\ []RunnableIsEnabled => CallReturns
<1> DEFINE Good == TypeOK /\ ReadingInv
<1>1. Good /\ [Next]_vars /\ ~ClientStep =>
        /\ Asking => Asking'
        /\ Waiting => (Waiting \/ Ready)'
        /\ Waiting /\ ServerAnswers => Ready'
        /\ Ready => Ready'
        /\ Received => Received'
        /\ Stored => Stored'
  BY OthersLeaveCall
<1>2. Good /\ ClientStep =>
        /\ Asking => (Waiting \/ Ready \/ Received)'
        /\ ~Waiting
        /\ Ready => Received'
        /\ Received => (Stored \/ Idle)'
        /\ Stored => Idle'
  BY CallGoesOn
<1>3. Good => /\ Asking \/ Ready \/ Received \/ Stored => ClientRunnable
              /\ Waiting => ServerRunnable
  BY StagesAreRunnable
<1>4. Spec => []Good
  BY TypeCorrect, ReadingInvariance, PTL
<1> HIDE DEF Good
<1> QED
  BY <1>1, <1>2, <1>3, <1>4, PTL
     DEF FairSpec, Spec, ClientRuns, ServerRuns, RunnableIsEnabled, CallReturns, Asking, Idle
=============================================================================
