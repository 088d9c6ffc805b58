----------------------- MODULE GStreamerSource_proofs -----------------------
(***************************************************************************)
(* Proofs about GStreamerSource: its inductive invariant IInv, the safety  *)
(* properties that follow from it, and the refinement of Handoff.          *)
(***************************************************************************)
EXTENDS GStreamerSource, TLAPS

(* The part of the invariant that bounds the state. *)
TypeInv == TypeOK /\ PrerollInv

(* The part that relates the threads. *)
CoreInv == MutexInv /\ PermitInv /\ OrderInv /\ QueueInv /\ NoLostWakeup

LEMMA TypeInit == Init => TypeInv
<1> SUFFICES ASSUME Init PROVE TypeInv
  OBVIOUS
<1>1. m_frame \in Views /\ capsOf \in [Frames -> Dims \union {NoDims}]
  BY DEF Init, NoView, Views
<1>2. ObjectTypeOK /\ HostTypeOK
  BY <1>1 DEF Init, ObjectTypeOK, HostTypeOK, EErrors, EStreamState, Setups, HostPCs,
              Frames, NoFrame, NoDims
<1>3. PipelineTypeOK
  <2>1. arrived \in 0 .. MaxBuffers /\ pulled \in 0 .. arrived
    BY BoundsAssumption DEF Init
  <2>2. streamPC \in StreamPCs
    BY DEF Init, StreamPCs, Outside
  <2>. QED
    BY <1>1, <2>1, <2>2 DEF Init, PipelineTypeOK
<1>4. HistoryTypeOK /\ PrerollInv
  <2>1. unseen \in BOOLEAN
    BY Zenon DEF Init
  <2>2. prerolls = 0 /\ offered = 0 /\ consumed = 0 /\ taken = NoFrame /\ missed = 0
    BY DEF Init
  <2>. QED
    BY <2>1, <2>2, BoundsAssumption DEF Init, HistoryTypeOK, PrerollInv, NoFrame
<1>. QED
  BY <1>2, <1>3, <1>4 DEF TypeInv, TypeOK

(* The bounds hold by themselves: of the rest they need nothing. *)
LEMMA TypeStep ==
  ASSUME TypeInv, [Next]_vars
  PROVE  TypeInv'
<1> USE BoundsAssumption
    DEF TypeInv, TypeOK, ObjectTypeOK, HostTypeOK, PipelineTypeOK,
        HistoryTypeOK, PrerollInv, EErrors, EStreamState, Setups, HostPCs, StreamPCs,
        Outside, InPreroll, InGrab, Frames, NoFrame
<1> USE DEF vars, object, host, pipeline, history, calls, feed
<1>1. ASSUME NEW error \in {"invalidParameter", "genericError"}, LaunchFails(error)
      PROVE  TypeInv'
  BY <1>1 DEF LaunchFails
<1>2. CASE SetPlaying
  BY <1>2 DEF SetPlaying, Construct
<1>3. CASE AddProbe
  BY <1>3 DEF AddProbe, Construct
<1>4. CASE SetCallbacks
  BY <1>4 DEF SetCallbacks, Construct
<1>5. CASE Constructed
  BY <1>5 DEF Constructed
<1>7. CASE NextFrameRefused
  BY <1>7 DEF NextFrameRefused, HostMayCall
<1>8. CASE NextFrameCalled
  BY <1>8 DEF NextFrameCalled, HostMayCall
<1>9. CASE Frame
  BY <1>9 DEF Frame, HostMayCall, Views
<1>10. CASE Destroy
  BY <1>10 DEF Destroy, HostMayCall, HostGoes
<1>11. CASE NextFrameWaits
  BY <1>11 DEF NextFrameWaits, HostGoes, HostLocks, FrameReady
<1>12. CASE HostWakesSpuriously
  BY <1>12 DEF HostWakesSpuriously, HostGoes
<1>13. CASE NextFrameEnds
  BY <1>13 DEF NextFrameEnds, HostLocks, FrameReady
<1>14. CASE NextFrameTakes
  BY <1>14 DEF NextFrameTakes, Take, HostLocks, FrameReady, Views
<1>15. CASE NextFrameReturns
  BY <1>15 DEF NextFrameReturns, ReturnOk, Notified
<1>16. CASE Negotiate
  BY <1>16 DEF Negotiate, Negotiates, StreamFlows, Playing, Connected
<1>17. CASE PrerollArrives
  BY <1>17 DEF PrerollArrives, StreamFlows, Playing, Connected
<1>18. CASE BufferArrives
  <2>1. /\ streamPC = "idle" /\ arrived < MaxBuffers
        /\ arrived' = arrived + 1 /\ capsOf' = [capsOf EXCEPT ![arrived + 1] = caps]
        /\ \/ streamPC' = "grabbing" /\ UNCHANGED missed
           \/ missed' = missed + 1 /\ UNCHANGED streamPC
        /\ UNCHANGED <<object, host, prerolled, caps, pulled, prerolls, offered, consumed, taken,
                       unseen>>
    BY <1>18, Zenon DEF BufferArrives, StreamFlows
  <2>2. pulled' \in 0 .. arrived'
    BY <2>1
  <2>3. prerolls' \in 0 .. MaxPrerolls /\ arrived' \in 0 .. MaxBuffers
    BY <2>1
  <2>4. capsOf' \in [Frames -> Dims \union {NoDims}]
    BY <2>1
  <2>5. PrerollInv'
    BY <2>1
  <2>6. ObjectTypeOK' /\ HostTypeOK'
    BY <2>1
  <2>7. PipelineTypeOK' /\ HistoryTypeOK'
    BY <2>1, <2>2, <2>3
  <2>. QED
    BY <2>2, <2>3, <2>4, <2>5, <2>6, <2>7
<1>19. CASE EosArrives
  BY <1>19 DEF EosArrives, StreamFlows, Playing, Connected
<1>20. CASE Flush
  <2>1. /\ streamPC = "idle" /\ prerolls < MaxPrerolls
        /\ prerolled' = FALSE /\ pulled' = arrived
        /\ UNCHANGED <<object, host, streamPC, caps, capsOf, arrived, history>>
    BY <1>20, Zenon DEF Flush, StreamFlows
  <2>2. pulled' \in 0 .. arrived'
    BY <2>1
  <2>3. prerolls' \in 0 .. MaxPrerolls /\ arrived' \in 0 .. MaxBuffers
    BY <2>1
  <2>4. capsOf' \in [Frames -> Dims \union {NoDims}]
    BY <2>1
  <2>5. PrerollInv'
    BY <2>1
  <2>6. ObjectTypeOK' /\ HostTypeOK'
    BY <2>1
  <2>7. PipelineTypeOK' /\ HistoryTypeOK'
    BY <2>1, <2>2, <2>3
  <2>. QED
    BY <2>2, <2>3, <2>4, <2>5, <2>6, <2>7
<1>21. CASE Preroll
  BY <1>21 DEF Preroll
<1>22. CASE PrerollReturns
  BY <1>22 DEF PrerollReturns
<1>23. CASE GrabWaits
  BY <1>23 DEF GrabWaits, StreamGoes, StreamLocks
<1>24. CASE StreamWakesSpuriously
  BY <1>24 DEF StreamWakesSpuriously, StreamGoes
<1>25. CASE GrabProceeds
  BY <1>25 DEF GrabProceeds, StreamGoes, StreamLocks
<1>26. CASE PullSample
  BY <1>26 DEF PullSample, Pull
<1>27. CASE PullEos
  BY <1>27 DEF PullEos
<1>28. CASE PullError
  BY <1>28 DEF PullError
<1>29. CASE EndStream
  BY <1>29 DEF EndStream
<1>30. CASE ReplaceSample
  BY <1>30 DEF ReplaceSample
<1>31. CASE Publish
  <2>1. m_frame' \in Views
    BY <1>31 DEF Publish, Announce, Views
  <2>2. offered' \in Nat
    BY <1>31 DEF Publish, Announce
  <2>3. PrerollInv'
    BY <1>31 DEF Publish, Announce
  <2>4. ObjectTypeOK'
    BY <1>31, <2>1 DEF Publish, Announce
  <2>6. HostTypeOK'
    BY <1>31 DEF Publish, Announce
  <2>5. PipelineTypeOK' /\ HistoryTypeOK'
    BY <1>31, <2>2 DEF Publish, Announce
  <2>. QED
    BY <2>3, <2>4, <2>5, <2>6
<1>32. CASE GrabReturns
  BY <1>32 DEF GrabReturns, ReturnFlow, Notified
<1>33. CASE UNCHANGED vars
  BY <1>33
<1>34. QED
  BY <1>1, <1>2, <1>3, <1>4, <1>5, <1>7, <1>8, <1>9, <1>10, <1>11, <1>12,
     <1>13, <1>14, <1>15, <1>16, <1>17, <1>18, <1>19, <1>20, <1>21, <1>22,
     <1>23, <1>24, <1>25, <1>26, <1>27, <1>28, <1>29, <1>30, <1>31, <1>32,
     <1>33
  DEF Next, ConstructorStep, HostStep, StreamStep

LEMMA CoreInit == Init => CoreInv
BY BoundsAssumption
   DEF Init, CoreInv, MutexInv, PermitInv, OrderInv, QueueInv, NoLostWakeup, Credit,
       Offering, FrameReady, HasPermit, BeforePull, NoFrame, NoView

(* One step of either thread keeps the relation between them. *)
LEMMA CoreStep ==
  ASSUME TypeInv, TypeInv', CoreInv, [Next]_vars
  PROVE  CoreInv'
<1> USE BoundsAssumption
    DEF CoreInv, TypeInv, TypeOK, ObjectTypeOK, HostTypeOK, PipelineTypeOK,
        HistoryTypeOK, MutexInv, PermitInv, OrderInv, QueueInv, NoLostWakeup,
        PrerollInv, Credit, Offering, FrameReady, HasPermit, BeforePull
<1> USE DEF Views, EStreamState, Frames, NoFrame, vars, object, host, pipeline, history, calls, feed
<1>1. ASSUME NEW error \in {"invalidParameter", "genericError"}, LaunchFails(error)
      PROVE  CoreInv'
  BY <1>1 DEF LaunchFails
<1>2. CASE SetPlaying
  BY <1>2 DEF SetPlaying, Construct
<1>3. CASE AddProbe
  BY <1>3 DEF AddProbe, Construct
<1>4. CASE SetCallbacks
  BY <1>4 DEF SetCallbacks, Construct
<1>5. CASE Constructed
  BY <1>5 DEF Constructed
<1>7. CASE NextFrameRefused
  BY <1>7 DEF NextFrameRefused, HostMayCall
<1>8. CASE NextFrameCalled
  BY <1>8 DEF NextFrameCalled, HostMayCall
<1>9. CASE Frame
  BY <1>9 DEF Frame, HostMayCall
<1>10. CASE Destroy
  BY <1>10 DEF Destroy, HostMayCall, HostGoes
<1>11. CASE NextFrameWaits
  BY <1>11 DEF NextFrameWaits, HostGoes, HostLocks, FrameReady
<1>12. CASE HostWakesSpuriously
  BY <1>12 DEF HostWakesSpuriously, HostGoes
<1>13. CASE NextFrameEnds
  BY <1>13 DEF NextFrameEnds, HostLocks, FrameReady
<1>14. CASE NextFrameTakes
  BY <1>14 DEF NextFrameTakes, Take, HostLocks, FrameReady
<1>15. CASE NextFrameReturns
  BY <1>15 DEF NextFrameReturns, ReturnOk, Notified
<1>16. CASE Negotiate
  BY <1>16 DEF Negotiate, Negotiates, StreamFlows, Playing, Connected
<1>17. CASE PrerollArrives
  BY <1>17 DEF PrerollArrives, StreamFlows, Playing, Connected
<1>18. CASE BufferArrives
  <2>1. /\ streamPC = "idle" /\ arrived < MaxBuffers
        /\ arrived' = arrived + 1 /\ capsOf' = [capsOf EXCEPT ![arrived + 1] = caps]
        /\ \/ streamPC' = "grabbing" /\ UNCHANGED missed
           \/ missed' = missed + 1 /\ UNCHANGED streamPC
        /\ UNCHANGED <<object, host, prerolled, caps, pulled, prerolls, offered, consumed, taken>>
    BY <1>18, Zenon DEF BufferArrives, StreamFlows
  <2>2. MutexInv'
    BY <2>1
  <2>3. PermitInv'
    BY <2>1
  <2>4. OrderInv'
    BY <2>1
  <2>5. /\ arrived \in Int /\ pulled \in Int /\ missed \in Int
        /\ arrived - pulled <= missed
    BY <2>1
  <2>6. ASSUME streamPC' = "grabbing", UNCHANGED missed
        PROVE  QueueInv'
    BY <2>1, <2>5, <2>6
  <2>7. ASSUME missed' = missed + 1, UNCHANGED streamPC
        PROVE  QueueInv'
    BY <2>1, <2>5, <2>7
  <2>8. QueueInv'
    BY <2>1, <2>6, <2>7
  <2>9. NoLostWakeup'
    BY <2>1
  <2>. QED
    BY <2>2, <2>3, <2>4, <2>8, <2>9
<1>19. CASE EosArrives
  BY <1>19 DEF EosArrives, StreamFlows, Playing, Connected
<1>20. CASE Flush
  <2>1. /\ streamPC = "idle" /\ prerolls < MaxPrerolls
        /\ prerolled' = FALSE /\ pulled' = arrived
        /\ UNCHANGED <<object, host, streamPC, caps, capsOf, arrived, history>>
    BY <1>20, Zenon DEF Flush, StreamFlows
  <2>2. MutexInv'
    BY <2>1
  <2>3. PermitInv'
    BY <2>1
  <2>4. OrderInv'
    BY <2>1
  <2>5. QueueInv'
    BY <2>1
  <2>6. NoLostWakeup'
    BY <2>1
  <2>. QED
    BY <2>2, <2>3, <2>4, <2>5, <2>6
<1>21. CASE Preroll
  BY <1>21 DEF Preroll
<1>22. CASE PrerollReturns
  BY <1>22 DEF PrerollReturns
<1>23. CASE GrabWaits
  BY <1>23 DEF GrabWaits, StreamGoes, StreamLocks
<1>24. CASE StreamWakesSpuriously
  BY <1>24 DEF StreamWakesSpuriously, StreamGoes
<1>25. CASE GrabProceeds
  BY <1>25 DEF GrabProceeds, StreamGoes, StreamLocks
<1>26. CASE PullSample
  BY <1>26 DEF PullSample, Pull
<1>27. CASE PullEos
  BY <1>27 DEF PullEos
<1>28. CASE PullError
  BY <1>28 DEF PullError
<1>29. CASE EndStream
  BY <1>29 DEF EndStream
<1>30. CASE ReplaceSample
  BY <1>30 DEF ReplaceSample
<1>31. CASE Publish
  BY <1>31 DEF Publish, Announce
<1>32. CASE GrabReturns
  BY <1>32 DEF GrabReturns, ReturnFlow, Notified
<1>33. CASE UNCHANGED vars
  BY <1>33
<1>34. QED
  BY <1>1, <1>2, <1>3, <1>4, <1>5, <1>7, <1>8, <1>9, <1>10, <1>11, <1>12,
     <1>13, <1>14, <1>15, <1>16, <1>17, <1>18, <1>19, <1>20, <1>21, <1>22,
     <1>23, <1>24, <1>25, <1>26, <1>27, <1>28, <1>29, <1>30, <1>31, <1>32,
     <1>33
  DEF Next, ConstructorStep, HostStep, StreamStep

LEMMA IInvSplit == IInv <=> TypeInv /\ CoreInv
BY DEF IInv, TypeInv, CoreInv

(* IInv is an invariant of the source, for every number of buffers and of  *)
(* prerolls, every set of sizes and every way a pull may fail.             *)
THEOREM Invariance == Spec => []IInv
<1>1. Init => IInv
  BY TypeInit, CoreInit, IInvSplit
<1>2. IInv /\ [Next]_vars => IInv'
  <2> SUFFICES ASSUME IInv, [Next]_vars PROVE IInv'
    OBVIOUS
  <2>1. TypeInv /\ CoreInv
    BY IInvSplit
  <2>2. TypeInv'
    BY <2>1, TypeStep
  <2>3. CoreInv'
    BY <2>1, <2>2, CoreStep
  <2>. QED
    BY <2>2, <2>3 DEF IInv, TypeInv, CoreInv
<1>. QED
  BY <1>1, <1>2, PTL DEF Spec

(* Every variable keeps to its type. *)
THEOREM TypeCorrect == Spec => []TypeOK
<1>1. IInv => TypeOK
  BY DEF IInv
<1>. QED
  BY <1>1, Invariance, PTL

(* A frame on offer is replaced or withdrawn only after a second preroll:  *)
(* holding the permit means a credit, and with one preroll there is no     *)
(* credit beside a frame on offer.                                         *)
THEOREM OfferedFrameIsKept == Spec => []NoOverwrite
<1>1. IInv => NoOverwrite
  BY DEF IInv, TypeOK, PipelineTypeOK, HistoryTypeOK, PermitInv, NoOverwrite, Credit
<1>. QED
  BY <1>1, Invariance, PTL

(* No thread sleeps on a condition that holds without a notification under *)
(* way.                                                                    *)
THEOREM WakeupsAreNotLost == Spec => []NoLostWakeup
<1>1. IInv => NoLostWakeup
  BY DEF IInv
<1>. QED
  BY <1>1, Invariance, PTL

(* The queue of the appsink never exceeds what it held when the callbacks  *)
(* were put in place by more than the sample being handed over.            *)
THEOREM QueueIsBounded == Spec => []QueueBounded
<1>1. IInv => QueueBounded
  BY DEF IInv, TypeOK, PipelineTypeOK, HistoryTypeOK, QueueInv, QueueBounded
<1>. QED
  BY <1>1, Invariance, PTL

(***************************************************************************)
(* Every step is a step of Handoff or changes nothing that Handoff sees.   *)
(***************************************************************************)
(* The steps that neither announce, take nor withdraw a frame, nor preroll. *)
QuietStep ==
  \/ \E error \in {"invalidParameter", "genericError"} : LaunchFails(error)
  \/ ConstructorStep
  \/ NextFrameRefused \/ NextFrameCalled \/ Frame \/ Destroy
  \/ NextFrameWaits \/ HostWakesSpuriously \/ NextFrameEnds \/ NextFrameReturns
  \/ Negotiate \/ PrerollArrives \/ BufferArrives \/ EosArrives \/ Flush
  \/ PrerollReturns \/ GrabWaits \/ StreamWakesSpuriously \/ GrabProceeds
  \/ PullSample \/ PullEos \/ PullError \/ ReplaceSample \/ GrabReturns
  \/ UNCHANGED vars

LEMMA NextSplit ==
  [Next]_vars => QuietStep \/ Preroll \/ EndStream \/ Publish \/ NextFrameTakes
BY Zenon DEF Next, QuietStep, HostStep, StreamStep

LEMMA QuietStepIsQuiet ==
  QuietStep => UNCHANGED <<m_streamState, m_frame, prerolls, offered, consumed, taken>>
<1> SUFFICES ASSUME QuietStep
             PROVE  UNCHANGED <<m_streamState, m_frame, prerolls, offered, consumed, taken>>
  OBVIOUS
<1> USE DEF vars, object, host, pipeline, history, calls, feed
<1>1. CASE \/ \E error \in {"invalidParameter", "genericError"} : LaunchFails(error)
           \/ ConstructorStep
  BY <1>1 DEF LaunchFails, ConstructorStep, SetPlaying, AddProbe, SetCallbacks, Construct,
              Constructed
<1>2. CASE \/ NextFrameRefused \/ NextFrameCalled \/ Frame \/ Destroy
           \/ NextFrameWaits \/ HostWakesSpuriously \/ NextFrameEnds \/ NextFrameReturns
  BY <1>2 DEF NextFrameRefused, NextFrameCalled, Frame, Destroy,
              NextFrameWaits, HostWakesSpuriously, NextFrameEnds, NextFrameReturns, ReturnOk,
              HostGoes
<1>3. CASE Negotiate \/ PrerollArrives \/ BufferArrives \/ EosArrives \/ Flush
  BY <1>3 DEF Negotiate, Negotiates, PrerollArrives, BufferArrives, EosArrives, Flush
<1>4. CASE \/ PrerollReturns \/ GrabWaits \/ StreamWakesSpuriously \/ GrabProceeds
           \/ PullSample \/ PullEos \/ PullError \/ ReplaceSample \/ GrabReturns
  BY <1>4 DEF PrerollReturns, GrabWaits, StreamWakesSpuriously, GrabProceeds, PullSample,
              Pull, PullEos, PullError, ReplaceSample, GrabReturns, ReturnFlow, StreamGoes
<1>5. CASE UNCHANGED vars
  BY <1>5
<1>. QED
  BY <1>1, <1>2, <1>3, <1>4, <1>5 DEF QuietStep

(* The frames the host takes come in the order of the stream: OrderInv     *)
(* puts the frame on offer after the last one taken.                       *)
THEOREM FramesInOrder == Spec => InOrder
<1>1. IInv /\ [Next]_vars => [consumed' # consumed => taken' > taken]_vars
  <2> SUFFICES ASSUME IInv, [Next]_vars, consumed' # consumed PROVE taken' > taken
    OBVIOUS
  <2>1. ~QuietStep
    BY QuietStepIsQuiet
  <2>2. ~Preroll /\ ~EndStream /\ ~Publish
    BY DEF Preroll, EndStream, Publish, Announce, history
  <2>3. NextFrameTakes
    BY <2>1, <2>2, NextSplit
  <2>4. taken < m_frame.id /\ taken' = m_frame.id
    BY <2>3 DEF NextFrameTakes, Take, IInv, OrderInv, Offering
  <2>5. taken \in Int /\ m_frame.id \in Int
    BY BoundsAssumption
    DEF IInv, TypeOK, ObjectTypeOK, HistoryTypeOK, Views, Frames, NoFrame
  <2>. QED
    BY <2>4, <2>5
<1>. QED
  BY <1>1, Invariance, PTL DEF Spec, InOrder

(* The two condition variables, the flags and the one mapped sample        *)
(* implement the one-place handoff with credits.                           *)
THEOREM Refinement == Spec => ImplementsHandoff
<1>1. Init => H!Init
  BY DEF Init, H!Init, H!NoFrame, Credit, Offering, NoFrame
<1>2. IInv /\ IInv' /\ [Next]_vars => [H!Next]_H!vars
  <2> SUFFICES ASSUME IInv, IInv', [Next]_vars PROVE [H!Next]_H!vars
    OBVIOUS
  <2>1. CASE QuietStep
    BY <2>1, QuietStepIsQuiet DEF H!vars, Credit, Offering
  <2>2. CASE Preroll
    <3>1. Credit' = Credit + 1
      BY <2>2 DEF Preroll, Credit, IInv, TypeOK, HistoryTypeOK
    <3>. QED
      BY <2>2, <3>1 DEF Preroll, H!Next, H!Grant, Offering
  <2>3. CASE EndStream
    <3>1. Credit > 0 /\ Credit' = Credit
      BY <2>3 DEF EndStream, Credit, IInv, TypeOK, HistoryTypeOK, PermitInv, HasPermit, history
    <3>. QED
      BY <2>3, <3>1 DEF EndStream, history, H!Next, H!Close, H!NoFrame, NoFrame, Offering
  <2>4. CASE Publish
    <3>1. Credit > 0 /\ Credit' = Credit - 1
      BY <2>4 DEF Publish, Announce, Credit, IInv, TypeOK, HistoryTypeOK, PermitInv, HasPermit
    <3>2. sample \in H!Frames /\ sample > taken /\ sample > m_frame.id /\ sample > 0
      BY <2>4, BoundsAssumption
      DEF Publish, Announce, IInv, TypeOK, ObjectTypeOK, PipelineTypeOK, HistoryTypeOK, OrderInv,
          Views, Frames, NoFrame, H!Frames
    <3>3. Offering' /\ m_frame'.id = sample /\ UNCHANGED taken
      BY <2>4 DEF Publish, Announce, Offering
    <3>. QED
      BY <3>1, <3>2, <3>3 DEF H!Next, H!Offer, NoFrame
  <2>5. CASE NextFrameTakes
    <3>1. Credit' = Credit + 1
      BY <2>5 DEF NextFrameTakes, Take, Credit, IInv, TypeOK, HistoryTypeOK
    <3>2. Offering /\ ~Offering' /\ taken' = m_frame.id
      BY <2>5 DEF NextFrameTakes, Take, Offering
    <3>3. m_frame.id # NoFrame
      BY <3>2, BoundsAssumption
      DEF IInv, TypeOK, ObjectTypeOK, HistoryTypeOK, OrderInv, Views, Frames, NoFrame
    <3>. QED
      BY <3>1, <3>2, <3>3 DEF H!Next, H!Take, H!NoFrame, NoFrame
  <2>. QED
    BY <2>1, <2>2, <2>3, <2>4, <2>5, NextSplit
<1>. QED
  BY <1>1, <1>2, Invariance, PTL DEF Spec, ImplementsHandoff, H!Spec

(***************************************************************************)
(* The sizes of frames: what the probe stored is the size of the buffer    *)
(* that is on its way, since the streaming thread negotiates no other one  *)
(* before the callback has returned.                                       *)
(***************************************************************************)
OnItsWay == BeforePull \union {"publishing", "writing"}

SizeInv ==
  /\ hostPC = "notifying" => m_frame.id > 0
  /\ ~unseen => m_size = caps
  /\ streamPC \in OnItsWay => capsOf[arrived] = caps
  /\ ~unseen /\ missed = 0 /\ m_frame.id > 0 => m_frame.size = capsOf[m_frame.id]

LEMMA SizeStep ==
  ASSUME IInv, SizeInv, [Next]_vars
  PROVE  SizeInv'
<1> USE DEF object, calls, host, feed, pipeline, history, OnItsWay, BeforePull
<1>1. /\ MaxBuffers \in Nat /\ arrived \in Nat /\ pulled \in Nat /\ pulled <= arrived
      /\ m_frame.id \in Nat /\ m_frame.id <= pulled /\ taken \in Nat /\ missed \in Nat
      /\ capsOf \in [1 .. MaxBuffers -> Dims \union {NoDims}]
  BY BoundsAssumption
  DEF IInv, TypeOK, ObjectTypeOK, PipelineTypeOK, HistoryTypeOK, OrderInv, Views, Frames, NoFrame
\* The steps that change no frame, no size and no buffer
<1>2. ASSUME UNCHANGED <<m_frame, m_size, caps, capsOf, arrived, missed, unseen>>,
             hostPC' = "notifying" => hostPC = "notifying" \/ m_frame.id > 0,
             streamPC' \in OnItsWay => streamPC \in OnItsWay
      PROVE  SizeInv'
  BY <1>2 DEF SizeInv
<1>3. ASSUME NEW error \in {"invalidParameter", "genericError"}, LaunchFails(error)
      PROVE  SizeInv'
  BY <1>2, <1>3 DEF LaunchFails
<1>4. CASE ConstructorStep
  BY <1>2, <1>4 DEF ConstructorStep, SetPlaying, AddProbe, SetCallbacks, Construct, Constructed
<1>5. CASE NextFrameRefused \/ NextFrameCalled \/ Frame \/ Destroy
  BY <1>2, <1>5 DEF NextFrameRefused, NextFrameCalled, Frame, Destroy, HostMayCall, HostGoes
<1>6. CASE NextFrameWaits \/ NextFrameEnds \/ HostWakesSpuriously
  BY <1>2, <1>6 DEF NextFrameWaits, NextFrameEnds, HostWakesSpuriously, HostGoes, HostLocks
<1>7. CASE NextFrameTakes
  <2>1. m_frame.id > 0
    BY <1>1, <1>7 DEF NextFrameTakes, Take, IInv, OrderInv, Offering
  <2>. QED
    BY <1>2, <1>7, <2>1 DEF NextFrameTakes, Take
<1>8. CASE NextFrameReturns
  BY <1>2, <1>8 DEF NextFrameReturns, ReturnOk, Notified
<1>9. CASE Negotiate
  <2>1. /\ streamPC = "idle" /\ setup \in {"playing", "probed", "connected"}
        /\ \E d \in Dims :
             caps' = d /\ m_size' = IF setup = "playing" THEN m_size ELSE d
        /\ unseen' = (unseen \/ setup = "playing")
        /\ UNCHANGED <<m_frame, hostPC, streamPC, capsOf, arrived, missed>>
    BY <1>9 DEF Negotiate, Negotiates, StreamFlows, Playing
  <2>2. ~unseen' => ~unseen /\ setup # "playing"
    BY <2>1
  <2>. QED
    BY <2>1, <2>2 DEF SizeInv
<1>10. CASE PrerollArrives
  BY <1>2, <1>10 DEF PrerollArrives, StreamFlows
<1>11. CASE BufferArrives
  <2>1. /\ arrived < MaxBuffers /\ arrived' = arrived + 1
        /\ capsOf' = [capsOf EXCEPT ![arrived + 1] = caps]
        /\ UNCHANGED <<m_frame, m_size, hostPC, caps, unseen>>
        /\ UNCHANGED missed \/ (missed' = missed + 1 /\ UNCHANGED streamPC)
    BY <1>11 DEF BufferArrives
  <2>2. capsOf'[arrived'] = caps /\ capsOf'[m_frame.id] = capsOf[m_frame.id]
    BY <1>1, <2>1
  <2>3. missed' = 0 => missed = 0
    BY <1>1, <2>1
  <2>. QED
    BY <2>1, <2>2, <2>3 DEF SizeInv
<1>12. CASE EosArrives \/ Flush
  BY <1>2, <1>12 DEF EosArrives, Flush, StreamFlows
<1>13. CASE Preroll \/ PrerollReturns \/ StreamWakesSpuriously
  BY <1>2, <1>13 DEF Preroll, PrerollReturns, StreamWakesSpuriously, StreamGoes
<1>14. CASE GrabWaits \/ GrabProceeds
  BY <1>2, <1>14 DEF GrabWaits, GrabProceeds, StreamLocks, StreamGoes
<1>15. CASE PullSample \/ PullEos \/ PullError
  BY <1>2, <1>15 DEF PullSample, Pull, PullEos, PullError
<1>16. CASE EndStream \/ ReplaceSample
  BY <1>2, <1>16 DEF EndStream, ReplaceSample
<1>17. CASE Publish
  <2>1. /\ streamPC = "writing" /\ m_frame' = [id |-> sample, size |-> m_size]
        /\ streamPC' = "notifyFrame"
        /\ UNCHANGED <<m_size, hostPC, caps, capsOf, arrived, missed, unseen>>
    BY <1>17 DEF Publish, Announce
  <2>2. sample = pulled /\ m_frame.id < pulled
    BY <2>1 DEF IInv, OrderInv
  <2>3. missed = 0 => pulled = arrived
    BY <1>1, <2>1 DEF IInv, QueueInv
  <2>. QED
    BY <1>1, <2>1, <2>2, <2>3 DEF SizeInv
<1>18. CASE GrabReturns
  BY <1>2, <1>18 DEF GrabReturns, ReturnFlow, Notified
<1>19. CASE UNCHANGED vars
  BY <1>2, <1>19 DEF vars
<1>. QED
  BY <1>3, <1>4, <1>5, <1>6, <1>7, <1>8, <1>9, <1>10, <1>11, <1>12, <1>13, <1>14, <1>15, <1>16,
     <1>17, <1>18, <1>19
  DEF Next, HostStep, StreamStep

(* A source that was not overtaken by its stream labels each frame with    *)
(* the size that was negotiated for it.                                    *)
THEOREM FramesHaveTheirSize == Spec => []FrameHasItsSize
<1>1. Init => SizeInv
  BY DEF Init, SizeInv, NoView, NoFrame, OnItsWay, BeforePull
<1>2. SizeInv => FrameHasItsSize
  BY DEF SizeInv, FrameHasItsSize
<1>. QED
  BY <1>1, <1>2, SizeStep, Invariance, PTL DEF Spec

(***************************************************************************)
(* Liveness, however often the pipeline is flushed.  tlapm 1.4.5 cannot    *)
(* look into ENABLED: what it would need to know of it is the hypothesis   *)
(* RunnableIsEnabled.                                                      *)
(***************************************************************************)
(* Once preroll() has run, a frame is ready or the permit for one is       *)
(* there; a callback that has not pulled yet has a sample to pull.         *)
FlowInv ==
  /\ prerolls > 0 \/ streamPC \in InPreroll => Connected /\ caps # NoDims
  /\ prerolls > 0 /\ ~FrameReady => m_bufferReady
  /\ streamPC \in BeforePull => pulled < arrived
  /\ streamPC = "ended" => arrived = MaxBuffers
  /\ streamPC \in InPreroll => prerolled

LEMMA FlowStep ==
  ASSUME TypeInv, FlowInv, [Next]_vars
  PROVE  FlowInv'
<1> USE DimsAssumption DEF object, calls, host, feed, pipeline, history, FlowInv, FrameReady,
        Connected, InPreroll, BeforePull, NoDims
<1>1. /\ MaxBuffers \in Nat /\ arrived \in Nat /\ pulled \in Nat /\ pulled <= arrived
      /\ arrived <= MaxBuffers /\ prerolls \in Nat
  BY BoundsAssumption DEF TypeInv, TypeOK, PipelineTypeOK, HistoryTypeOK
<1>2. ASSUME NEW error \in {"invalidParameter", "genericError"}, LaunchFails(error)
      PROVE  FlowInv'
  BY <1>2 DEF LaunchFails
<1>3. CASE ConstructorStep
  BY <1>3 DEF ConstructorStep, SetPlaying, AddProbe, SetCallbacks, Construct, Constructed
<1>4. CASE NextFrameRefused \/ NextFrameCalled \/ Frame \/ Destroy
  BY <1>4 DEF NextFrameRefused, NextFrameCalled, Frame, Destroy, HostMayCall, HostGoes
<1>5. CASE NextFrameWaits \/ NextFrameEnds \/ HostWakesSpuriously \/ NextFrameTakes
  BY <1>5 DEF NextFrameWaits, NextFrameEnds, HostWakesSpuriously, HostGoes, HostLocks,
              NextFrameTakes, Take
<1>6. CASE NextFrameReturns
  BY <1>6 DEF NextFrameReturns, ReturnOk, Notified
<1>7. CASE Negotiate
  BY <1>7 DEF Negotiate, Negotiates, StreamFlows
<1>8. CASE PrerollArrives
  BY <1>8 DEF PrerollArrives, StreamFlows
<1>9. CASE BufferArrives
  <2>1. arrived' = arrived + 1 /\ pulled' = pulled /\ streamPC' \in {"grabbing", "idle"}
    BY <1>9 DEF BufferArrives, StreamFlows
  <2>2. UNCHANGED <<prerolls, setup, caps, m_streamState, m_bufferReady>>
    BY <1>9 DEF BufferArrives
  <2> QED
    BY <1>1, <2>1, <2>2
<1>10. CASE EosArrives \/ Flush
  BY <1>10 DEF EosArrives, Flush, StreamFlows
<1>11. CASE Preroll
  BY <1>1, <1>11 DEF Preroll
<1>12. CASE PrerollReturns \/ StreamWakesSpuriously
  BY <1>12 DEF PrerollReturns, StreamWakesSpuriously, StreamGoes
<1>13. CASE GrabWaits \/ GrabProceeds
  BY <1>13 DEF GrabWaits, GrabProceeds, StreamLocks, StreamGoes
<1>14. CASE PullSample \/ PullEos \/ PullError
  BY <1>14 DEF PullSample, Pull, PullEos, PullError
<1>15. CASE EndStream \/ ReplaceSample \/ Publish
  BY <1>15 DEF EndStream, ReplaceSample, Publish, Announce
<1>16. CASE GrabReturns
  BY <1>16 DEF GrabReturns, ReturnFlow, Notified
<1>17. CASE UNCHANGED vars
  BY <1>17 DEF vars
<1> QED
  BY <1>2, <1>3, <1>4, <1>5, <1>6, <1>7, <1>8, <1>9, <1>10, <1>11, <1>12, <1>13, <1>14, <1>15,
     <1>16, <1>17
  DEF Next, HostStep, StreamStep

(* Once preroll() has run, a frame or a permit for one is always there.    *)
THEOREM FlowInvariance == Spec => []FlowInv
<1>1. Init => FlowInv
  BY DEF Init, FlowInv, InPreroll, BeforePull
<1> QED
  BY <1>1, FlowStep, Invariance, IInvSplit, PTL DEF Spec

(* The host waits for a frame: there is none; or there is one, or none     *)
(* will come any more.                                                     *)
Pending == hostPC \in {"locking", "waiting", "woken"}
Empty == Pending /\ ~FrameReady /\ prerolls > 0
Filled == Pending /\ FrameReady
Taking == hostPC = "notifying"
Done == hostPC = "idle" \/ streamPC = "stopped"

(* Where the streaming thread is while the host waits for a frame that is  *)
(* not there: first those where a buffer is still to come.                 *)
InWait(pc) == Empty /\ streamPC = pc /\ arrived < MaxBuffers
Prerolled == InWait("idle") /\ prerolled
Flushed == InWait("idle") /\ ~prerolled
Prerolling == InWait("prerolling")
PrerollDone == InWait("notifyPreroll")
Notifying == InWait("notifyFrame")
Grabbing == Empty /\ streamPC \in {"grabbing", "woken"}
Pulling == Empty /\ streamPC = "pulling"
Ending == Empty /\ streamPC = "ending"
Publishing == Empty /\ streamPC = "publishing"
Writing == Empty /\ streamPC = "writing"

LEMMA WaitBegins ==
  ASSUME IInv, FlowInv, Pending, prerolls > 0, arrived < MaxBuffers
  PROVE  \/ Done \/ Filled
         \/ Prerolled \/ Flushed \/ Prerolling \/ PrerollDone \/ Notifying
         \/ Grabbing \/ Pulling \/ Ending \/ Publishing \/ Writing
<1> SUFFICES ASSUME ~FrameReady, streamPC # "stopped" PROVE
         \/ Prerolled \/ Flushed \/ Prerolling \/ PrerollDone \/ Notifying
         \/ Grabbing \/ Pulling \/ Ending \/ Publishing \/ Writing
  BY DEF Done, Filled
<1>1. streamPC # "ended" /\ streamPC # "waiting"
  BY BoundsAssumption
     DEF FlowInv, IInv, NoLostWakeup, Pending, TypeOK, PipelineTypeOK
<1>2. streamPC \in {"idle", "prerolling", "notifyPreroll", "notifyFrame", "grabbing", "woken",
                    "pulling", "ending", "publishing", "writing"}
  BY <1>1 DEF IInv, TypeOK, PipelineTypeOK, StreamPCs, Outside, InPreroll, InGrab
<1> QED
  BY <1>2 DEF Empty, InWait, Prerolled, Flushed, Prerolling, PrerollDone, Notifying, Grabbing,
              Pulling, Ending, Publishing, Writing

(* What the others do while the host waits for a frame that is not there.  *)
LEMMA OthersLeaveStream ==
  ASSUME IInv, FlowInv, [Next]_vars, ~StreamStep, Empty, streamPC \notin {"waiting", "ended"}
  PROVE  /\ Empty'
         /\ \/ UNCHANGED <<streamPC, prerolled, arrived>>
            \/ PrerollArrives /\ ~prerolled /\ streamPC' = "prerolling" /\ UNCHANGED arrived
            \/ BufferArrives /\ prerolled /\ streamPC' = "grabbing"
            \/ Flush /\ prerolled /\ prerolled' = FALSE /\ UNCHANGED <<streamPC, arrived>>
            \/ EosArrives /\ arrived = MaxBuffers
<1> USE DEF object, calls, host, feed, pipeline, history, Empty, Pending, FrameReady
<1>1. hostPC \in {"locking", "waiting", "woken"} /\ Connected
  BY BoundsAssumption DEF FlowInv
<1>2. ASSUME NEW error \in {"invalidParameter", "genericError"}, LaunchFails(error)
      PROVE  FALSE
  BY <1>1, <1>2 DEF LaunchFails
<1>3. ~ConstructorStep
  BY <1>1 DEF ConstructorStep, SetPlaying, AddProbe, SetCallbacks, Construct, Constructed
<1>4. ~(NextFrameRefused \/ NextFrameCalled \/ Frame \/ Destroy)
  BY <1>1 DEF NextFrameRefused, NextFrameCalled, Frame, Destroy, HostMayCall
<1>5. ~(NextFrameEnds \/ NextFrameTakes \/ NextFrameReturns)
  BY <1>1 DEF NextFrameEnds, NextFrameTakes, Take, NextFrameReturns, ReturnOk
<1>6. CASE NextFrameWaits \/ HostWakesSpuriously \/ UNCHANGED vars
  BY <1>6 DEF NextFrameWaits, HostWakesSpuriously, HostGoes, vars
<1>7. CASE Negotiate
  BY <1>7 DEF Negotiate, Negotiates
<1>8. CASE PrerollArrives
  BY <1>1, <1>8 DEF PrerollArrives
<1>9. CASE BufferArrives
  BY <1>1, <1>9 DEF BufferArrives
<1>10. CASE EosArrives
  BY <1>10 DEF EosArrives
<1>11. CASE Flush
  BY <1>11 DEF Flush
<1>12. ~StreamWakesSpuriously
  BY DEF StreamWakesSpuriously
<1> QED
  BY <1>2, <1>3, <1>4, <1>5, <1>6, <1>7, <1>8, <1>9, <1>10, <1>11, <1>12 DEF Next, HostStep

(* Its own steps take the streaming thread to the frame, or back to where  *)
(* it waits for a buffer.                                                  *)
LEMMA StreamGoesOn ==
  ASSUME IInv, FlowInv, StreamStep, Empty
  PROVE  /\ streamPC \notin {"idle", "ended", "stopped", "waiting"}
         /\ streamPC = "prerolling" => Empty' /\ streamPC' = "notifyPreroll" /\ UNCHANGED arrived
         /\ streamPC \in {"notifyPreroll", "notifyFrame"} =>
              Empty' /\ streamPC' = "idle" /\ UNCHANGED <<prerolled, arrived>>
         /\ streamPC \in {"grabbing", "woken"} => Empty' /\ streamPC' = "pulling"
         /\ streamPC = "pulling" =>
              Done' \/ (Empty' /\ streamPC' \in {"publishing", "ending"})
         /\ streamPC = "publishing" => Empty' /\ streamPC' = "writing"
         /\ streamPC \in {"ending", "writing"} => Filled'
<1> USE DEF object, calls, host, feed, pipeline, history, Empty, Pending, FrameReady, Filled, Done
<1>1. prerolls \in Nat /\ m_bufferReady
  BY DEF IInv, TypeOK, HistoryTypeOK, FlowInv
<1>2. CASE Preroll
  <2>1. /\ streamPC = "prerolling" /\ streamPC' = "notifyPreroll" /\ prerolls' > 0
        /\ UNCHANGED <<m_streamState, hostPC, arrived>>
    BY <1>1, <1>2 DEF Preroll
  <2> QED
    BY <2>1
<1>3. CASE PrerollReturns
  BY <1>3 DEF PrerollReturns
<1>4. CASE GrabWaits \/ GrabProceeds
  BY <1>1, <1>4 DEF GrabWaits, GrabProceeds, StreamLocks, StreamGoes
<1>5. CASE PullSample \/ PullEos
  <2>1. /\ streamPC = "pulling" /\ streamPC' \in {"publishing", "ending"}
        /\ UNCHANGED <<m_streamState, hostPC, prerolls>>
    BY <1>5 DEF PullSample, Pull, PullEos
  <2> QED
    BY <2>1
<1>6. CASE PullError
  BY <1>6 DEF PullError
<1>7. CASE EndStream \/ ReplaceSample \/ Publish
  BY <1>7 DEF EndStream, ReplaceSample, Publish, Announce
<1>8. CASE GrabReturns
  BY <1>8 DEF GrabReturns, ReturnFlow, Notified
<1> QED
  BY <1>2, <1>3, <1>4, <1>5, <1>6, <1>7, <1>8 DEF StreamStep

(* A frame that is there, or the end of the stream, stays until the host,  *)
(* which is awake or about to be woken, finds it.                          *)
Called == Filled /\ hostPC \in {"locking", "woken"}
Sleeping == Filled /\ hostPC = "waiting"

LEMMA HostGoesOn ==
  ASSUME IInv, [Next]_vars
  PROVE  /\ Sleeping => streamPC = "notifyFrame" /\ (Sleeping' \/ Called')
         /\ Sleeping /\ StreamStep => Called'
         /\ Called => Called' \/ Taking' \/ Done'
         /\ Called /\ HostStep => Taking' \/ Done'
         /\ Taking => Taking' \/ Done'
         /\ Taking /\ HostStep => Done'
<1> USE DEF object, calls, host, feed, pipeline, history, Called, Sleeping, Filled, Pending,
            FrameReady, Taking, Done
<1>1. Sleeping => streamPC = "notifyFrame"
  BY DEF IInv, NoLostWakeup
<1>2. ASSUME HostStep
      PROVE  ~Sleeping /\ (Called => Taking' \/ Done') /\ (Taking => Done')
  <2>1. CASE NextFrameWaits
    BY <2>1 DEF NextFrameWaits, HostLocks
  <2>2. CASE NextFrameEnds \/ NextFrameTakes
    BY <2>2 DEF NextFrameEnds, NextFrameTakes, Take, HostLocks
  <2>3. CASE NextFrameReturns
    BY <2>3 DEF NextFrameReturns, ReturnOk
  <2> QED
    BY <1>2, <2>1, <2>2, <2>3 DEF HostStep
<1>3. ASSUME StreamStep
      PROVE  /\ Sleeping => Called'
             /\ Called => Called'
             /\ Taking => Taking'
  <2>1. CASE \/ Preroll \/ PrerollReturns \/ GrabWaits \/ GrabProceeds
             \/ PullSample \/ PullEos \/ PullError \/ ReplaceSample
    <3>1. UNCHANGED <<m_streamState, hostPC>> /\ streamPC # "notifyFrame"
      BY <2>1 DEF Preroll, PrerollReturns, GrabWaits, GrabProceeds, StreamLocks, StreamGoes,
                  PullSample, Pull, PullEos, PullError, ReplaceSample
    <3> QED
      BY <1>1, <3>1
  <2>2. CASE EndStream \/ Publish
    BY <1>1, <2>2 DEF EndStream, Publish, Announce
  <2>3. CASE GrabReturns
    BY <2>3 DEF GrabReturns, ReturnFlow, Notified
  <2> QED
    BY <1>3, <2>1, <2>2, <2>3 DEF StreamStep
<1>4. ASSUME ~HostStep, ~StreamStep
      PROVE  /\ Sleeping => Sleeping' \/ Called'
             /\ Called => Called'
             /\ Taking => Taking'
  <2>1. ASSUME NEW error \in {"invalidParameter", "genericError"}, LaunchFails(error)
        PROVE  hostPC = "constructing"
    BY <2>1 DEF LaunchFails
  <2>2. CASE ConstructorStep
    BY <2>2 DEF ConstructorStep, SetPlaying, AddProbe, SetCallbacks, Construct, Constructed
  <2>3. CASE NextFrameRefused \/ NextFrameCalled \/ Frame \/ Destroy
    BY <2>3 DEF NextFrameRefused, NextFrameCalled, Frame, Destroy, HostMayCall
  <2>4. CASE HostWakesSpuriously
    BY <2>4 DEF HostWakesSpuriously, HostGoes
  <2>5. CASE \/ Negotiate \/ PrerollArrives \/ BufferArrives \/ EosArrives \/ Flush
             \/ StreamWakesSpuriously \/ UNCHANGED vars
    BY <2>5 DEF Negotiate, Negotiates, PrerollArrives, BufferArrives, EosArrives, Flush,
                StreamWakesSpuriously, StreamGoes, vars
  <2> QED
    BY <1>4, <2>1, <2>2, <2>3, <2>4, <2>5 DEF Next
<1> QED
  BY <1>1, <1>2, <1>3, <1>4

(* At each stage somebody has what the next step needs.                    *)
LEMMA StagesAreRunnable ==
  ASSUME IInv, FlowInv
  PROVE  /\ Flushed => PrerollRunnable
         /\ Prerolled => BufferRunnable
         /\ Prerolling \/ PrerollDone \/ Notifying \/ Grabbing \/ Pulling \/ Ending
              \/ Publishing \/ Writing \/ Sleeping => StreamRunnable
         /\ m_mutex # "free" /\ hostPC # "destroyed" => StreamRunnable
         /\ Taking \/ (Called /\ m_mutex = "free") => HostRunnable
<1> USE DEF Empty, Pending, Filled
<1>1. /\ m_mutex # "free" => streamPC = "writing"
      /\ streamPC # "writing" => m_mutex = "free"
  BY DEF IInv, MutexInv, TypeOK, ObjectTypeOK
<1>2. Flushed \/ Prerolled => StreamFlows
  BY BoundsAssumption DEF Flushed, Prerolled, InWait, StreamFlows, FlowInv, Connected, Playing
<1>3. Flushed => caps # NoDims
  BY DEF Flushed, InWait, FlowInv
<1>4. Sleeping => streamPC = "notifyFrame"
  BY DEF Sleeping, IInv, NoLostWakeup
<1>5. Pulling => pulled < arrived
  BY DEF Pulling, FlowInv, BeforePull
<1>6. Flushed => PrerollRunnable
  BY <1>2, <1>3 DEF Flushed, InWait, PrerollRunnable
<1>7. Prerolled => BufferRunnable
  BY <1>2 DEF Prerolled, InWait, BufferRunnable
<1>8. Prerolling \/ PrerollDone \/ Notifying \/ Grabbing \/ Pulling \/ Ending
        \/ Publishing \/ Writing \/ Sleeping => StreamRunnable
  BY <1>1, <1>4, <1>5 DEF StreamRunnable, StreamLocks, InWait, Prerolling, PrerollDone, Notifying,
       Grabbing, Pulling, Ending, Publishing, Writing, Sleeping
<1>9. m_mutex # "free" /\ hostPC # "destroyed" => StreamRunnable
  BY <1>1 DEF StreamRunnable
<1>10. Taking \/ (Called /\ m_mutex = "free") => HostRunnable
  BY DEF Taking, Called, HostRunnable, HostLocks
<1> QED
  BY <1>6, <1>7, <1>8, <1>9, <1>10

(* From where a buffer is still to come, the stream reaches a buffer.      *)
InStream == Prerolled \/ Flushed \/ Prerolling \/ PrerollDone \/ Notifying

LEMMA WaitGoesOn ==
  ASSUME IInv, FlowInv, [Next]_vars
  PROVE  /\ Prerolled => Prerolled' \/ Flushed' \/ Grabbing'
         /\ Flushed => Flushed' \/ Prerolling'
         /\ Flushed /\ PrerollArrives => Prerolling'
         /\ Prerolling => Prerolling' \/ PrerollDone'
         /\ Prerolling /\ StreamStep => PrerollDone'
         /\ PrerollDone => PrerollDone' \/ Prerolled'
         /\ PrerollDone /\ StreamStep => Prerolled'
         /\ Notifying => Notifying' \/ Prerolled' \/ Flushed'
         /\ Notifying /\ StreamStep => Prerolled' \/ Flushed'
         /\ InStream /\ BufferArrives => Grabbing'
<1> SUFFICES ASSUME InStream PROVE
         /\ Prerolled => Prerolled' \/ Flushed' \/ Grabbing'
         /\ Flushed => Flushed' \/ Prerolling'
         /\ Flushed /\ PrerollArrives => Prerolling'
         /\ Prerolling => Prerolling' \/ PrerollDone'
         /\ Prerolling /\ StreamStep => PrerollDone'
         /\ PrerollDone => PrerollDone' \/ Prerolled'
         /\ PrerollDone /\ StreamStep => Prerolled'
         /\ Notifying => Notifying' \/ Prerolled' \/ Flushed'
         /\ Notifying /\ StreamStep => Prerolled' \/ Flushed'
         /\ InStream /\ BufferArrives => Grabbing'
  BY DEF InStream
<1>1. /\ Empty /\ arrived < MaxBuffers
      /\ streamPC \in {"idle", "prerolling", "notifyPreroll", "notifyFrame"}
      /\ streamPC \in {"prerolling", "notifyPreroll"} => prerolled
  BY DEF InStream, Prerolled, Flushed, Prerolling, PrerollDone, Notifying, InWait, FlowInv,
         InPreroll
<1>2. Connected /\ MaxBuffers \in Nat /\ arrived \in Nat
  BY <1>1, BoundsAssumption DEF Empty, FlowInv, IInv, TypeOK, PipelineTypeOK
<1>3. CASE StreamStep
  <2>1. /\ streamPC # "idle" /\ Empty' /\ UNCHANGED arrived
        /\ streamPC = "prerolling" => streamPC' = "notifyPreroll"
        /\ streamPC \in {"notifyPreroll", "notifyFrame"} =>
             streamPC' = "idle" /\ UNCHANGED prerolled
    BY <1>1, <1>3, StreamGoesOn
  <2>2. ~BufferArrives
    BY <2>1 DEF BufferArrives, StreamFlows
  <2> QED
    BY <1>1, <2>1, <2>2 DEF InWait, Prerolled, Flushed, Prerolling, PrerollDone, Notifying
<1>4. CASE ~StreamStep
  <2>1. Empty'
    BY <1>1, <1>4, OthersLeaveStream
  <2>2. \/ UNCHANGED <<streamPC, prerolled, arrived>>
        \/ PrerollArrives /\ ~prerolled /\ streamPC' = "prerolling" /\ UNCHANGED arrived
        \/ BufferArrives /\ prerolled /\ streamPC' = "grabbing"
        \/ Flush /\ prerolled /\ prerolled' = FALSE /\ UNCHANGED <<streamPC, arrived>>
    <3>1. arrived # MaxBuffers /\ streamPC \notin {"waiting", "ended"}
      BY <1>1, <1>2
    <3> QED
      BY <1>1, <1>4, <3>1, OthersLeaveStream, Zenon
  <2>3. BufferArrives => streamPC = "idle" /\ prerolled /\ streamPC' = "grabbing"
    BY <1>2 DEF BufferArrives, StreamFlows
  <2>4. PrerollArrives =>
          /\ streamPC = "idle" /\ ~prerolled /\ streamPC' = "prerolling"
          /\ UNCHANGED arrived
    BY <1>2 DEF PrerollArrives, StreamFlows, feed
  <2>5. Flush => streamPC = "idle"
    BY DEF Flush, StreamFlows
  <2> QED
    BY <1>1, <1>4, <2>1, <2>2, <2>3, <2>4, <2>5
       DEF InWait, Prerolled, Flushed, Prerolling, PrerollDone, Notifying, Grabbing
<1> QED
  BY <1>3, <1>4

(* From a buffer, it reaches the frame, or the end of the stream.          *)
LEMMA GrabGoesOn ==
  ASSUME IInv, FlowInv, [Next]_vars
  PROVE  /\ Grabbing => Grabbing' \/ Pulling'
         /\ Grabbing /\ StreamStep => Pulling'
         /\ Pulling => Pulling' \/ Publishing' \/ Ending' \/ Done'
         /\ Pulling /\ StreamStep => Publishing' \/ Ending' \/ Done'
         /\ Publishing => Publishing' \/ Writing'
         /\ Publishing /\ StreamStep => Writing'
         /\ Ending => Ending' \/ Filled'
         /\ Ending /\ StreamStep => Filled'
         /\ Writing => Writing' \/ Filled'
         /\ Writing /\ StreamStep => Filled'
<1> USE DEF Grabbing, Pulling, Publishing, Ending, Writing
<1>1. CASE ~Empty \/ streamPC \notin {"grabbing", "woken", "pulling", "publishing", "ending",
                                      "writing"}
  BY <1>1
<1>2. ASSUME Empty, StreamStep PROVE
        /\ streamPC \in {"grabbing", "woken"} => Empty' /\ streamPC' = "pulling"
        /\ streamPC = "pulling" =>
             Done' \/ (Empty' /\ streamPC' \in {"publishing", "ending"})
        /\ streamPC = "publishing" => Empty' /\ streamPC' = "writing"
        /\ streamPC \in {"ending", "writing"} => Filled'
  BY <1>2, StreamGoesOn
<1>3. ASSUME Empty, ~StreamStep, streamPC \in {"grabbing", "woken", "pulling", "publishing",
                                               "ending", "writing"}
      PROVE  Empty' /\ streamPC' = streamPC
  <2>1. ~PrerollArrives /\ ~BufferArrives /\ ~Flush /\ ~EosArrives
    BY <1>3 DEF PrerollArrives, BufferArrives, Flush, EosArrives, StreamFlows
  <2> QED
    BY <1>3, <2>1, OthersLeaveStream
<1> QED
  BY <1>1, <1>2, <1>3

(* A nextFrame() that is called while a buffer is still to come returns,   *)
(* or a pull fails, however often the pipeline is flushed: if the threads  *)
(* are scheduled, the host's gets the mutex when it finds it free again    *)
(* and again, and buffers come when the sink is prerolled again and again. *)
THEOREM CallsAreAnswered == FairFlowSpec /\ []RunnableIsEnabled => CallAnswered
<1> DEFINE Good == IInv /\ FlowInv
           Free == m_mutex = "free"
           Gone == hostPC = "destroyed"
           Begins == hostPC = "locking" /\ prerolls > 0 /\ arrived < MaxBuffers
           InGrabbing == Grabbing \/ Pulling \/ Ending \/ Publishing \/ Writing
<1>1. Good => (Begins => Done \/ Filled \/ InStream \/ InGrabbing)
  BY WaitBegins DEF Pending, InStream
<1>2. Good /\ [Next]_vars =>
        /\ Prerolled => Prerolled' \/ Flushed' \/ Grabbing'
        /\ Flushed => Flushed' \/ Prerolling'
        /\ Flushed /\ PrerollArrives => Prerolling'
        /\ Prerolling => Prerolling' \/ PrerollDone'
        /\ Prerolling /\ StreamStep => PrerollDone'
        /\ PrerollDone => PrerollDone' \/ Prerolled'
        /\ PrerollDone /\ StreamStep => Prerolled'
        /\ Notifying => Notifying' \/ Prerolled' \/ Flushed'
        /\ Notifying /\ StreamStep => Prerolled' \/ Flushed'
        /\ InStream /\ BufferArrives => Grabbing'
  BY WaitGoesOn
<1>3. Good /\ [Next]_vars =>
        /\ Grabbing => Grabbing' \/ Pulling'
        /\ Grabbing /\ StreamStep => Pulling'
        /\ Pulling => Pulling' \/ Publishing' \/ Ending' \/ Done'
        /\ Pulling /\ StreamStep => Publishing' \/ Ending' \/ Done'
        /\ Publishing => Publishing' \/ Writing'
        /\ Publishing /\ StreamStep => Writing'
        /\ Ending => Ending' \/ Filled'
        /\ Ending /\ StreamStep => Filled'
        /\ Writing => Writing' \/ Filled'
        /\ Writing /\ StreamStep => Filled'
  BY GrabGoesOn
<1>4. Good /\ [Next]_vars =>
        /\ Sleeping => Sleeping' \/ Called'
        /\ Sleeping /\ StreamStep => Called'
        /\ Called => Called' \/ Taking' \/ Done'
        /\ Called /\ HostStep => Taking' \/ Done'
        /\ Taking => Taking' \/ Done'
        /\ Taking /\ HostStep => Done'
  BY HostGoesOn
<1>5. Good => /\ Flushed => PrerollRunnable
              /\ Prerolled => BufferRunnable
              /\ Prerolling \/ PrerollDone \/ Notifying \/ Grabbing \/ Pulling \/ Ending
                   \/ Publishing \/ Writing \/ Sleeping => StreamRunnable
              /\ ~Free /\ ~Gone => StreamRunnable
              /\ Taking \/ (Called /\ Free) => HostRunnable
  BY StagesAreRunnable
<1>6. Filled => Called \/ Sleeping
  BY DEF Filled, Pending, Called, Sleeping
<1>7. Called => ~Gone
  BY DEF Called
<1>8. Good /\ ~Free /\ StreamStep => Free'
  BY DEF IInv, MutexInv, TypeOK, ObjectTypeOK, StreamStep, Preroll, PrerollReturns, GrabWaits,
         GrabProceeds, StreamLocks, PullSample, Pull, PullEos, PullError, EndStream, ReplaceSample,
         Publish, Announce, GrabReturns, ReturnFlow
<1>9. Spec => []Good
  BY Invariance, FlowInvariance, PTL
<1> USE DEF FairFlowSpec, FairSpec, Fairness, RunnableIsEnabled
<1> HIDE DEF Good, Free, Gone, Begins, InGrabbing
<1>10. FairFlowSpec /\ []RunnableIsEnabled => (Filled ~> Done)
  BY <1>4, <1>5, <1>6, <1>7, <1>8, <1>9, PTL DEF Spec
<1>11. FairFlowSpec /\ []RunnableIsEnabled => (InGrabbing ~> Filled \/ Done)
  BY <1>3, <1>5, <1>9, PTL DEF Spec, InGrabbing
<1>12. FairFlowSpec /\ []RunnableIsEnabled => (InStream ~> Grabbing)
  BY <1>2, <1>5, <1>9, PTL DEF Spec, InStream
<1>13. FairFlowSpec => []Good
  BY <1>9, PTL
<1>14. FairFlowSpec /\ []RunnableIsEnabled => (Begins ~> Done)
  BY <1>1, <1>10, <1>11, <1>12, <1>13, PTL DEF InGrabbing
<1> QED
  BY <1>14, PTL DEF CallAnswered, Begins, Done
=============================================================================
