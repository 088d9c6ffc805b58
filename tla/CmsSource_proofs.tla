-------------------------- MODULE CmsSource_proofs --------------------------
(***************************************************************************)
(* Proofs about CmsSource: what holds of any number of sources, and that a *)
(* source alone implements FrameSource.                                    *)
(***************************************************************************)
EXTENDS CmsSource, TLAPS

LEMMA ViewsAre ==
  Nothing \in Views /\ Display \in Views /\ \A s \in Sources : HostBuffer(s) \in Views
BY DEF Views

LEMMA TypeInit == Init => TypeOK
<1> SUFFICES ASSUME Init PROVE TypeOK
  OBVIOUS
<1>1. DiscoveryTypeOK
  BY DEF Init, DiscoveryTypeOK
<1>2. CameraTypeOK
  BY MaxFramesAssumption DEF Init, CameraTypeOK
<1>3. FrameTypeOK
  BY ViewsAre DEF Init, FrameTypeOK
<1>4. ThreadsTypeOK
  BY ViewsAre DEF Init, ThreadsTypeOK
<1>. QED
  BY <1>1, <1>2, <1>3, <1>4 DEF TypeOK

(* Only the discoverer changes what the discovery is about.                *)
LEMMA OthersDoNotDiscover ==
  ASSUME [Next]_vars
  PROVE  \/ OverridesChange \/ DiscoverBegins \/ DiscoverFails \/ DiscoverFirst
         \/ DiscoverAgain \/ UNCHANGED discovery
<1>1. CASE CameraStep
  BY <1>1 DEF CameraStep, Capture, CaptureIf, EventIgnored, CaptureEnds, CaptureEndsWith, Notify
<1>2. ASSUME NEW s \in Sources, NextFrame(s) \/ DeadlinePasses(s) \/ WakesSpuriously(s)
      PROVE  UNCHANGED discovery
  BY <1>2 DEF NextFrame, DeadlinePasses, WakesSpuriously
<1>3. ASSUME NEW s \in Sources, ThreadStep(s) \/ FrameCalled(s) \/ FrameInto(s)
      PROVE  UNCHANGED discovery
  BY <1>3 DEF ThreadStep, WaitsAgain, Returns, ReturnsWith, FrameCalled, FrameInto
<1>4. CASE UNCHANGED vars
  BY <1>4 DEF vars
<1>. QED
  BY <1>1, <1>2, <1>3, <1>4 DEF Next

LEMMA DiscoveryStep ==
  ASSUME DiscoveryTypeOK, [Next]_vars
  PROVE  DiscoveryTypeOK'
<1> USE DEF DiscoveryTypeOK
<1>1. CASE OverridesChange \/ DiscoverBegins \/ DiscoverFails
  BY <1>1 DEF OverridesChange, DiscoverBegins, DiscoverFails, LoadFails, Discovered
<1>2. CASE DiscoverFirst
  BY <1>2 DEF DiscoverFirst, Identified, Discovered
<1>3. CASE DiscoverAgain
  BY <1>3 DEF DiscoverAgain, Discovered
<1>4. CASE UNCHANGED discovery
  BY <1>4 DEF discovery
<1>. QED
  BY <1>1, <1>2, <1>3, <1>4, OthersDoNotDiscover

LEMMA CameraTypeStep ==
  ASSUME CameraTypeOK, [Next]_vars
  PROVE  CameraTypeOK'
<1> USE MaxFramesAssumption DEF CameraTypeOK, vars, camera
<1>1. CASE OverridesChange \/ DiscoverBegins \/ DiscoverFails
  BY <1>1 DEF OverridesChange, DiscoverBegins, DiscoverFails, LoadFails, Discovered
<1>2. CASE DiscoverFirst
  BY <1>2 DEF DiscoverFirst, Discovered
<1>3. CASE DiscoverAgain
  BY <1>3 DEF DiscoverAgain, Discovered
<1>4. CASE Capture
  <2>1. display < MaxFrames /\ display' = display + 1
    BY <1>4, Zenon DEF Capture, CaptureIf
  <2>2. display' \in 0 .. MaxFrames
    BY <2>1
  <2>. QED
    BY <1>4, <2>2 DEF Capture, CaptureIf
<1>5. CASE EventIgnored
  BY <1>5 DEF EventIgnored
<1>6. CASE CaptureEnds
  BY <1>6 DEF CaptureEnds, CaptureEndsWith
<1>7. CASE Notify
  BY <1>7 DEF Notify
<1>8. ASSUME NEW s \in Sources, NextFrame(s)
      PROVE  CameraTypeOK'
  BY <1>8 DEF NextFrame
<1>9. ASSUME NEW s \in Sources, DeadlinePasses(s)
      PROVE  CameraTypeOK'
  BY <1>9 DEF DeadlinePasses
<1>10. ASSUME NEW s \in Sources, WakesSpuriously(s)
      PROVE  CameraTypeOK'
  BY <1>10 DEF WakesSpuriously
<1>11. ASSUME NEW s \in Sources, WaitsAgain(s)
      PROVE  CameraTypeOK'
  BY <1>11 DEF WaitsAgain
<1>12. ASSUME NEW s \in Sources, Returns(s)
      PROVE  CameraTypeOK'
  BY <1>12 DEF Returns, ReturnsWith
<1>13. ASSUME NEW s \in Sources, FrameCalled(s)
      PROVE  CameraTypeOK'
  BY <1>13 DEF FrameCalled
<1>14. ASSUME NEW s \in Sources, FrameInto(s)
      PROVE  CameraTypeOK'
  BY <1>14 DEF FrameInto
<1>15. CASE UNCHANGED vars
  BY <1>15
<1>. QED
  BY <1>1, <1>2, <1>3, <1>4, <1>5, <1>6, <1>7, <1>8,
     <1>9, <1>10, <1>11, <1>12, <1>13, <1>14, <1>15
  DEF Next, CameraStep, ThreadStep

LEMMA FrameTypeStep ==
  ASSUME FrameTypeOK, [Next]_vars
  PROVE  FrameTypeOK'
<1> USE ViewsAre DEF FrameTypeOK, vars
<1>1. CASE OverridesChange \/ DiscoverBegins \/ DiscoverFails
  BY <1>1 DEF OverridesChange, DiscoverBegins, DiscoverFails, LoadFails, Discovered
<1>2. CASE DiscoverFirst
  BY <1>2 DEF DiscoverFirst, Discovered
<1>3. CASE DiscoverAgain
  BY <1>3 DEF DiscoverAgain, Discovered
<1>4. CASE Capture
  BY <1>4 DEF Capture, CaptureIf
<1>5. CASE EventIgnored
  BY <1>5 DEF EventIgnored
<1>6. CASE CaptureEnds
  BY <1>6 DEF CaptureEnds, CaptureEndsWith
<1>7. CASE Notify
  BY <1>7 DEF Notify
<1>8. ASSUME NEW s \in Sources, NextFrame(s)
      PROVE  FrameTypeOK'
  BY <1>8 DEF NextFrame
<1>9. ASSUME NEW s \in Sources, DeadlinePasses(s)
      PROVE  FrameTypeOK'
  BY <1>9 DEF DeadlinePasses
<1>10. ASSUME NEW s \in Sources, WakesSpuriously(s)
      PROVE  FrameTypeOK'
  BY <1>10 DEF WakesSpuriously
<1>11. ASSUME NEW s \in Sources, WaitsAgain(s)
      PROVE  FrameTypeOK'
  BY <1>11 DEF WaitsAgain
<1>12. ASSUME NEW s \in Sources, Returns(s)
      PROVE  FrameTypeOK'
  BY <1>12 DEF Returns, ReturnsWith
<1>13. ASSUME NEW s \in Sources, FrameCalled(s)
      PROVE  FrameTypeOK'
  BY <1>13 DEF FrameCalled
<1>14. ASSUME NEW s \in Sources, FrameInto(s)
      PROVE  FrameTypeOK'
  BY <1>14 DEF FrameInto
<1>15. CASE UNCHANGED vars
  BY <1>15
<1>. QED
  BY <1>1, <1>2, <1>3, <1>4, <1>5, <1>6, <1>7, <1>8,
     <1>9, <1>10, <1>11, <1>12, <1>13, <1>14, <1>15
  DEF Next, CameraStep, ThreadStep

LEMMA ThreadsStep ==
  ASSUME ThreadsTypeOK, display \in Nat, cmsFrame \in Views, [Next]_vars
  PROVE  ThreadsTypeOK'
<1> USE DEF ThreadsTypeOK, vars, threads
<1>1. CASE OverridesChange \/ DiscoverBegins \/ DiscoverFails
  BY <1>1 DEF OverridesChange, DiscoverBegins, DiscoverFails, LoadFails, Discovered
<1>2. CASE DiscoverFirst
  BY <1>2 DEF DiscoverFirst, Discovered
<1>3. CASE DiscoverAgain
  BY <1>3 DEF DiscoverAgain, Discovered
<1>4. CASE Capture
  BY <1>4 DEF Capture, CaptureIf
<1>5. CASE EventIgnored
  BY <1>5 DEF EventIgnored
<1>6. CASE CaptureEnds
  BY <1>6 DEF CaptureEnds, CaptureEndsWith
<1>7. CASE Notify
  BY <1>7 DEF Notify
<1>8. ASSUME NEW s \in Sources, NextFrame(s)
      PROVE  ThreadsTypeOK'
  BY <1>8, ViewsAre DEF NextFrame
<1>9. ASSUME NEW s \in Sources, DeadlinePasses(s)
      PROVE  ThreadsTypeOK'
  BY <1>9 DEF DeadlinePasses
<1>10. ASSUME NEW s \in Sources, WakesSpuriously(s)
      PROVE  ThreadsTypeOK'
  BY <1>10 DEF WakesSpuriously
<1>11. ASSUME NEW s \in Sources, WaitsAgain(s)
      PROVE  ThreadsTypeOK'
  BY <1>11 DEF WaitsAgain
<1>12. ASSUME NEW s \in Sources, Returns(s)
      PROVE  ThreadsTypeOK'
  BY <1>12 DEF Returns, ReturnsWith
<1>13. ASSUME NEW s \in Sources, FrameCalled(s)
      PROVE  ThreadsTypeOK'
  BY <1>13, ViewsAre DEF FrameCalled
<1>14. ASSUME NEW s \in Sources, FrameInto(s)
      PROVE  ThreadsTypeOK'
  BY <1>14, ViewsAre DEF FrameInto
<1>15. CASE UNCHANGED vars
  BY <1>15
<1>. QED
  BY <1>1, <1>2, <1>3, <1>4, <1>5, <1>6, <1>7, <1>8,
     <1>9, <1>10, <1>11, <1>12, <1>13, <1>14, <1>15
  DEF Next, CameraStep, ThreadStep

(* Every variable keeps to its type. *)
THEOREM TypeCorrect == Spec => []TypeOK
<1>1. TypeOK /\ [Next]_vars => TypeOK'
  <2> SUFFICES ASSUME TypeOK, [Next]_vars PROVE TypeOK'
    OBVIOUS
  <2>1. display \in Nat /\ cmsFrame \in Views
    BY MaxFramesAssumption DEF TypeOK, CameraTypeOK, FrameTypeOK
  <2>. QED
    BY <2>1, DiscoveryStep, CameraTypeStep, FrameTypeStep, ThreadsStep DEF TypeOK
<1>. QED
  BY TypeInit, <1>1, PTL DEF Spec

(* A discovery at work on the link is the first one; once it has answered, *)
(* the host has been told.                                                 *)
FirstInv ==
  /\ discovering => multiSpectralLink /\ found = "unasked"
  /\ multiSpectralLink /\ ~discovering => found # "unasked"
  /\ ~multiSpectralLink => found = "unasked"

(* An unconfigured camera is met only after a discovery that found none,   *)
(* and no discovery changes a camera the host has, or takes it away.       *)
THEOREM CamerasAreConfiguredFirst == Spec => ConfiguredBeforeUse
<1> DEFINE Kept ==
      /\ found = "unasked" /\ found' = "camera" => overrides' = "all"
      /\ found = "camera" => found' = "camera" /\ UNCHANGED overrides
<1>1. Init => FirstInv
  BY DEF Init, FirstInv
<1>2. FirstInv /\ [Next]_vars => FirstInv' /\ Kept
  <2> SUFFICES ASSUME FirstInv, [Next]_vars PROVE FirstInv' /\ Kept
    OBVIOUS
  <2> USE DEF FirstInv
  <2>1. CASE OverridesChange
    BY <2>1 DEF OverridesChange
  <2>2. CASE DiscoverBegins
    BY <2>2 DEF DiscoverBegins
  <2>3. CASE DiscoverFails
    BY <2>3 DEF DiscoverFails, LoadFails, Discovered
  <2>4. CASE DiscoverFirst
    BY <2>4 DEF DiscoverFirst, Identified, Discovered
  <2>5. CASE DiscoverAgain
    BY <2>5 DEF DiscoverAgain, Discovered
  <2>6. CASE UNCHANGED discovery
    BY <2>6 DEF discovery
  <2>. QED
    BY <2>1, <2>2, <2>3, <2>4, <2>5, <2>6, OthersDoNotDiscover
<1>. QED
  BY <1>1, <1>2, PTL DEF Spec, ConfiguredBeforeUse

(* However many sources there are, the request for a frame never outlives  *)
(* the calls that may have made it.                                        *)
THEOREM RequestsAreWithdrawn == Spec => []NoOrphanRequest
<1>1. Init => NoOrphanRequest
  BY DEF Init, NoOrphanRequest
<1>2. TypeOK /\ NoOrphanRequest /\ [Next]_vars => NoOrphanRequest'
  <2> SUFFICES ASSUME ThreadsTypeOK, NoOrphanRequest, [Next]_vars, waitingForFrame'
               PROVE  \E s \in Sources : pc'[s] # "idle"
    BY DEF NoOrphanRequest, TypeOK
  <2> USE DEF ThreadsTypeOK, NoOrphanRequest, vars, discovery, camera, threads
  <2>1. CASE OverridesChange \/ DiscoverBegins \/ DiscoverFails
    BY <2>1 DEF OverridesChange, DiscoverBegins, DiscoverFails, LoadFails, Discovered
  <2>2. CASE DiscoverFirst
    BY <2>2 DEF DiscoverFirst, Discovered
  <2>3. CASE DiscoverAgain
    BY <2>3 DEF DiscoverAgain, Discovered
  <2>4. CASE Capture
    BY <2>4 DEF Capture, CaptureIf
  <2>5. CASE EventIgnored
    BY <2>5 DEF EventIgnored
  <2>6. CASE CaptureEnds
    BY <2>6 DEF CaptureEnds, CaptureEndsWith
  <2>7. CASE Notify
    BY <2>7 DEF Notify
  <2>8. ASSUME NEW s \in Sources, NextFrame(s)
        PROVE  \E r \in Sources : pc'[r] # "idle"
    BY <2>8 DEF NextFrame
  <2>9. ASSUME NEW s \in Sources, DeadlinePasses(s)
        PROVE  \E r \in Sources : pc'[r] # "idle"
    BY <2>9 DEF DeadlinePasses
  <2>10. ASSUME NEW s \in Sources, WakesSpuriously(s)
        PROVE  \E r \in Sources : pc'[r] # "idle"
    BY <2>10 DEF WakesSpuriously
  <2>11. ASSUME NEW s \in Sources, WaitsAgain(s)
        PROVE  \E r \in Sources : pc'[r] # "idle"
    BY <2>11 DEF WaitsAgain
  <2>12. ASSUME NEW s \in Sources, Returns(s)
        PROVE  \E r \in Sources : pc'[r] # "idle"
    BY <2>12 DEF Returns, ReturnsWith
  <2>13. ASSUME NEW s \in Sources, FrameCalled(s)
        PROVE  \E r \in Sources : pc'[r] # "idle"
    BY <2>13 DEF FrameCalled
  <2>14. ASSUME NEW s \in Sources, FrameInto(s)
        PROVE  \E r \in Sources : pc'[r] # "idle"
    BY <2>14 DEF FrameInto
  <2>15. CASE UNCHANGED vars
    BY <2>15
  <2>. QED
    BY <2>1, <2>2, <2>3, <2>4, <2>5, <2>6, <2>7, <2>8,
       <2>9, <2>10, <2>11, <2>12, <2>13, <2>14, <2>15
    DEF Next, CameraStep, ThreadStep
<1>. QED
  BY <1>1, <1>2, TypeCorrect, PTL DEF Spec

(***************************************************************************)
(* A source that has the camera to itself.                                 *)
(***************************************************************************)
LEMMA AloneInit ==
  ASSUME Sources = {Alone}
  PROVE  Init => AloneInv
BY DEF Init, AloneInv, Nothing

LEMMA AloneStep ==
  ASSUME Sources = {Alone}, ThreadsTypeOK, waitingForFrame \in BOOLEAN, display \in Nat,
         AloneInv, [Next]_vars
  PROVE  AloneInv'
<1>0. before[Alone] \in Nat /\ Alone \in Sources
  BY DEF ThreadsTypeOK
<1> USE DEF ThreadsTypeOK, AloneInv, vars, camera, threads
<1>1. CASE OverridesChange \/ DiscoverBegins \/ DiscoverFails
  <2>1. UNCHANGED <<camera, waitingForFrame, threads>>
    BY <1>1, Zenon DEF OverridesChange, DiscoverBegins, DiscoverFails, LoadFails, Discovered
  <2>. QED
    BY <1>0, <2>1
<1>2. CASE DiscoverFirst
  BY <1>0, <1>2 DEF DiscoverFirst, Discovered
<1>3. CASE DiscoverAgain
  BY <1>0, <1>3 DEF DiscoverAgain, Discovered
<1>4. CASE Capture
  <2>1. /\ waitingForFrame /\ ~waitingForFrame'
        /\ cmsLock' = "camera" /\ cameraPC' = "capturing"
        /\ display' = display + 1 /\ UNCHANGED threads
    BY <1>4, Zenon DEF Capture, CaptureIf
  <2>2. pc[Alone] # "idle" /\ display = before[Alone]
    BY <2>1, <1>0
  <2>3. held[Alone] = Nothing
    BY <2>2
  <2>. QED
    BY <2>1, <2>2, <2>3, <1>0
<1>5. CASE EventIgnored
  BY <1>0, <1>5 DEF EventIgnored
<1>6. CASE CaptureEnds
  BY <1>0, <1>6 DEF CaptureEnds, CaptureEndsWith
<1>7. CASE Notify
  BY <1>0, <1>7 DEF Notify
<1>8. ASSUME NEW s \in Sources, NextFrame(s)
      PROVE  AloneInv'
  <2>1. s = Alone /\ pc[Alone] = "idle" /\ cameraPC # "capturing"
    BY <1>8 DEF NextFrame
  <2>2. pc'[Alone] = "waiting" /\ held'[Alone] = Nothing /\ before'[Alone] = display
    BY <1>8, <2>1 DEF NextFrame
  <2>3. waitingForFrame' = TRUE /\ UNCHANGED camera
    BY <1>8 DEF NextFrame
  <2>. QED
    BY <2>1, <2>2, <2>3, <1>0
<1>9. ASSUME NEW s \in Sources, DeadlinePasses(s)
      PROVE  AloneInv'
  BY <1>0, <1>9 DEF DeadlinePasses
<1>10. ASSUME NEW s \in Sources, WakesSpuriously(s)
      PROVE  AloneInv'
  BY <1>0, <1>10 DEF WakesSpuriously
<1>11. ASSUME NEW s \in Sources, WaitsAgain(s)
      PROVE  AloneInv'
  BY <1>0, <1>11 DEF WaitsAgain
<1>12. ASSUME NEW s \in Sources, Returns(s)
      PROVE  AloneInv'
  BY <1>0, <1>12 DEF Returns, ReturnsWith
<1>13. ASSUME NEW s \in Sources, FrameCalled(s)
      PROVE  AloneInv'
  BY <1>0, <1>13 DEF FrameCalled
<1>14. ASSUME NEW s \in Sources, FrameInto(s)
      PROVE  AloneInv'
  BY <1>0, <1>14 DEF FrameInto
<1>15. CASE UNCHANGED vars
  BY <1>15
<1>. QED
  BY <1>1, <1>2, <1>3, <1>4, <1>5, <1>6, <1>7, <1>8,
     <1>9, <1>10, <1>11, <1>12, <1>13, <1>14, <1>15
  DEF Next, CameraStep, ThreadStep

(* AloneInv is an invariant when there is one source. *)
THEOREM AloneInvariance ==
  ASSUME Sources = {Alone}
  PROVE  Spec => []AloneInv
<1>1. TypeOK /\ AloneInv /\ [Next]_vars => AloneInv'
  <2> SUFFICES ASSUME TypeOK, AloneInv, [Next]_vars PROVE AloneInv'
    OBVIOUS
  <2>1. ThreadsTypeOK /\ waitingForFrame \in BOOLEAN
    BY DEF TypeOK, FrameTypeOK
  <2>2. display \in Nat
    BY MaxFramesAssumption DEF TypeOK, CameraTypeOK
  <2>. QED
    BY <2>1, <2>2, AloneStep
<1>. QED
  BY AloneInit, <1>1, TypeCorrect, PTL DEF Spec

(* The image behind a view the only source handed out stays as it is until *)
(* the next nextFrame(): no request stands while the host has it.          *)
THEOREM HeldImageIsStable ==
  ASSUME Sources = {Alone}
  PROVE  Spec => []HeldIsStable
<1>1. AloneInv => HeldIsStable
  BY DEF AloneInv, HeldIsStable, Nothing, Display
<1>. QED
  BY <1>1, AloneInvariance, PTL

(* The only source does what VideoSource.h asks: Capture is Refresh, and   *)
(* the flag that nextFrame() reads tells whether it happened.              *)
THEOREM AloneImplementsFrameSource ==
  ASSUME Sources = {Alone}
  PROVE  Spec => ImplementsFrameSource
<1>1. Init => F!Init
  BY DEF Init, F!Init
<1>2. TypeOK /\ AloneInv /\ [Next]_vars => [F!Next]_F!vars
  <2> SUFFICES ASSUME TypeOK, AloneInv, [Next]_vars PROVE [F!Next]_F!vars
    OBVIOUS
  <2>1. /\ ThreadsTypeOK /\ waitingForFrame \in BOOLEAN
        /\ Alone \in Sources /\ before[Alone] \in Nat
    BY DEF TypeOK, FrameTypeOK, ThreadsTypeOK
  <2>2. display \in Nat
    BY MaxFramesAssumption DEF TypeOK, CameraTypeOK
  <2> USE DEF ThreadsTypeOK, F!vars, vars, camera, threads
  <2>3. CASE \/ OverridesChange \/ DiscoverBegins
             \/ DiscoverFails \/ DiscoverFirst \/ DiscoverAgain
    BY <2>3 DEF OverridesChange, DiscoverBegins, DiscoverFails, LoadFails, DiscoverFirst, DiscoverAgain,
                Discovered
  <2>4. CASE Capture
    <3>1. waitingForFrame /\ display' = display + 1 /\ UNCHANGED threads
      BY <2>4, Zenon DEF Capture, CaptureIf
    <3>2. pc[Alone] # "idle" /\ display = before[Alone]
      BY <3>1, <2>1, <2>2 DEF AloneInv
    <3>. QED
      BY <3>1, <3>2 DEF F!Next, F!Refresh
  <2>5. CASE EventIgnored \/ CaptureEnds
    BY <2>5 DEF EventIgnored, CaptureEnds, CaptureEndsWith
  <2>6. CASE Notify
    BY <2>1, <2>6 DEF Notify
  <2>7. ASSUME NEW s \in Sources, NextFrame(s)
        PROVE  [F!Next]_F!vars
    <3>1. s = Alone
      OBVIOUS
    <3>. QED
      BY <2>1, <2>7, <3>1 DEF NextFrame, F!Next, F!Call
  <2>8. ASSUME NEW s \in Sources, DeadlinePasses(s) \/ WakesSpuriously(s) \/ WaitsAgain(s)
        PROVE  [F!Next]_F!vars
    BY <2>1, <2>8 DEF DeadlinePasses, WakesSpuriously, WaitsAgain
  <2>9. ASSUME NEW s \in Sources, Returns(s)
        PROVE  [F!Next]_F!vars
    <3>1. s = Alone
      OBVIOUS
    <3>2. /\ pc[Alone] = "woken" /\ pc'[Alone] = "idle"
          /\ result'[Alone] = IF waitingForFrame THEN "timeout" ELSE "success"
          /\ UNCHANGED <<camera, before>>
      BY <2>1, <2>9, <3>1 DEF Returns, ReturnsWith
    <3>3. waitingForFrame <=> display = before[Alone]
      BY <2>1, <2>2, <3>2 DEF AloneInv
    <3>. QED
      BY <3>2, <3>3 DEF F!Next, F!Return
  <2>10. ASSUME NEW s \in Sources, FrameCalled(s) \/ FrameInto(s)
         PROVE  [F!Next]_F!vars
    BY <2>10 DEF FrameCalled, FrameInto
  <2>11. CASE UNCHANGED vars
    BY <2>11
  <2>. QED
    BY <2>3, <2>4, <2>5, <2>6, <2>7, <2>8, <2>9, <2>10, <2>11
    DEF Next, CameraStep, ThreadStep
<1>. QED
  BY <1>1, <1>2, TypeCorrect, AloneInvariance, PTL DEF Spec, ImplementsFrameSource, F!Spec

(***************************************************************************)
(* Liveness, of any number of sources and however often the camera calls   *)
(* the handler.  tlapm 1.4.5 cannot look into ENABLED: what it would need  *)
(* to know of it is the hypothesis RunnableIsEnabled.                      *)
(***************************************************************************)
(* A deadline that passes wakes its thread, which then does not wait again. *)
ExpiredInv == \A s \in Sources : expired[s] => pc[s] = "woken"

LEMMA ExpiredStep ==
  ASSUME ThreadsTypeOK, ExpiredInv, [Next]_vars
  PROVE  ExpiredInv'
<1> USE DEF ThreadsTypeOK, ExpiredInv
<1>1. CASE \/ OverridesChange \/ DiscoverBegins \/ DiscoverFails \/ DiscoverFirst \/ DiscoverAgain
           \/ Capture \/ EventIgnored \/ CaptureEnds \/ UNCHANGED vars
  BY <1>1 DEF OverridesChange, DiscoverBegins, DiscoverFails, LoadFails, DiscoverFirst, DiscoverAgain, Discovered,
              Capture, CaptureIf, EventIgnored, CaptureEnds, CaptureEndsWith, threads, vars
<1>2. CASE Notify
  BY <1>2 DEF Notify
<1>3. ASSUME NEW s \in Sources, NextFrame(s) \/ DeadlinePasses(s) \/ WakesSpuriously(s)
      PROVE  ExpiredInv'
  BY <1>3 DEF NextFrame, DeadlinePasses, WakesSpuriously
<1>4. ASSUME NEW s \in Sources, ThreadStep(s) \/ FrameCalled(s) \/ FrameInto(s)
      PROVE  ExpiredInv'
  BY <1>4 DEF ThreadStep, WaitsAgain, Returns, ReturnsWith, FrameCalled, FrameInto
<1> QED
  BY <1>1, <1>2, <1>3, <1>4 DEF Next, CameraStep

(* A thread whose deadline has passed is awake until its call returns.     *)
THEOREM ExpiredIsAwake == Spec => []ExpiredInv
<1>1. Init => ExpiredInv
  BY DEF Init, ExpiredInv
<1>2. TypeOK /\ ExpiredInv /\ [Next]_vars => ExpiredInv'
  BY ExpiredStep DEF TypeOK
<1> QED
  BY <1>1, <1>2, TypeCorrect, PTL DEF Spec

(* The stages of a nextFrame(): before its deadline, and after.            *)
InTime(s) == pc[s] # "idle" /\ ~expired[s]
Late(s) == pc[s] # "idle" /\ expired[s]
Idle(s) == pc[s] = "idle"

(* Time does not run back, and a late call does not wait again.            *)
LEMMA CallGoesOn ==
  ASSUME ThreadsTypeOK, ExpiredInv, [Next]_vars, NEW s \in Sources
  PROVE  /\ InTime(s) => (InTime(s) \/ Late(s) \/ Idle(s))'
         /\ InTime(s) /\ DeadlinePasses(s) => Late(s)'
         /\ Late(s) => (Late(s) \/ Idle(s))'
         /\ Late(s) /\ ThreadStep(s) => Idle(s)'
<1> USE DEF ThreadsTypeOK, ExpiredInv, InTime, Late, Idle
<1>1. (InTime(s) \/ Late(s) \/ Idle(s))'
  OBVIOUS
<1>2. ASSUME DeadlinePasses(s) PROVE Late(s)'
  BY <1>2 DEF DeadlinePasses
<1>3. ASSUME Late(s), ThreadStep(s) PROVE Idle(s)'
  BY <1>3 DEF ThreadStep, WaitsAgain, Returns, ReturnsWith
<1>4. ASSUME Late(s) PROVE (Late(s) \/ Idle(s))'
  <2>1. CASE \/ OverridesChange \/ DiscoverBegins \/ DiscoverFails \/ DiscoverFirst \/ DiscoverAgain
             \/ Capture \/ EventIgnored \/ CaptureEnds \/ UNCHANGED vars
    BY <1>4, <2>1
       DEF OverridesChange, DiscoverBegins, DiscoverFails, LoadFails, DiscoverFirst, DiscoverAgain, Discovered,
           Capture, CaptureIf, EventIgnored, CaptureEnds, CaptureEndsWith, threads, vars
  <2>2. CASE Notify
    BY <1>4, <2>2 DEF Notify
  <2>3. ASSUME NEW u \in Sources, NextFrame(u) \/ DeadlinePasses(u) \/ WakesSpuriously(u)
        PROVE  (Late(s) \/ Idle(s))'
    BY <1>4, <2>3 DEF NextFrame, DeadlinePasses, WakesSpuriously
  <2>4. ASSUME NEW u \in Sources, ThreadStep(u) \/ FrameCalled(u) \/ FrameInto(u)
        PROVE  (Late(s) \/ Idle(s))'
    BY <1>4, <2>4 DEF ThreadStep, WaitsAgain, Returns, ReturnsWith, FrameCalled, FrameInto
  <2> QED
    BY <2>1, <2>2, <2>3, <2>4 DEF Next, CameraStep
<1> QED
  BY <1>1, <1>2, <1>3, <1>4

(* The call of one source returns, if time passes, the source's thread     *)
(* gets the lock and the handler gives it back.                            *)
Return(s) == pc[s] # "idle" ~> pc[s] = "idle"

LEMMA SourceReturns ==
  ASSUME NEW s \in Sources
  PROVE  Spec /\ HandlerRuns /\ SourceRuns(s) /\ GetsLock(s) /\ []RunnableIsEnabled => Return(s)
<1> DEFINE Good == TypeOK /\ ExpiredInv
           T == InTime(s)
           L == Late(s)
           I == Idle(s)
           Free == cmsLock = "free"
           Captures == cameraPC = "capturing"
<1>1. Good /\ [Next]_vars =>
        /\ T => T' \/ L' \/ I'
        /\ T /\ DeadlinePasses(s) => L'
        /\ L => L' \/ I'
        /\ L /\ ThreadStep(s) => I'
  BY CallGoesOn DEF TypeOK
<1>2. Good /\ ~Free => Captures
  BY DEF TypeOK, CameraTypeOK
<1>3. Good /\ Captures /\ CaptureEnds => Free'
  BY DEF CaptureEnds, CaptureEndsWith
<1>4. RunnableIsEnabled => NotStuck(s)
  BY Zenon DEF RunnableIsEnabled
<1>5. NotStuck(s) => /\ T => ENABLED <<DeadlinePasses(s)>>_vars
                     /\ pc[s] = "woken" /\ Free => ENABLED <<ThreadStep(s)>>_vars
  BY PTL DEF NotStuck, InTime
<1>6. Good => /\ L => pc[s] = "woken"
              /\ pc[s] # "idle" => T \/ L
              /\ I <=> pc[s] = "idle"
  BY DEF ExpiredInv, InTime, Late, Idle
<1>7. Spec => []Good
  BY TypeCorrect, ExpiredIsAwake, PTL
<1>8. RunnableIsEnabled => (Captures => ENABLED <<CaptureEnds>>_vars)
  BY PTL DEF RunnableIsEnabled
<1> HIDE DEF Good, T, L, I, Free, Captures
<1>9. Spec /\ HandlerRuns /\ []RunnableIsEnabled => []<>Free
  BY <1>2, <1>3, <1>7, <1>8, PTL DEF HandlerRuns, Spec
<1>10. Spec /\ SourceRuns(s) /\ []RunnableIsEnabled => (T ~> L \/ I)
  BY <1>1, <1>4, <1>5, <1>7, PTL DEF SourceRuns, Spec
<1>11. Spec /\ []<>Free /\ GetsLock(s) /\ []RunnableIsEnabled => (L ~> I)
  BY <1>1, <1>4, <1>5, <1>6, <1>7, PTL DEF GetsLock, Spec
<1> QED
  BY <1>6, <1>7, <1>9, <1>10, <1>11, PTL DEF Return

(* Every nextFrame() returns, whatever the camera, the other sources and   *)
(* spurious wakeups do, if time passes, a thread that finds the lock free  *)
(* again and again gets it, and the handler runs once it is called.        *)
THEOREM CallsReturn == FairLockSpec /\ []RunnableIsEnabled => CallReturns
<1>1. \A s \in Sources :
        Spec /\ HandlerRuns /\ SourceRuns(s) /\ GetsLock(s) /\ []RunnableIsEnabled => Return(s)
  BY SourceReturns, Zenon
<1>2. (\A s \in Sources : Return(s)) => CallReturns
  BY Zenon DEF CallReturns, Return
<1> QED
  BY <1>1, <1>2, Zenon DEF FairLockSpec, FairSpec
=============================================================================
