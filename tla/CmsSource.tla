------------------------------ MODULE CmsSource ------------------------------
(***************************************************************************)
(* plugins/cms: the camera event handler, CMSSource and CMSDiscoverer.     *)
(* All the state is global: every source shares one flag, one condition    *)
(* variable and one frame with the thread of the camera library that calls *)
(* cmsEventHandler().  A source is driven by one host thread.  The handler *)
(* holds cmsLock while the library computes the image, so its critical     *)
(* section is two steps, the display image being overwritten in between;   *)
(* the other critical sections are single steps.  The camera library is    *)
(* external: one display image, overwritten by each capture.               *)
(***************************************************************************)
EXTENDS Integers

CONSTANTS
  Sources,     \* the CMSSource objects
  MaxFrames    \* how many images the camera captures (bound)

ASSUME MaxFramesAssumption == MaxFrames \in Nat

VARIABLES
  (* the globals of cms.cpp *)
  multiSpectralLink,  \* is it there, its event handler set?
  cmsLock,            \* "free", or "camera" inside the handler
  waitingForFrame,    \* BOOLEAN
  cmsMetadata,        \* "empty" or "BGR"
  cmsFrame,           \* what it views: nothing, the display image, a host's buffer
  (* the camera library *)
  cameraPC,
  display,            \* the number of the image in the display image
  file,               \* NeuralaCMSOverrides.json, as it is now
  serial,             \* does the camera have a serial number?
  overrides,          \* "none", "frameRate" or "all" of them were set
  (* the host: its discoverer and, for each source, a thread *)
  discovering,        \* is a discovery configuring the link?
  found,              \* what the last discovery returned
  pc,                 \* of the source's thread: "idle", "waiting" or "woken"
  expired,            \* has the deadline of its running nextFrame() passed?
  result,             \* what its last nextFrame() returned
  held,               \* the view its last frame() returned
  (* history *)
  before,             \* display, when its last nextFrame() was called
  shown               \* display, when it took the view it holds

discovery == <<multiSpectralLink, file, serial, overrides, discovering, found>>
camera == <<cmsLock, cmsMetadata, cameraPC, display>>
threads == <<pc, expired, result, held, before, shown>>
vars == <<discovery, camera, waitingForFrame, cmsFrame, threads>>

Files == {"absent", "malformed", "good"}

Nothing == [kind |-> "nothing"]
Display == [kind |-> "display"]
HostBuffer(s) == [kind |-> "buffer", of |-> s]
Views == {Nothing, Display} \union {HostBuffer(s) : s \in Sources}

Init ==
  /\ multiSpectralLink = FALSE
  /\ cmsLock = "free"
  /\ waitingForFrame = FALSE
  /\ cmsMetadata = "empty"
  /\ cmsFrame = Nothing
  /\ cameraPC = "idle"
  /\ display = 0
  /\ file \in Files
  /\ serial \in BOOLEAN
  /\ overrides = "none"
  /\ discovering = FALSE
  /\ found = "unasked"
  /\ pc = [s \in Sources |-> "idle"]
  /\ expired = [s \in Sources |-> FALSE]
  /\ result = [s \in Sources |-> "none"]
  /\ held = [s \in Sources |-> Nothing]
  /\ before = [s \in Sources |-> 0]
  /\ shown = [s \in Sources |-> 0]

(***************************************************************************)
(* CMSDiscoverer::operator(), called by one thread of the host.  Events    *)
(* arrive as soon as the link is there.  It is kept even if the overrides  *)
(* or the serial number then fail, and the next call skips both.  The user *)
(* may provide, repair or remove the overrides at any time: external.      *)
(***************************************************************************)
OverridesChange ==
  /\ file' \in Files \ {file}
  /\ UNCHANGED <<multiSpectralLink, serial, overrides, discovering, found>>
  /\ UNCHANGED <<camera, waitingForFrame, cmsFrame, threads>>

DiscoverBegins ==
  /\ ~multiSpectralLink
  /\ multiSpectralLink' = TRUE
  /\ discovering' = TRUE
  /\ UNCHANGED <<file, serial, overrides, found, camera, waitingForFrame, cmsFrame, threads>>

Discovered(outcome) ==
  /\ discovering' = FALSE
  /\ found' = outcome
  /\ UNCHANGED <<multiSpectralLink, file, serial, camera, waitingForFrame, cmsFrame, threads>>

Identified == IF serial THEN "camera" ELSE "no camera"

(* load() sets the frame rate before it reads the gain. *)
LoadFails(outcome) ==
  /\ discovering /\ file # "good"
  /\ overrides' \in IF file = "absent" THEN {"none"} ELSE {"none", "frameRate"}
  /\ Discovered(outcome)
(* The bug this would be: the exception is caught, and the discovery goes on. *)
DiscoverFails_goOn == LoadFails(Identified)
DiscoverFails == LoadFails("no camera")

DiscoverFirst ==
  /\ discovering /\ file = "good"
  /\ overrides' = "all"
  /\ Discovered(Identified)

DiscoverAgain ==
  /\ multiSpectralLink /\ ~discovering
  /\ UNCHANGED overrides
  /\ Discovered("camera")

(***************************************************************************)
(* cmsEventHandler(), on the thread of the camera library.                 *)
(***************************************************************************)
(* With the lock taken, the request is cleared, and the capture begins. *)
CaptureIf(requested) ==
  /\ multiSpectralLink /\ cameraPC = "idle" /\ cmsLock = "free"
  /\ requested /\ display < MaxFrames
  /\ waitingForFrame' = FALSE
  /\ display' = display + 1
  /\ cmsLock' = "camera"
  /\ cameraPC' = "capturing"
  /\ UNCHANGED <<discovery, cmsMetadata, cmsFrame, threads>>
(* The bug this would be: every event captures, whether a frame is awaited *)
(* or not.                                                                 *)
Capture_always == CaptureIf(TRUE)
Capture == CaptureIf(waitingForFrame)

EventIgnored ==
  /\ multiSpectralLink /\ cameraPC = "idle" /\ cmsLock = "free"
  /\ ~waitingForFrame
  /\ cameraPC' = "notifying"
  /\ UNCHANGED <<discovery, cmsLock, cmsMetadata, display, waitingForFrame, cmsFrame, threads>>

CaptureEndsWith(lock) ==
  /\ cameraPC = "capturing"
  /\ cmsMetadata' = "BGR"
  /\ cmsFrame' = Display
  /\ cmsLock' = lock
  /\ cameraPC' = "notifying"
  /\ UNCHANGED <<discovery, display, waitingForFrame, threads>>
(* The bug this would be: the handler returns with the lock. *)
CaptureEnds_keepLock == CaptureEndsWith(cmsLock)
CaptureEnds == CaptureEndsWith("free")

(* notify_all(), whether a frame was captured or not. *)
Notify ==
  /\ cameraPC = "notifying"
  /\ cameraPC' = "idle"
  /\ pc' = [s \in Sources |-> IF pc[s] = "waiting" THEN "woken" ELSE pc[s]]
  /\ UNCHANGED <<discovery, cmsLock, cmsMetadata, display, waitingForFrame, cmsFrame,
                 expired, result, held, before, shown>>

(***************************************************************************)
(* CMSSource: nextFrame() waits on cmsCV until the flag is cleared or the  *)
(* deadline passes.  wait_until() says timeout when the deadline has       *)
(* passed, whatever woke the thread.                                       *)
(***************************************************************************)
NextFrame(s) ==
  /\ pc[s] = "idle" /\ cmsLock = "free"
  /\ waitingForFrame' = TRUE
  /\ pc' = [pc EXCEPT ![s] = "waiting"]
  /\ held' = [held EXCEPT ![s] = Nothing]
  /\ before' = [before EXCEPT ![s] = display]
  /\ shown' = [shown EXCEPT ![s] = 0]
  /\ UNCHANGED <<discovery, camera, cmsFrame, expired, result>>

DeadlinePasses(s) ==
  /\ pc[s] # "idle" /\ ~expired[s]
  /\ expired' = [expired EXCEPT ![s] = TRUE]
  /\ pc' = [pc EXCEPT ![s] = "woken"]
  /\ UNCHANGED <<discovery, camera, waitingForFrame, cmsFrame, result, held, before, shown>>

WakesSpuriously(s) ==
  /\ pc[s] = "waiting"
  /\ pc' = [pc EXCEPT ![s] = "woken"]
  /\ UNCHANGED <<discovery, camera, waitingForFrame, cmsFrame, expired, result, held,
                 before, shown>>

(* Woken before the deadline, without a frame: wait again. *)
WaitsAgain(s) ==
  /\ pc[s] = "woken" /\ cmsLock = "free"
  /\ ~expired[s] /\ waitingForFrame
  /\ pc' = [pc EXCEPT ![s] = "waiting"]
  /\ UNCHANGED <<discovery, camera, waitingForFrame, cmsFrame, expired, result, held,
                 before, shown>>

ReturnsWith(s, done, flag) ==
  /\ pc[s] = "woken" /\ cmsLock = "free"
  /\ done
  /\ result' = [result EXCEPT ![s] = IF waitingForFrame THEN "timeout" ELSE "success"]
  /\ waitingForFrame' = flag
  /\ pc' = [pc EXCEPT ![s] = "idle"]
  /\ expired' = [expired EXCEPT ![s] = FALSE]
  /\ UNCHANGED <<discovery, camera, cmsFrame, held, before, shown>>
(* The bug this would be: a timeout leaves the request standing. *)
Returns_keepRequest(s) ==
  ReturnsWith(s, expired[s] \/ ~waitingForFrame, waitingForFrame)
(* The bug this would be: the thread waits for the flag alone. *)
Returns_noDeadline(s) == ReturnsWith(s, ~waitingForFrame, FALSE)
Returns(s) == ReturnsWith(s, expired[s] \/ ~waitingForFrame, FALSE)

(* frame(), after a nextFrame() that succeeded; without the lock. *)
FrameCalled(s) ==
  /\ pc[s] = "idle" /\ result[s] = "success"
  /\ held' = [held EXCEPT ![s] = cmsFrame]
  /\ shown' = [shown EXCEPT ![s] = display]
  /\ UNCHANGED <<discovery, camera, waitingForFrame, cmsFrame, pc, expired, result, before>>

(* frame(data, capacity): the global frame becomes a view of the host's    *)
(* buffer, into which nothing is copied.                                   *)
FrameInto(s) ==
  /\ pc[s] = "idle" /\ result[s] = "success"
  /\ cmsFrame' = HostBuffer(s)
  /\ held' = [held EXCEPT ![s] = HostBuffer(s)]
  /\ shown' = [shown EXCEPT ![s] = display]
  /\ UNCHANGED <<discovery, camera, waitingForFrame, pc, expired, result, before>>

CameraStep == Capture \/ EventIgnored \/ CaptureEnds \/ Notify
ThreadStep(s) == WaitsAgain(s) \/ Returns(s)

Next ==
  \/ OverridesChange
  \/ DiscoverBegins \/ DiscoverFails \/ DiscoverFirst \/ DiscoverAgain
  \/ CameraStep
  \/ \E s \in Sources :
       \/ NextFrame(s) \/ DeadlinePasses(s) \/ WakesSpuriously(s)
       \/ ThreadStep(s) \/ FrameCalled(s) \/ FrameInto(s)

Spec == Init /\ [][Next]_vars

(* Time passes, woken threads run, and so does the handler once it is      *)
(* called; the camera need never call it, nor the host anything.           *)
HandlerRuns == WF_vars(CaptureEnds) /\ WF_vars(Notify)
SourceRuns(s) == WF_vars(DeadlinePasses(s)) /\ WF_vars(ThreadStep(s))

FairSpec == Spec /\ HandlerRuns /\ \A s \in Sources : SourceRuns(s)

(* Captures without end, for other sources, could take the lock whenever   *)
(* the thread of s wants it: this says that it gets the lock if it finds   *)
(* it free again and again.                                                *)
GetsLock(s) == SF_vars(ThreadStep(s))
FairLockSpec == FairSpec /\ \A s \in Sources : GetsLock(s)

(***************************************************************************)
(* Properties of any number of sources.                                    *)
(***************************************************************************)
DiscoveryTypeOK ==
  /\ multiSpectralLink \in BOOLEAN
  /\ file \in Files /\ serial \in BOOLEAN
  /\ overrides \in {"none", "frameRate", "all"}
  /\ discovering \in BOOLEAN
  /\ found \in {"unasked", "no camera", "camera"}

CameraTypeOK ==
  /\ cmsLock \in {"free", "camera"}
  /\ cameraPC \in {"idle", "capturing", "notifying"}
  /\ cmsMetadata \in {"empty", "BGR"}
  /\ display \in 0 .. MaxFrames
  /\ cmsLock = "camera" <=> cameraPC = "capturing"

FrameTypeOK == waitingForFrame \in BOOLEAN /\ cmsFrame \in Views

ThreadsTypeOK ==
  /\ pc \in [Sources -> {"idle", "waiting", "woken"}]
  /\ expired \in [Sources -> BOOLEAN]
  /\ result \in [Sources -> {"none", "success", "timeout"}]
  /\ held \in [Sources -> Views]
  /\ before \in [Sources -> Nat] /\ shown \in [Sources -> Nat]

(* The type of the state; the handler has the lock while it captures. *)
TypeOK == DiscoveryTypeOK /\ CameraTypeOK /\ FrameTypeOK /\ ThreadsTypeOK

(* A request stands only while some nextFrame() runs: a timed-out call     *)
(* withdraws it, so that no late event overwrites the display image.       *)
NoOrphanRequest ==
  waitingForFrame => \E s \in Sources : pc[s] # "idle"

(* The host never meets an unconfigured camera without having been told    *)
(* once that there is none; and the camera it was given stays there, with  *)
(* the settings it has, whatever becomes of the overrides and however      *)
(* often the host asks again.                                              *)
ConfiguredBeforeUse ==
  [][ /\ found = "unasked" /\ found' = "camera" => overrides' = "all"
      /\ found = "camera" => found' = "camera" /\ UNCHANGED overrides ]_vars

(* A discovery that finds a camera has given it the overrides, if there is *)
(* a good file by then.  A discovery that is repeated after the file was   *)
(* provided or repaired breaks it: the link is there, and nothing is       *)
(* loaded.                                                                 *)
FoundIsConfigured ==
  [][found # "camera" /\ found' = "camera" /\ file = "good" => overrides' = "all"]_vars

(* Every nextFrame() returns, even if the camera never calls the handler,  *)
(* and whatever the other sources and spurious wakeups do.                 *)
CallReturns == \A s \in Sources : pc[s] # "idle" ~> pc[s] = "idle"

(* The handler, the clock and a woken thread can go on when they have what *)
(* they wait for, whatever the flag says.                                  *)
NotStuck(s) ==
  /\ pc[s] # "idle" /\ ~expired[s] => ENABLED <<DeadlinePasses(s)>>_vars
  /\ pc[s] = "woken" /\ cmsLock = "free" => ENABLED <<ThreadStep(s)>>_vars
RunnableIsEnabled ==
  /\ cameraPC = "capturing" => ENABLED <<CaptureEnds>>_vars
  /\ \A s \in Sources : NotStuck(s)

(***************************************************************************)
(* Properties of a source that has the camera to itself; two sources break *)
(* them.                                                                   *)
(***************************************************************************)
(* A nextFrame() that reports success has a new image to offer. *)
SuccessIsFresh ==
  \A s \in Sources : pc[s] = "idle" /\ result[s] = "success" => display > before[s]

(* The image of a view that frame() returned is not overwritten before the *)
(* next call of nextFrame().                                               *)
HeldIsStable ==
  \A s \in Sources : held[s] = Display => display = shown[s]

Alone == CHOOSE s \in Sources : TRUE

(* What the program counters, the flag and the image have to do with each  *)
(* other when there is one source: the flag stands while its request is    *)
(* unserved, and nothing is captured while the host has the image.         *)
AloneInv ==
  /\ cmsLock = "camera" <=> cameraPC = "capturing"
  /\ cameraPC = "capturing" => ~waitingForFrame /\ pc[Alone] # "idle"
  /\ IF pc[Alone] = "idle"
     THEN ~waitingForFrame
     ELSE display = before[Alone] + (IF waitingForFrame THEN 0 ELSE 1)
  /\ held[Alone] # Nothing => pc[Alone] = "idle" /\ display = shown[Alone]

(* A source alone does what VideoSource.h asks of a source: the image      *)
(* changes only during nextFrame(), at most once, and nextFrame() reports  *)
(* success exactly when it did, also if the event comes at the deadline.   *)
F == INSTANCE FrameSource WITH
       calling <- pc[Alone] # "idle",
       image <- display,
       before <- before[Alone],
       result <- IF result[Alone] = "timeout" THEN "failure" ELSE result[Alone]
ImplementsFrameSource == F!Spec
=============================================================================
