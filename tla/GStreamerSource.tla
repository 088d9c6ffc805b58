--------------------------- MODULE GStreamerSource ---------------------------
(***************************************************************************)
(* plugins/gstreamer: GStreamerVideoSource.  Two threads share one object: *)
(*                                                                         *)
(*   the host's thread   constructs the source and calls metadata(),       *)
(*                       nextFrame(), frame() and destroy();               *)
(*   the streaming       belongs to the user's pipeline and runs the pad   *)
(*   thread              probe, preroll() and grabFrame().                 *)
(*                                                                         *)
(* The critical sections of m_mutex are single steps, but for the one of   *)
(* grabFrame() that replaces the sample: it is split in two, because       *)
(* frame() reads m_frame without the mutex.  The pipeline itself (upstream *)
(* elements, the appsink and its queue) is external: the samples of the    *)
(* stream are numbered, so the queue of the appsink is the interval        *)
(* pulled + 1 .. arrived.                                                  *)
(***************************************************************************)
EXTENDS Integers

CONSTANTS
  MaxBuffers,    \* how many buffers the stream has (bound)
  MaxPrerolls,   \* how often the stream prerolls (bound; 1 = never flushed)
  Dims,          \* the frame sizes the stream may negotiate
  PullFaults     \* the ways gst_app_sink_pull_sample() may return NULL

ASSUME BoundsAssumption ==
  /\ MaxBuffers \in Nat
  /\ MaxPrerolls \in Nat /\ MaxPrerolls >= 1
ASSUME FaultsAssumption == PullFaults \subseteq {"eos", "error"}
ASSUME DimsAssumption == "none" \notin Dims

VARIABLES
  (* the object *)
  m_lastError,     \* "ok", "invalidParameter" or "genericError"
  m_streamState,   \* "waitingForFrame", "frameReady" or "endOfStream"
  m_bufferReady,   \* BOOLEAN
  m_frame,         \* the sample m_frame views, and the size it is labelled with
  m_size,          \* m_width and m_height, NoDims while indeterminate
  sample,          \* the sample m_implementation->sample keeps mapped
  m_mutex,         \* "free", or "stream" inside grabFrame's critical section
  (* the host's thread *)
  setup,           \* how far the constructor has got with the pipeline
  hostPC, status,  \* where the host is; what its last nextFrame() returned
  held,            \* the sample viewed by the last frame() call
  (* the pipeline and its streaming thread *)
  streamPC, prerolled, caps, capsOf, arrived, pulled,
  (* history *)
  prerolls,        \* calls of preroll()
  offered,         \* frames grabFrame() announced
  consumed,        \* frames nextFrame() announced to the host
  taken,           \* the last of them
  missed,          \* buffers that arrived before the callbacks were in place
  unseen           \* was a CAPS event missed before the probe was in place?

object == <<m_lastError, m_streamState, m_bufferReady, m_frame, m_size, sample, m_mutex>>
calls == <<status, held>>
host == <<setup, hostPC, calls>>
feed == <<prerolled, caps, capsOf, arrived, pulled>>
pipeline == <<streamPC, feed>>
history == <<prerolls, offered, consumed, taken, missed, unseen>>
vars == <<object, host, pipeline, history>>

NoFrame == 0
Frames == 1 .. MaxBuffers
NoDims == "none"
NoView == [id |-> NoFrame, size |-> NoDims]

EErrors == {"ok", "invalidParameter", "genericError"}
EStreamState == {"waitingForFrame", "frameReady", "endOfStream"}
Setups == {"none", "playing", "probed", "connected", "failed"}
HostPCs == {"constructing", "idle", "locking", "waiting", "woken", "notifying", "destroyed"}
(* The streaming thread outside the two callbacks, in preroll(), in grabFrame(). *)
Outside == {"idle", "ended", "stopped"}
InPreroll == {"prerolling", "notifyPreroll"}
InGrab == {"grabbing", "waiting", "woken", "pulling", "ending", "publishing",
           "writing", "notifyFrame"}
StreamPCs == Outside \union InPreroll \union InGrab

Init ==
  /\ m_lastError = "genericError"   \* indeterminate until the constructor returns
  /\ m_streamState = "waitingForFrame"
  /\ m_bufferReady = FALSE
  /\ m_frame = NoView
  /\ m_size = NoDims
  /\ sample = NoFrame
  /\ m_mutex = "free"
  /\ setup = "none"
  /\ hostPC = "constructing"
  /\ status = "none"
  /\ held = NoFrame
  /\ streamPC = "idle"
  /\ prerolled = FALSE
  /\ caps = NoDims
  /\ capsOf = [n \in Frames |-> NoDims]
  /\ arrived = 0
  /\ pulled = 0
  /\ prerolls = 0
  /\ offered = 0
  /\ consumed = 0
  /\ taken = NoFrame
  /\ missed = 0
  /\ unseen = FALSE

(***************************************************************************)
(* The constructor.  The pipeline plays before the probe and the callbacks *)
(* are in place.                                                           *)
(***************************************************************************)
Playing == setup \in {"playing", "probed", "connected"}
Connected == setup = "connected"

LaunchFails(error) ==
  /\ hostPC = "constructing" /\ setup = "none"
  /\ m_lastError' = error
  /\ setup' = "failed"
  /\ hostPC' = "idle"
  /\ UNCHANGED <<m_streamState, m_bufferReady, m_frame, m_size, sample, m_mutex,
                 calls, pipeline, history>>

Construct(from, to) ==
  /\ hostPC = "constructing" /\ setup = from /\ setup' = to
  /\ UNCHANGED <<object, hostPC, calls, pipeline, history>>
SetPlaying == Construct("none", "playing")
AddProbe == Construct("playing", "probed")
SetCallbacks == Construct("probed", "connected")

(* The last statement of the constructor, when callbacks may already run. *)
Constructed ==
  /\ hostPC = "constructing" /\ setup = "connected"
  /\ m_lastError' = "ok"
  /\ hostPC' = "idle"
  /\ UNCHANGED <<m_streamState, m_bufferReady, m_frame, m_size, sample, m_mutex,
                 setup, calls, pipeline, history>>

(***************************************************************************)
(* The host's calls; metadata() changes nothing.                           *)
(***************************************************************************)
HostMayCall == hostPC = "idle"

(* nextFrame() returns an error it finds before taking the mutex. *)
NextFrameRefused ==
  /\ HostMayCall
  /\ m_lastError # "ok"
  /\ status' = m_lastError
  /\ held' = NoFrame
  /\ UNCHANGED <<object, setup, hostPC, pipeline, history>>

NextFrameCalled ==
  /\ HostMayCall
  /\ m_lastError = "ok"
  /\ hostPC' = "locking"
  /\ held' = NoFrame
  /\ UNCHANGED <<object, setup, status, pipeline, history>>

(* m_frameReadyCondition.wait(): the mutex is taken, the predicate tested. *)
HostLocks == hostPC \in {"locking", "woken"} /\ m_mutex = "free"
FrameReady == m_streamState # "waitingForFrame"

HostGoes(pc) == hostPC' = pc /\ UNCHANGED <<object, setup, calls, pipeline, history>>

NextFrameWaits == HostLocks /\ ~FrameReady /\ HostGoes("waiting")
HostWakesSpuriously == hostPC = "waiting" /\ HostGoes("woken")

NextFrameEnds ==
  /\ HostLocks
  /\ FrameReady
  /\ m_streamState # "frameReady"
  /\ hostPC' = "idle"
  /\ status' = "genericError"
  /\ UNCHANGED <<object, setup, held, pipeline, history>>

(* The frame is taken, and the permit for the next one given. *)
Take(state) ==
  /\ HostLocks
  /\ m_streamState = "frameReady"
  /\ m_streamState' = state
  /\ m_bufferReady' = TRUE
  /\ hostPC' = "notifying"
  /\ consumed' = consumed + 1
  /\ taken' = m_frame.id
  /\ UNCHANGED <<m_lastError, m_frame, m_size, sample, m_mutex, setup, calls,
                 pipeline, prerolls, offered, missed, unseen>>
NextFrameTakes == Take("waitingForFrame")

(* notify_all() takes a thread out of the wait set, if it is there. *)
Notified(pc) == IF pc = "waiting" THEN "woken" ELSE pc

ReturnOk(pc) ==
  /\ hostPC = "notifying"
  /\ streamPC' = pc
  /\ hostPC' = "idle"
  /\ status' = "ok"
  /\ UNCHANGED <<object, setup, held, feed, history>>
(* The bug this would be: the streaming thread is not notified. *)
NextFrameReturns_noNotify == ReturnOk(streamPC)
NextFrameReturns == ReturnOk(Notified(streamPC))

(* frame(), called after a nextFrame() that succeeded, without the mutex. *)
Frame ==
  /\ HostMayCall
  /\ status = "ok"
  /\ held' = m_frame.id
  /\ UNCHANGED <<object, setup, hostPC, status, pipeline, history>>

(* The destructor does not stop the user's pipeline. *)
Destroy == HostMayCall /\ HostGoes("destroyed")

(***************************************************************************)
(* The pipeline: external.  It negotiates a size before the first buffer,  *)
(* prerolls the sink with the first buffer and then renders buffers one by *)
(* one.  A callback not yet in place is not called, its sample stays in    *)
(* the queue of the appsink.                                               *)
(***************************************************************************)
StreamFlows == Playing /\ streamPC = "idle" /\ hostPC # "destroyed"

(* A CAPS event; the probe, once in place, stores the size. *)
Negotiates(stored) ==
  /\ StreamFlows
  /\ \E d \in Dims :
       /\ d # caps
       /\ caps' = d
       /\ m_size' = IF setup = "playing" THEN m_size ELSE stored[d]
  /\ unseen' = (unseen \/ setup = "playing")
  /\ UNCHANGED <<m_lastError, m_streamState, m_bufferReady, m_frame, sample, m_mutex,
                 host, streamPC, prerolled, capsOf, arrived, pulled,
                 prerolls, offered, consumed, taken, missed>>
(* The bug this would be: the probe is removed when it has seen a size. *)
Negotiate_once == Negotiates([d \in Dims |-> IF m_size = NoDims THEN d ELSE m_size])
Negotiate == Negotiates([d \in Dims |-> d])

PrerollArrives ==
  /\ StreamFlows
  /\ ~prerolled /\ caps # NoDims /\ arrived < MaxBuffers
  /\ prerolled' = TRUE
  /\ streamPC' = IF Connected THEN "prerolling" ELSE "idle"
  /\ UNCHANGED <<object, host, caps, capsOf, arrived, pulled, history>>

BufferArrives ==
  /\ StreamFlows
  /\ prerolled /\ arrived < MaxBuffers
  /\ arrived' = arrived + 1
  /\ capsOf' = [capsOf EXCEPT ![arrived + 1] = caps]
  /\ \/ Connected /\ streamPC' = "grabbing" /\ UNCHANGED missed
     \/ ~Connected /\ missed' = missed + 1 /\ UNCHANGED streamPC
  /\ UNCHANGED <<object, host, prerolled, caps, pulled, prerolls, offered, consumed,
                 taken, unseen>>

(* End of stream: the callback for it is a null pointer, nothing is called. *)
EosArrives ==
  /\ StreamFlows
  /\ arrived = MaxBuffers
  /\ streamPC' = "ended"
  /\ UNCHANGED <<object, host, feed, history>>

(* A flush empties the queue and makes the sink preroll again. *)
Flush ==
  /\ StreamFlows
  /\ prerolled /\ prerolls < MaxPrerolls
  /\ prerolled' = FALSE
  /\ pulled' = arrived
  /\ UNCHANGED <<object, host, streamPC, caps, capsOf, arrived, history>>

(***************************************************************************)
(* preroll(), on the streaming thread.                                     *)
(***************************************************************************)
Preroll ==
  /\ streamPC = "prerolling" /\ m_mutex = "free"
  /\ m_bufferReady' = TRUE
  /\ streamPC' = "notifyPreroll"
  /\ prerolls' = prerolls + 1
  /\ UNCHANGED <<m_lastError, m_streamState, m_frame, m_size, sample, m_mutex, host,
                 feed, offered, consumed, taken, missed, unseen>>

(* Only the streaming thread waits on this condition: nobody is woken. *)
PrerollReturns ==
  streamPC = "notifyPreroll" /\ streamPC' = "idle" /\ UNCHANGED <<object, host, feed, history>>

(***************************************************************************)
(* grabFrame(), on the streaming thread.                                   *)
(***************************************************************************)
StreamLocks == streamPC \in {"grabbing", "woken"} /\ m_mutex = "free"

StreamGoes(pc) == streamPC' = pc /\ UNCHANGED <<object, host, feed, history>>

GrabWaits == StreamLocks /\ ~m_bufferReady /\ StreamGoes("waiting")
StreamWakesSpuriously == streamPC = "waiting" /\ StreamGoes("woken")
(* The bug this would be: a woken thread does not test its predicate again. *)
GrabProceeds_unchecked ==
  StreamLocks /\ (m_bufferReady \/ streamPC = "woken") /\ StreamGoes("pulling")
GrabProceeds == StreamLocks /\ m_bufferReady /\ StreamGoes("pulling")

(* gst_app_sink_pull_sample() takes the oldest sample, without the mutex; it *)
(* returns NULL when the sink has been stopped, and its queue is gone.       *)
Pull(n) ==
  /\ streamPC = "pulling" /\ pulled < arrived
  /\ pulled' = n
  /\ streamPC' = "publishing"
  /\ UNCHANGED <<object, host, prerolled, caps, capsOf, arrived, history>>
(* The bug this would be: the sample is looked at, not pulled. *)
PullSample_peek == Pull(pulled)
(* The bug this would be: a sample is pulled again after it was. *)
PullSample_twice == Pull(pulled + 2)
PullSample == Pull(pulled + 1)

PullEos ==
  /\ streamPC = "pulling" /\ "eos" \in PullFaults
  /\ pulled' = arrived
  /\ streamPC' = "ending"
  /\ UNCHANGED <<object, host, prerolled, caps, capsOf, arrived, history>>

(* An error is stored without the mutex, and nobody is notified. *)
PullError ==
  /\ streamPC = "pulling" /\ "error" \in PullFaults
  /\ m_lastError' = "genericError"
  /\ pulled' = arrived
  /\ streamPC' = "stopped"
  /\ UNCHANGED <<m_streamState, m_bufferReady, m_frame, m_size, sample, m_mutex, host,
                 prerolled, caps, capsOf, arrived, history>>

EndStream ==
  /\ streamPC = "ending" /\ m_mutex = "free"
  /\ m_streamState' = "endOfStream"
  /\ streamPC' = "notifyFrame"
  /\ UNCHANGED <<m_lastError, m_bufferReady, m_frame, m_size, sample, m_mutex, host,
                 feed, history>>

(* The old sample is unmapped when the new one replaces it. *)
ReplaceSample ==
  /\ streamPC = "publishing" /\ m_mutex = "free"
  /\ m_mutex' = "stream"
  /\ sample' = pulled
  /\ streamPC' = "writing"
  /\ UNCHANGED <<m_lastError, m_streamState, m_bufferReady, m_frame, m_size, host,
                 feed, history>>

Announce(permit) ==
  /\ streamPC = "writing"
  /\ m_frame' = [id |-> sample, size |-> m_size]
  /\ m_streamState' = "frameReady"
  /\ m_bufferReady' = permit
  /\ m_mutex' = "free"
  /\ streamPC' = "notifyFrame"
  /\ offered' = offered + 1
  /\ UNCHANGED <<m_lastError, m_size, sample, host, feed, prerolls, consumed, taken, missed,
                 unseen>>
(* The bug this would be: the permit for one frame is never used up. *)
Publish_keepPermit == Announce(m_bufferReady)
Publish == Announce(FALSE)

(* notify_all() on m_frameReadyCondition; the callback returns. *)
ReturnFlow(pc) ==
  /\ streamPC = "notifyFrame"
  /\ hostPC' = pc
  /\ streamPC' = "idle"
  /\ UNCHANGED <<object, setup, calls, feed, history>>
(* The bug this would be: the host is not notified. *)
GrabReturns_noNotify == ReturnFlow(hostPC)
GrabReturns == ReturnFlow(Notified(hostPC))

HostStep ==
  \/ NextFrameWaits \/ NextFrameEnds \/ NextFrameTakes \/ NextFrameReturns
ConstructorStep == SetPlaying \/ AddProbe \/ SetCallbacks \/ Constructed
(* What a callback does with a source that was destroyed is not modelled. *)
StreamStep ==
  /\ hostPC # "destroyed"
  /\ \/ Preroll \/ PrerollReturns
     \/ GrabWaits \/ GrabProceeds \/ PullSample \/ PullEos \/ PullError
     \/ EndStream \/ ReplaceSample \/ Publish \/ GrabReturns

Next ==
  \/ \E error \in {"invalidParameter", "genericError"} : LaunchFails(error)
  \/ ConstructorStep
  \/ NextFrameRefused \/ NextFrameCalled \/ Frame \/ Destroy
  \/ HostStep \/ HostWakesSpuriously
  \/ Negotiate \/ PrerollArrives \/ BufferArrives
  \/ EosArrives \/ Flush
  \/ StreamStep \/ StreamWakesSpuriously

Spec == Init /\ [][Next]_vars

(* The threads are scheduled and the pipeline delivers the buffers it has; *)
(* nobody has to call nextFrame(), to negotiate or to flush.               *)
Fairness ==
  /\ WF_vars(HostStep)
  /\ WF_vars(ConstructorStep)
  /\ WF_vars(StreamStep)
  /\ WF_vars(PrerollArrives)
  /\ WF_vars(BufferArrives)
  /\ WF_vars(EosArrives)

FairSpec == Spec /\ Fairness

(* Flushes without end could take the mutex whenever the host's thread     *)
(* wants it, and come before every buffer: this says that the thread gets  *)
(* the mutex if it finds it free again and again, and that a buffer        *)
(* arrives if the sink is prerolled for it again and again.                *)
FairFlowSpec == FairSpec /\ SF_vars(HostStep) /\ SF_vars(BufferArrives)

(***************************************************************************)
(* Properties.                                                             *)
(***************************************************************************)
Views == [id : Frames \union {NoFrame}, size : Dims \union {NoDims}]

ObjectTypeOK ==
  /\ m_lastError \in EErrors
  /\ m_streamState \in EStreamState
  /\ m_bufferReady \in BOOLEAN
  /\ m_frame \in Views
  /\ m_size \in Dims \union {NoDims}
  /\ sample \in Frames \union {NoFrame}
  /\ m_mutex \in {"free", "stream"}

HostTypeOK ==
  /\ setup \in Setups
  /\ hostPC \in HostPCs
  /\ status \in EErrors \union {"none"}
  /\ held \in Frames \union {NoFrame}

PipelineTypeOK ==
  /\ streamPC \in StreamPCs
  /\ prerolled \in BOOLEAN
  /\ caps \in Dims \union {NoDims}
  /\ capsOf \in [Frames -> Dims \union {NoDims}]
  /\ arrived \in 0 .. MaxBuffers /\ pulled \in 0 .. arrived

HistoryTypeOK ==
  /\ prerolls \in 0 .. MaxPrerolls
  /\ offered \in Nat /\ consumed \in Nat /\ missed \in Nat
  /\ taken \in Frames \union {NoFrame}
  /\ unseen \in BOOLEAN

(* The type of the state: every variable has a value the code can give it; *)
(* the queue of the appsink, pulled + 1 .. arrived, is an interval.        *)
TypeOK == ObjectTypeOK /\ HostTypeOK /\ PipelineTypeOK /\ HistoryTypeOK

(* How many frames the stream may still announce: one for each preroll()   *)
(* and one for each frame nextFrame() took, less those announced.          *)
Credit == prerolls + consumed - offered
Offering == m_streamState = "frameReady"
HasPermit == {"pulling", "ending", "publishing", "writing"}

(* grabFrame() never replaces or withdraws a frame it announced and that   *)
(* nextFrame() has not taken yet, unless the stream prerolled again.       *)
NoOverwrite ==
  streamPC \in HasPermit /\ prerolls <= 1 => ~Offering

(* Nobody sleeps on a condition that holds, unless the thread that made it *)
(* hold is just about to notify: notifying after the mutex is released     *)
(* loses no wakeup.                                                        *)
NoLostWakeup ==
  /\ hostPC = "waiting" /\ FrameReady => streamPC = "notifyFrame"
  /\ streamPC = "waiting" /\ m_bufferReady => hostPC = "notifying"

(* nextFrame() hands out the frames in the order of the stream, each at    *)
(* most once, whatever was queued before the callbacks were in place.      *)
InOrder == [][consumed' # consumed => taken' > taken]_vars

(* One sample is pulled for each that arrives: the samples queued before   *)
(* the callbacks were in place are never caught up with, but the queue     *)
(* does not grow beyond them either.                                       *)
QueueBounded == arrived - pulled <= missed + 1

(***************************************************************************)
(* The inductive invariant behind the safety properties.                   *)
(***************************************************************************)
(* Only grabFrame() holds the mutex over more than one step. *)
MutexInv == m_mutex = "stream" <=> streamPC = "writing"

(* m_bufferReady is the permit for one frame: it is there only against a   *)
(* credit, and grabFrame() keeps it from its test to the announcement.     *)
PermitInv ==
  /\ Credit >= 0
  /\ m_bufferReady => Credit >= 1
  /\ streamPC \in HasPermit => m_bufferReady
  /\ Credit + (IF Offering THEN 1 ELSE 0) <= prerolls

(* Samples come up in order: taken, in m_frame, pulled. *)
OrderInv ==
  /\ taken <= m_frame.id /\ m_frame.id <= pulled
  /\ Offering => taken < m_frame.id
  /\ streamPC \in {"publishing", "writing"} => m_frame.id < pulled
  /\ streamPC = "writing" => sample = pulled

(* preroll() runs once for each time the sink prerolls. *)
PrerollInv ==
  /\ streamPC = "prerolling" => prerolled
  /\ prerolled = FALSE \/ streamPC = "prerolling" => prerolls < MaxPrerolls

(* Only a callback that has not pulled yet leaves a sample in excess. *)
BeforePull == {"grabbing", "waiting", "woken", "pulling"}
QueueInv == arrived - pulled <= missed + (IF streamPC \in BeforePull THEN 1 ELSE 0)

(* The conjunction that every step preserves: what the threads' program    *)
(* counters say of the mutex, the permit, the order and the queue.         *)
IInv ==
  /\ TypeOK /\ MutexInv /\ PermitInv /\ OrderInv /\ PrerollInv /\ QueueInv
  /\ NoLostWakeup

(* The pair of condition variables implements the one-place handoff.       *)
H == INSTANCE Handoff WITH
       MaxFrames <- MaxBuffers,
       slot <- IF Offering THEN m_frame.id ELSE NoFrame,
       credit <- Credit
ImplementsHandoff == H!Spec

(* A nextFrame() the host has called while the stream still has a buffer   *)
(* and its preroll was seen returns, unless a pull fails meanwhile.        *)
CallAnswered ==
  hostPC = "locking" /\ prerolls > 0 /\ arrived < MaxBuffers
    ~> hostPC = "idle" \/ streamPC = "stopped"

(* Where the threads and the pipeline have what their next steps need.     *)
HostRunnable == hostPC = "notifying" \/ HostLocks
StreamRunnable ==
  /\ hostPC # "destroyed"
  /\ \/ streamPC \in {"notifyPreroll", "notifyFrame", "writing"}
     \/ streamPC \in {"prerolling", "ending", "publishing"} /\ m_mutex = "free"
     \/ StreamLocks
     \/ streamPC = "pulling" /\ pulled < arrived
PrerollRunnable ==
  StreamFlows /\ ~prerolled /\ caps # NoDims /\ arrived < MaxBuffers
BufferRunnable == StreamFlows /\ prerolled /\ arrived < MaxBuffers

(* There they can take a step, whatever the state of the stream is. *)
RunnableIsEnabled ==
  /\ HostRunnable => ENABLED <<HostStep>>_vars
  /\ StreamRunnable => ENABLED <<StreamStep>>_vars
  /\ PrerollRunnable => ENABLED <<PrerollArrives>>_vars
  /\ BufferRunnable => ENABLED <<BufferArrives>>_vars

(* What frame() returned stays mapped until the next call of nextFrame().  *)
HeldIsMapped == held # NoFrame => held = sample

(* The frame nextFrame() has taken is labelled with the size negotiated    *)
(* for it, provided that the constructor was not overtaken by the stream:  *)
(* no size passed before the probe and no buffer before the callbacks were *)
(* in place.                                                               *)
FrameHasItsSize ==
  hostPC = "notifying" /\ ~unseen /\ missed = 0 => m_frame.size = capsOf[m_frame.id]
=============================================================================
