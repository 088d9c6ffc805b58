------------------------------ MODULE Pipeline ------------------------------
(***************************************************************************)
(* A pipeline job of the host over the plugins' classes: it creates a      *)
(* source and an output, asks for metadata and for frame after frame, as   *)
(* a view or copied into a buffer of its own, and hands each result to the *)
(* output.  The host is external: it follows the sequence of calls that    *)
(* VideoSource.h and ResultsOutput.h describe, and may stop after any      *)
(* result.  One job runs at a time, on one thread; a nextFrame() is one    *)
(* step that ends in any of the ways in which the source's own module lets *)
(* it end.                                                                 *)
(***************************************************************************)
EXTENDS ImageDto, Arguments, FiniteSets

CONSTANTS
  Dims,            \* the sizes of the cameras' and the server's frames
  FrameBytes,      \* how many bytes the server sends for a frame
  Capacities,      \* of the host's buffers, beside those metadata() calls for
  Buffers,         \* the buffers
  ArgumentLists    \* what the host passes to create()

ASSUME PipelineAssumption ==
  /\ \A d \in Dims : d.width \in Nat /\ d.height \in Nat
  /\ FrameBytes \subseteq Nat /\ Capacities \subseteq Nat
  /\ "none" \notin Buffers

VARIABLES
  made,       \* the class of the host's discoverer, source and output, or "none"
  creation,   \* of which class the last create() was, with what, and how it ended
  error,      \* the PluginErrorCallback it was given
  cache,      \* what the source's own members say of its frame
  cmsFrame,   \* the global view of cms.cpp; cmsMetadata is always its metadata
  phase,      \* of the job: "stopped", "started", "looping", "ready" or "viewing"
  expected,   \* what the last metadata() returned
  code,       \* what the last nextFrame() returned
  into,       \* the buffer given to the last frame(), or "none"
  capacity,   \* its size in bytes
  written,    \* how many bytes were copied into it
  view        \* what the last frame() returned

instances == <<made, creation, error>>
frames == <<cache, cmsFrame>>
copy == <<into, capacity, written, view>>
vars == <<instances, frames, phase, expected, code, copy>>

----------------------------------------------------------------------------
(* The classes, what their create() catches, and what can be thrown in it. *)
Sources == {"dummyVideoSource", "EmptyVideoSource", "websocketInput", "cmsVideoSource",
            "GStreamerVideoSource"}
Discoverers == {"dummyDiscoverer", "EmptyCameraDiscoverer", "websocketDiscoverer",
                "cmsDiscoverer"}
Outputs == {"dummyOutput", "EmptyResultsOutput", "websocketOutput"}
Classes == Sources \union Discoverers \union Outputs
Kinds == {"discoverer", "source", "output"}
Kind(class) ==
  CASE class \in Sources -> "source"
    [] class \in Discoverers -> "discoverer"
    [] class \in Outputs -> "output"

Careless == {"EmptyVideoSource", "EmptyCameraDiscoverer", "EmptyResultsOutput",
             "GStreamerVideoSource"}

\* Its members' constructors may throw a system_error: an io_context
Connecting == {"websocketInput", "websocketOutput"}

Throws(class) ==
  {"nothing", "exception"} \union (IF class \in Connecting THEN {"system_error"} ELSE {})

\* Only dummy's Source looks at its arguments, and it needs both
ArgumentsFit(class, arguments) ==
  class = "dummyVideoSource" =>
    /\ CanGet(arguments, 1, "CameraInfo", {"const"})
    /\ CanGet(arguments, 2, "Options", {"const"})

Bytes(metadata) == metadata.width * metadata.height * 3

OwnMemory(class) == <<"plugin", class>>
HostMemory(b) == <<"host", b>>

dummyMetadata == ImageMetadata("uint8", 200, 200, "RGB", "planar", "topLeft")
cmsMetadata(d) == ImageMetadata("uint8", d.width, d.height, "BGR", "interleaved", "topLeft")
sampleMetadata(d) == ImageMetadata("uint8", d.width, d.height, "RGB", "interleaved", "topLeft")

\* What a source holds: its frame and the size of it, m_frameCache.format, m_lastError
Cache(frame, bytes) ==
  [frame |-> frame, bytes |-> bytes, format |-> FALSE, lastError |-> B4BError(ok)]
NoCache == Cache(NoView, 0)

\* The state a constructor leaves. The client may or may not have reached its server,
\* and GStreamerVideoSource found its pipeline and its sink or not.
Constructed(class) ==
  CASE class = "dummyVideoSource" ->
         {Cache(ImageView(dummyMetadata, OwnMemory(class)), Bytes(dummyMetadata))}
    [] class = "websocketInput" ->
         {[Cache(ImageView(m, OwnMemory(class)), 0) EXCEPT !.format = f] :
            m \in {NoMetadata} \union {sampleMetadata(d) : d \in Dims}, f \in BOOLEAN}
    [] class = "GStreamerVideoSource" ->
         {[NoCache EXCEPT !.lastError = B4BError(e)] : e \in {ok, 3, 4}}
    [] OTHER -> {NoCache}

NoCreation == [class |-> "none", arguments |-> << >>, outcome |-> "none"]

Init ==
  /\ made = [k \in Kinds |-> "none"]
  /\ creation = NoCreation
  /\ error = NoError
  /\ cache = NoCache /\ cmsFrame = NoView
  /\ phase = "stopped" /\ expected = NoMetadata /\ code = VideoSourceStatus(0)
  /\ into = "none" /\ capacity = 0 /\ written = 0 /\ view = NoView

----------------------------------------------------------------------------
(* create() and destroy().                                                 *)
Ends(class, arguments, outcome) ==
  creation' = [class |-> class, arguments |-> arguments, outcome |-> outcome]

Constructs(class, arguments) ==
  /\ ArgumentsFit(class, arguments)
  /\ made' = [made EXCEPT ![Kind(class)] = class]
  /\ error' = NoError
  /\ IF class \in Sources THEN cache' \in Constructed(class) ELSE UNCHANGED cache
  /\ Ends(class, arguments, "object")

\* The exception is caught and reported: a system_error with its code, by the plugin
\* that knows of them, any other as a generic error
Fails(class, arguments) ==
  /\ class \notin Careless
  /\ \E thrown \in Throws(class), memory \in BOOLEAN :
       /\ thrown = "nothing" => ~ArgumentsFit(class, arguments)
       /\ error' = Reported(NoError, IF thrown = "system_error" THEN Status("system", 11)
                                     ELSE B4BError(genericError), memory)
  /\ Ends(class, arguments, "null")
  /\ UNCHANGED <<made, cache>>

\* There is no try in these
Escapes(class, arguments) ==
  /\ class \in Careless
  /\ error' = NoError
  /\ Ends(class, arguments, "escaped")
  /\ UNCHANGED <<made, cache>>

\* The host discovers, creates the output and then the source
IsNext(kind) ==
  /\ made[kind] = "none" /\ made["discoverer"] = "none" /\ made["source"] = "none"
  /\ kind = "source" <=> made["output"] # "none"

Create(class, arguments) ==
  /\ phase = "stopped" /\ IsNext(Kind(class))
  /\ \/ Constructs(class, arguments)
     \/ Fails(class, arguments)
     \/ Escapes(class, arguments)
  /\ UNCHANGED <<cmsFrame, phase, expected, code, copy>>

Destroy(kind) ==
  /\ made[kind] # "none" /\ phase = "stopped"
  /\ made' = [made EXCEPT ![kind] = "none"]
  /\ IF kind = "source"
       THEN cache' = NoCache /\ expected' = NoMetadata /\ code' = VideoSourceStatus(0)
       ELSE UNCHANGED <<cache, expected, code>>
  /\ UNCHANGED <<creation, error, cmsFrame, phase, copy>>

----------------------------------------------------------------------------
(* The calls of a source.                                                  *)
source == made["source"]

CurrentFrame == IF source = "cmsVideoSource" THEN cmsFrame ELSE cache.frame

\* The client asks its server, who may not answer, and may name a format
MetadataAnswers ==
  IF source = "websocketInput"
    THEN {NoMetadata} \union {sampleMetadata(d) : d \in Dims}
    ELSE {CurrentFrame.metadata}

Metadata ==
  /\ phase = "started"
  /\ expected' \in MetadataAnswers
  /\ IF source = "websocketInput"
       THEN \E f \in BOOLEAN : cache' = [cache EXCEPT !.format = @ \/ f]
       ELSE UNCHANGED cache
  /\ phase' = "looping"
  /\ UNCHANGED <<instances, cmsFrame, code, copy>>

\* nextFrame() returned s: an overflow stops the job, another error skips the frame
Judged(s) ==
  /\ code' = s
  /\ phase' = CASE IsZero(s) -> "ready"
                [] Equals(s, VideoSourceStatus(3)) -> "stopped"
                [] OTHER -> "looping"

ConstantNextFrame ==
  /\ source \in {"dummyVideoSource", "EmptyVideoSource"}
  /\ Judged(IF source = "dummyVideoSource" THEN VideoSourceStatus(0) ELSE Status("system", 0))
  /\ UNCHANGED frames

\* An errno of the connection; or the bytes the server sent, whatever their number
ClientNextFrame ==
  /\ source = "websocketInput"
  /\ \/ Judged(Status("generic", 104)) /\ UNCHANGED cache
     \/ cache.format /\ Judged(VideoSourceStatus(5)) /\ UNCHANGED cache
     \/ /\ ~cache.format /\ Judged(VideoSourceStatus(0))
        /\ \E n \in FrameBytes : cache' = [cache EXCEPT !.bytes = n]
  /\ UNCHANGED cmsFrame

CameraCaptures(status) ==
  /\ Judged(VideoSourceStatus(status))
  /\ \E d \in Dims : cmsFrame' = ImageView(cmsMetadata(d), OwnMemory(source))

CameraNextFrameWith(timeout) ==
  /\ source = "cmsVideoSource"
  /\ \/ CameraCaptures(0)
     \/ Judged(VideoSourceStatus(timeout)) /\ UNCHANGED cmsFrame
  /\ UNCHANGED cache
\* The bug this would be: a timeout is not reported
CameraNextFrame_patient == CameraNextFrameWith(0)
CameraNextFrame == CameraNextFrameWith(2)

\* The error of the construction; or the end of the stream; or a sample
SampleNextFrame ==
  /\ source = "GStreamerVideoSource"
  /\ \/ /\ Judged(IF cache.lastError = B4BError(ok) THEN B4BError(3) ELSE cache.lastError)
        /\ UNCHANGED cache
     \/ /\ cache.lastError = B4BError(ok) /\ Judged(B4BError(ok))
        /\ \E d \in Dims :
             cache' = Cache(ImageView(sampleMetadata(d), OwnMemory(source)), Bytes(d))
  /\ UNCHANGED cmsFrame

NextFrame ==
  /\ phase = "looping"
  /\ \/ ConstantNextFrame \/ ClientNextFrame \/ CameraNextFrame \/ SampleNextFrame
  /\ UNCHANGED <<instances, expected, copy>>

Shown(v, b, size, bytes) ==
  /\ view' = v /\ into' = b /\ capacity' = size /\ written' = bytes
  /\ phase' = "viewing"
  /\ UNCHANGED <<instances, expected, code, cache>>

\* frame()
Frame ==
  /\ phase = "ready"
  /\ Shown(CurrentFrame, "none", 0, 0)
  /\ UNCHANGED cmsFrame

\* frame(data, capacity) of each class; the camera's copies nothing
CopyIntoWith(b, size, copied) ==
  LET pointed == ImageView(CurrentFrame.metadata, HostMemory(b))
  IN /\ Shown(IF source = "EmptyVideoSource" THEN NoView ELSE pointed, b, size, copied)
     /\ cmsFrame' = IF source = "cmsVideoSource" THEN pointed ELSE cmsFrame

Least(m, n) == IF m < n THEN m ELSE n

\* The bug this would be: the client copies whatever the capacity is
Copied_unchecked(size) ==
  CASE source = "dummyVideoSource" -> Bytes(dummyMetadata)
    [] source = "websocketInput" -> cache.bytes
    [] source = "GStreamerVideoSource" ->
         Least(cache.frame.metadata.width * cache.frame.metadata.height, size)
    [] OTHER -> 0

\* dummy's always copies all of its image, the client's all or nothing, and GStreamer's
\* as many bytes as the frame has pixels
Copied(size) ==
  CASE source = "dummyVideoSource" -> Bytes(dummyMetadata)
    [] source = "websocketInput" -> IF size < cache.bytes THEN 0 ELSE cache.bytes
    [] source = "GStreamerVideoSource" ->
         Least(cache.frame.metadata.width * cache.frame.metadata.height, size)
    [] OTHER -> 0

CopyInto(b, size) == CopyIntoWith(b, size, Copied(size))

FrameInto ==
  /\ phase = "ready"
  /\ \E b \in Buffers, size \in Capacities \union {Bytes(expected)} : CopyInto(b, size)

----------------------------------------------------------------------------
(* The job.  What create() said the host needs no longer.  No output keeps *)
(* a result; onStart() and onStop() do nothing in any of them.             *)
Start ==
  /\ phase = "stopped" /\ source # "none" /\ made["output"] # "none"
  /\ phase' = "started"
  /\ creation' = NoCreation /\ error' = NoError
  /\ UNCHANGED <<made, frames, expected, code, copy>>

Deliver ==
  /\ phase = "viewing"
  /\ phase' = "looping"
  /\ into' = "none" /\ capacity' = 0 /\ written' = 0 /\ view' = NoView
  /\ UNCHANGED <<instances, frames, expected, code>>

Stop ==
  /\ phase = "looping"
  /\ phase' = "stopped"
  /\ UNCHANGED <<instances, frames, expected, code, copy>>

Next ==
  \/ \E class \in Classes, arguments \in ArgumentLists : Create(class, arguments)
  \/ \E kind \in Kinds : Destroy(kind)
  \/ Metadata \/ NextFrame \/ Frame \/ FrameInto
  \/ Start \/ Deliver \/ Stop

Spec == Init /\ [][Next]_vars

----------------------------------------------------------------------------
(* Properties. *)
(* A create() that returns no object has always told the host so by a code *)
(* that is an error, even if the message could not be allocated, and one   *)
(* that returns an object has not; and a dummy Source is made only of a    *)
(* CameraInfo and Options, whatever the host passed.                       *)
CreationIsHonest ==
  /\ creation.outcome = "null" <=> ~IsZero(error.code)
  /\ creation.class = "dummyVideoSource" /\ creation.outcome = "object" =>
       [i \in 1..2 |-> creation.arguments[i].type] = <<"CameraInfo", "Options">>

(* The sources answer nextFrame() in four error domains; whether the host  *)
(* tests the code itself or compares it with VideoSourceStatus::success(), *)
(* it finds the same frames, but for EmptyVideoSource, whose default code  *)
(* is no VideoSourceStatus.                                                *)
SuccessIsRecognised ==
  code # Status("system", 0) => (IsZero(code) <=> Equals(code, VideoSourceStatus(0)))

(* No source writes past the end of the buffer that the host offers, only  *)
(* dummy's needs one as large as metadata() calls for.                     *)
CopyFits ==
  phase = "viewing" /\ (source = "dummyVideoSource" => capacity >= Bytes(expected)) =>
    written <= capacity

(* The view the host works on is of the buffer it offered for this frame,  *)
(* or else of the source's own memory: never of a buffer of an earlier     *)
(* frame or job, which it may have freed, though the camera's one global   *)
(* view keeps pointing at that.                                            *)
ViewBelongs ==
  phase = "viewing" /\ source # "EmptyVideoSource" =>
    view.data = IF into = "none" THEN OwnMemory(source) ELSE HostMemory(into)
=============================================================================
