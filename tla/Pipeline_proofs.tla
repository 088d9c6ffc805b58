--------------------------- MODULE Pipeline_proofs ---------------------------
(***************************************************************************)
(* Theorems about Pipeline, for frames, messages and buffers of any size,  *)
(* any number of buffers and any arguments.                                *)
(***************************************************************************)
EXTENDS Pipeline, TLAPS

(***************************************************************************)
(* Sizes.                                                                  *)
(***************************************************************************)
LEMMA Products == \A m, n \in Nat : m * n \in Nat
OBVIOUS

LEMMA BytesAreNat ==
  ASSUME NEW m, m.width \in Nat, m.height \in Nat
  PROVE  Bytes(m) \in Nat /\ m.width * m.height \in Nat
BY Products DEF Bytes

(* What any of the sources may have for its metadata. *)
LEMMA TheMetadata ==
  /\ \A m \in {NoMetadata, dummyMetadata} : m.width \in Nat /\ m.height \in Nat
  /\ \A d \in Dims : \A m \in {cmsMetadata(d), sampleMetadata(d)} :
       m.width \in Nat /\ m.height \in Nat
BY PipelineAssumption
DEF NoMetadata, dummyMetadata, cmsMetadata, sampleMetadata, ImageMetadata

----------------------------------------------------------------------------
(* The inductive invariant.  SizesInv says that what a source holds has a  *)
(* size, which the copies need.                                            *)
Sized(m) == m.width \in Nat /\ m.height \in Nat

IsCache(c) ==
  c = [frame |-> c.frame, bytes |-> c.bytes, format |-> c.format, lastError |-> c.lastError]

SizesInv ==
  /\ IsCache(cache)
  /\ Sized(cache.frame.metadata) /\ Sized(cmsFrame.metadata) /\ Sized(expected)
  /\ cache.bytes \in Nat

(* What a source holds: dummy and the client their own memory from the     *)
(* start, the camera and GStreamer once a frame is ready.                  *)
FramesInv ==
  /\ source \in {"dummyVideoSource", "websocketInput"} => cache.frame.data = OwnMemory(source)
  /\ source = "dummyVideoSource" => cache.frame.metadata = dummyMetadata
  /\ source = "dummyVideoSource" /\ phase \in {"looping", "ready", "viewing"} =>
       expected = dummyMetadata
  /\ source = "GStreamerVideoSource" => cache.lastError \in {B4BError(ok), B4BError(3), B4BError(4)}
  /\ phase = "ready" /\ source # "EmptyVideoSource" => CurrentFrame.data = OwnMemory(source)

(* What nextFrame() returns. *)
Codes ==
  {VideoSourceStatus(0), VideoSourceStatus(2), VideoSourceStatus(5), Status("system", 0),
   Status("generic", 104), B4BError(ok), B4BError(3), B4BError(4)}

MadeInv ==
  /\ made \in [Kinds -> Classes \union {"none"}]
  /\ phase # "stopped" => source \in Sources
  /\ source \in Sources \union {"none"}

IInv == MadeInv /\ SizesInv /\ FramesInv /\ code \in Codes

----------------------------------------------------------------------------
LEMMA KindOfClass ==
  ASSUME NEW class \in Classes
  PROVE  /\ Kind(class) \in Kinds
         /\ class \in Sources <=> Kind(class) = "source"
BY DEF Classes, Sources, Discoverers, Outputs, Kind, Kinds

LEMMA IInvInit == Init => IInv
<1> SUFFICES ASSUME Init PROVE IInv
  OBVIOUS
<1>1. source = "none" /\ MadeInv
  BY DEF Init, MadeInv, source, Kinds
<1>2. SizesInv
  BY TheMetadata DEF Init, SizesInv, Sized, IsCache, NoCache, Cache, NoView, ImageView
<1>3. FramesInv
  BY <1>1 DEF Init, FramesInv
<1>. QED
  BY <1>1, <1>2, <1>3 DEF Init, IInv, Codes

LEMMA ConstructedIs ==
  ASSUME NEW class \in Sources, NEW c \in Constructed(class)
  PROVE  /\ IsCache(c) /\ Sized(c.frame.metadata) /\ c.bytes \in Nat
         /\ class \in {"dummyVideoSource", "websocketInput"} => c.frame.data = OwnMemory(class)
         /\ class = "dummyVideoSource" => c.frame.metadata = dummyMetadata
         /\ class = "GStreamerVideoSource" =>
              c.lastError \in {B4BError(ok), B4BError(3), B4BError(4)}
<1>1. CASE class = "dummyVideoSource"
  <2>1. c = Cache(ImageView(dummyMetadata, OwnMemory(class)), Bytes(dummyMetadata))
    BY <1>1 DEF Constructed
  <2>2. Bytes(dummyMetadata) \in Nat /\ Sized(dummyMetadata)
    BY TheMetadata, BytesAreNat DEF Sized
  <2>. QED
    BY <1>1, <2>1, <2>2 DEF Cache, ImageView, IsCache
<1>2. CASE class = "websocketInput"
  <2>1. PICK m \in {NoMetadata} \union {sampleMetadata(d) : d \in Dims}, f \in BOOLEAN :
          c = [Cache(ImageView(m, OwnMemory(class)), 0) EXCEPT !.format = f]
    BY <1>2 DEF Constructed
  <2>2. Sized(m)
    BY TheMetadata DEF Sized
  <2>. QED
    BY <1>2, <2>1, <2>2 DEF Cache, ImageView, IsCache
<1>3. CASE class = "GStreamerVideoSource"
  <2>1. PICK e \in {ok, 3, 4} : c = [NoCache EXCEPT !.lastError = B4BError(e)]
    BY <1>3 DEF Constructed
  <2>. QED
    BY <1>3, <2>1, TheMetadata DEF NoCache, Cache, NoView, ImageView, Sized, IsCache
<1>4. CASE class \in {"EmptyVideoSource", "cmsVideoSource"}
  <2>1. c = NoCache
    BY <1>4 DEF Constructed
  <2>. QED
    BY <1>4, <2>1, TheMetadata DEF NoCache, Cache, NoView, ImageView, Sized, IsCache
<1>. QED
  BY <1>1, <1>2, <1>3, <1>4 DEF Sources

LEMMA CreateStep ==
  ASSUME IInv, NEW class \in Classes, NEW arguments \in ArgumentLists, Create(class, arguments)
  PROVE  IInv'
<1>1. phase = "stopped" /\ UNCHANGED <<cmsFrame, phase, expected, code, copy>>
  BY DEF Create
<1>2. CASE Constructs(class, arguments)
  <2>1. made' = [made EXCEPT ![Kind(class)] = class]
    BY <1>2 DEF Constructs
  <2>2. source' = IF class \in Sources THEN class ELSE source
    BY <2>1, KindOfClass DEF IInv, MadeInv, source, Kinds
  <2>3. MadeInv'
    BY <1>1, <2>1, <2>2, KindOfClass DEF IInv, MadeInv
  <2>4. CASE class \in Sources
    <3>1. cache' \in Constructed(class)
      BY <1>2, <2>4 DEF Constructs
    <3>2. SizesInv'
      BY <1>1, <2>4, <3>1, ConstructedIs DEF IInv, SizesInv, Sized, IsCache
    <3>3. FramesInv'
      BY <1>1, <2>2, <2>4, <3>1, ConstructedIs DEF FramesInv
    <3>. QED
      BY <1>1, <2>3, <3>2, <3>3 DEF IInv, Codes
  <2>5. CASE class \notin Sources
    <3>1. UNCHANGED <<cache, source>>
      BY <1>2, <2>2, <2>5 DEF Constructs
    <3>. QED
      BY <1>1, <2>3, <3>1 DEF IInv, SizesInv, Sized, IsCache, FramesInv, CurrentFrame, Codes
  <2>. QED
    BY <2>4, <2>5
<1>3. CASE Fails(class, arguments) \/ Escapes(class, arguments)
  <2>1. UNCHANGED <<made, cache>>
    BY <1>3 DEF Fails, Escapes
  <2>2. UNCHANGED source
    BY <2>1 DEF source
  <2>. QED
    BY <1>1, <2>1, <2>2 DEF IInv, MadeInv, SizesInv, Sized, IsCache, FramesInv, CurrentFrame, Codes
<1>. QED
  BY <1>2, <1>3 DEF Create

LEMMA DestroyStep ==
  ASSUME IInv, NEW kind \in Kinds, Destroy(kind)
  PROVE  IInv'
<1>1. phase = "stopped" /\ UNCHANGED <<cmsFrame, phase>>
  BY DEF Destroy
<1>2. made' = [made EXCEPT ![kind] = "none"]
  BY DEF Destroy
<1>3. CASE kind = "source"
  <2>1. /\ source' = "none" /\ cache' = NoCache /\ expected' = NoMetadata
        /\ code' = VideoSourceStatus(0)
    BY <1>2, <1>3 DEF Destroy, source, IInv, MadeInv
  <2>2. MadeInv'
    BY <1>1, <1>2, <2>1 DEF IInv, MadeInv
  <2>3. SizesInv'
    BY <1>1, <2>1, TheMetadata DEF IInv, SizesInv, Sized, IsCache, NoCache, Cache, NoView, ImageView
  <2>4. FramesInv'
    BY <1>1, <2>1 DEF FramesInv
  <2>. QED
    BY <2>1, <2>2, <2>3, <2>4 DEF IInv, Codes
<1>4. CASE kind # "source"
  <2>1. UNCHANGED <<source, cache, expected, code>>
    BY <1>2, <1>4 DEF Destroy, source, IInv, MadeInv, Kinds
  <2>. QED
    BY <1>1, <1>2, <2>1 DEF IInv, MadeInv, SizesInv, Sized, IsCache, FramesInv, CurrentFrame, Codes
<1>. QED
  BY <1>3, <1>4

LEMMA MetadataStep ==
  ASSUME IInv, Metadata
  PROVE  IInv'
<1>1. /\ phase = "started" /\ phase' = "looping" /\ UNCHANGED <<made, cmsFrame, code>>
  BY DEF Metadata, instances
<1>2. UNCHANGED source /\ source # "none"
  BY <1>1 DEF source, IInv, MadeInv, Sources
<1>3. /\ IsCache(cache') /\ Sized(cache'.frame.metadata) /\ cache'.frame = cache.frame
      /\ cache'.bytes = cache.bytes /\ cache'.lastError = cache.lastError
  BY DEF Metadata, IInv, SizesInv, IsCache
<1>4. Sized(expected')
  BY TheMetadata DEF Metadata, MetadataAnswers, CurrentFrame, Sized, IInv, SizesInv
<1>5. source = "dummyVideoSource" => expected' = dummyMetadata
  BY DEF Metadata, MetadataAnswers, CurrentFrame, IInv, FramesInv
<1>. QED
  BY <1>1, <1>2, <1>3, <1>4, <1>5 DEF IInv, MadeInv, SizesInv, FramesInv, Codes

(* Only a success is followed by frame(). *)
LEMMA JudgedReady ==
  ASSUME NEW s, Judged(s)
  PROVE  code' = s /\ phase' \in {"ready", "stopped", "looping"} /\ (phase' = "ready" => IsZero(s))
BY DEF Judged

LEMMA NotZero ==
  ASSUME NEW s \in Codes
  PROVE  IsZero(s) <=> s \in {VideoSourceStatus(0), Status("system", 0), B4BError(ok)}
BY DEF Codes, IsZero, VideoSourceStatus, B4BError, Status, ok

LEMMA NextFrameStep ==
  ASSUME IInv, NextFrame
  PROVE  IInv'
<1>1. /\ phase = "looping" /\ UNCHANGED <<made, expected>>
      /\ source \in Sources
  BY DEF NextFrame, instances, IInv, MadeInv
<1>2. UNCHANGED source
  BY <1>1 DEF source
<1>3. ASSUME NEW s \in Codes, Judged(s),
             IsCache(cache'), Sized(cache'.frame.metadata), cache'.bytes \in Nat,
             Sized(cmsFrame'.metadata),
             source = "GStreamerVideoSource" =>
               cache'.lastError \in {B4BError(ok), B4BError(3), B4BError(4)},
             source \in {"dummyVideoSource", "websocketInput"} => cache'.frame = cache.frame,
             IsZero(s) /\ source \in {"cmsVideoSource", "GStreamerVideoSource"} =>
               CurrentFrame'.data = OwnMemory(source)
      PROVE  IInv'
  <2>1. MadeInv'
    BY <1>1, <1>2, <1>3, JudgedReady DEF IInv, MadeInv
  <2>2. SizesInv'
    BY <1>1, <1>3 DEF IInv, SizesInv, Sized
  <2>3. source = "dummyVideoSource" =>
          expected' = dummyMetadata /\ cache'.frame.metadata = dummyMetadata
    BY <1>1, <1>3 DEF IInv, FramesInv
  <2>4. source \in {"dummyVideoSource", "websocketInput"} => cache'.frame.data = OwnMemory(source)
    BY <1>3 DEF IInv, FramesInv
  <2>5. phase' = "ready" /\ source # "EmptyVideoSource" => CurrentFrame'.data = OwnMemory(source)
    BY <1>1, <1>2, <1>3, <2>4, JudgedReady DEF CurrentFrame, Sources
  <2>6. FramesInv'
    BY <1>2, <1>3, <2>3, <2>4, <2>5 DEF FramesInv
  <2>. QED
    BY <1>3, <2>1, <2>2, <2>6, JudgedReady DEF IInv, Codes
<1>4. CASE ConstantNextFrame
  <2>1. UNCHANGED <<cache, cmsFrame>>
    BY <1>4 DEF ConstantNextFrame, frames
  <2>2. PICK s \in Codes : Judged(s)
    BY <1>4 DEF ConstantNextFrame, Codes
  <2>3. source \in {"dummyVideoSource", "EmptyVideoSource"}
    BY <1>4 DEF ConstantNextFrame
  <2>. QED
    BY <1>3, <2>1, <2>2, <2>3 DEF IInv, SizesInv, Sized, IsCache
<1>5. CASE ClientNextFrame
  <2>1. source = "websocketInput" /\ UNCHANGED cmsFrame
    BY <1>5 DEF ClientNextFrame
  <2>2. PICK s \in Codes : Judged(s)
    BY <1>5 DEF ClientNextFrame, Codes
  <2>3. /\ IsCache(cache') /\ cache'.frame = cache.frame /\ cache'.bytes \in Nat
    BY <1>5, PipelineAssumption DEF ClientNextFrame, IInv, SizesInv, IsCache
  <2>. QED
    BY <1>3, <2>1, <2>2, <2>3 DEF IInv, SizesInv, Sized
<1>6. CASE CameraNextFrame
  <2>1. source = "cmsVideoSource" /\ UNCHANGED cache
    BY <1>6 DEF CameraNextFrame, CameraNextFrameWith
  <2>2. CASE CameraCaptures(0)
    <3>1. PICK d \in Dims : cmsFrame' = ImageView(cmsMetadata(d), OwnMemory(source))
      BY <2>2 DEF CameraCaptures
    <3>2. Sized(cmsFrame'.metadata) /\ CurrentFrame'.data = OwnMemory(source)
      BY <1>2, <2>1, <3>1, TheMetadata DEF Sized, ImageView, CurrentFrame
    <3>3. Judged(VideoSourceStatus(0)) /\ VideoSourceStatus(0) \in Codes
      BY <2>2 DEF CameraCaptures, Codes
    <3>. QED
      BY <1>3, <2>1, <3>2, <3>3 DEF IInv, SizesInv, Sized, IsCache
  <2>3. CASE Judged(VideoSourceStatus(2)) /\ UNCHANGED cmsFrame
    <3>1. VideoSourceStatus(2) \in Codes /\ ~IsZero(VideoSourceStatus(2))
      BY DEF Codes, IsZero, VideoSourceStatus, Status
    <3>. QED
      BY <1>3, <2>1, <2>3, <3>1 DEF IInv, SizesInv, Sized, IsCache
  <2>. QED
    BY <1>6, <2>2, <2>3 DEF CameraNextFrame, CameraNextFrameWith
<1>7. CASE SampleNextFrame
  <2>1. source = "GStreamerVideoSource" /\ UNCHANGED cmsFrame
    BY <1>7 DEF SampleNextFrame
  <2>2. ASSUME Judged(IF cache.lastError = B4BError(ok) THEN B4BError(3) ELSE cache.lastError),
               UNCHANGED cache
        PROVE  IInv'
    <3> DEFINE s == IF cache.lastError = B4BError(ok) THEN B4BError(3) ELSE cache.lastError
    <3>1. s \in {B4BError(3), B4BError(4)}
      BY <2>1 DEF IInv, FramesInv
    <3>2. s \in Codes /\ ~IsZero(s)
      BY <3>1 DEF Codes, IsZero, B4BError, Status
    <3>3. Judged(s)
      BY <2>2
    <3> HIDE DEF s
    <3>. QED
      BY <1>3, <2>1, <2>2, <3>2, <3>3 DEF IInv, SizesInv, Sized, IsCache, FramesInv
  <2>3. ASSUME Judged(B4BError(ok)), NEW d \in Dims,
               cache' = Cache(ImageView(sampleMetadata(d), OwnMemory(source)), Bytes(d))
        PROVE  IInv'
    <3>1. d.width \in Nat /\ d.height \in Nat /\ Bytes(d) \in Nat
      BY PipelineAssumption, BytesAreNat
    <3>2. /\ IsCache(cache') /\ Sized(cache'.frame.metadata) /\ cache'.bytes \in Nat
          /\ cache'.frame.data = OwnMemory(source) /\ cache'.lastError = B4BError(ok)
      BY <2>3, <3>1, TheMetadata DEF Cache, ImageView, IsCache, Sized
    <3>3. CurrentFrame'.data = OwnMemory(source)
      BY <1>2, <2>1, <3>2 DEF CurrentFrame
    <3>4. B4BError(ok) \in Codes
      BY DEF Codes
    <3>. QED
      BY <1>3, <2>1, <2>3, <3>2, <3>3, <3>4 DEF IInv, SizesInv, Sized
  <2>. QED
    BY <1>7, <2>2, <2>3 DEF SampleNextFrame
<1>. QED
  BY <1>4, <1>5, <1>6, <1>7 DEF NextFrame

LEMMA FrameStep ==
  ASSUME IInv, Frame \/ FrameInto
  PROVE  IInv'
<1>1. /\ phase = "ready" /\ phase' = "viewing"
      /\ UNCHANGED <<made, expected, code, cache>>
  BY DEF Frame, FrameInto, CopyInto, CopyIntoWith, Shown, instances
<1>2. UNCHANGED source
  BY <1>1 DEF source
<1>3. Sized(cmsFrame'.metadata)
  <2>1. CASE Frame
    BY <2>1 DEF Frame, IInv, SizesInv
  <2>2. CASE FrameInto
    <3>1. PICK b \in Buffers :
            cmsFrame' = IF source = "cmsVideoSource"
                        THEN ImageView(CurrentFrame.metadata, HostMemory(b)) ELSE cmsFrame
      BY <2>2 DEF FrameInto, CopyInto, CopyIntoWith
    <3>. QED
      BY <3>1 DEF ImageView, CurrentFrame, IInv, SizesInv
  <2>. QED
    BY <2>1, <2>2
<1>. QED
  BY <1>1, <1>2, <1>3 DEF IInv, MadeInv, SizesInv, Sized, IsCache, FramesInv, Codes

LEMMA JobStep ==
  ASSUME IInv, Start \/ Deliver \/ Stop
  PROVE  IInv'
<1>1. /\ UNCHANGED <<made, cache, cmsFrame, expected, code>>
      /\ \/ phase' = "started" /\ source # "none"
         \/ phase' = "looping" /\ phase = "viewing"
         \/ phase' = "stopped"
  BY DEF Start, Deliver, Stop, instances, frames
<1>2. UNCHANGED source
  BY <1>1 DEF source
<1>. QED
  BY <1>1, <1>2 DEF IInv, MadeInv, SizesInv, Sized, IsCache, FramesInv, Codes

LEMMA IInvNext == IInv /\ [Next]_vars => IInv'
<1> SUFFICES ASSUME IInv, [Next]_vars
             PROVE  IInv'
  OBVIOUS
<1>1. CASE UNCHANGED vars
  <2>1. UNCHANGED <<made, cache, cmsFrame, phase, expected, code, source>>
    BY <1>1 DEF vars, instances, frames, source
  <2>. QED
    BY <2>1 DEF IInv, MadeInv, SizesInv, Sized, IsCache, FramesInv, CurrentFrame, Codes
<1>. QED
  BY <1>1, CreateStep, DestroyStep, MetadataStep, NextFrameStep, FrameStep, JobStep DEF Next

LEMMA Invariance == Spec => []IInv
BY IInvInit, IInvNext, PTL DEF Spec

----------------------------------------------------------------------------
(* A create() always tells the host how it ended. *)
THEOREM HostIsTold == Spec => []CreationIsHonest
<1>1. Init => CreationIsHonest
  BY DEF Init, CreationIsHonest, NoCreation, NoError, IsZero, B4BError, Status, ok
<1>2. ASSUME CreationIsHonest, [Next]_vars
      PROVE  CreationIsHonest'
  <2>1. ASSUME NEW class \in Classes, NEW arguments \in ArgumentLists, Create(class, arguments)
        PROVE  CreationIsHonest'
    <3>1. CASE Constructs(class, arguments)
      <4>1. /\ creation' = [class |-> class, arguments |-> arguments, outcome |-> "object"]
            /\ error' = NoError
        BY <3>1 DEF Constructs, Ends
      <4>2. class = "dummyVideoSource" =>
              arguments[1].type = "CameraInfo" /\ arguments[2].type = "Options"
        BY <3>1 DEF Constructs, ArgumentsFit, CanGet, IsOfType
      <4>3. class = "dummyVideoSource" =>
              [i \in 1..2 |-> arguments[i].type] = <<"CameraInfo", "Options">>
        BY <4>2
      <4>. QED
        BY <4>1, <4>3 DEF CreationIsHonest, NoError, IsZero, B4BError, Status, ok
    <3>2. CASE Fails(class, arguments)
      <4>1. creation' = [class |-> class, arguments |-> arguments, outcome |-> "null"]
        BY <3>2 DEF Fails, Ends
      <4>2. error'.code \in {Status("system", 11), B4BError(genericError)}
        BY <3>2 DEF Fails, Reported
      <4>. QED
        BY <4>1, <4>2 DEF CreationIsHonest, IsZero, B4BError, Status, genericError
    <3>3. CASE Escapes(class, arguments)
      <4>1. /\ creation' = [class |-> class, arguments |-> arguments, outcome |-> "escaped"]
            /\ error' = NoError
        BY <3>3 DEF Escapes, Ends
      <4>. QED
        BY <4>1 DEF CreationIsHonest, NoError, IsZero, B4BError, Status, ok
    <3>. QED
      BY <2>1, <3>1, <3>2, <3>3 DEF Create
  <2>2. CASE Start
    BY <2>2 DEF Start, CreationIsHonest, NoCreation, NoError, IsZero, B4BError, Status, ok
  <2>3. CASE \/ \E kind \in Kinds : Destroy(kind)
             \/ Metadata \/ NextFrame \/ Frame \/ FrameInto \/ Deliver \/ Stop
             \/ UNCHANGED vars
    <3>1. UNCHANGED <<creation, error>>
      BY <2>3
      DEF Destroy, Metadata, NextFrame, Frame, FrameInto, CopyInto, CopyIntoWith, Shown,
          Deliver, Stop, instances, vars
    <3>. QED
      BY <1>2, <3>1 DEF CreationIsHonest
  <2>. QED
    BY <1>2, <2>1, <2>2, <2>3 DEF Next
<1>. QED
  BY <1>1, <1>2, PTL DEF Spec

(* The host sees the same frames by either way to test for success. *)
THEOREM SuccessIsAlwaysRecognised == Spec => []SuccessIsRecognised
<1>1. ASSUME code \in Codes, code # Status("system", 0)
      PROVE  IsZero(code) <=> Equals(code, VideoSourceStatus(0))
  <2>1. CASE code \in {VideoSourceStatus(0), VideoSourceStatus(2), VideoSourceStatus(5)}
    BY <2>1
    DEF IsZero, Equals, CodeEquivalent, ConditionEquivalent, VideoSourceStatus, B4BError, Status
  <2>2. CASE code = Status("generic", 104)
    BY <2>2
    DEF IsZero, Equals, CodeEquivalent, ConditionEquivalent, Counterparts,
        VideoSourceStatus, B4BError, Status
  <2>3. CASE code \in {B4BError(ok), B4BError(3), B4BError(4)}
    BY <2>3
    DEF IsZero, Equals, CodeEquivalent, ConditionEquivalent, Counterparts,
        VideoSourceCounterpart, VideoSourceStatus, B4BError, Status, ok, genericError
  <2>. QED
    BY <1>1, <2>1, <2>2, <2>3 DEF Codes
<1>2. IInv => SuccessIsRecognised
  BY <1>1 DEF IInv, SuccessIsRecognised
<1>. QED
  BY <1>2, Invariance, PTL

----------------------------------------------------------------------------
(* The copy and the view of a frame, in the steps that make them.          *)
LEMMA CopiedFits ==
  ASSUME IInv, NEW size \in Nat, source = "dummyVideoSource" => size >= Bytes(dummyMetadata)
  PROVE  Copied(size) <= size
<1>1. CASE source = "dummyVideoSource"
  <2>1. Bytes(dummyMetadata) \in Nat
    BY TheMetadata, BytesAreNat
  <2>. QED
    BY <1>1, <2>1 DEF Copied
<1>2. CASE source = "websocketInput"
  BY <1>2 DEF Copied, IInv, SizesInv
<1>3. CASE source = "GStreamerVideoSource"
  <2>1. cache.frame.metadata.width * cache.frame.metadata.height \in Nat
    BY BytesAreNat DEF IInv, SizesInv, Sized
  <2>2. Copied(size) = Least(cache.frame.metadata.width * cache.frame.metadata.height, size)
    BY <1>3 DEF Copied
  <2>. QED
    BY <2>1, <2>2 DEF Least
<1>4. CASE source \notin {"dummyVideoSource", "websocketInput", "GStreamerVideoSource"}
  BY <1>4 DEF Copied
<1>. QED
  BY <1>1, <1>2, <1>3, <1>4

LEMMA ViewStep ==
  ASSUME IInv, IInv', CopyFits /\ ViewBelongs, [Next]_vars
  PROVE  (CopyFits /\ ViewBelongs)'
<1>1. CASE Frame
  <2>1. /\ phase = "ready" /\ view' = CurrentFrame /\ into' = "none"
        /\ capacity' = 0 /\ written' = 0 /\ UNCHANGED made
    BY <1>1 DEF Frame, Shown, instances
  <2>2. source' = source
    BY <2>1 DEF source
  <2>. QED
    BY <2>1, <2>2 DEF CopyFits, ViewBelongs, IInv, FramesInv
<1>2. CASE FrameInto
  <2>1. PICK b \in Buffers, size \in Capacities \union {Bytes(expected)} :
          /\ view' = (IF source = "EmptyVideoSource" THEN NoView
                      ELSE ImageView(CurrentFrame.metadata, HostMemory(b)))
          /\ into' = b /\ capacity' = size /\ written' = Copied(size)
          /\ phase = "ready" /\ UNCHANGED <<made, expected>>
    BY <1>2 DEF FrameInto, CopyInto, CopyIntoWith, Shown, instances
  <2>2. source' = source /\ size \in Nat
    BY <2>1, BytesAreNat, PipelineAssumption DEF source, IInv, SizesInv, Sized
  <2>3. CopyFits'
    BY <2>1, <2>2, CopiedFits DEF CopyFits, IInv, FramesInv
  <2>4. ViewBelongs'
    BY <2>1, <2>2, PipelineAssumption DEF ViewBelongs, ImageView
  <2>. QED
    BY <2>3, <2>4
<1>3. CASE \/ \E kind \in Kinds : Destroy(kind)
           \/ \E class \in Classes, arguments \in ArgumentLists : Create(class, arguments)
           \/ Metadata \/ NextFrame \/ Start \/ Deliver \/ Stop
  <2>1. phase' # "viewing"
    BY <1>3 DEF Destroy, Create, Metadata, NextFrame, ConstantNextFrame, ClientNextFrame,
                CameraNextFrame, CameraNextFrameWith, CameraCaptures, SampleNextFrame,
                Judged, Start, Deliver, Stop
  <2>. QED
    BY <2>1 DEF CopyFits, ViewBelongs
<1>4. CASE UNCHANGED vars
  BY <1>4 DEF vars, instances, frames, copy, source, CopyFits, ViewBelongs
<1>. QED
  BY <1>1, <1>2, <1>3, <1>4 DEF Next

LEMMA Viewed == Spec => [](CopyFits /\ ViewBelongs)
<1>1. Init => CopyFits /\ ViewBelongs
  BY DEF Init, CopyFits, ViewBelongs
<1>. QED
  BY <1>1, ViewStep, Invariance, PTL DEF Spec

(* No frame is copied past the end of the host's buffer, with the one      *)
(* exception of dummy's and a buffer smaller than its image.               *)
THEOREM CopiesFit == Spec => []CopyFits
BY Viewed, PTL

(* The host never works on a buffer of an earlier frame. *)
THEOREM ViewsBelong == Spec => []ViewBelongs
BY Viewed, PTL
=============================================================================
