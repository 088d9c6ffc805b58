# Specifications of the VIA native plugins

TLA+ modules that model the plugins of this repository and the library they
are registered with, TLC configurations that check them on small instances,
and proofs, checked by TLAPS, of the properties that matter most for every
value of the constants.

Line numbers refer to the files under `src/` of this repository's tree. Below,
*host* is the program (the SDK) that loads the plugins and drives their objects.

## The system

| Part | State it keeps | Operations | What is hard about it |
|---|---|---|---|
| GStreamer source (`plugins/gstreamer`) | error, stream state, permit, the mapped sample and the view of it, the size the probe saw; one mutex, two condition variables | constructor, destructor, `metadata`, `nextFrame`, `frame` on the host's thread; probe, `preroll`, `grabFrame` on the streaming thread | two threads, waits without timeouts, a view read without the mutex, callbacks before the constructor has finished, flushes, failing pulls |
| CMS camera (`plugins/cms`) | five globals of `cms.cpp`: link, lock, condition variable, request flag, metadata and frame | discovery, `nextFrame`, `frame` of every source; the event handler on the camera library's thread | one flag and one image for all sources, timeouts that race with events, spurious wakeups, a link kept although its configuration failed |
| WebSocket client (`plugins/websocket`: `Client`, `Input`, `Output`) | stream, cached metadata, format and frame | connect, `metadata`, `nextFrame`, `execute`, `sendResult`, each a request and a response | connections that break between request and response, exceptions that set no error code, staying in step |
| WebSocket server (`plugins/websocket/servers`: `Server`, `IOServer`) | table of handlers, running flag, one static byte | constructor, destructor, `run`, a detached thread for each session, three handlers | a thread that starts before the object is built and outlives it, a local variable handed from thread to thread, a shared counter |
| Registry (`stub/src/PluginManager.cpp`) and every plugin's `initMe` | the map from class names to constructors and its mutex | `registerClass`, `initMe`, exit functions | concurrent and repeated loads, failure half-way, no way to unregister |
| Discovery (`CameraDiscoverer`, `CameraInfo`) | none, but the CMS link | `operator()` of each plugin | names that must agree with those registered |
| The contract (`video/VideoSource.h`, `utils/ResultsOutput.h`) | none | `metadata`, `nextFrame`, `frame` as a view or into a buffer, the output's call, in the order the headers give | what all sources owe the host; sizes that are stale when they are used |
| Instance creation (`plugin/PluginArguments.h`, `utils/detail/AnyRef.h`, `plugin/PluginErrorCallback.h`, every class's `create`) | the error callback | `create`, `destroy` | arguments found by type at run time, exceptions caught at a boundary or not, messages that need memory |
| Options (`stub/src/Options.cpp`) | a pointer to a map | construction, copies, moves, `add`, `mergeIn`, typed access | ownership of the map, objects merged with themselves, allocations that fail half-way, pointers into the map |
| Status codes (`VideoSourceStatus`, `PluginStatus`, `B4BError`) | values | comparison of a code with a condition | two categories are asked, each of which asks a third |
| Version, image DTOs, string helpers | values | comparison, split, join | conversions of sign, ends of strings |
| Demangling, type names, `Environment.h`, the standalone server's `main`, build files | none | | nothing |

The host loads a plugin (`initMe`), which registers its classes; it asks the
plugin's discoverer for cameras, creates a source by the type that a
`CameraInfo` names, and then calls `metadata`, `nextFrame`, `frame` in a loop
from one thread per source. Results go to a `ResultsOutput`. Sources meet the
other threads (of GStreamer, of the camera library, of the server) through
shared state, condition variables or a connection. Nothing is persisted, so
there is no recovery from crashes to model; a plugin that failed to load and is
loaded again comes nearest to a restart.

What makes each part correct: the GStreamer source hands frames over one at a
time, in order, without losing a wakeup; the CMS source captures only for a
call that waits for it; the client gives each call the answer to its own
request and reports a lost connection; the server gives each session its own
connection and ends it only for a reason; the registry never takes a class from
its owner and is honest about what it accepted; a `create` that fails says so,
and in a job the host recognises success in every error domain, gets no view of
a buffer it no longer offers and no more bytes than fit.

## The modules

| Module | Models | Correspondence |
|---|---|---|
| `GStreamerSource` | `GStreamerVideoSource.cpp` | one variable per member; `hostPC` and `streamPC` are where the two threads are. A critical section of `m_mutex` is one step, but for the one in `grabFrame()` that replaces the sample (two steps), because `frame()` reads `m_frame` without the mutex. The pipeline, the appsink and its queue are external: samples are numbered, the queue is `pulled + 1 .. arrived` |
| `Handoff` | what that source promises | a place for one frame, and a credit for each frame that may be put there |
| `CmsSource` | `cms.cpp` | one variable per global, `pc[s]` for the thread of each source, `cameraPC` for the handler. The handler's critical section is two steps, since the library overwrites the display image before the handler has finished; the discovery is two steps, since events arrive before the overrides are loaded, and the user may provide, change or remove the overrides file at any time |
| `FrameSource` | `VideoSource.h` | the image changes only while `nextFrame()` runs, at most once, and success means that it did |
| `WebSocketClient` | `Client.cpp`, `Input.h`, `Output.h` | `response()` is Write, WriteFails, Read, ReadFails and RunsOutOfMemory; one returning action per call. The server and the connection are external |
| `WebSocketServer` | `Server.cpp`, `IOServer.cpp` | `runPC` for the accepting thread, `thread[c]` for the session started for client `c`. `socket` and `detachingThread` are the locals of `run()` that it shares with the thread it starts; `RunReturns` destroys them, and `UsesDestroyed` is what a thread may do that comes to them later, which is undefined. `++init` is a load and a store |
| `PluginRegistry` | `PluginManager.cpp`, the `initMe()` scheme | a *load* is one call of an `initMe()`; `registerClass()` is one step, for it holds the mutex |
| `PluginSet` | the plugins' `initMe()` and discoverers | which classes each plugin registers, which cameras it reports |
| `Options` | `Options.cpp` | `m_impl` is the pointer of each object, `heap` the `Impl` objects that are allocated; both are functions whose domain is what exists. One action per operation, which is sequential |
| `OptionsValue` | what users of `Options` can rely on | each object has a map of its own, changed only by the calls made on it. What `add()` does to a key that is there is left open, as `Options.h:105` and the code disagree on it; a call that fails may leave a part of its work, and a new key with `false` |
| `OptionsAccess` | typed access in `Options.cpp` | `pointer` is what the last `tryAs*()` gave. `MayHold` says which calls may go on while it is held, which the header leaves open; every other call makes the host forget it |
| `StatusCodes` | the three status headers and their categories | a status is a category and a value; `CodeEquivalent` and `ConditionEquivalent` are the two `equivalent()` overloads, each category with its table of counterparts |
| `Version`, `Text` | `Version.h`, `string.h` | one operator per function; a char is a signed number |
| `Values` | the above as a host asks them | a question is chosen, a step answers it with the source's function |
| `ImageDto`, `Arguments` | the DTOs; `AnyRef`, `PluginArguments`, `PluginErrorCallback` | records; a reference is its type and qualifiers |
| `Pipeline` | `create`, `destroy` and the data path of all 12 classes, driven as `VideoSource.h` says | one job at a time on one thread; `nextFrame()` is one step, with the outcomes that the source's own module has for it. `cache` is what the source's members say of its frame, `cmsFrame` the CMS plugin's global, which outlives its sources |
| `MCPluginSet`, `MCOptions`, `MCValues`, `MCPipeline` | | the instances for TLC |
| `MCWebSocketServer` | | the server with a client whose requests are all handled and one that also asks for what is not |
| `*_proofs` | | theorems about the module of that name |

`GStreamerSource` is composed with `Handoff`, `CmsSource` and
`WebSocketClient` with `FrameSource`: the detailed module instantiates the
abstract one with a refinement mapping and states `F!Spec` or `H!Spec` as a
property; so does `Options` with `OptionsValue`, its values being what the
pointers lead to. `PluginSet` extends `PluginRegistry`, `OptionsAccess` extends
`Options`, and `Pipeline` is built on `ImageDto`, `Arguments` and `StatusCodes`.

## The runs

All runs end in less than three minutes with two workers.

| Run | Question | Bounds and why they are enough |
|---|---|---|
| `GStreamerSource` | Do the two threads pass every frame on safely and in order, and does the host's call return? | 3 buffers: one taken, one on offer, one blocked in `grabFrame()`; 2 prerolls: a flush; 2 sizes: a renegotiation; both ways for a pull to fail |
| `GStreamerSource_held` | Does the view the host holds stay mapped? No | 1 preroll: no flush is needed |
| `CmsSource` | Do requests outlive their calls, do calls return, is a camera configured before a discovery returns it for the first time? | 2 sources: all interference is between a source and another; 2 captures: one for each, or a late one for the same; the overrides file is good, malformed or absent, and changes at any time |
| `CmsSource_alone` | What does a source do that has the camera to itself? | 6 captures: late ones after a timeout and after a call that succeeded |
| `CmsSource_stale` | Does success mean a new image with two sources? No | |
| `CmsSource_unconfigured` | Is every camera that a discovery returns configured, if the overrides file was good? No | 1 source, 1 capture: neither matters to discoveries |
| `WebSocketClient` | Do client and server stay in step; is success a frame; is a lost connection reported; do calls return? | 3 calls: the constructor's, one that fails and the one after it; every kind of answer, 2 sizes |
| `WebSocketServer` | Does each session serve its own client; when is a connection cut; do frames differ; is everyone served and answered? | 2 clients: one session starting while another runs, or while the server stops; one asks for frames, the other for metadata and for what no handler is there for, which are all kinds of answers there are; a counter of 2 values makes the wraparound happen |
| `PluginSet` | Is the registry honest under concurrent, repeated and failing loads, and are the cameras openable? | two plugins of the repository, each loaded twice, a rival that uses their names in another order and an ill-formed one, an old plugin of another version; allocations may fail at each step |
| `Options` | Is every map owned by one object, is each object a value of its own, and is a pointer of `tryAs*()` still good? | 3 objects: two operands and a result; 2 keys: a merge that is half done; 2 values of different types; objects, `Impl`s and keys are interchangeable |
| `Values` | Do the pure functions answer as their reference definitions do? | all 27 statuses; versions of 0, 1 and 65535 with revisions at every boundary of an int16; texts up to 2 chars of both cases, a negative char and the separator; up to three arguments |
| `Pipeline` | Is the host told what went wrong, and may it use what it is given? | frames of 1 and 2 pixels, messages of 0, 3 and 7 bytes, capacities of 0 and 2 bytes and what `metadata()` calls for, 2 buffers: the one offered and an older one; four lists of arguments, three of them wrong |

Every property of a passing run fails when one definition is replaced by its
mutant, the operator above it with a suffix and the comment "The bug this would
be": these mutants are plausible slips in the code (a missing notification, a
permit that is not used up, a socket that is replaced too early, a message
assigned before its code) and show that the property looks at the code.
Deadlock is checked in the runs of `CmsSource`, whose camera goes on for ever;
in most others the system may really stop (a stream ends, all plugins are
loaded, a question is answered). It is checked in `Options` and `Pipeline` too,
whose host always has a call left.

### What they show

In the GStreamer source a frame is never overwritten on offer unless the stream
prerolls again (`NoOverwrite`), although the consumer's wakeup, the permit and
the frame are three separate things; notifying after the mutex is released
loses no wakeup (`NoLostWakeup`); buffers that came before the callbacks were in
place stay in the appsink for ever, one callback pulling one sample, but the
queue does not grow beyond them (`QueueBounded`). A frame carries the size
negotiated for it only if the constructor was not overtaken (`FrameHasItsSize`):
the pipeline plays (`:140`) before the probe (`:171`) and the callbacks (`:180`)
are in place.

In the CMS source a timeout withdraws the request under the lock, and so no late
event overwrites the image of a source that is alone (`NoOrphanRequest`,
`HeldIsStable`). With a second source neither freshness nor stability holds. The
discovery that makes the link returns no camera unless it has set all its
parameters, whatever happens to the file in between (`ConfiguredBeforeUse`); a
later one does not look (`CmsSource_unconfigured`).

In the client everything depends on one message per request: `InStep` is the
invariant, and it holds until an allocation fails in `response()`, which then
leaves neither an error nor the message read.

In the server no session ever gets another one's connection, and as long as
`run()` is in its loop each gets its own (`OwnConnection`), since `run()` does not
replace the socket before the new thread has said that it took it. `run()` does
not wait for that thread when it returns, though: a connection accepted
just before the server stops is cut with the socket that `run()` destroys, and its
thread uses destroyed variables (`LeftBehind`, `UsesDestroyed`). Before that, everyone
is served and answered, whatever the others do.

In the registry, a class never changes its owner, success is honest, and
concurrent loads of a plugin do not defeat each other. The price is
`RetryIsRefused`: a plugin that failed half-way cannot be loaded again.

An `Options` object is a value although copies, moves and merges treat its
`Impl` in three ways: no map is shared, leaked or read after its deletion
(`OneOwner`), and merging or assigning an object to itself does no harm
(`ImplementsOptionsValue`). Merges that run out of memory leave a part of their
work, and a key whose string could not be copied with a `false` that neither operand
had (`Options.cpp:73`); those of an rvalue lose the rest. An object that was moved
from must be moved into before it is used again; that the host knows this is
assumed. A pointer that `tryAsString()` gave may be held while other objects come
and go, while its own is moved or copied, and while other options are added or
merged into it (`PointersHold`); an assignment to its object, a merge that
brings its key or a failing one is what ends it. Whether an `add()` of its own key
does is left open, as the header and the code disagree on what that does.

Two statuses are equal exactly if they are the same or mean the same B4BError
(`StatusesAgree`), whichever is the code and whichever the condition; this rests
on each category asking both ways. Of any two versions exactly one of `==`, `<` and
`>` holds, and where both have a revision or neither has, it is the one that major,
minor and revision decide (`VersionsOrdered`); the other pairs are left to the
disagreement below.

In a job, whoever creates an object learns of a failure even if there is no
memory left for its message (`CreationIsHonest`); an exception escapes from the
creation of four classes. Success is recognised by its value and by comparison
alike, but for the empty plugin's source (`SuccessIsRecognised`). The copies of
the WebSocket and GStreamer sources fit in the buffer, whatever its size and
whatever the server sent after `metadata()`; dummy's does if the buffer is as
large as `metadata()` calls for (`CopyFits`). The CMS source's global view keeps
pointing at a buffer of the host, but is replaced before it is shown again,
because a `nextFrame()` that captured nothing does not report success
(`ViewBelongs`).

## Disagreements between the code and its documentation

Three runs violate a statement that the repository makes of itself; the trace
TLC prints is the execution.

- `GStreamerSource_held`: `nextFrame()` gives the permit for the next frame when
  it takes one, so `grabFrame()` unmaps the held sample before the next
  `nextFrame()`, against `src/README.md:89`.
- `CmsSource_stale`: the timeout of one source is success for another, against
  `VideoSourceStatus.h:39`.
- `CmsSource_unconfigured`: a discovery that fails for lack of a good overrides file
  keeps the link (`cms.cpp:123-142`), and the next one returns its camera without
  reading the file, even if it is good by then, against
  `plugins/cms/README.md:8-9`, which says that the file controls the two
  parameters before the camera is used, and which calls it optional besides.

Others were met while modelling and have no run of their own:

- `add()` emplaces (`Options.cpp:42`) and so keeps the value of an existing
  key, where `Options.h:105` says that it is overwritten; the definition
  `Added` has it.
- The server's destructor stops nothing, for `m_sessions` is never filled
  (`Server.cpp:48-57`, `:73-78`), where `Server.h:67` says that it stops all
  connections.
- `run()` returns without waiting for the thread it started last
  (`Server.cpp:64`, `:80`), which has its local variables by reference
  (`:73-75`): that thread moves from a destroyed pointer and writes to a destroyed
  flag. No comment speaks of it; `OwnConnection` says what remains true.
- A pull that fails sets `m_lastError` (`GStreamerVideoSource.cpp:295`), which
  a call that waits does not look at: it waits for ever, and `CallAnswered`
  excepts it.
- Two sessions of the server that increment `init` at once (`IOServer.cpp:65`)
  may give a client the frame it had, which is why `FramesDiffer` asks for a
  single client.
- With two CMS sources, one overwrites the image the other holds, and the
  buffer that a host gave to one `frame(data, size)` is what the other source's
  `frame()` returns (`cms.cpp:71`, `:229`).
- A preroll before the callbacks are connected leaves `nextFrame()` waiting for
  ever, as does the end of the stream, whose callback is a null pointer
  (`GStreamerVideoSource.cpp:178`); both are why `CallAnswered` has its
  conditions.
- `metadata()` of the GStreamer source is empty before the first frame (`:197`).
- The client has no timeout (`Client.cpp:164`): a server that accepts and never
  answers blocks it for ever, which `CallReturns` assumes away. And the format that
  one response names is never cleared (`:88`), so that every later `nextFrame()`
  fails, which `FrameSource` permits.
- After an exception that is not a system error the client's `nextFrame()`
  reports success with an empty frame (`Client.cpp:170-177`), which is why its
  properties end when an allocation fails.
- An early request finds no handler and ends its connection (`Server.cpp:40`),
  and so does every `execute` request although `plugins/websocket/README.md:87`
  has a response to it; `CutIsDeserved` names both as the only reasons.
- Both cameras of the dummy plugin have one id (`dummy.cpp:69`, `:73`), which
  `src/README.md:71` calls unique, and `CameraInfo` compares ids only
  (`CameraInfo.h:99`) where its comment says all fields but the name.
- The copying `frame()` should copy into the buffer within its capacity in
  bytes (`src/README.md:90`, `VideoSource.h:81-90`): CMS copies nothing
  (`cms.cpp:229`), GStreamer as many bytes as there are pixels, a third of the
  image (`GStreamerVideoSource.cpp:243`), dummy ignores the capacity
  (`dummy.cpp:118`), and the WebSocket source returns the buffer as the frame
  even when it copied nothing (`Input.cpp:40`).
- The empty source's `nextFrame()` returns a default `std::error_code`, which
  is not equal to `VideoSourceStatus::success()` (`EmptyVideoSource.h:42`).
- The dummy source cannot be created without Options (`dummy.cpp:137`), which
  `VideoSource.h:50` calls not mandatory.
- A missing revision is not ignored when only one version has none
  (`Version.h:123`), though `Version.h:39-40` says so without that condition, as
  against `Version.h:118` on the operator; `VersionsOrdered` takes no side.

## Fairness

- `GStreamerSource`: weak fairness of the constructor, of the host inside a call
  and of the streaming thread, which the scheduler gives; and of the pipeline,
  which delivers what it has. Nothing is assumed of the host's calls, of
  negotiation or of flushes, and the failure of a pull needs no fairness: it
  is an alternative of a step that is fair. With a bound on the flushes that is
  enough. For any number of them the theorem assumes `FairFlowSpec`, which adds
  strong fairness of two steps: the host's thread gets the mutex if it finds it
  free again and again, which `std::mutex` does not promise but the pauses between
  two buffers give, and a buffer arrives if the sink is prerolled for it again
  and again: a pipeline that is flushed for ever before its next buffer offers
  nothing to wait for.
- `CmsSource`: an event handler that was called finishes, deadlines pass, woken
  threads run. The camera need never call the handler. With a bound on the captures
  that is enough. For any number of them the theorem assumes `FairLockSpec`:
  a thread gets the lock if it finds it free again and again. Captures for other
  sources could otherwise hold it whenever the thread looks; in the program the
  handler leaves it free from one image to the next.
- `WebSocketClient`: the client's thread runs, and the server answers what it
  has received. The connection need not break. Without the second assumption a
  call may wait for ever, as there is no timeout.
- `WebSocketServer`: the constructor, the accepting thread and each session run.
  Clients need not ask or leave.

## The proofs

The theorems hold for all values of the constants that satisfy the named
assumptions of the modules: any number of buffers, sources, clients, calls,
loads and plugins. Each rests on an inductive invariant that TLC checked first.
All properties of the passing runs but one are theorems.

- `GStreamerSource_proofs`: `IInv` (types, mutex, permit, order, preroll, queue
  and wakeups) is inductive. The central part is `PermitInv`: `m_bufferReady` is
  there only against a credit (prerolls plus frames taken less frames offered),
  `grabFrame()` keeps it from its test to its announcement, and credits and
  the frame on offer never exceed the prerolls. From it follow `NoOverwrite`,
  `InOrder`, and, step by step, that the source implements `Handoff`.
- `CmsSource_proofs`: for any set of sources, the types, `NoOrphanRequest` (each
  call that leaves withdraws the flag) and `ConfiguredBeforeUse`. For a single
  source, `AloneInv` ties the flag to the number of the image; from it follow
  `HeldIsStable` and the refinement of `FrameSource`. The assumption that there
  is one source is a hypothesis of these theorems: two sources break them.
- `WebSocketClient_proofs`: `InStep` is inductive with the types; `IInv` adds
  what a call finds when `response()` returns and what it knows of a lost
  connection. The refinement of `FrameSource` needs only that the data were
  replaced exactly when the call is at "stored", and holds with failing
  allocations too.
- `WebSocketServer_proofs`: `HandoffInv` (at most one thread has not yet taken
  the socket, and `run()` waits for it) and `SocketInv` (a socket not yet taken
  is of the thread started last, and its connection is cut when `run()` returns)
  give `OwnConnection`; `AnswerInv` (a
  session works on what its client waits for) gives `CutIsDeserved`. For
  `FramesDiffer` the invariant relates `init` to the frame the only client
  received last, and needs that the counter has at least two values.
- `PluginRegistry_proofs`: `IInv` says that exactly the classes a load has got past
  are registered, each with that load as its owner, and that a sound plugin's
  load fails only because of another load. `ExitMeansRegistered`,
  `FirstComeFirstServed` and `RetryIsRefused` follow. That one load wins
  follows from `FailedInv`: each failed load was beaten by the load that owns the
  plugin's first class, which would have been beaten by itself.
- `PluginSet`: `CamerasCanBeOpened` follows from `ExitMeansRegistered` and the
  names each plugin registers and reports.
- `GStreamerSource_proofs` also has `SizeInv`: if no caps event was missed,
  `m_size` is the size negotiated last; a buffer that `grabFrame()` is about to pull was
  negotiated with that size, since events and buffers come on one thread; and if
  no buffer was missed either, the frame on offer has its own size. It gives
  `FrameHasItsSize`.
- `Options_proofs`: `OwnInv` (`TypeOK` and `OneOwner`) is inductive: a pointer is
  the only one to its `Impl`, so that a write through it changes one value and a
  new `Impl` none. From this each operation, failing ones included, is a step of
  `OptionsValue`, and each
  call of `MayHold` leaves what a held pointer points to: `PointersHold`. Reading
  changes nothing, so that `OptionsAccess` implements `Options`. Merging is
  associative, by extensionality.
- `Values_proofs`: `StatusesAgree` by the tables of counterparts, for every pair
  of domains; `VersionsOrdered` for all uint16 and int16 values, by arithmetic: a
  negative int16 is a uint16 above all others.
  `ComparisonIgnoresCase` and `SplitUndoesJoin` hold for texts of any length and any
  number of arguments, which takes induction. The library's induction theorems have
  operators as parameters, which the provers cannot instantiate; so the
  induction is over sets: `NaturalsAreReached` says that a set which holds 0 and,
  with each number, the next holds all numbers, as `<` is well-founded, and each
  lemma applies it to the set of lengths for which it is true. It gives the
  recursive function behind `Join` (`JoinDef`), the sorted places at which `Split`
  cuts (`NthOfIncreasing`), and the first place at which two texts differ
  (`FirstExists`), at which `StrcmpCaseInsensitive()` decides.
- `Pipeline_proofs`: `IInv` has three parts and the codes that `nextFrame()` can
  return. `MadeInv`: a job has a source. `SizesInv`: all sizes are natural
  numbers. `FramesInv`: dummy and the client show their own memory from the
  start, the other sources once a frame is ready, before which the CMS view may
  be of any buffer; and dummy's `metadata()` calls for what it copies. From
  these follow `SuccessIsRecognised`, `CopyFits` and `ViewBelongs`, for any sizes
  and buffers; `CreationIsHonest` is inductive as it stands, for any arguments.

### Liveness

Four liveness properties are theorems: `CallAnswered` of `GStreamerSource`,
`CallReturns` of `CmsSource` and of `WebSocketClient`, and `AskedIsAnswered` of
`WebSocketServer`. Each proof divides a call into stages, shows by invariants
that no step of anybody else takes the call back or out of its stages, that the
fair step of each stage takes it on, and that this step's guard holds as long as
it has not been taken; temporal logic does the rest.

| Theorem | The stages | The invariant it needs besides `IInv` or `TypeOK` |
|---|---|---|
| `CallsAreAnswered` | the stream prerolls, a buffer arrives, is grabbed, pulled and published; the host is woken, takes the mutex, then the frame | `FlowInv`: once `preroll()` has run, there is a frame, the end of the stream, or a permit; a callback that has not pulled has a sample to pull |
| `CallsReturn` (CMS) | before the deadline, after it | `ExpiredInv`: a thread whose deadline has passed is awake, and does not wait again |
| `CallsReturn` (client) | writing, waiting, an answer or the end of the connection is there, received, stored | `ReadingInv`: who reads from a connection that holds has been answered, or the request is on its way |
| `RequestsAreAnswered` | the session loops, reads, handles, counts, writes | `WaitingInv`: a session that ended has left its client, and who waits has asked |

Fairness speaks of ENABLED, which this version of the prover cannot look into. What
a proof needs to know of it is a hypothesis of the theorem, `RunnableIsEnabled`:
a thread whose guard holds, as `Runnable` and its like spell it out, has a step
that is enabled. It is a fact about the actions, not about the program's
scheduling: it is read off from them, and TLC finds it to hold in every state
of the four modules' runs when it is added to their configurations as an
invariant. The runs check the same liveness properties without it, under the
fairness itself. That the client's theorem needs a server with an answer to
"metadata" (`Metadata # {}`) is a hypothesis as well.

Only model-checked: `ConnectedIsServed` of `WebSocketServer`. That a client is
accepted at last is an induction over the number of clients that may be accepted
before it, and the proof system has no induction over a leads-to.

## Not modelled

- What threads do with an object after its destruction (the streaming thread of
  GStreamer, the sessions of the server): undefined, the models end there.
- `execute()`: it prints, or does nothing, in all sources but the WebSocket one,
  whose request is modelled in `WebSocketClient`. It returns a default
  `std::error_code` in dummy, CMS and empty, `B4BError::ok()` in GStreamer.
- Errors that end the process: a throwing `accept()`, `as_object()` of a result
  that is not an object.
- Pixel data: frames are numbered, and a view is what it views and its size.
- Jobs that run at the same time are in `CmsSource`, not in `Pipeline`, whose one
  job has the camera to itself: with two, `ViewBelongs` does not hold.
- Of Version, the constructor from a string, `toString()`, addition and
  serialization, and the overload of `getLine()` for line ends: declared, without
  an implementation in the repository. Conversions of single values to text,
  streaming, logging, demangling and type names, compile-time traits: formatting
  or no run-time behaviour.

## Plan

1. Core, done: the four concurrent components, the registry and `Options`, their
   abstract specifications, safety, liveness, refinement, and proofs.
2. Values and the data path, done: status codes, versions, texts, typed access,
   instance creation and pipeline jobs over every class, with proofs, those of the
   texts by induction over their lengths; the liveness of calls and requests.
3. Left: the composition of `WebSocketClient` with `WebSocketServer` in place of
   its external server (a client over one session implements the client over an
   ideal server, but for `execute`), and its proof; two jobs at once in
   `Pipeline`, with a registry whose plugins come and go.
