--------------------------- MODULE WebSocketClient ---------------------------
(***************************************************************************)
(* plugins/websocket: Client, the object behind Input (a VideoSource) and  *)
(* Output (a ResultsOutput).  Every call but frame() sends one request and *)
(* reads one message, without a timeout.  The host calls one client from   *)
(* one thread.  The server and the connection are external: the server     *)
(* answers in order, may change the size of its frames, and the connection *)
(* may break at any time, with or without what was already under way.      *)
(***************************************************************************)
EXTENDS Integers, Sequences

CONSTANTS
  Dims,      \* the sizes of the server's frames
  Metadata,  \* the ways in which the server may answer "metadata"
  MaxCalls   \* how many calls the host makes (bound)

ASSUME ClientAssumption ==
  /\ Metadata \subseteq {"metadata", "format", "formatOnly", "malformed"}
  /\ MaxCalls \in Nat

VARIABLES
  (* the client *)
  m_frameCache,   \* its format (is there one?), its metadata and its data
  pc,             \* "new", "idle", "calling", "reading", "received" or "stored"
  ec, m_buffer,   \* what response() leaves: was there an error? the message
  (* the connection and the server *)
  link,           \* "none", "open" or "broken"
  toServer, toClient, size,
  (* the host *)
  call,           \* the call that runs or ran last
  result,         \* what the last nextFrame() returned
  (* history *)
  calls,          \* how many calls there were
  linkAtCall,     \* link, when the last call began
  ranOut,         \* has an allocation failed yet?
  before,         \* replaced, when nextFrame() was last called
  replaced        \* how often the data of m_frameCache were replaced

client == <<pc, ec, m_buffer>>
network == <<link, toServer, toClient>>
host == <<call, result>>
past == <<calls, linkAtCall, ranOut>>
vars == <<m_frameCache, client, network, size, host, past, before, replaced>>

NoDims == "none"
Sizes == Dims \union {NoDims}
Requests == {"metadata", "frame", "execute", "result"}

(* A message answers the request of one call, with something of some kind. *)
Message(n, k, d) == [to |-> n, kind |-> k, size |-> d]
Kinds == {"nothing", "metadata", "format", "formatOnly", "malformed", "frame", "reply"}
Nothing == Message(0, "nothing", NoDims)

Init ==
  /\ m_frameCache = [format |-> FALSE, metadata |-> NoDims, data |-> Nothing]
  /\ pc = "new" /\ ec = FALSE /\ m_buffer = Nothing
  /\ link = "none" /\ toServer = <<>> /\ toClient = <<>>
  /\ size \in Dims
  /\ call = "none" /\ result = "none"
  /\ calls = 0 /\ linkAtCall = "none" /\ ranOut = FALSE /\ before = 0 /\ replaced = 0

(***************************************************************************)
(* The calls.  The constructor connects and then calls metadata(); if it   *)
(* cannot connect it says so to no one.                                    *)
(***************************************************************************)
ConnectFails ==
  /\ pc = "new"
  /\ pc' = "idle"
  /\ UNCHANGED <<m_frameCache, ec, m_buffer, network, size, host, past, before, replaced>>

BeginWith(what, error) ==
  /\ call' = what
  /\ calls' = calls + 1
  /\ pc' = "calling"
  /\ ec' = error
  /\ m_buffer' = Nothing
(* The bug this would be: an error stays from one call to the next. *)
Begin_keepError(what) == BeginWith(what, ec)
Begin(what) == BeginWith(what, FALSE)

Connect ==
  /\ pc = "new" /\ calls < MaxCalls
  /\ Begin("constructor")
  /\ link' = "open"
  /\ linkAtCall' = "open"
  /\ UNCHANGED <<m_frameCache, toServer, toClient, size, result, ranOut, before, replaced>>

Call(what) ==
  /\ pc = "idle" /\ calls < MaxCalls
  /\ Begin(what)
  /\ linkAtCall' = link
  /\ before' = IF what = "frame" THEN replaced ELSE before
  /\ UNCHANGED <<m_frameCache, network, size, result, ranOut, replaced>>

(***************************************************************************)
(* response(): a system_error sets ec, another exception leaves it clear.  *)
(***************************************************************************)
Request == IF call = "constructor" THEN "metadata" ELSE call

Write ==
  /\ pc = "calling"
  /\ pc' = "reading"
  /\ toServer' = IF link = "open" THEN Append(toServer, [to |-> calls, request |-> Request])
                 ELSE toServer
  /\ UNCHANGED <<m_frameCache, ec, m_buffer, link, toClient, size, host, past, before, replaced>>

WriteFails ==
  /\ pc = "calling" /\ link # "open"
  /\ pc' = "received"
  /\ ec' = TRUE
  /\ UNCHANGED <<m_frameCache, m_buffer, network, size, host, past, before, replaced>>

ReadTo(rest) ==
  /\ pc = "reading" /\ toClient # <<>>
  /\ m_buffer' = Head(toClient)
  /\ toClient' = rest
  /\ pc' = "received"
  /\ UNCHANGED <<m_frameCache, ec, link, toServer, size, host, past, before, replaced>>
(* The bug this would be: the message is looked at and left in the stream. *)
Read_leave == ReadTo(toClient)
Read == ReadTo(Tail(toClient))

FailsReadIf(lost, error) ==
  /\ pc = "reading" /\ toClient = <<>> /\ lost
  /\ pc' = "received"
  /\ ec' = error
  /\ UNCHANGED <<m_frameCache, m_buffer, network, size, host, past, before, replaced>>
(* The bug this would be: an error of read() is not reported. *)
ReadFails_silent == FailsReadIf(link # "open", FALSE)
(* The bug this would be: the end of the connection is not noticed. *)
ReadFails_never == FailsReadIf(FALSE, TRUE)
ReadFails == FailsReadIf(link # "open", TRUE)

(* Before the request is written; or when the message has to be stored,    *)
(* and then it, or the rest of it, is left to the next read().             *)
RunsOutOfMemory ==
  /\ pc = "calling" \/ (pc = "reading" /\ toClient # <<>>)
  /\ pc' = "received"
  /\ ranOut' = TRUE
  /\ UNCHANGED <<m_frameCache, ec, m_buffer, network, size, host, calls, linkAtCall,
                 before, replaced>>

(***************************************************************************)
(* The calls return.                                                       *)
(***************************************************************************)
ReturnsFrom(where) ==
  /\ pc = where
  /\ pc' = "idle"
  /\ UNCHANGED <<ec, m_buffer, network, size, call, past, before, replaced>>
Returns == ReturnsFrom("received")

(* What metadata() makes of the message, and of its "format", which it     *)
(* keeps even if the rest of the message is malformed.                     *)
IsMetadata == ~ec /\ m_buffer.kind \in {"metadata", "format"}
Parsed == IF IsMetadata THEN m_buffer.size ELSE NoDims
Format == m_frameCache.format \/ (~ec /\ m_buffer.kind \in {"format", "formatOnly"})

(* Only the constructor keeps the size it is told. *)
ConstructorReturns ==
  /\ call = "constructor" /\ Returns
  /\ m_frameCache' = [m_frameCache EXCEPT !.format = Format, !.metadata = Parsed]
  /\ UNCHANGED result

MetadataReturns ==
  /\ call = "metadata" /\ Returns
  /\ m_frameCache' = [m_frameCache EXCEPT !.format = Format]
  /\ UNCHANGED result

FailsWith(outcome) ==
  /\ call = "frame" /\ Returns
  /\ ec \/ m_frameCache.format
  /\ result' = outcome
  /\ UNCHANGED m_frameCache
(* The bug this would be: an error of response() is not passed on. *)
NextFrameFails_silent == FailsWith(IF ec THEN "success" ELSE "pixelFormatNotSupported")
NextFrameFails == FailsWith(IF ec THEN "error" ELSE "pixelFormatNotSupported")

(* Whatever the message is, its bytes become the frame. *)
StoreFrame ==
  /\ call = "frame" /\ pc = "received"
  /\ ~ec /\ ~m_frameCache.format
  /\ m_frameCache' = [m_frameCache EXCEPT !.data = m_buffer]
  /\ replaced' = replaced + 1
  /\ pc' = "stored"
  /\ UNCHANGED <<ec, m_buffer, network, size, host, past, before>>

NextFrameSucceeds ==
  /\ call = "frame" /\ ReturnsFrom("stored")
  /\ result' = "success"
  /\ UNCHANGED m_frameCache

(* The reply to "execute" or "result" is not looked at. *)
OtherReturns ==
  /\ call \in {"execute", "result"} /\ Returns
  /\ UNCHANGED <<m_frameCache, result>>

(***************************************************************************)
(* The server and the connection: external.                                *)
(***************************************************************************)
Answers(request) ==
  IF request = "metadata" THEN Metadata
  ELSE IF request = "frame" THEN {"frame"} ELSE {"reply"}

ServerAnswers ==
  /\ link = "open" /\ toServer # <<>>
  /\ \E k \in Answers(Head(toServer).request) :
       toClient' = Append(toClient, Message(Head(toServer).to, k, size))
  /\ toServer' = Tail(toServer)
  /\ UNCHANGED <<m_frameCache, client, link, size, host, past, before, replaced>>

ServerResizes ==
  /\ \E d \in Dims : d # size /\ size' = d
  /\ UNCHANGED <<m_frameCache, client, network, host, past, before, replaced>>

LinkBreaks ==
  /\ link = "open"
  /\ link' = "broken"
  /\ toServer' = <<>>
  /\ toClient' = toClient \/ toClient' = <<>>
  /\ UNCHANGED <<m_frameCache, client, size, host, past, before, replaced>>

ClientStep ==
  \/ Write \/ WriteFails \/ Read \/ ReadFails \/ RunsOutOfMemory
  \/ ConstructorReturns \/ MetadataReturns \/ NextFrameFails \/ StoreFrame
  \/ NextFrameSucceeds \/ OtherReturns

Next ==
  \/ Connect \/ ConnectFails \/ \E r \in Requests : Call(r)
  \/ ClientStep
  \/ ServerAnswers \/ ServerResizes \/ LinkBreaks

Spec == Init /\ [][Next]_vars

(* The client's thread runs, and the server answers what it has received.  *)
ClientRuns == WF_vars(ClientStep)
ServerRuns == WF_vars(ServerAnswers)

FairSpec == Spec /\ ClientRuns /\ ServerRuns

(***************************************************************************)
(* Properties.                                                             *)
(***************************************************************************)
Messages == [to : Nat, kind : Kinds, size : Sizes]
Asked == [to : Nat, request : Requests]

ClientTypeOK ==
  /\ m_frameCache \in [format : BOOLEAN, metadata : Sizes, data : Messages]
  /\ pc \in {"new", "idle", "calling", "reading", "received", "stored"}
  /\ ec \in BOOLEAN /\ m_buffer \in Messages

NetworkTypeOK ==
  /\ link \in {"none", "open", "broken"} /\ linkAtCall \in {"none", "open", "broken"}
  /\ toServer \in Seq(Asked) /\ toClient \in Seq(Messages)
  /\ size \in Dims

HostTypeOK ==
  /\ call \in Requests \union {"none", "constructor"}
  /\ result \in {"none", "success", "error", "pixelFormatNotSupported"}

CountsTypeOK ==
  /\ calls \in 0 .. MaxCalls /\ before \in Nat /\ replaced \in Nat
  /\ ranOut \in BOOLEAN

(* The type of the state; a call is under way only if there was one, and   *)
(* has neither message nor error before response() returns.                *)
TypeOK ==
  /\ ClientTypeOK /\ NetworkTypeOK /\ HostTypeOK /\ CountsTypeOK
  /\ pc \in {"calling", "reading"} => ~ec /\ m_buffer = Nothing
  /\ pc = "new" => call = "none"
  /\ pc \notin {"new", "idle"} => call # "none"

(* Until an allocation fails, the client and the server stay in step: at   *)
(* most one message is under way, it belongs to the call that runs, and    *)
(* what comes back answers what was asked.                                 *)
InStep ==
  ~ranOut =>
    /\ toServer # <<>> =>
         /\ link = "open" /\ pc = "reading" /\ toClient = <<>>
         /\ toServer = <<[to |-> calls, request |-> Request]>>
    /\ toClient # <<>> =>
         /\ pc = "reading"
         /\ \E k \in Answers(Request), d \in Dims : toClient = <<Message(calls, k, d)>>

(* What a call finds when response() has returned.                         *)
ReceivedInv ==
  /\ pc = "received" /\ ~ec =>
       m_buffer.to = calls /\ m_buffer.kind \in Answers(Request)
  /\ pc = "stored" => call = "frame" /\ ~ec /\ m_frameCache.data = m_buffer
  /\ pc = "stored" => m_buffer.to = calls /\ m_buffer.kind = "frame"

(* A call that began without a connection has an error, or will have one.  *)
LostInv ==
  linkAtCall # "open" /\ pc \notin {"new", "idle"} =>
    /\ link # "open" /\ toClient = <<>> /\ pc # "stored"
    /\ pc = "received" => ec

(* A nextFrame() that reports success has a frame, the one it asked for,   *)
(* until an allocation fails.                                              *)
SuccessHasFrame ==
  ~ranOut /\ pc = "idle" /\ call = "frame" /\ result = "success" =>
    m_frameCache.data.kind = "frame" /\ m_frameCache.data.to = calls

(* A nextFrame() over a connection that was never made, or is lost,        *)
(* reports an error, and so does every later one, until an allocation      *)
(* fails.                                                                  *)
BrokenIsReported ==
  ~ranOut /\ pc = "idle" /\ call = "frame" /\ linkAtCall # "open" => result = "error"

(* The conjunction that every step preserves.                              *)
IInv ==
  /\ TypeOK /\ InStep /\ SuccessHasFrame /\ BrokenIsReported
  /\ ~ranOut => ReceivedInv /\ LostInv

(* The data are replaced only during nextFrame(), at most once, and        *)
(* nextFrame() reports success exactly when they were.                     *)
F == INSTANCE FrameSource WITH
       calling <- pc # "idle" /\ call = "frame",
       image <- replaced,
       result <- IF result \in {"none", "success"} THEN result ELSE "failure"
ImplementsFrameSource == F!Spec

(* Every call returns, if the server answers or the connection breaks.     *)
CallReturns == pc = "calling" ~> pc = "idle"

(* Where the client's thread has what its next step needs, and where the   *)
(* server does.                                                            *)
ClientRunnable ==
  \/ pc = "calling"
  \/ pc = "reading" /\ (toClient # <<>> \/ link # "open")
  \/ pc = "received" /\ call # "none"
  \/ pc = "stored" /\ call = "frame"
ServerRunnable == link = "open" /\ toServer # <<>> /\ Metadata # {}

(* There they can take a step, whatever the message is, or says. *)
RunnableIsEnabled ==
  /\ ClientRunnable => ENABLED <<ClientStep>>_vars
  /\ ServerRunnable => ENABLED <<ServerAnswers>>_vars
=============================================================================
