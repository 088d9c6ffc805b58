--------------------------- MODULE WebSocketServer ---------------------------
(***************************************************************************)
(* plugins/websocket/servers: Server and IOServer.  One thread accepts     *)
(* connections and hands each, through one local variable, to a thread of  *)
(* its own, which answers the requests of its client one by one.  The      *)
(* thread that accepts starts before the constructor has filled the table  *)
(* of handlers.  The clients are external: one asks, then waits for the    *)
(* answer, and may leave at any time.  The thread started for a connection *)
(* knows local variables of run() by reference, and may find them          *)
(* destroyed when the server stops.                                        *)
(***************************************************************************)
EXTENDS Integers, Sequences

CONSTANTS
  Clients,  \* each connects at most once
  Asks,     \* what each asks for
  Values    \* how many values a std::uint8_t has (256 in the code)

(* The requests of the plugin's protocol, and those IOServer handles. *)
Requests == {"metadata", "frame", "result", "execute"}
requestHandlers == <<"metadata", "frame", "result">>

ASSUME ServerAssumption ==
  Asks \in [Clients -> SUBSET Requests] /\ Values \in Nat \ {0, 1} /\ "none" \notin Clients

VARIABLES
  (* the server *)
  life,             \* "constructing", "constructed", "stopping", "destroyed" or "crashed"
  emplaced,         \* how many handlers are in m_requestHandlers
  m_running,
  init,             \* the static variable of handleFrame()
  (* run(), its thread and its local variables *)
  runPC,            \* "looping", "waiting", "accepting" or "returned"
  socket,           \* the connection it views, or NoClient
  detachingThread,
  (* the thread started for each accepted connection *)
  thread,           \* its program counter
  assignedSocket,   \* the connection it has taken
  handling,         \* the request it handles
  loaded,           \* what it has read from init
  (* the clients *)
  peer,             \* "away", "connecting", "idle", "asked", "cut" or "gone"
  request,          \* the one it waits for
  last, repeated,   \* the last frame it received; was it the same as the one before?
  early             \* did it ask before the constructor returned?

run == <<runPC, socket, detachingThread>>
sessions == <<thread, assignedSocket, handling, loaded>>
clients == <<peer, request, last, repeated, early>>
vars == <<life, emplaced, m_running, init, run, sessions, clients>>

NoClient == "none"
NoFrame == -1

(* The keys of m_requestHandlers. *)
(* The bug this would be: the first handler is left out. *)
Handled_butFirst == {requestHandlers[i] : i \in 2 .. emplaced}
Handled == {requestHandlers[i] : i \in 1 .. emplaced}

Init ==
  /\ life = "constructing" /\ emplaced = 0 /\ m_running = TRUE /\ init = 0
  /\ runPC = "looping" /\ socket = NoClient /\ detachingThread = FALSE
  /\ thread = [c \in Clients |-> "none"]
  /\ assignedSocket = [c \in Clients |-> NoClient]
  /\ handling = [c \in Clients |-> "none"]
  /\ loaded = [c \in Clients |-> 0]
  /\ peer = [c \in Clients |-> "away"]
  /\ request = [c \in Clients |-> "none"]
  /\ last = [c \in Clients |-> NoFrame]
  /\ repeated = [c \in Clients |-> FALSE]
  /\ early = [c \in Clients |-> FALSE]

Alive == life \notin {"destroyed", "crashed"}

(***************************************************************************)
(* Construction and destruction.                                           *)
(***************************************************************************)
Emplace ==
  /\ life = "constructing" /\ emplaced < Len(requestHandlers)
  /\ emplaced' = emplaced + 1
  /\ UNCHANGED <<life, m_running, init, run, sessions, clients>>

(* Only now has IOServer set m_metadata. *)
Constructed ==
  /\ life = "constructing" /\ emplaced = Len(requestHandlers)
  /\ life' = "constructed"
  /\ UNCHANGED <<emplaced, m_running, init, run, sessions, clients>>

Stop ==
  /\ life = "constructed"
  /\ life' = "stopping"
  /\ m_running' = FALSE
  /\ UNCHANGED <<emplaced, init, run, sessions, clients>>

(* m_sessions is empty, no session is joined; m_thread is detached.  What  *)
(* these threads then do with the destroyed server is not modelled.        *)
Destroy ==
  /\ life = "stopping"
  /\ life' = "destroyed"
  /\ UNCHANGED <<emplaced, m_running, init, run, sessions, clients>>

(***************************************************************************)
(* run().                                                                  *)
(***************************************************************************)
RunLoops ==
  /\ Alive /\ runPC = "looping" /\ m_running
  /\ runPC' = "waiting"
  /\ UNCHANGED <<life, emplaced, m_running, init, socket, detachingThread, sessions, clients>>

(* A connection ends when its socket is destroyed. *)
Cut(c) == peer' = [peer EXCEPT ![c] = IF peer[c] = "gone" THEN "gone" ELSE "cut"]

(* socket and detachingThread are destroyed, the connection that no thread *)
(* has taken yet with them.                                                *)
RunReturns ==
  /\ Alive /\ runPC = "looping" /\ ~m_running
  /\ runPC' = "returned"
  /\ socket' = NoClient
  /\ IF socket = NoClient THEN UNCHANGED peer ELSE Cut(socket)
  /\ UNCHANGED <<life, emplaced, m_running, init, detachingThread, sessions,
                 request, last, repeated, early>>

(* The new socket replaces the old one. *)
NewSocketIf(allowed) ==
  /\ Alive /\ runPC = "waiting" /\ allowed
  /\ socket' = NoClient
  /\ runPC' = "accepting"
  /\ UNCHANGED <<life, emplaced, m_running, init, detachingThread, sessions, clients>>
(* The bug this would be: nobody waits for the new thread to take the socket. *)
NewSocket_noWait == NewSocketIf(TRUE)
NewSocket == NewSocketIf(~detachingThread)

Accept(c) ==
  /\ Alive /\ runPC = "accepting"
  /\ peer[c] \in {"connecting", "gone"} /\ thread[c] = "none"
  /\ socket' = c
  /\ detachingThread' = TRUE
  /\ thread' = [thread EXCEPT ![c] = "started"]
  /\ runPC' = "looping"
  /\ UNCHANGED <<life, emplaced, m_running, init, assignedSocket, handling, loaded, clients>>

(***************************************************************************)
(* The thread of a connection, t: it takes the socket, which it knows by   *)
(* reference only, says so, and runs session().                            *)
(***************************************************************************)
TakeSocket(t) ==
  /\ Alive /\ thread[t] = "started" /\ runPC # "returned"
  /\ assignedSocket' = [assignedSocket EXCEPT ![t] = socket]
  /\ socket' = NoClient
  /\ thread' = [thread EXCEPT ![t] = "detaching"]
  /\ UNCHANGED <<life, emplaced, m_running, init, runPC, detachingThread, handling, loaded,
                 clients>>

Detaches(t, flag) ==
  /\ Alive /\ thread[t] = "detaching" /\ runPC # "returned"
  /\ detachingThread' = flag
  /\ thread' = [thread EXCEPT ![t] = "opening"]
  /\ UNCHANGED <<life, emplaced, m_running, init, runPC, socket, assignedSocket, handling,
                 loaded, clients>>
(* The bug this would be: the flag is not reset. *)
Detached_keepFlag(t) == Detaches(t, detachingThread)
Detached(t) == Detaches(t, FALSE)

(* After run() has returned these two steps use variables that are         *)
(* destroyed, which is undefined: the process ends, or the thread goes on. *)
(* The destroyed pointer is null, or leads to a socket that was closed:    *)
(* from it the thread takes no connection.  What its write to              *)
(* detachingThread may damage is not followed.                             *)
UsesDestroyed(t) ==
  /\ Alive /\ runPC = "returned"
  /\ \/ /\ thread[t] \in {"started", "detaching"}
        /\ life' = "crashed"
        /\ UNCHANGED thread
     \/ \E step \in {<<"started", "detaching">>, <<"detaching", "opening">>} :
          /\ thread[t] = step[1]
          /\ thread' = [thread EXCEPT ![t] = step[2]]
          /\ UNCHANGED life
  /\ UNCHANGED <<emplaced, m_running, init, run, assignedSocket, handling, loaded, clients>>

Client(t) == assignedSocket[t]

(* accept() throws: the socket that session() was given is not open. *)
OpensNothing(t) ==
  /\ Alive /\ thread[t] = "opening" /\ Client(t) = NoClient
  /\ thread' = [thread EXCEPT ![t] = "ended"]
  /\ UNCHANGED <<life, emplaced, m_running, init, run, assignedSocket, handling, loaded, clients>>

(* A step of session() from one place to another, init left alone. *)
Session(t, from, to) ==
  /\ Alive /\ thread[t] = from /\ Client(t) # NoClient
  /\ thread' = [thread EXCEPT ![t] = to]
  /\ UNCHANGED <<life, emplaced, m_running, run, assignedSocket>>

Handshake(t) ==
  /\ Session(t, "opening", "looping")
  /\ peer[Client(t)] = "connecting"
  /\ peer' = [peer EXCEPT ![Client(t)] = "idle"]
  /\ UNCHANGED <<init, handling, loaded, request, last, repeated, early>>

SessionLoops(t) ==
  /\ Session(t, "looping", "reading")
  /\ m_running
  /\ UNCHANGED <<init, handling, loaded, clients>>

(* The stream is destroyed with the session. *)
SessionStops(t) ==
  /\ Session(t, "looping", "ended")
  /\ ~m_running
  /\ Cut(Client(t))
  /\ UNCHANGED <<init, handling, loaded, request, last, repeated, early>>

(* A system_error, from accept(), read() or write(), ends the session. *)
PeerIsGone(t) ==
  /\ \E pc \in {"opening", "reading", "writing"} : Session(t, pc, "ended")
  /\ peer[Client(t)] = "gone"
  /\ UNCHANGED <<init, handling, loaded, clients>>

Read(t) ==
  /\ Session(t, "reading", "handling")
  /\ request[Client(t)] \in Handled
  /\ handling' = [handling EXCEPT ![t] = request[Client(t)]]
  /\ UNCHANGED <<init, loaded, clients>>

(* at() throws, which ends the session.  While the constructor adds to the *)
(* table, a handler that is there may be missed (a data race).             *)
ReadUnknownTo(t, pc) ==
  /\ Session(t, "reading", pc)
  /\ request[Client(t)] # "none"
  /\ request[Client(t)] \in Handled => life = "constructing"
  /\ IF pc = "ended" THEN Cut(Client(t)) ELSE UNCHANGED peer
  /\ UNCHANGED <<init, handling, loaded, request, last, repeated, early>>
(* The bug this would be: an unknown request is skipped. *)
ReadUnknown_skip(t) == ReadUnknownTo(t, "looping")
ReadUnknown(t) == ReadUnknownTo(t, "ended")

(* The handlers.  Before m_metadata is set, handleMetadata() and           *)
(* handleFrame() read garbage, and may fail for lack of memory.            *)
HandlerThrows(t) ==
  /\ Session(t, "handling", "ended")
  /\ life = "constructing" /\ handling[t] # "result"
  /\ Cut(Client(t))
  /\ UNCHANGED <<init, handling, loaded, request, last, repeated, early>>

HandleOther(t) ==
  /\ Session(t, "handling", "writing")
  /\ handling[t] # "frame"
  /\ UNCHANGED <<init, handling, loaded, clients>>

(* ++init: sessions read and write it without a lock. *)
LoadInit(t) ==
  /\ Session(t, "handling", "adding")
  /\ handling[t] = "frame"
  /\ loaded' = [loaded EXCEPT ![t] = init]
  /\ UNCHANGED <<init, handling, clients>>

Stores(t, value) ==
  /\ Session(t, "adding", "writing")
  /\ init' = value
  /\ loaded' = [loaded EXCEPT ![t] = value]
  /\ UNCHANGED <<handling, clients>>
(* The bug this would be: init is not kept from one frame to the next. *)
StoreInit_forget(t) == Stores(t, 1)
StoreInit(t) == Stores(t, (loaded[t] + 1) % Values)

(* One message answers each request. *)
Write(t) ==
  /\ Session(t, "writing", "looping")
  /\ peer[Client(t)] = "asked"
  /\ peer' = [peer EXCEPT ![Client(t)] = "idle"]
  /\ IF handling[t] = "frame"
     THEN /\ last' = [last EXCEPT ![Client(t)] = loaded[t]]
          /\ repeated' = [repeated EXCEPT ![Client(t)] = last[Client(t)] = loaded[t]]
     ELSE UNCHANGED <<last, repeated>>
  /\ request' = [request EXCEPT ![Client(t)] = "none"]
  /\ early' = [early EXCEPT ![Client(t)] = FALSE]
  /\ handling' = [handling EXCEPT ![t] = "none"]
  /\ loaded' = [loaded EXCEPT ![t] = 0]
  /\ UNCHANGED init

(***************************************************************************)
(* The clients: external.                                                  *)
(***************************************************************************)
Peer(c, from, to) ==
  /\ peer[c] = from
  /\ peer' = [peer EXCEPT ![c] = to]
  /\ UNCHANGED <<life, emplaced, m_running, init, run, sessions, last, repeated>>

Arrive(c) == Alive /\ Peer(c, "away", "connecting") /\ UNCHANGED <<request, early>>

Ask(c, r) ==
  /\ Peer(c, "idle", "asked") /\ r \in Asks[c]
  /\ request' = [request EXCEPT ![c] = r]
  /\ early' = [early EXCEPT ![c] = life = "constructing"]

Leave(c) ==
  /\ \E from \in {"connecting", "idle", "asked", "cut"} : Peer(c, from, "gone")
  /\ UNCHANGED <<request, early>>

RunStep == RunLoops \/ RunReturns \/ NewSocket \/ \E c \in Clients : Accept(c)
ThreadStep(t) ==
  \/ TakeSocket(t) \/ Detached(t) \/ UsesDestroyed(t) \/ OpensNothing(t)
  \/ Handshake(t) \/ SessionLoops(t) \/ SessionStops(t) \/ PeerIsGone(t)
  \/ Read(t) \/ ReadUnknown(t) \/ HandlerThrows(t) \/ HandleOther(t)
  \/ LoadInit(t) \/ StoreInit(t) \/ Write(t)

Next ==
  \/ Emplace \/ Constructed \/ Stop \/ Destroy
  \/ RunStep
  \/ \E t \in Clients : ThreadStep(t)
  \/ \E c \in Clients : Arrive(c) \/ Leave(c) \/ \E r \in Requests : Ask(c, r)

Spec == Init /\ [][Next]_vars

(* The threads are scheduled; nobody has to ask, to leave or to stop.      *)
ConstructorRuns == WF_vars(Emplace) /\ WF_vars(Constructed)
AcceptingRuns == WF_vars(RunStep)
SessionRuns(t) == WF_vars(ThreadStep(t))

FairSpec ==
  Spec /\ ConstructorRuns /\ AcceptingRuns /\ \A t \in Clients : SessionRuns(t)

(***************************************************************************)
(* Properties.                                                             *)
(***************************************************************************)
ServerTypeOK ==
  /\ life \in {"constructing", "constructed", "stopping", "destroyed", "crashed"}
  /\ emplaced \in 0 .. Len(requestHandlers)
  /\ m_running \in BOOLEAN
  /\ init \in 0 .. Values - 1

RunTypeOK ==
  /\ runPC \in {"looping", "waiting", "accepting", "returned"}
  /\ socket \in Clients \union {NoClient}
  /\ detachingThread \in BOOLEAN

SessionsTypeOK ==
  /\ thread \in [Clients -> {"none", "started", "detaching", "opening", "looping", "reading",
                             "handling", "adding", "writing", "ended"}]
  /\ assignedSocket \in [Clients -> Clients \union {NoClient}]
  /\ handling \in [Clients -> Requests \union {"none"}]
  /\ loaded \in [Clients -> 0 .. Values - 1]

ClientsTypeOK ==
  /\ peer \in [Clients -> {"away", "connecting", "idle", "asked", "cut", "gone"}]
  /\ request \in [Clients -> Requests \union {"none"}]
  /\ last \in [Clients -> {NoFrame} \union 0 .. Values - 1]
  /\ repeated \in [Clients -> BOOLEAN]
  /\ early \in [Clients -> BOOLEAN]

(* The type of the state. *)
TypeOK == ServerTypeOK /\ RunTypeOK /\ SessionsTypeOK /\ ClientsTypeOK

(* While run() is in its loop, each thread has, or will take, the          *)
(* connection it was started for.  One that run() left behind when it      *)
(* returned may have none; it never has another one's.                     *)
LeftBehind(t) ==
  /\ runPC = "returned" /\ assignedSocket[t] = NoClient
  /\ thread[t] \in {"detaching", "opening", "ended"}
OwnConnection ==
  \A t \in Clients :
    /\ thread[t] = "started" => socket = t \/ runPC = "returned"
    /\ thread[t] \notin {"none", "started"} => assignedSocket[t] = t \/ LeftBehind(t)

(* A socket that no thread has taken yet belongs to the thread started     *)
(* last; once run() has returned, its connection has ended.                *)
SocketInv ==
  /\ runPC = "returned" => socket = NoClient
  /\ \A t \in Clients :
      /\ thread[t] \in {"none", "started"} => assignedSocket[t] = NoClient
      /\ socket = t => thread[t] = "started"
      /\ runPC = "returned" /\ thread[t] # "none" /\ assignedSocket[t] = NoClient
           => peer[t] \in {"cut", "gone"}

(* While a thread has not said that it has taken the socket, it is the     *)
(* only one, and run() does not go on to the next connection.              *)
InHand == {t \in Clients : thread[t] \in {"started", "detaching"}}
HandoffInv ==
  /\ InHand # {} => detachingThread /\ runPC # "accepting"
  /\ \A t, u \in InHand : t = u
  /\ runPC = "accepting" => ~detachingThread

(* A session works on the request its client waits for.                    *)
AnswerInv ==
  \A t \in Clients :
    /\ thread[t] \in {"none", "started", "detaching", "opening"}
         => \/ peer[t] \in {"away", "connecting", "gone"}
            \/ (peer[t] = "cut" /\ thread[t] # "none" /\ assignedSocket[t] = NoClient)
    /\ thread[t] \in {"handling", "adding", "writing"}
         => peer[t] \in {"asked", "gone"} /\ handling[t] = request[t] /\ request[t] # "none"
    /\ request[t] # "none"
         => /\ peer[t] \in {"asked", "cut", "gone"}
            /\ life = "constructing" => early[t]
    /\ peer[t] = "cut"
         => thread[t] = "ended" \/ (runPC = "returned" /\ assignedSocket[t] = NoClient)

(* The server ends a connection, unless it stops, only after a request     *)
(* that it does not handle, or one that came before it was constructed.    *)
CutIsDeserved ==
  \A c \in Clients :
    peer[c] = "cut" => ~m_running \/ early[c] \/ request[c] = "execute"

LifeInv ==
  /\ life # "constructing" => emplaced = Len(requestHandlers)
  /\ life = "constructing" => m_running
  /\ runPC = "returned" => ~m_running

(* The conjunction that every step preserves. *)
IInv ==
  /\ TypeOK /\ OwnConnection /\ HandoffInv /\ SocketInv /\ AnswerInv /\ LifeInv
  /\ CutIsDeserved

(* No other client has come. *)
Only(c) == \A d \in Clients : d # c => peer[d] = "away"

(* Two frames that a client receives in a row are never the same, as long  *)
(* as no other client has come.                                            *)
FramesDiffer == \A c \in Clients : Only(c) => ~repeated[c]

(* Whoever connects gets a session, whatever the other clients do.         *)
ConnectedIsServed ==
  \A c \in Clients : peer[c] = "connecting" ~> peer[c] # "connecting" \/ ~m_running

(* Whoever asks gets an answer or the end of the connection.               *)
AskedIsAnswered ==
  \A c \in Clients : peer[c] = "asked" ~> peer[c] # "asked" \/ ~Alive

(* Where the thread of a session has what its next step needs. *)
Runnable(t) ==
  /\ Alive /\ Client(t) # NoClient
  /\ \/ thread[t] \in {"looping", "handling", "adding"}
     \/ thread[t] = "reading" /\ request[Client(t)] # "none"
     \/ thread[t] = "writing" /\ peer[Client(t)] = "asked"

(* There it can take a step: one of its actions is enabled, whatever it    *)
(* reads, handles or finds the others to have done.                        *)
NotStuck(t) == Runnable(t) => ENABLED <<ThreadStep(t)>>_vars
RunnableIsEnabled == \A t \in Clients : NotStuck(t)
=============================================================================
