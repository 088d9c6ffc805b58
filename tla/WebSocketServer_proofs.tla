----------------------- MODULE WebSocketServer_proofs -----------------------
(***************************************************************************)
(* Proofs about WebSocketServer, for any set of clients, whatever they ask *)
(* for.                                                                    *)
(***************************************************************************)
EXTENDS WebSocketServer, TLAPS

(* The steps of a session, grouped by what they change. *)
LifeStep == Emplace \/ Constructed \/ Stop \/ Destroy
Moves(t) == SessionLoops(t) \/ HandleOther(t) \/ PeerIsGone(t)
Cuts(t) == SessionStops(t) \/ ReadUnknown(t) \/ HandlerThrows(t)
AfterReturn(t) == UsesDestroyed(t) \/ OpensNothing(t)
ClientStep(c) == Arrive(c) \/ Leave(c) \/ \E r \in Requests : Ask(c, r)

LEMMA Cases ==
  ASSUME [Next]_vars
  PROVE  \/ LifeStep \/ RunLoops \/ NewSocket
         \/ \E c \in Clients : Accept(c) \/ TakeSocket(c) \/ Detached(c)
         \/ \E t \in Clients : Handshake(t) \/ Moves(t) \/ Cuts(t) \/ Read(t)
         \/ \E t \in Clients : LoadInit(t) \/ StoreInit(t) \/ Write(t)
         \/ RunReturns
         \/ \E t \in Clients : AfterReturn(t)
         \/ \E c \in Clients : ClientStep(c)
         \/ UNCHANGED vars
  BY DEF Next, RunStep, ThreadStep, LifeStep, Moves, Cuts, AfterReturn, ClientStep

(* What a step of a thread or of a client leaves alone. *)
LEMMA SessionFrame ==
  ASSUME NEW t, Handshake(t) \/ Moves(t) \/ Cuts(t) \/ Read(t) \/ LoadInit(t) \/ StoreInit(t) \/ Write(t)
  PROVE  UNCHANGED <<life, emplaced, m_running, runPC, socket, detachingThread, assignedSocket>>
  BY DEF Handshake, Moves, Cuts, Read, LoadInit, StoreInit, Stores, Write, SessionLoops,
         HandleOther, PeerIsGone, SessionStops, ReadUnknown, ReadUnknownTo, HandlerThrows,
         Session, run

LEMMA ClientFrame ==
  ASSUME NEW c, ClientStep(c)
  PROVE  UNCHANGED <<life, emplaced, m_running, init, runPC, socket, detachingThread, thread,
                     assignedSocket, handling, loaded, last, repeated>>
  BY DEF ClientStep, Arrive, Leave, Ask, Peer, run, sessions

(* What run() does when it returns. *)
LEMMA ReturnsFrame ==
  ASSUME RunReturns
  PROVE  /\ runPC = "looping" /\ runPC' = "returned" /\ socket' = NoClient /\ ~m_running
         /\ \/ socket = NoClient /\ peer' = peer
            \/ /\ socket # NoClient
               /\ peer' = [peer EXCEPT ![socket] = IF peer[socket] = "gone" THEN "gone" ELSE "cut"]
         /\ UNCHANGED <<life, emplaced, m_running, init, detachingThread, thread, assignedSocket,
                        handling, loaded, request, last, repeated, early>>
  BY DEF RunReturns, Cut, sessions

(* What a thread does that run() has left behind. *)
LEMMA AfterReturnFrame ==
  ASSUME NEW t, AfterReturn(t)
  PROVE  /\ UNCHANGED <<emplaced, m_running, init, runPC, socket, detachingThread, assignedSocket,
                        handling, loaded, peer, request, last, repeated, early>>
         /\ \/ /\ life' = "crashed" /\ thread' = thread /\ runPC = "returned"
            \/ /\ life' = life
               /\ \/ /\ runPC = "returned" /\ thread[t] = "started"
                     /\ thread' = [thread EXCEPT ![t] = "detaching"]
                  \/ /\ runPC = "returned" /\ thread[t] = "detaching"
                     /\ thread' = [thread EXCEPT ![t] = "opening"]
                  \/ /\ thread[t] = "opening" /\ assignedSocket[t] = NoClient
                     /\ thread' = [thread EXCEPT ![t] = "ended"]
<1>1. CASE UsesDestroyed(t)
  BY <1>1 DEF UsesDestroyed, run, clients
<1>2. CASE OpensNothing(t)
  BY <1>2 DEF OpensNothing, run, clients, Client
<1> QED
  BY <1>1, <1>2 DEF AfterReturn

(***************************************************************************)
(* Types.                                                                  *)
(***************************************************************************)
LEMMA HandlerCount == Len(requestHandlers) = 3
  BY DEF requestHandlers

LEMMA HandledAreThree ==
  ASSUME emplaced \in 0 .. 3
  PROVE  Handled \subseteq {"metadata", "frame", "result"}
<1>1. \A i \in 1 .. 3 : requestHandlers[i] \in {"metadata", "frame", "result"}
  BY DEF requestHandlers
<1> QED
  BY <1>1 DEF Handled

LEMMA TypeInit == Init => TypeOK
<1> SUFFICES ASSUME Init PROVE TypeOK
  OBVIOUS
<1>1. ServerTypeOK
  BY ServerAssumption, HandlerCount DEF Init, ServerTypeOK
<1>2. RunTypeOK
  BY DEF Init, RunTypeOK
<1>3. SessionsTypeOK
  BY ServerAssumption DEF Init, SessionsTypeOK
<1>4. ClientsTypeOK
  BY DEF Init, ClientsTypeOK
<1> QED
  BY <1>1, <1>2, <1>3, <1>4 DEF TypeOK

LEMMA ServerTypeStep == TypeOK /\ [Next]_vars => ServerTypeOK'
<1> SUFFICES ASSUME TypeOK, [Next]_vars PROVE ServerTypeOK'
  OBVIOUS
<1>1. ServerTypeOK
  BY DEF TypeOK
<1> USE DEF ServerTypeOK
<1>2. CASE LifeStep
  <2>1. emplaced' \in 0 .. 3
    BY <1>1, <1>2, HandlerCount DEF LifeStep, Emplace, Constructed, Stop, Destroy
  <2>2. init' = init /\ m_running' \in BOOLEAN
    BY <1>1, <1>2, Zenon DEF LifeStep, Emplace, Constructed, Stop, Destroy
  <2>3. life' \in {"constructing", "constructed", "stopping", "destroyed", "crashed"}
    BY <1>1, <1>2 DEF LifeStep, Emplace, Constructed, Stop, Destroy
  <2> QED
    BY <1>1, <2>1, <2>2, <2>3, HandlerCount
<1>3. ASSUME NEW t \in Clients, StoreInit(t) PROVE ServerTypeOK'
  <2>1. loaded[t] \in 0 .. Values - 1
    BY DEF TypeOK, SessionsTypeOK
  <2>2. (loaded[t] + 1) % Values \in 0 .. Values - 1
    BY <2>1, ServerAssumption
  <2>3. init' \in 0 .. Values - 1
    BY <1>3, <2>2 DEF StoreInit, Stores
  <2> QED
    BY <1>1, <1>3, <2>3, SessionFrame
<1>4. CASE RunLoops \/ NewSocket \/ \E c \in Clients : Accept(c) \/ TakeSocket(c) \/ Detached(c)
  BY <1>1, <1>4 DEF RunLoops, NewSocket, NewSocketIf, Accept, TakeSocket, Detached, Detaches
<1>5. ASSUME NEW t \in Clients,
             Handshake(t) \/ Moves(t) \/ Cuts(t) \/ Read(t) \/ LoadInit(t) \/ Write(t)
      PROVE  ServerTypeOK'
  <2>1. init' = init
    BY <1>5 DEF Handshake, Moves, Cuts, Read, LoadInit, Write, SessionLoops, HandleOther,
                PeerIsGone, SessionStops, ReadUnknown, ReadUnknownTo, HandlerThrows
  <2> QED
    BY <1>1, <1>5, <2>1, SessionFrame
<1>6. CASE \E c \in Clients : ClientStep(c)
  BY <1>1, <1>6, ClientFrame
<1>7. CASE RunReturns \/ \E t \in Clients : AfterReturn(t)
  BY <1>1, <1>7, ReturnsFrame, AfterReturnFrame
<1>8. CASE UNCHANGED vars
  BY <1>1, <1>8 DEF vars
<1> QED
  BY <1>2, <1>3, <1>4, <1>5, <1>6, <1>7, <1>8, Cases

LEMMA RunTypeStep == TypeOK /\ [Next]_vars => RunTypeOK'
<1> SUFFICES ASSUME TypeOK, [Next]_vars PROVE RunTypeOK'
  OBVIOUS
<1>1. RunTypeOK
  BY DEF TypeOK
<1> USE DEF RunTypeOK
<1>2. CASE LifeStep \/ UNCHANGED vars
  BY <1>1, <1>2 DEF LifeStep, Emplace, Constructed, Stop, Destroy, run, vars
<1>3. CASE RunLoops \/ NewSocket \/ \E c \in Clients : Accept(c) \/ TakeSocket(c) \/ Detached(c)
  BY <1>1, <1>3 DEF RunLoops, NewSocket, NewSocketIf, Accept, TakeSocket, Detached, Detaches
<1>4. CASE \E t \in Clients : Handshake(t) \/ Moves(t) \/ Cuts(t) \/ Read(t) \/ LoadInit(t)
                             \/ StoreInit(t) \/ Write(t)
  BY <1>1, <1>4, SessionFrame
<1>5. CASE RunReturns \/ \E t \in Clients : AfterReturn(t)
  BY <1>1, <1>5, ReturnsFrame, AfterReturnFrame
<1>6. CASE \E c \in Clients : ClientStep(c)
  BY <1>1, <1>6, ClientFrame
<1> QED
  BY <1>2, <1>3, <1>4, <1>5, <1>6, Cases

LEMMA SessionsTypeStep == TypeOK /\ [Next]_vars => SessionsTypeOK'
<1> SUFFICES ASSUME TypeOK, [Next]_vars PROVE SessionsTypeOK'
  OBVIOUS
<1>1. SessionsTypeOK /\ socket \in Clients \union {NoClient}
  BY DEF TypeOK, RunTypeOK
<1> USE DEF SessionsTypeOK
<1>2. CASE LifeStep \/ RunLoops \/ NewSocket \/ UNCHANGED vars
  BY <1>1, <1>2 DEF LifeStep, Emplace, Constructed, Stop, Destroy, RunLoops, NewSocket,
                    NewSocketIf, sessions, vars
<1>3. CASE \E c \in Clients : Accept(c) \/ TakeSocket(c) \/ Detached(c)
  BY <1>1, <1>3 DEF Accept, TakeSocket, Detached, Detaches
<1>4. ASSUME NEW t \in Clients, Handshake(t) \/ Moves(t) \/ Cuts(t)
      PROVE  SessionsTypeOK'
  BY <1>1, <1>4 DEF Handshake, Moves, Cuts, SessionLoops, HandleOther, PeerIsGone, SessionStops,
                    ReadUnknown, ReadUnknownTo, HandlerThrows, Session
<1>5. ASSUME NEW t \in Clients, Read(t) PROVE SessionsTypeOK'
  <2>1. request[Client(t)] \in Requests
    BY <1>5, HandlerCount, HandledAreThree DEF Read, TypeOK, ServerTypeOK, Requests
  <2> QED
    BY <1>1, <1>5, <2>1 DEF Read, Session
<1>6. ASSUME NEW t \in Clients, LoadInit(t) PROVE SessionsTypeOK'
  BY <1>1, <1>6 DEF LoadInit, Session, TypeOK, ServerTypeOK
<1>7. ASSUME NEW t \in Clients, StoreInit(t) PROVE SessionsTypeOK'
  <2>1. (loaded[t] + 1) % Values \in 0 .. Values - 1
    BY <1>1, ServerAssumption
  <2> QED
    BY <1>1, <1>7, <2>1 DEF StoreInit, Stores, Session
<1>8. ASSUME NEW t \in Clients, Write(t) PROVE SessionsTypeOK'
  BY <1>1, <1>8, ServerAssumption DEF Write, Session
<1>9. CASE \E c \in Clients : ClientStep(c)
  BY <1>1, <1>9, ClientFrame
<1>10. CASE RunReturns
  BY <1>1, <1>10, ReturnsFrame
<1>11. ASSUME NEW t \in Clients, AfterReturn(t) PROVE SessionsTypeOK'
  BY <1>1, <1>11, AfterReturnFrame
<1> QED
  BY <1>2, <1>3, <1>4, <1>5, <1>6, <1>7, <1>8, <1>9, <1>10, <1>11, Cases

LEMMA ClientsTypeStep == TypeOK /\ [Next]_vars => ClientsTypeOK'
<1> SUFFICES ASSUME TypeOK, [Next]_vars PROVE ClientsTypeOK'
  OBVIOUS
<1>1. ClientsTypeOK
  BY DEF TypeOK
<1> USE DEF ClientsTypeOK
<1>2. CASE LifeStep \/ RunLoops \/ NewSocket \/ UNCHANGED vars
  BY <1>1, <1>2 DEF LifeStep, Emplace, Constructed, Stop, Destroy, RunLoops, NewSocket,
                    NewSocketIf, clients, vars
<1>3. CASE \E c \in Clients : Accept(c) \/ TakeSocket(c) \/ Detached(c)
  BY <1>1, <1>3 DEF Accept, TakeSocket, Detached, Detaches, clients
<1>4. ASSUME NEW t \in Clients, Moves(t) \/ Read(t) \/ LoadInit(t) \/ StoreInit(t)
      PROVE  ClientsTypeOK'
  BY <1>1, <1>4 DEF Moves, SessionLoops, HandleOther, PeerIsGone, Read, LoadInit, StoreInit,
                    Stores, clients
<1>5. ASSUME NEW t \in Clients, Handshake(t) \/ Cuts(t) PROVE ClientsTypeOK'
  BY <1>1, <1>5 DEF Handshake, Cuts, SessionStops, ReadUnknown, ReadUnknownTo, HandlerThrows, Cut
<1>6. ASSUME NEW t \in Clients, Write(t) PROVE ClientsTypeOK'
  <2>1. loaded[t] \in 0 .. Values - 1
    BY DEF TypeOK, SessionsTypeOK
  <2> QED
    BY <1>1, <1>6, <2>1 DEF Write
<1>7. ASSUME NEW c \in Clients, ClientStep(c) PROVE ClientsTypeOK'
  <2>1. CASE Arrive(c) \/ Leave(c)
    BY <1>1, <2>1 DEF Arrive, Leave, Peer
  <2>2. ASSUME NEW r \in Requests, Ask(c, r) PROVE ClientsTypeOK'
    BY <1>1, <2>2 DEF Ask, Peer
  <2> QED
    BY <1>7, <2>1, <2>2 DEF ClientStep
<1>8. CASE RunReturns
  BY <1>1, <1>8, ReturnsFrame
<1>9. ASSUME NEW t \in Clients, AfterReturn(t) PROVE ClientsTypeOK'
  BY <1>1, <1>9, AfterReturnFrame
<1> QED
  BY <1>2, <1>3, <1>4, <1>5, <1>6, <1>7, <1>8, <1>9, Cases

LEMMA TypeStep == TypeOK /\ [Next]_vars => TypeOK'
  BY ServerTypeStep, RunTypeStep, SessionsTypeStep, ClientsTypeStep DEF TypeOK

(* The type invariant holds. *)
THEOREM TypeCorrect == Spec => []TypeOK
  BY TypeInit, TypeStep, PTL DEF Spec

(***************************************************************************)
(* The invariant.                                                          *)
(***************************************************************************)
(* A thread that runs a session has the connection it was started for. *)
LEMMA OwnClient ==
  ASSUME OwnConnection, NEW t \in Clients, thread[t] \notin {"none", "started"},
         Client(t) # NoClient \/ thread[t] \notin {"detaching", "opening", "ended"}
  PROVE  Client(t) = t
  BY DEF OwnConnection, LeftBehind, Client

Places == {"opening", "looping", "reading", "handling", "adding", "writing"}

LEMMA SessionMoves ==
  ASSUME NEW t \in Clients, SessionsTypeOK,
         Handshake(t) \/ Moves(t) \/ Cuts(t) \/ Read(t) \/ LoadInit(t) \/ StoreInit(t) \/ Write(t)
  PROVE  /\ thread[t] \in Places
         /\ \E pc \in (Places \ {"opening"}) \union {"ended"} :
              thread' = [thread EXCEPT ![t] = pc]
  BY DEF Handshake, Moves, Cuts, Read, LoadInit, StoreInit, Stores, Write, SessionLoops,
         HandleOther, PeerIsGone, SessionStops, ReadUnknown, ReadUnknownTo, HandlerThrows,
         Session, Places

LEMMA SessionOwns ==
  ASSUME NEW t \in Clients, OwnConnection, SessionsTypeOK,
         Handshake(t) \/ Moves(t) \/ Cuts(t) \/ Read(t) \/ LoadInit(t) \/ StoreInit(t) \/ Write(t)
  PROVE  Client(t) = t
<1>1. Client(t) # NoClient
  BY DEF Handshake, Moves, Cuts, Read, LoadInit, StoreInit, Stores, Write, SessionLoops,
         HandleOther, PeerIsGone, SessionStops, ReadUnknown, ReadUnknownTo, HandlerThrows, Session
<1>2. thread[t] \in Places
  BY SessionMoves
<1> QED
  BY <1>1, <1>2, OwnClient DEF Places

LEMMA HandoffStep ==
  ASSUME TypeOK, OwnConnection, HandoffInv, SocketInv, [Next]_vars
  PROVE  OwnConnection' /\ HandoffInv'
<1> USE DEF OwnConnection, LeftBehind, HandoffInv, InHand
<1>1. RunTypeOK /\ SessionsTypeOK
  BY DEF TypeOK
<1>2. CASE LifeStep \/ UNCHANGED vars
  BY <1>2 DEF LifeStep, Emplace, Constructed, Stop, Destroy, run, sessions, vars
<1>3. CASE RunLoops
  BY <1>3 DEF RunLoops, sessions
<1>4. CASE NewSocket
  <2>1. InHand = {} /\ ~detachingThread
    BY <1>4 DEF NewSocket, NewSocketIf
  <2> QED
    BY <1>4, <2>1 DEF NewSocket, NewSocketIf, sessions
<1>5. ASSUME NEW c \in Clients, Accept(c) PROVE OwnConnection' /\ HandoffInv'
  <2>1. InHand = {}
    BY <1>5 DEF Accept
  <2>2. thread' = [thread EXCEPT ![c] = "started"] /\ socket' = c /\ runPC' = "looping"
        /\ detachingThread' /\ assignedSocket' = assignedSocket /\ runPC # "returned"
    BY <1>5 DEF Accept
  <2> QED
    BY <1>1, <2>1, <2>2 DEF SessionsTypeOK
<1>6. ASSUME NEW t \in Clients, TakeSocket(t) PROVE OwnConnection' /\ HandoffInv'
  <2>1. /\ t \in InHand /\ socket = t
        /\ thread' = [thread EXCEPT ![t] = "detaching"]
        /\ assignedSocket' = [assignedSocket EXCEPT ![t] = t]
        /\ runPC # "returned" /\ UNCHANGED <<runPC, detachingThread>>
    BY <1>6 DEF TakeSocket
  <2> QED
    BY <1>1, <2>1 DEF SessionsTypeOK
<1>7. ASSUME NEW t \in Clients, Detached(t) PROVE OwnConnection' /\ HandoffInv'
  <2>1. /\ t \in InHand
        /\ thread' = [thread EXCEPT ![t] = "opening"]
        /\ UNCHANGED <<runPC, socket, assignedSocket>>
    BY <1>7 DEF Detached, Detaches
  <2>2. InHand' = {}
    BY <1>1, <2>1 DEF SessionsTypeOK
  <2>3. thread[t] = "detaching" /\ ~detachingThread'
    BY <1>7 DEF Detached, Detaches
  <2> QED
    BY <1>1, <2>1, <2>2, <2>3 DEF SessionsTypeOK
<1>8. ASSUME NEW t \in Clients,
             Handshake(t) \/ Moves(t) \/ Cuts(t) \/ Read(t) \/ LoadInit(t) \/ StoreInit(t) \/ Write(t)
      PROVE  OwnConnection' /\ HandoffInv'
  <2>1. PICK pc \in (Places \ {"opening"}) \union {"ended"} :
          thread' = [thread EXCEPT ![t] = pc]
    BY <1>1, <1>8, SessionMoves
  <2>2. thread[t] \in Places
    BY <1>1, <1>8, SessionMoves
  <2>3. assignedSocket[t] = t
    BY <1>1, <1>8, SessionOwns DEF Client
  <2> QED
    BY <1>1, <1>8, <2>1, <2>2, <2>3, SessionFrame DEF Places, SessionsTypeOK
<1>9. CASE \E c \in Clients : ClientStep(c)
  BY <1>9, ClientFrame
<1>10. CASE RunReturns
  BY <1>10, ReturnsFrame
<1>11. ASSUME NEW t \in Clients, AfterReturn(t) PROVE OwnConnection' /\ HandoffInv'
  <2>1. CASE thread' = thread
    BY <1>11, <2>1, AfterReturnFrame
  <2>2. CASE thread' # thread
    <3>1. PICK pc \in {"detaching", "opening", "ended"} :
            /\ thread' = [thread EXCEPT ![t] = pc]
            /\ pc = "detaching" => thread[t] = "started" /\ runPC = "returned"
            /\ pc = "opening" => thread[t] = "detaching" /\ runPC = "returned"
            /\ pc = "ended" => thread[t] = "opening"
      BY <1>11, <2>2, AfterReturnFrame
    <3>2. UNCHANGED <<runPC, socket, detachingThread, assignedSocket>>
      BY <1>11, AfterReturnFrame
    <3>3. OwnConnection'
      BY <1>1, <3>1, <3>2 DEF SocketInv, SessionsTypeOK
    <3>4. HandoffInv'
      BY <1>1, <3>1, <3>2 DEF SessionsTypeOK
    <3> QED
      BY <3>3, <3>4
  <2> QED
    BY <2>1, <2>2
<1> QED
  BY <1>2, <1>3, <1>4, <1>5, <1>6, <1>7, <1>8, <1>9, <1>10, <1>11, Cases

LEMMA SocketStep ==
  ASSUME TypeOK, OwnConnection, HandoffInv, SocketInv, [Next]_vars
  PROVE  SocketInv'
<1> USE DEF SocketInv
<1>1. SessionsTypeOK /\ ClientsTypeOK /\ RunTypeOK
  BY DEF TypeOK
<1>2. CASE LifeStep \/ RunLoops \/ UNCHANGED vars
  BY <1>2 DEF LifeStep, Emplace, Constructed, Stop, Destroy, RunLoops, run, sessions, clients, vars
<1>3. CASE NewSocket
  BY <1>3, ServerAssumption DEF NewSocket, NewSocketIf, sessions, clients, NoClient
<1>4. ASSUME NEW c \in Clients, Accept(c) PROVE SocketInv'
  BY <1>1, <1>4 DEF Accept, clients, SessionsTypeOK
<1>5. ASSUME NEW t \in Clients, TakeSocket(t) PROVE SocketInv'
  <2>1. t # NoClient /\ socket = t
    BY <1>5, ServerAssumption DEF TakeSocket, OwnConnection, NoClient
  <2>2. \A u \in Clients : u # NoClient
    BY ServerAssumption DEF NoClient
  <2>3. /\ runPC' # "returned" /\ socket' = NoClient
        /\ thread' = [thread EXCEPT ![t] = "detaching"]
        /\ assignedSocket' = [assignedSocket EXCEPT ![t] = socket]
    BY <1>5 DEF TakeSocket
  <2> QED
    BY <1>1, <2>2, <2>3 DEF SessionsTypeOK
<1>6. ASSUME NEW t \in Clients, Detached(t) PROVE SocketInv'
  BY <1>1, <1>6 DEF Detached, Detaches, clients, SessionsTypeOK
<1>7. CASE RunReturns
  <2>1. \A u \in Clients : u # NoClient
    BY ServerAssumption DEF NoClient
  <2>2. SUFFICES ASSUME NEW t \in Clients, thread[t] # "none", assignedSocket[t] = NoClient
                 PROVE  peer'[t] \in {"cut", "gone"}
    BY <1>7, <2>1, ReturnsFrame
  <2>3. socket = t
    BY <1>1, <1>7, <2>1, <2>2, ReturnsFrame DEF OwnConnection, LeftBehind
  <2> QED
    BY <1>1, <1>7, <2>1, <2>2, <2>3, ReturnsFrame DEF ClientsTypeOK
<1>8. ASSUME NEW t \in Clients, AfterReturn(t) PROVE SocketInv'
  <2>1. CASE thread' = thread
    BY <1>8, <2>1, AfterReturnFrame
  <2>2. CASE thread' # thread
    <3>1. socket # t
      BY <1>8, <2>2, AfterReturnFrame, ServerAssumption DEF NoClient
    <3> QED
      BY <1>1, <1>8, <2>2, <3>1, AfterReturnFrame DEF SessionsTypeOK
  <2> QED
    BY <2>1, <2>2
<1>9. ASSUME NEW t \in Clients,
             Handshake(t) \/ Moves(t) \/ Cuts(t) \/ Read(t) \/ LoadInit(t) \/ StoreInit(t) \/ Write(t)
      PROVE  SocketInv'
  <2>1. Client(t) = t /\ t # NoClient
    BY <1>1, <1>9, SessionOwns, ServerAssumption DEF NoClient
  <2>2. thread[t] \in Places /\ \E pc \in (Places \ {"opening"}) \union {"ended"} :
                                    thread' = [thread EXCEPT ![t] = pc]
    BY <1>1, <1>9, SessionMoves
  <2>3. \E to : peer' = [peer EXCEPT ![t] = to] \/ peer' = peer
    BY <1>9, <2>1 DEF Handshake, Moves, Cuts, Read, LoadInit, StoreInit, Stores, Write, SessionLoops,
         HandleOther, PeerIsGone, SessionStops, ReadUnknown, ReadUnknownTo, HandlerThrows, Cut, clients
  <2>4. UNCHANGED <<runPC, socket, assignedSocket>>
    BY <1>9, SessionFrame
  <2> QED
    BY <1>1, <2>1, <2>2, <2>3, <2>4 DEF Places, Client, SessionsTypeOK, ClientsTypeOK
<1>10. ASSUME NEW c \in Clients, ClientStep(c) PROVE SocketInv'
  <2>1. UNCHANGED <<runPC, socket, thread, assignedSocket>>
    BY <1>10, ClientFrame
  <2>2. \/ UNCHANGED peer
        \/ \E to : /\ peer' = [peer EXCEPT ![c] = to]
                   /\ to = "gone" \/ peer[c] \notin {"cut", "gone"}
    BY <1>10 DEF ClientStep, Arrive, Leave, Ask, Peer
  <2> QED
    BY <1>1, <2>1, <2>2 DEF ClientsTypeOK
<1> QED
  BY <1>2, <1>3, <1>4, <1>5, <1>6, <1>7, <1>8, <1>9, <1>10, Cases

LEMMA HandoffInit == Init => OwnConnection /\ HandoffInv /\ SocketInv
  BY ServerAssumption DEF Init, OwnConnection, HandoffInv, InHand, SocketInv, NoClient

(* Every thread serves the connection it was started for; one that run()   *)
(* left behind when it returned may serve none.                            *)
THEOREM ConnectionsAreOwn == Spec => []OwnConnection
<1>1. Init => OwnConnection /\ HandoffInv /\ SocketInv
  BY HandoffInit
<1>2. TypeOK /\ OwnConnection /\ HandoffInv /\ SocketInv /\ [Next]_vars
        => OwnConnection' /\ HandoffInv' /\ SocketInv'
  BY HandoffStep, SocketStep
<1> QED
  BY <1>1, <1>2, TypeCorrect, PTL DEF Spec

LEMMA AnswerStep ==
  ASSUME TypeOK, OwnConnection, SocketInv, AnswerInv, [Next]_vars
  PROVE  AnswerInv'
<1> USE DEF AnswerInv, Client, run
<1>1. SessionsTypeOK /\ ClientsTypeOK /\ RunTypeOK
  BY DEF TypeOK
<1>2. CASE LifeStep \/ RunLoops \/ NewSocket \/ UNCHANGED vars
  BY <1>2 DEF LifeStep, Emplace, Constructed, Stop, Destroy, RunLoops, NewSocket, NewSocketIf,
              sessions, clients, vars
<1>3. ASSUME NEW c \in Clients, Accept(c) \/ TakeSocket(c) \/ Detached(c)
      PROVE  AnswerInv'
  <2>1. CASE Accept(c)
    BY <1>1, <2>1 DEF Accept, clients, SessionsTypeOK
  <2>2. CASE TakeSocket(c)
    <3>1. peer[c] # "cut" /\ runPC # "returned"
      BY <2>2 DEF TakeSocket
    <3> QED
      BY <1>1, <2>2, <3>1 DEF TakeSocket, clients, SessionsTypeOK
  <2>3. CASE Detached(c)
    BY <1>1, <2>3 DEF Detached, Detaches, clients, SessionsTypeOK
  <2> QED
    BY <1>3, <2>1, <2>2, <2>3
<1>4. ASSUME NEW t \in Clients, Handshake(t) PROVE AnswerInv'
  <2>1. Client(t) = t
    BY <1>4, OwnClient DEF Handshake, Session
  <2> QED
    BY <1>1, <1>4, <2>1 DEF Handshake, Session, SessionsTypeOK, ClientsTypeOK
<1>5. ASSUME NEW t \in Clients, Moves(t) PROVE AnswerInv'
  <2>1. CASE SessionLoops(t) \/ HandleOther(t)
    BY <1>1, <2>1 DEF SessionLoops, HandleOther, Session, clients, SessionsTypeOK
  <2>2. CASE PeerIsGone(t)
    BY <1>1, <2>2 DEF PeerIsGone, Session, clients, SessionsTypeOK
  <2> QED
    BY <1>5, <2>1, <2>2 DEF Moves
<1>6. ASSUME NEW t \in Clients, Cuts(t) PROVE AnswerInv'
  <2>1. Client(t) = t
    BY <1>6, OwnClient
       DEF Cuts, SessionStops, ReadUnknown, ReadUnknownTo, HandlerThrows, Session
  <2>2. /\ thread' = [thread EXCEPT ![t] = "ended"]
        /\ peer' = [peer EXCEPT ![t] = IF peer[t] = "gone" THEN "gone" ELSE "cut"]
        /\ UNCHANGED <<handling, request, early, life, runPC, assignedSocket>>
    BY <1>6, <2>1 DEF Cuts, SessionStops, ReadUnknown, ReadUnknownTo, HandlerThrows, Session, Cut
  <2> QED
    BY <1>1, <2>2 DEF SessionsTypeOK, ClientsTypeOK
<1>7. ASSUME NEW t \in Clients, Read(t) PROVE AnswerInv'
  <2>1. Client(t) = t
    BY <1>7, OwnClient DEF Read, Session
  <2>2. request[t] # "none"
    BY <1>7, <2>1, HandlerCount, HandledAreThree DEF Read, TypeOK, ServerTypeOK
  <2> QED
    BY <1>1, <1>7, <2>1, <2>2 DEF Read, Session, clients, SessionsTypeOK
<1>8. ASSUME NEW t \in Clients, LoadInit(t) \/ StoreInit(t) PROVE AnswerInv'
  BY <1>1, <1>8 DEF LoadInit, StoreInit, Stores, Session, clients, SessionsTypeOK
<1>9. ASSUME NEW t \in Clients, Write(t) PROVE AnswerInv'
  <2>1. Client(t) = t
    BY <1>9, OwnClient DEF Write, Session
  <2>2. /\ thread' = [thread EXCEPT ![t] = "looping"]
        /\ peer' = [peer EXCEPT ![t] = "idle"]
        /\ request' = [request EXCEPT ![t] = "none"]
        /\ early' = [early EXCEPT ![t] = FALSE]
        /\ handling' = [handling EXCEPT ![t] = "none"]
        /\ UNCHANGED <<life, runPC, assignedSocket>>
    BY <1>9, <2>1 DEF Write, Session
  <2> QED
    BY <1>1, <2>2 DEF SessionsTypeOK, ClientsTypeOK
<1>10. ASSUME NEW c \in Clients, ClientStep(c) PROVE AnswerInv'
  <2>1. CASE Arrive(c) \/ Leave(c)
    BY <1>1, <1>10, <2>1, ClientFrame DEF Arrive, Leave, Peer, ClientsTypeOK
  <2>2. ASSUME NEW r \in Requests, Ask(c, r) PROVE AnswerInv'
    BY <1>1, <1>10, <2>2, ClientFrame DEF Ask, Peer, ClientsTypeOK
  <2> QED
    BY <1>10, <2>1, <2>2 DEF ClientStep
<1>11. CASE RunReturns
  <2>1. \A u \in Clients : u # NoClient
    BY ServerAssumption DEF NoClient
  <2>2. \A u \in Clients : peer'[u] # peer[u] =>
          /\ thread[u] = "started" /\ assignedSocket[u] = NoClient
          /\ peer'[u] = "cut"
    BY <1>1, <1>11, ReturnsFrame DEF SocketInv, ClientsTypeOK
  <2>3. /\ runPC' = "returned"
        /\ UNCHANGED <<life, thread, assignedSocket, handling, request, early>>
    BY <1>11, ReturnsFrame
  <2>4. \A u \in Clients : peer[u] = "cut" => thread[u] = "ended"
    BY <1>11, ReturnsFrame
  <2> QED
    BY <2>2, <2>3, <2>4
<1>12. ASSUME NEW t \in Clients, AfterReturn(t) PROVE AnswerInv'
  <2>1. UNCHANGED <<runPC, assignedSocket, handling, peer, request, early>>
    BY <1>12, AfterReturnFrame
  <2>2. CASE thread' = thread
    BY <1>12, <2>1, <2>2, AfterReturnFrame
  <2>3. CASE thread' # thread
    <3>1. PICK pc \in {"detaching", "opening", "ended"} :
            /\ thread' = [thread EXCEPT ![t] = pc]
            /\ thread[t] \in {"started", "detaching", "opening"}
      BY <1>12, <2>3, AfterReturnFrame
    <3>2. life' = life
      BY <1>12, <2>3, AfterReturnFrame
    <3> QED
      BY <1>1, <2>1, <3>1, <3>2 DEF SessionsTypeOK
  <2> QED
    BY <2>2, <2>3
<1> QED
  BY <1>2, <1>3, <1>4, <1>5, <1>6, <1>7, <1>8, <1>9, <1>10, <1>11, <1>12, Cases

LEMMA LifeStepInv == TypeOK /\ LifeInv /\ [Next]_vars => LifeInv'
<1> SUFFICES ASSUME TypeOK, LifeInv, [Next]_vars PROVE LifeInv'
  OBVIOUS
<1> USE HandlerCount DEF LifeInv
<1>1. CASE LifeStep
  BY <1>1 DEF LifeStep, Emplace, Constructed, Stop, Destroy, run
<1>2. CASE RunReturns
  BY <1>2, ReturnsFrame
<1>3. ASSUME NEW t \in Clients, AfterReturn(t) PROVE LifeInv'
  BY <1>3, AfterReturnFrame
<1>4. CASE RunLoops \/ NewSocket \/ \E c \in Clients : Accept(c) \/ TakeSocket(c) \/ Detached(c)
  BY <1>4 DEF RunLoops, NewSocket, NewSocketIf, Accept, TakeSocket, Detached, Detaches
<1>5. CASE UNCHANGED <<life, emplaced, m_running, runPC>>
  BY <1>5
<1> QED
  BY <1>1, <1>2, <1>3, <1>4, <1>5, Cases, SessionFrame, ClientFrame DEF vars, run

LEMMA AllAreHandled ==
  ASSUME LifeInv, life # "constructing"
  PROVE  \A r \in Requests \ Handled : r = "execute"
<1>1. emplaced = 3
  BY HandlerCount DEF LifeInv
<1>2. {requestHandlers[1], requestHandlers[2], requestHandlers[3]} \subseteq Handled
  BY <1>1 DEF Handled
<1>3. {"metadata", "frame", "result"} \subseteq Handled
  BY <1>2 DEF requestHandlers
<1> QED
  BY <1>3 DEF Requests

LEMMA CutStep ==
  ASSUME TypeOK, OwnConnection, AnswerInv, LifeInv, CutIsDeserved, [Next]_vars
  PROVE  CutIsDeserved'
<1> USE DEF CutIsDeserved
<1>1. ClientsTypeOK /\ RunTypeOK
  BY DEF TypeOK
<1>2. CASE LifeStep \/ RunLoops \/ NewSocket \/ UNCHANGED vars
  BY <1>2 DEF LifeStep, Emplace, Constructed, Stop, Destroy, RunLoops, NewSocket, NewSocketIf,
              clients, vars
<1>3. CASE \E c \in Clients : Accept(c) \/ TakeSocket(c) \/ Detached(c)
  BY <1>3 DEF Accept, TakeSocket, Detached, Detaches, clients
<1>4. ASSUME NEW t \in Clients, Handshake(t) \/ Moves(t) \/ Read(t) \/ LoadInit(t) \/ StoreInit(t)
      PROVE  CutIsDeserved'
  <2>1. m_running' = m_running
    BY <1>4, SessionFrame
  <2>2. CASE Handshake(t)
    BY <1>1, <2>1, <2>2 DEF Handshake, ClientsTypeOK
  <2>3. CASE ~Handshake(t)
    BY <1>4, <2>1, <2>3 DEF Moves, SessionLoops, HandleOther, PeerIsGone, Read, LoadInit,
       StoreInit, Stores, clients
  <2> QED
    BY <2>2, <2>3
<1>5. ASSUME NEW t \in Clients, Cuts(t) PROVE CutIsDeserved'
  <2>1. Client(t) = t
    BY <1>5, OwnClient
       DEF Cuts, SessionStops, ReadUnknown, ReadUnknownTo, HandlerThrows, Session
  <2>2. /\ peer' = [peer EXCEPT ![t] = IF peer[t] = "gone" THEN "gone" ELSE "cut"]
        /\ UNCHANGED <<request, early, m_running>>
    BY <1>5, <2>1, SessionFrame
       DEF Cuts, SessionStops, ReadUnknown, ReadUnknownTo, HandlerThrows, Cut
  <2>3. ~m_running \/ early[t] \/ request[t] = "execute"
    <3>1. CASE SessionStops(t)
      BY <3>1 DEF SessionStops
    <3>2. CASE ReadUnknown(t) /\ life = "constructing"
      BY <2>1, <3>2 DEF ReadUnknown, ReadUnknownTo, AnswerInv
    <3>3. CASE ReadUnknown(t) /\ life # "constructing"
      <4>1. request[t] \in Requests \ Handled
        BY <1>1, <2>1, <3>3 DEF ReadUnknown, ReadUnknownTo, ClientsTypeOK
      <4> QED
        BY <3>3, <4>1, AllAreHandled
    <3>4. CASE HandlerThrows(t)
      BY <3>4 DEF HandlerThrows, Session, AnswerInv
    <3> QED
      BY <1>5, <3>1, <3>2, <3>3, <3>4 DEF Cuts
  <2> QED
    BY <1>1, <2>2, <2>3 DEF ClientsTypeOK
<1>6. ASSUME NEW t \in Clients, Write(t) PROVE CutIsDeserved'
  <2>1. m_running' = m_running
    BY <1>6, SessionFrame
  <2> QED
    BY <1>1, <1>6, <2>1 DEF Write, ClientsTypeOK
<1>7. ASSUME NEW c \in Clients, ClientStep(c) PROVE CutIsDeserved'
  <2>1. m_running' = m_running
    BY <1>7, ClientFrame
  <2> QED
    BY <1>1, <1>7, <2>1 DEF ClientStep, Arrive, Leave, Ask, Peer, ClientsTypeOK
<1>8. CASE RunReturns \/ \E t \in Clients : AfterReturn(t)
  BY <1>8, ReturnsFrame, AfterReturnFrame
<1> QED
  BY <1>2, <1>3, <1>4, <1>5, <1>6, <1>7, <1>8, Cases

(* The inductive invariant holds. *)
THEOREM Invariance == Spec => []IInv
<1>1. Init => IInv
  <2>1. Init => OwnConnection /\ HandoffInv /\ SocketInv
    BY HandoffInit
  <2>2. Init => AnswerInv /\ LifeInv /\ CutIsDeserved
    BY DEF Init, AnswerInv, LifeInv, CutIsDeserved
  <2> QED
    BY <2>1, <2>2, TypeInit DEF IInv
<1>2. IInv /\ [Next]_vars => IInv'
  BY TypeStep, HandoffStep, SocketStep, AnswerStep, LifeStepInv, CutStep DEF IInv
<1> QED
  BY <1>1, <1>2, PTL DEF Spec

(* A connection is ended for a reason only.                                *)
THEOREM CutsAreDeserved == Spec => []CutIsDeserved
<1>1. IInv => CutIsDeserved
  BY DEF IInv
<1> QED
  BY <1>1, Invariance, PTL

(***************************************************************************)
(* The frames of an only client.                                           *)
(***************************************************************************)
LEMMA NextValueDiffers ==
  ASSUME NEW x \in 0 .. Values - 1
  PROVE  (x + 1) % Values # x
<1>1. CASE x + 1 = Values
  BY <1>1, ServerAssumption
<1>2. CASE x + 1 < Values
  BY <1>2, ServerAssumption
<1> QED
  BY <1>1, <1>2, ServerAssumption

(* The last frame has the last value of init, unless the next frame is     *)
(* about to be written, or never will be.                                  *)
FrameInv(t) ==
  /\ thread[t] = "adding" => loaded[t] = init /\ handling[t] = "frame"
  /\ thread[t] = "writing" /\ handling[t] = "frame" => loaded[t] = init /\ last[t] # init
  /\ thread[t] = "ended" \/ (thread[t] = "writing" /\ handling[t] = "frame")
       \/ last[t] \in {NoFrame, init}
  /\ ~repeated[t]

(* A client that has come stays known. *)
LEMMA OnlyStep ==
  ASSUME NEW c \in Clients, TypeOK, OwnConnection, AnswerInv, [Next]_vars, Only(c)'
  PROVE  Only(c)
<1> SUFFICES ASSUME NEW d \in Clients, peer'[d] = "away" PROVE peer[d] = "away"
  BY DEF Only
<1>1. ClientsTypeOK
  BY DEF TypeOK
<1>2. CASE UNCHANGED peer
  BY <1>2
<1>3. ASSUME NEW t \in Clients, Handshake(t) \/ Cuts(t) \/ Write(t) PROVE peer[d] = "away"
  <2>1. Client(t) = t
    BY <1>3, OwnClient DEF Handshake, Cuts, Write, SessionStops, ReadUnknown, ReadUnknownTo,
                           HandlerThrows, Session
  <2> QED
    BY <1>1, <1>3, <2>1 DEF Handshake, Cuts, Write, SessionStops, ReadUnknown, ReadUnknownTo,
                            HandlerThrows, Cut, ClientsTypeOK
<1>4. ASSUME NEW e \in Clients, ClientStep(e) PROVE peer[d] = "away"
  BY <1>1, <1>4 DEF ClientStep, Arrive, Leave, Ask, Peer, ClientsTypeOK
<1>5. ASSUME NEW t \in Clients, Moves(t) \/ Read(t) \/ LoadInit(t) \/ StoreInit(t)
      PROVE  UNCHANGED peer
  BY <1>5 DEF Moves, SessionLoops, HandleOther, PeerIsGone, Read, LoadInit, StoreInit, Stores,
              clients
<1>6. CASE LifeStep \/ RunLoops \/ NewSocket \/ UNCHANGED vars
  BY <1>2, <1>6 DEF LifeStep, Emplace, Constructed, Stop, Destroy, RunLoops, NewSocket,
                    NewSocketIf, clients, vars
<1>7. ASSUME NEW t \in Clients, Accept(t) \/ TakeSocket(t) \/ Detached(t)
      PROVE  UNCHANGED peer
  BY <1>7 DEF Accept, TakeSocket, Detached, Detaches, clients
<1>8. CASE RunReturns
  BY <1>1, <1>8, ReturnsFrame DEF ClientsTypeOK
<1>9. ASSUME NEW t \in Clients, AfterReturn(t) PROVE UNCHANGED peer
  BY <1>9, AfterReturnFrame
<1> QED
  BY <1>2, <1>3, <1>4, <1>5, <1>6, <1>7, <1>8, <1>9, Cases

LEMMA FrameStep ==
  ASSUME NEW c \in Clients, TypeOK, OwnConnection, AnswerInv, Only(c), FrameInv(c),
         [Next]_vars
  PROVE  FrameInv(c)'
<1> USE DEF FrameInv
<1>1. SessionsTypeOK /\ ClientsTypeOK /\ init \in 0 .. Values - 1
  BY DEF TypeOK, ServerTypeOK
<1>2. CASE LifeStep \/ RunLoops \/ NewSocket \/ UNCHANGED vars
  BY <1>2 DEF LifeStep, Emplace, Constructed, Stop, Destroy, RunLoops, NewSocket, NewSocketIf,
              sessions, clients, vars
<1>3. ASSUME NEW t \in Clients, Accept(t) \/ TakeSocket(t) \/ Detached(t)
      PROVE  FrameInv(c)'
  BY <1>1, <1>3 DEF Accept, TakeSocket, Detached, Detaches, clients, SessionsTypeOK
<1>4. ASSUME NEW t \in Clients, Handshake(t) \/ Moves(t) \/ Cuts(t) \/ Read(t)
      PROVE  FrameInv(c)'
  <2>1. UNCHANGED <<init, last, repeated, loaded>>
    BY <1>4 DEF Handshake, Moves, Cuts, Read, SessionLoops, HandleOther, PeerIsGone, clients,
                SessionStops, ReadUnknown, ReadUnknownTo, HandlerThrows
  <2>2. CASE Handshake(t) \/ SessionLoops(t) \/ Cuts(t) \/ PeerIsGone(t)
    <3>1. PICK pc \in {"looping", "reading", "ended"} : thread' = [thread EXCEPT ![t] = pc]
      BY <2>2 DEF Handshake, SessionLoops, Cuts, PeerIsGone, SessionStops, ReadUnknown,
                  ReadUnknownTo, HandlerThrows, Session
    <3>2. handling' = handling /\ (pc # "ended" => thread[t] \in {"opening", "looping"})
      BY <1>1, <2>2, <3>1 DEF Handshake, SessionLoops, Cuts, PeerIsGone, SessionStops,
                  ReadUnknown, ReadUnknownTo, HandlerThrows, Session, clients, SessionsTypeOK
    <3> QED
      BY <1>1, <2>1, <3>1, <3>2 DEF SessionsTypeOK
  <2>3. CASE HandleOther(t)
    BY <1>1, <2>1, <2>3 DEF HandleOther, Session, SessionsTypeOK
  <2>4. CASE Read(t)
    BY <1>1, <2>1, <2>4 DEF Read, Session, SessionsTypeOK
  <2> QED
    BY <1>4, <2>2, <2>3, <2>4 DEF Moves
<1>5. ASSUME NEW t \in Clients, LoadInit(t) PROVE FrameInv(c)'
  BY <1>1, <1>5 DEF LoadInit, Session, clients, SessionsTypeOK
<1>6. ASSUME NEW t \in Clients, StoreInit(t) PROVE FrameInv(c)'
  <2>0. thread[t] = "adding" /\ t = c
    BY <1>6 DEF StoreInit, Stores, Session, AnswerInv, Only
  <2>1. loaded[t] = init /\ last[t] \in {NoFrame, init}
    BY <2>0
  <2>2. /\ init' = (init + 1) % Values
        /\ thread' = [thread EXCEPT ![t] = "writing"]
        /\ loaded' = [loaded EXCEPT ![t] = init']
        /\ UNCHANGED <<handling, last, repeated>>
    BY <1>6, <2>0, <2>1 DEF StoreInit, Stores, Session, clients
  <2>3. init' # init /\ init' \in 0 .. Values - 1
    BY <1>1, <2>2, NextValueDiffers, ServerAssumption
  <2>4. last[t] # init'
    BY <2>1, <2>3, ServerAssumption DEF NoFrame
  <2> QED
    BY <1>1, <2>0, <2>1, <2>2, <2>4 DEF SessionsTypeOK
<1>7. ASSUME NEW t \in Clients, Write(t) PROVE FrameInv(c)'
  <2>1. Client(t) = t /\ thread[t] = "writing"
    BY <1>7, OwnClient DEF Write, Session
  <2>0. t = c
    BY <1>7, <2>1 DEF Write, Only
  <2>2. thread' = [thread EXCEPT ![t] = "looping"] /\ init' = init
    BY <1>7 DEF Write, Session
  <2>3. CASE handling[t] = "frame"
    <3>1. /\ last' = [last EXCEPT ![t] = loaded[t]]
          /\ repeated' = [repeated EXCEPT ![t] = last[t] = loaded[t]]
      BY <1>7, <2>1, <2>3 DEF Write
    <3>2. loaded[t] = init /\ last[t] # init
      BY <2>0, <2>1, <2>3
    <3> QED
      BY <1>1, <2>0, <2>1, <2>2, <2>3, <3>1, <3>2 DEF SessionsTypeOK, ClientsTypeOK
  <2>4. CASE handling[t] # "frame"
    BY <1>1, <1>7, <2>1, <2>2, <2>4 DEF Write, SessionsTypeOK, ClientsTypeOK
  <2> QED
    BY <2>3, <2>4
<1>8. CASE \E t \in Clients : ClientStep(t)
  BY <1>8, ClientFrame
<1>9. CASE RunReturns
  BY <1>9, ReturnsFrame
<1>10. ASSUME NEW t \in Clients, AfterReturn(t) PROVE FrameInv(c)'
  <2>1. UNCHANGED <<init, loaded, handling, last, repeated>>
    BY <1>10, AfterReturnFrame
  <2>2. \/ thread' = thread
        \/ /\ \E pc \in {"detaching", "opening", "ended"} : thread' = [thread EXCEPT ![t] = pc]
           /\ thread[t] \in {"started", "detaching", "opening"}
    BY <1>10, AfterReturnFrame
  <2> QED
    BY <1>1, <2>1, <2>2 DEF SessionsTypeOK
<1> QED
  BY <1>2, <1>3, <1>4, <1>5, <1>6, <1>7, <1>8, <1>9, <1>10, Cases

(* As long as no other client has come, no two frames in a row that a client *)
(* receives are the same.                                                    *)
THEOREM FramesOfOneClientDiffer == Spec => []FramesDiffer
<1> DEFINE Inv == \A c \in Clients : Only(c) => FrameInv(c)
<1>1. Init => Inv
  BY DEF Init, FrameInv, NoFrame
<1>2. IInv /\ Inv /\ [Next]_vars => Inv'
  <2> SUFFICES ASSUME IInv, Inv, [Next]_vars, NEW c \in Clients, Only(c)' PROVE FrameInv(c)'
    OBVIOUS
  <2>1. TypeOK /\ OwnConnection /\ AnswerInv
    BY DEF IInv
  <2>2. Only(c)
    BY <2>1, OnlyStep
  <2> QED
    BY <2>1, <2>2, FrameStep
<1>3. Inv => FramesDiffer
  BY DEF FramesDiffer, FrameInv
<1> QED
  BY <1>1, <1>2, <1>3, Invariance, PTL DEF Spec

(***************************************************************************)
(* Liveness.  tlapm 1.4.5 cannot look into ENABLED: what it would need to  *)
(* know of it, that a thread which has all it waits for can take a step,   *)
(* is the hypothesis RunnableIsEnabled.                                    *)
(***************************************************************************)
(* A session that has ended has left its client; a client that waits has   *)
(* asked for something.                                                    *)
WaitingInv ==
  \A t \in Clients :
    /\ thread[t] = "ended" => peer[t] \in {"cut", "gone"}
    /\ peer[t] = "asked" => request[t] # "none"

LEMMA WaitingStep ==
  ASSUME TypeOK, OwnConnection, SocketInv, AnswerInv, WaitingInv, [Next]_vars
  PROVE  WaitingInv'
<1> USE DEF WaitingInv
<1>1. SessionsTypeOK /\ ClientsTypeOK
  BY DEF TypeOK
<1>2. CASE LifeStep \/ RunLoops \/ NewSocket \/ UNCHANGED vars
  BY <1>2 DEF LifeStep, Emplace, Constructed, Stop, Destroy, RunLoops, NewSocket, NewSocketIf,
              sessions, clients, vars
<1>3. ASSUME NEW c \in Clients, Accept(c) \/ TakeSocket(c) \/ Detached(c)
      PROVE  WaitingInv'
  BY <1>1, <1>3 DEF Accept, TakeSocket, Detached, Detaches, clients, SessionsTypeOK
<1>4. ASSUME NEW t \in Clients, Handshake(t) \/ Write(t) PROVE WaitingInv'
  <2>1. Client(t) = t
    BY <1>4, OwnClient DEF Handshake, Write, Session
  <2>2. /\ thread' = [thread EXCEPT ![t] = "looping"]
        /\ peer' = [peer EXCEPT ![t] = "idle"]
        /\ \E r : request' = [request EXCEPT ![t] = r] \/ request' = request
    BY <1>4, <2>1 DEF Handshake, Write, Session
  <2> QED
    BY <1>1, <2>2 DEF SessionsTypeOK, ClientsTypeOK
<1>5. ASSUME NEW t \in Clients, SessionLoops(t) \/ HandleOther(t) \/ Read(t) \/ LoadInit(t) \/ StoreInit(t)
      PROVE  WaitingInv'
  BY <1>1, <1>5 DEF SessionLoops, HandleOther, Read, LoadInit, StoreInit, Stores, Session, clients,
                    SessionsTypeOK
<1>6. ASSUME NEW t \in Clients, PeerIsGone(t) PROVE WaitingInv'
  <2>1. Client(t) = t
    BY <1>6, OwnClient DEF PeerIsGone, Session
  <2> QED
    BY <1>1, <1>6, <2>1 DEF PeerIsGone, Session, clients, SessionsTypeOK
<1>7. ASSUME NEW t \in Clients, Cuts(t) PROVE WaitingInv'
  <2>1. Client(t) = t
    BY <1>7, OwnClient
       DEF Cuts, SessionStops, ReadUnknown, ReadUnknownTo, HandlerThrows, Session
  <2>2. /\ thread' = [thread EXCEPT ![t] = "ended"]
        /\ peer' = [peer EXCEPT ![t] = IF peer[t] = "gone" THEN "gone" ELSE "cut"]
        /\ request' = request
    BY <1>7, <2>1 DEF Cuts, SessionStops, ReadUnknown, ReadUnknownTo, HandlerThrows, Session, Cut
  <2> QED
    BY <1>1, <2>2 DEF SessionsTypeOK, ClientsTypeOK
<1>8. ASSUME NEW c \in Clients, ClientStep(c) PROVE WaitingInv'
  <2>1. thread' = thread
    BY <1>8, ClientFrame
  <2>2. peer[c] # "gone" /\ (peer[c] = "cut" => peer'[c] = "gone")
    BY <1>1, <1>8 DEF ClientStep, Arrive, Leave, Ask, Peer, ClientsTypeOK
  <2>3. \E to : peer' = [peer EXCEPT ![c] = to]
    BY <1>8 DEF ClientStep, Arrive, Leave, Ask, Peer
  <2>4. CASE \E r \in Requests : Ask(c, r)
    <3>1. PICK r \in Requests : Ask(c, r)
      BY <2>4
    <3>2. r # "none"
      BY DEF Requests
    <3> QED
      BY <1>1, <2>1, <2>2, <3>1, <3>2 DEF Ask, Peer, ClientsTypeOK
  <2>5. CASE Arrive(c) \/ Leave(c)
    BY <1>1, <2>1, <2>2, <2>5 DEF Arrive, Leave, Peer, ClientsTypeOK
  <2> QED
    BY <1>8, <2>4, <2>5 DEF ClientStep
<1>9. CASE RunReturns
  <2>1. \A u \in Clients : peer'[u] = peer[u] \/ peer'[u] \in {"cut", "gone"}
    BY <1>1, <1>9, ReturnsFrame DEF ClientsTypeOK
  <2> QED
    BY <1>9, <2>1, ReturnsFrame
<1>10. ASSUME NEW t \in Clients, AfterReturn(t) PROVE WaitingInv'
  <2>1. UNCHANGED <<peer, request>>
    BY <1>10, AfterReturnFrame
  <2>2. CASE thread' = thread
    BY <2>1, <2>2
  <2>3. CASE thread' = [thread EXCEPT ![t] = "ended"] /\ Client(t) = NoClient /\ thread[t] = "opening"
    <3>1. runPC = "returned"
      BY <2>3, ServerAssumption DEF OwnConnection, LeftBehind, Client, NoClient
    <3> QED
      BY <1>1, <2>1, <2>3, <3>1 DEF SocketInv, Client, SessionsTypeOK
  <2>4. CASE \E pc \in {"detaching", "opening"} : thread' = [thread EXCEPT ![t] = pc]
    BY <1>1, <2>1, <2>4 DEF SessionsTypeOK
  <2> QED
    BY <1>10, <2>2, <2>3, <2>4, AfterReturnFrame DEF Client
<1> QED
  BY <1>2, <1>3, <1>4, <1>5, <1>6, <1>7, <1>8, <1>9, <1>10, Cases DEF Moves

(* Whoever waits for an answer has a request in the session's hands; a     *)
(* session that has ended left nobody waiting.                             *)
THEOREM WaitingInvariance == Spec => []WaitingInv
<1>1. Init => WaitingInv
  BY DEF Init, WaitingInv
<1>2. IInv /\ WaitingInv /\ [Next]_vars => WaitingInv'
  BY WaitingStep DEF IInv
<1> QED
  BY <1>1, <1>2, Invariance, PTL DEF Spec

(* Client c waits for its answer, and its session is at this place. *)
At(c, place) == Alive /\ peer[c] = "asked" /\ thread[c] = place

(* It waits no longer: the answer came, or the connection or the server ended. *)
Done(c) == peer[c] # "asked" \/ ~Alive

(* The session of a client that asks is at one of five places, with all    *)
(* that its next step needs.                                               *)
LEMMA AskedIsSomewhere ==
  ASSUME NEW c \in Clients, IInv, WaitingInv, Alive, peer[c] = "asked"
  PROVE  /\ thread[c] \in {"looping", "reading", "handling", "adding", "writing"}
         /\ Runnable(c)
<1>1. thread[c] \in {"looping", "reading", "handling", "adding", "writing"}
  BY DEF IInv, TypeOK, SessionsTypeOK, AnswerInv, WaitingInv
<1>2. Client(c) = c /\ c # NoClient
  BY <1>1, OwnClient, ServerAssumption DEF IInv, NoClient
<1>3. request[c] # "none"
  BY DEF WaitingInv
<1> QED
  BY <1>1, <1>2, <1>3 DEF Runnable

(* A step of anyone else leaves the session where it is, or ends the wait. *)
LEMMA OthersLeaveSession ==
  ASSUME NEW c \in Clients, IInv, WaitingInv, [Next]_vars, Alive, peer[c] = "asked", ~ThreadStep(c)
  PROVE  Done(c)' \/ (Alive' /\ peer'[c] = "asked" /\ thread'[c] = thread[c])
<1>1. SessionsTypeOK /\ ClientsTypeOK /\ OwnConnection
  BY DEF IInv, TypeOK
<1>2. CASE LifeStep \/ RunLoops \/ NewSocket \/ UNCHANGED vars
  BY <1>2 DEF LifeStep, Emplace, Constructed, Stop, Destroy, RunLoops, NewSocket, NewSocketIf,
              sessions, clients, vars, Done, Alive
<1>3. ASSUME NEW d \in Clients, Accept(d) \/ TakeSocket(d) \/ Detached(d)
      PROVE  Alive' /\ peer'[c] = "asked" /\ thread'[c] = thread[c]
  <2>1. thread[c] \notin {"none", "started", "detaching"}
    BY AskedIsSomewhere
  <2>2. d # c
    BY <1>3, <2>1 DEF Accept, TakeSocket, Detached, Detaches
  <2> QED
    BY <1>1, <1>3, <2>2 DEF Accept, TakeSocket, Detached, Detaches, clients, SessionsTypeOK, Alive
<1>4. ASSUME NEW t \in Clients,
             Handshake(t) \/ Moves(t) \/ Cuts(t) \/ Read(t) \/ LoadInit(t) \/ StoreInit(t) \/ Write(t)
      PROVE  Alive' /\ peer'[c] = "asked" /\ thread'[c] = thread[c]
  <2>1. t # c
    BY <1>4 DEF ThreadStep, Moves, Cuts
  <2>2. Client(t) = t
    BY <1>1, <1>4, SessionOwns
  <2>3. \E to : peer' = [peer EXCEPT ![t] = to] \/ peer' = peer
    BY <1>4, <2>2 DEF Handshake, Moves, Cuts, Read, LoadInit, StoreInit, Stores, Write, SessionLoops,
         HandleOther, PeerIsGone, SessionStops, ReadUnknown, ReadUnknownTo, HandlerThrows, Cut, clients
  <2>4. \E pc : thread' = [thread EXCEPT ![t] = pc]
    BY <1>1, <1>4, SessionMoves
  <2>5. life' = life
    BY <1>4, SessionFrame
  <2> QED
    BY <1>1, <2>1, <2>3, <2>4, <2>5 DEF SessionsTypeOK, ClientsTypeOK, Alive
<1>5. ASSUME NEW d \in Clients, ClientStep(d)
      PROVE  Done(c)' \/ (Alive' /\ peer'[c] = "asked" /\ thread'[c] = thread[c])
  <2>1. thread' = thread /\ life' = life
    BY <1>5, ClientFrame
  <2> QED
    BY <2>1 DEF Done, Alive
<1>6. CASE RunReturns
  <2>1. peer'[c] = peer[c] \/ peer'[c] \in {"cut", "gone"}
    BY <1>1, <1>6, ReturnsFrame DEF ClientsTypeOK
  <2> QED
    BY <1>6, <2>1, ReturnsFrame DEF Done, Alive
<1>7. ASSUME NEW t \in Clients, AfterReturn(t)
      PROVE  Done(c)' \/ (Alive' /\ peer'[c] = "asked" /\ thread'[c] = thread[c])
  <2>1. t # c
    BY <1>7 DEF ThreadStep, AfterReturn
  <2> QED
    BY <1>1, <1>7, <2>1, AfterReturnFrame DEF Done, Alive, SessionsTypeOK
<1> QED
  BY <1>2, <1>3, <1>4, <1>5, <1>6, <1>7, Cases

(* A step of its own takes the session to the next place, or ends the wait. *)
LEMMA SessionGoesOn ==
  ASSUME NEW c \in Clients, IInv, WaitingInv, Alive, peer[c] = "asked", ThreadStep(c)
  PROVE  \/ Done(c)'
         \/ At(c, "looping") /\ At(c, "reading")'
         \/ At(c, "reading") /\ At(c, "handling")'
         \/ At(c, "handling") /\ (At(c, "adding")' \/ At(c, "writing")')
         \/ At(c, "adding") /\ At(c, "writing")'
<1> USE DEF At, Done
<1>1. /\ SessionsTypeOK /\ ClientsTypeOK
      /\ thread[c] \in {"looping", "reading", "handling", "adding", "writing"} /\ Client(c) = c
  <2>1. thread[c] \in {"looping", "reading", "handling", "adding", "writing"}
    BY AskedIsSomewhere
  <2> QED
    BY <2>1, OwnClient DEF IInv, TypeOK
<1>2. CASE SessionLoops(c) \/ Read(c) \/ HandleOther(c) \/ LoadInit(c) \/ StoreInit(c)
  BY <1>1, <1>2 DEF SessionLoops, Read, HandleOther, LoadInit, StoreInit, Stores, Session, clients,
                    SessionsTypeOK, Alive
<1>3. CASE SessionStops(c) \/ ReadUnknown(c) \/ HandlerThrows(c) \/ Write(c)
  BY <1>1, <1>3 DEF SessionStops, ReadUnknown, ReadUnknownTo, HandlerThrows, Write, Cut, ClientsTypeOK
<1>4. CASE TakeSocket(c) \/ Detached(c) \/ Handshake(c) \/ PeerIsGone(c)
  BY <1>1, <1>4 DEF TakeSocket, Detached, Detaches, Handshake, PeerIsGone, Session
<1>5. CASE UsesDestroyed(c) \/ OpensNothing(c)
  BY <1>1, <1>5 DEF UsesDestroyed, OpensNothing, Alive
<1> QED
  BY <1>2, <1>3, <1>4, <1>5 DEF ThreadStep

(* One client's request is answered if its session's thread runs. *)
Answered(c) == peer[c] = "asked" ~> Done(c)

LEMMA RequestIsAnswered ==
  ASSUME NEW c \in Clients
  PROVE  Spec /\ SessionRuns(c) /\ []RunnableIsEnabled => Answered(c)
<1> DEFINE Waits == Alive /\ peer[c] = "asked"
           L == At(c, "looping")
           R == At(c, "reading")
           H == At(c, "handling")
           A == At(c, "adding")
           W == At(c, "writing")
           Good == IInv /\ WaitingInv
<1>1. Good /\ Waits => (L \/ R \/ H \/ A \/ W) /\ Runnable(c)
  BY AskedIsSomewhere DEF At
<1>2. RunnableIsEnabled => NotStuck(c)
  BY Zenon DEF RunnableIsEnabled
<1>3. Good /\ [Next]_vars /\ Waits =>
        Done(c)' \/ (L /\ L') \/ (R /\ R') \/ (H /\ H') \/ (A /\ A') \/ (W /\ W') \/ ThreadStep(c)
  <2> SUFFICES ASSUME Good, [Next]_vars, Waits, ~ThreadStep(c)
               PROVE  Done(c)' \/ (L /\ L') \/ (R /\ R') \/ (H /\ H') \/ (A /\ A') \/ (W /\ W')
    OBVIOUS
  <2>1. Done(c)' \/ (Alive' /\ peer'[c] = "asked" /\ thread'[c] = thread[c])
    BY OthersLeaveSession
  <2>2. L \/ R \/ H \/ A \/ W
    BY <1>1
  <2> QED
    BY <2>1, <2>2 DEF At
<1>4. Good /\ Waits /\ ThreadStep(c) =>
        Done(c)' \/ (L /\ R') \/ (R /\ H') \/ (H /\ (A' \/ W')) \/ (A /\ W')
  BY SessionGoesOn
<1>5. /\ L \/ R \/ H \/ A \/ W => Waits
      /\ ~(L /\ R) /\ ~(L /\ H) /\ ~(L /\ A) /\ ~(L /\ W) /\ ~(R /\ H) /\ ~(R /\ A) /\ ~(R /\ W)
      /\ ~(H /\ A) /\ ~(H /\ W) /\ ~(A /\ W)
      /\ Done(c) <=> ~Waits
      /\ peer[c] = "asked" => Waits \/ Done(c)
  BY DEF At, Done
<1>6. Spec => []Good
  BY Invariance, WaitingInvariance, PTL
<1> HIDE DEF Waits, L, R, H, A, W, Good
<1> QED
  BY <1>1, <1>2, <1>3, <1>4, <1>5, <1>6, PTL DEF Answered, SessionRuns, Spec, NotStuck

(* Whoever asks gets an answer or the end of the connection, however many   *)
(* clients there are, if each session's thread is scheduled.                *)
THEOREM RequestsAreAnswered == FairSpec /\ []RunnableIsEnabled => AskedIsAnswered
<1>1. \A c \in Clients : Spec /\ SessionRuns(c) /\ []RunnableIsEnabled => Answered(c)
  BY RequestIsAnswered, Zenon
<1>2. (\A c \in Clients : Answered(c)) => AskedIsAnswered
  BY Zenon DEF AskedIsAnswered, Answered, Done
<1> QED
  BY <1>1, <1>2, Zenon DEF FairSpec
=============================================================================
