------------------------ MODULE PluginRegistry_proofs ------------------------
(***************************************************************************)
(* Proofs about PluginRegistry, for any plugins, loads and names, and      *)
(* about the repository's plugins among any others.  All rest on IInv: a   *)
(* registered class belongs to the load that got past it.                  *)
(***************************************************************************)
EXTENDS PluginSet, TLAPS

(* What the assumption on the plugins says of the classes of a load. *)
LEMMA ClassesAre ==
  ASSUME NEW l \in Loads
  PROVE  /\ PluginOf[l] \in Plugins
         /\ Len(ClassesOf(l)) \in Nat \ {0}
         /\ \A i \in 1 .. Len(ClassesOf(l)) : ClassesOf(l)[i] \in Registrations
<1>1. PluginOf[l] \in Plugins
  BY PluginsAssumption
<1>2. Classes[PluginOf[l]] \in Seq(Registrations) /\ Classes[PluginOf[l]] # <<>>
  BY <1>1, PluginsAssumption
<1> QED
  BY <1>1, <1>2 DEF ClassesOf

(* The class a load registers next is one of its plugin's. *)
LEMMA CurrentIsOne ==
  ASSUME TypeOK, NEW l \in Loads
  PROVE  /\ next[l] \in 1 .. Len(ClassesOf(l))
         /\ Current(l) = ClassesOf(l)[next[l]]
         /\ Current(l).name \in Names
  BY ClassesAre DEF TypeOK, Current, Registrations

LEMMA InitInv == Init => IInv
<1> SUFFICES ASSUME Init PROVE IInv
  OBVIOUS
<1>1. TypeOK
  BY ClassesAre DEF Init, TypeOK, Registered, Statuses
<1>2. ExitInv /\ PassedInv /\ OwnerInv /\ FailedInv
  BY DEF Init, ExitInv, PassedInv, OwnerInv, FailedInv, Passed, Failed, Registered
<1> QED
  BY <1>1, <1>2 DEF IInv

(***************************************************************************)
(* How each action changes what the invariant speaks of.                   *)
(***************************************************************************)
(* A class that is accepted is new, and belongs to its load from then on.  *)
LEMMA AcceptedIsNew ==
  ASSUME TypeOK, NEW l \in Loads, Registers(l)
  PROVE  /\ pc[l] = "registering"
         /\ Current(l).name \notin Registered
         /\ Registered' = Registered \union {Current(l).name}
         /\ m_classes'[Current(l).name] = l
         /\ \A n \in Registered : m_classes'[n] = m_classes[n]
  BY DEF Registers, Accepted, Verdict, Judged, Registered

(* The load of a sound plugin is refused only a class of another load.     *)
LEMMA RefusedIsTaken ==
  ASSUME TypeOK, NEW l \in Loads, Refused(l), Sound(PluginOf[l])
  PROVE  Current(l).name \in Registered
<1>1. next[l] \in 1 .. Len(Classes[PluginOf[l]])
  BY CurrentIsOne DEF ClassesOf
<1>2. Current(l).name \in WellFormedNames /\ Current(l).major = m_version
  BY <1>1 DEF Sound, Current, ClassesOf
<1> QED
  BY <1>2 DEF Refused, Verdict, Judged

(* Past classes stay past; only a class that is accepted is added to them. *)
LEMMA PassedGrows ==
  ASSUME TypeOK, ExitInv, NEW l \in Loads, Registers(l)
  PROVE  /\ Passed(l)' = Passed(l) \union {next[l]}
         /\ \A k \in Loads \ {l} : Passed(k)' = Passed(k)
<1>1. /\ next[l] \in 1 .. Len(ClassesOf(l)) /\ next \in [Loads -> Nat]
      /\ exit \in [Loads -> BOOLEAN] /\ Len(ClassesOf(l)) \in Nat
  BY CurrentIsOne, ClassesAre DEF TypeOK
<1>2. ~exit[l]
  BY AcceptedIsNew DEF ExitInv
<1>3. \A k \in Loads \ {l} : Passed(k)' = Passed(k)
  BY <1>1 DEF Registers, Accepted, Proceeds, GoesOn, Passed, ClassesOf
<1>4. Passed(l)' = Passed(l) \union {next[l]}
  BY <1>1, <1>2 DEF Registers, Accepted, Proceeds, GoesOn, Passed, ClassesOf
<1> QED
  BY <1>3, <1>4

(***************************************************************************)
(* Every step preserves the invariant.                                     *)
(***************************************************************************)
LEMMA TypeStep == TypeOK /\ [Next]_vars => TypeOK'
<1> SUFFICES ASSUME TypeOK, [Next]_vars PROVE TypeOK'
  OBVIOUS
<1>1. ASSUME NEW l \in Loads, InitMe(l) PROVE TypeOK'
  BY <1>1 DEF TypeOK, InitMe, Registered, ClassesOf
<1>2. ASSUME NEW l \in Loads, Registers(l) PROVE TypeOK'
  <2>1. /\ Registered' \subseteq Names
        /\ \A n \in Registered' : m_classes'[n] \in Loads
    <3>1. /\ Registered \subseteq Names /\ Current(l).name \in Names
          /\ \A n \in Registered : m_classes[n] \in Loads
      BY CurrentIsOne DEF TypeOK
    <3> QED
      BY <1>2, <3>1, AcceptedIsNew
  <2>2. /\ next' \in [Loads -> Nat]
        /\ \A k \in Loads : next'[k] \in 1 .. Len(ClassesOf(k))
    BY <1>2, CurrentIsOne, ClassesAre
       DEF TypeOK, Registers, Accepted, Proceeds, GoesOn
  <2>3. /\ pc' \in [Loads -> {"ready", "registering", "done"}]
        /\ status' \in [Loads -> Statuses] /\ exit' \in [Loads -> BOOLEAN]
    BY <1>2 DEF TypeOK, Registers, Accepted, Proceeds, GoesOn, Statuses
  <2> QED
    BY <2>1, <2>2, <2>3 DEF TypeOK, ClassesOf
<1>3. ASSUME NEW l \in Loads, NEW why \in Statuses, Fails(l, why) PROVE TypeOK'
  BY <1>3 DEF TypeOK, Fails, Registered, ClassesOf
<1>4. ASSUME NEW l \in Loads, Refused(l) PROVE TypeOK'
  BY <1>3, <1>4 DEF Refused, Verdict, Judged, Statuses
<1>5. ASSUME NEW l \in Loads, Throws(l) PROVE TypeOK'
  BY <1>3, <1>5 DEF Throws, Statuses
<1>6. CASE UNCHANGED vars
  BY <1>6 DEF TypeOK, vars, Registered, ClassesOf
<1> QED
  BY <1>1, <1>2, <1>4, <1>5, <1>6 DEF Next

LEMMA OwnersStep == IInv /\ [Next]_vars => (ExitInv /\ PassedInv /\ OwnerInv)'
<1> SUFFICES ASSUME IInv, [Next]_vars PROVE (ExitInv /\ PassedInv /\ OwnerInv)'
  OBVIOUS
<1> USE DEF IInv
<1>1. ASSUME NEW l \in Loads, InitMe(l) PROVE (ExitInv /\ PassedInv /\ OwnerInv)'
  BY <1>1 DEF InitMe, TypeOK, ExitInv, PassedInv, OwnerInv, Passed, Registered, ClassesOf
<1>2. ASSUME NEW l \in Loads, Registers(l) PROVE (ExitInv /\ PassedInv /\ OwnerInv)'
  <2>1. /\ Registered' = Registered \union {Current(l).name}
        /\ Current(l).name \notin Registered
        /\ m_classes'[Current(l).name] = l
        /\ \A n \in Registered : m_classes'[n] = m_classes[n]
        /\ Current(l) = ClassesOf(l)[next[l]]
    BY <1>2, AcceptedIsNew, CurrentIsOne
  <2>2. /\ Passed(l)' = Passed(l) \union {next[l]}
        /\ \A k \in Loads \ {l} : Passed(k)' = Passed(k)
    BY <1>2, PassedGrows
  <2>3. ExitInv'
    BY <1>2 DEF Registers, Accepted, Proceeds, GoesOn, TypeOK, ExitInv
  <2>4. PassedInv'
    BY <2>1, <2>2 DEF PassedInv, ClassesOf
  <2>5. OwnerInv'
    <3> DEFINE PassedThen(k) == {i \in 1 .. Len(ClassesOf(k)) : exit'[k] \/ i < next'[k]}
    <3>1. \A k \in Loads : Passed(k)' = PassedThen(k)
      BY DEF Passed, ClassesOf
    <3>2. ASSUME NEW n \in Registered'
          PROVE  \E i \in PassedThen(m_classes'[n]) : ClassesOf(m_classes'[n])[i].name = n
      <4> HIDE DEF PassedThen
      <4>1. CASE n = Current(l).name
        BY <2>1, <2>2, <3>1, <4>1
      <4>2. CASE n \in Registered
        <5>1. m_classes[n] \in Loads
          BY <4>2 DEF TypeOK
        <5>2. Passed(m_classes[n]) \subseteq PassedThen(m_classes[n])
          BY <2>2, <3>1, <5>1
        <5> QED
          BY <2>1, <4>2, <5>2 DEF OwnerInv
      <4> QED
        BY <2>1, <4>1, <4>2
    <3> QED
      BY <3>2 DEF OwnerInv, Passed, ClassesOf
  <2> QED
    BY <2>3, <2>4, <2>5
<1>3. ASSUME NEW l \in Loads, NEW why, Fails(l, why)
      PROVE  (ExitInv /\ PassedInv /\ OwnerInv)'
  BY <1>3 DEF Fails, TypeOK, ExitInv, PassedInv, OwnerInv, Passed, Registered, ClassesOf
<1>4. CASE UNCHANGED vars
  BY <1>4 DEF vars, TypeOK, ExitInv, PassedInv, OwnerInv, Passed, Registered, ClassesOf
<1> QED
  BY <1>1, <1>2, <1>3, <1>4 DEF Next, Refused, Throws

(* A sound plugin's class that a load has got past has one number only.    *)
LEMMA NamesAreUnique ==
  ASSUME NEW l \in Loads, NEW k \in Loads, Sound(PluginOf[l]),
         NEW i \in 1 .. Len(ClassesOf(l)), NEW j \in 1 .. Len(ClassesOf(k)),
         ClassesOf(k)[j].name = ClassesOf(l)[i].name
  PROVE  PluginOf[k] = PluginOf[l] /\ i = j
  BY ClassesAre DEF Sound, ClassesOf

LEMMA FailedStep == IInv /\ [Next]_vars => FailedInv'
<1> SUFFICES ASSUME IInv, [Next]_vars, NEW k \in Loads,
                    Failed(k)', status'[k] # "unknown", Sound(PluginOf[k])
             PROVE  Current(k)'.name \in Registered' /\ m_classes'[Current(k)'.name] # k
  BY DEF FailedInv, Sound
<1> USE DEF IInv
<1>1. ASSUME Failed(k), status[k] # "unknown", UNCHANGED <<next, m_classes>>
      PROVE  Current(k)'.name \in Registered' /\ m_classes'[Current(k)'.name] # k
  BY <1>1 DEF FailedInv, Current, ClassesOf, Registered
<1>2. ASSUME NEW l \in Loads, InitMe(l)
      PROVE  Failed(k) /\ status[k] # "unknown" /\ UNCHANGED <<next, m_classes>>
  BY <1>2 DEF InitMe, Failed, TypeOK
<1>3. ASSUME NEW l \in Loads, Registers(l)
      PROVE  Current(k)'.name \in Registered' /\ m_classes'[Current(k)'.name] # k
  <2>1. k # l /\ Failed(k) /\ status[k] # "unknown" /\ next'[k] = next[k]
    BY <1>3 DEF Registers, Accepted, Proceeds, GoesOn, Failed, TypeOK
  <2>2. Current(k).name \in Registered /\ m_classes[Current(k).name] # k
    BY <2>1 DEF FailedInv
  <2> QED
    BY <1>3, <2>1, <2>2, AcceptedIsNew DEF Current, ClassesOf
<1>4. ASSUME NEW l \in Loads, Refused(l) \/ Throws(l), k # l
      PROVE  Failed(k) /\ status[k] # "unknown" /\ UNCHANGED <<next, m_classes>>
  BY <1>4 DEF Refused, Throws, Fails, Failed, TypeOK
<1>5. ASSUME Refused(k)
      PROVE  Current(k)'.name \in Registered' /\ m_classes'[Current(k)'.name] # k
  <2>1. /\ Current(k).name \in Registered
        /\ next[k] \in 1 .. Len(ClassesOf(k)) /\ Current(k) = ClassesOf(k)[next[k]]
    BY <1>5, RefusedIsTaken, CurrentIsOne
  <2>2. pc[k] = "registering" /\ UNCHANGED <<next, m_classes>>
    BY <1>5 DEF Refused, Fails
  <2>3. ASSUME m_classes[Current(k).name] = k PROVE FALSE
    <3>1. PICK i \in Passed(k) : ClassesOf(k)[i].name = Current(k).name
      BY <2>1, <2>3 DEF OwnerInv
    <3>2. i = next[k]
      BY <2>1, <3>1, NamesAreUnique DEF Passed
    <3> QED
      BY <2>2, <3>1, <3>2 DEF Passed, ExitInv, TypeOK
  <2> QED
    BY <2>1, <2>2, <2>3 DEF Current, ClassesOf, Registered
<1>6. ~Throws(k)
  BY DEF Throws, Fails, TypeOK
<1>7. CASE UNCHANGED vars
  BY <1>1, <1>7 DEF vars, Failed
<1> QED
  BY <1>1, <1>2, <1>3, <1>4, <1>5, <1>6, <1>7 DEF Next

(***************************************************************************)
(* The theorems.                                                           *)
(***************************************************************************)
(* Every reachable state satisfies the inductive invariant. *)
THEOREM Invariance == Spec => []IInv
<1>1. IInv /\ [Next]_vars => IInv'
  BY TypeStep, OwnersStep, FailedStep DEF IInv
<1> QED
  BY InitInv, <1>1, PTL DEF Spec

(* A plugin that is told of success has all its classes. *)
THEOREM ExitIsHonest == Spec => []ExitMeansRegistered
<1>1. IInv => ExitMeansRegistered
  BY DEF IInv, PassedInv, ExitMeansRegistered, Passed
<1> QED
  BY <1>1, Invariance, PTL

(* The first registration of a name stands. *)
THEOREM FirstRegistrationStands == Spec => FirstComeFirstServed
<1>1. ASSUME IInv, [Next]_vars
      PROVE  [\A n \in Registered :
                n \in DOMAIN m_classes' /\ m_classes'[n] = m_classes[n]]_vars
  <2>1. ASSUME NEW l \in Loads, Registers(l)
        PROVE  \A n \in Registered : n \in DOMAIN m_classes' /\ m_classes'[n] = m_classes[n]
    BY <1>1, <2>1, AcceptedIsNew DEF IInv, Registered
  <2>2. ASSUME NEW l \in Loads, InitMe(l) \/ Refused(l) \/ Throws(l)
        PROVE  UNCHANGED m_classes
    BY <2>2 DEF InitMe, Refused, Throws, Fails
  <2> QED
    BY <1>1, <2>1, <2>2 DEF Next, vars, Registered
<1> QED
  BY <1>1, Invariance, PTL DEF Spec, FirstComeFirstServed

(* After a load that failed half-way no load of the plugin succeeds. *)
THEOREM RetriesAreRefused == Spec => RetryIsRefused
<1>1. ASSUME IInv, [Next]_vars
      PROVE  [\A l \in Loads : HalfLoaded(PluginOf[l]) => exit'[l] = exit[l]]_vars
  <2> SUFFICES ASSUME NEW l \in Loads, HalfLoaded(PluginOf[l]), Registers(l)
               PROVE  exit'[l] = exit[l]
    BY <1>1 DEF Next, InitMe, Refused, Throws, Fails, Registers, Accepted, Proceeds,
                GoesOn, IInv, TypeOK, vars
  <2>1. PICK k \in Loads : PluginOf[k] = PluginOf[l] /\ Failed(k) /\ next[k] > 1
    BY DEF HalfLoaded
  <2>2. /\ next[k] \in 1 .. Len(ClassesOf(k)) /\ ClassesOf(k) = ClassesOf(l)
        /\ next[l] \in 1 .. Len(ClassesOf(l)) /\ Current(l) = ClassesOf(l)[next[l]]
        /\ Len(ClassesOf(l)) \in Nat
    BY <1>1, <2>1, CurrentIsOne, ClassesAre DEF IInv, ClassesOf
  <2>3. 1 \in Passed(k)
    BY <2>1, <2>2 DEF Passed
  <2>4. /\ ClassesOf(l)[1].name \in Registered
        /\ m_classes[ClassesOf(l)[1].name] = k
    BY <1>1, <2>1, <2>2, <2>3 DEF IInv, PassedInv
  <2>5. next[l] # 1
    BY <1>1, <2>2, <2>4, AcceptedIsNew DEF IInv
  <2>6. 1 \in Passed(l)
    BY <2>2, <2>5 DEF Passed
  <2>7. m_classes[ClassesOf(l)[1].name] = l
    BY <1>1, <2>2, <2>6 DEF IInv, PassedInv
  <2>8. Failed(l)
    BY <2>1, <2>4, <2>7
  <2> QED
    BY <1>1, <2>8, AcceptedIsNew DEF Failed, IInv
<1> QED
  BY <1>1, Invariance, PTL DEF Spec, RetryIsRefused

(* Concurrent loads of a plugin do not defeat each other. *)
THEOREM OneLoadSucceeds == Spec => []OneLoadWins
<1>1. ASSUME IInv, NEW p \in Plugins, Sound(p), NEW l \in LoadsOf(p),
             \A k \in LoadsOf(p) : pc[k] = "done" /\ status[k] # "unknown",
             \A k \in LoadsOf(p) : ~exit[k]
      PROVE  FALSE
  <2> DEFINE owner(k) == m_classes[Current(k).name]
             first == Classes[p][1].name
  <2>1. ASSUME NEW k \in LoadsOf(p)
        PROVE  owner(k) \in LoadsOf(p) \ {k} /\ m_classes[first] = owner(k)
    <3>1. k \in Loads /\ Failed(k) /\ PluginOf[k] = p
      BY <1>1 DEF LoadsOf, Failed
    <3>2. Current(k).name \in Registered /\ owner(k) \in Loads /\ owner(k) # k
      BY <1>1, <3>1 DEF IInv, FailedInv, TypeOK
    <3>3. PICK i \in Passed(owner(k)) : ClassesOf(owner(k))[i].name = Current(k).name
      BY <1>1, <3>2 DEF IInv, OwnerInv
    <3>4. /\ next[k] \in 1 .. Len(ClassesOf(k)) /\ Current(k) = ClassesOf(k)[next[k]]
          /\ next[owner(k)] \in 1 .. Len(ClassesOf(owner(k)))
          /\ Len(ClassesOf(owner(k))) \in Nat
      BY <1>1, <3>1, <3>2, CurrentIsOne, ClassesAre DEF IInv
    <3>5. PluginOf[owner(k)] = p
      BY <1>1, <3>1, <3>2, <3>3, <3>4, NamesAreUnique DEF Passed
    <3>6. 1 \in Passed(owner(k))
      BY <3>3, <3>4 DEF Passed
    <3>7. m_classes[first] = owner(k)
      BY <1>1, <3>2, <3>5, <3>6 DEF IInv, PassedInv, ClassesOf
    <3> QED
      BY <3>2, <3>5, <3>7 DEF LoadsOf
  <2> QED
    BY <1>1, <2>1
<1>2. IInv => OneLoadWins
  BY <1>1 DEF OneLoadWins
<1> QED
  BY <1>2, Invariance, PTL

(* A load has always a class to register next, and each class an owner. *)
THEOREM TypeCorrect == Spec => []TypeOK
<1>1. IInv => TypeOK
  BY DEF IInv
<1> QED
  BY <1>1, Invariance, PTL

(* Each camera that is reported is of a type that the plugin registers.    *)
LEMMA CamerasHaveClasses ==
  ASSUME NEW l \in Loads, NEW i \in 1 .. Len(Cameras(l))
  PROVE  \E j \in 1 .. Len(ClassesOf(l)) : ClassesOf(l)[j].name = Cameras(l)[i].type
<1>0. dummy # websocket /\ dummy # cms /\ websocket # cms
  <2>1. /\ dummy[1].name # websocket[1].name /\ dummy[1].name # cms[1].name
        /\ websocket[1].name # cms[1].name
    BY DEF cms, websocket, dummy, Class
  <2>. QED
    BY <2>1
<1>1. CASE ClassesOf(l) = dummy
  <2>1. Cameras(l) = dummyCameras
    BY <1>0, <1>1 DEF Cameras
  <2>2. \A k \in 1 .. 2 : dummyCameras[k].type = "dummyVideoSource"
    BY DEF dummyCameras, CameraInfo
  <2>3. i \in 1 .. 2
    BY <2>1 DEF dummyCameras
  <2>4. 2 \in 1 .. Len(dummy) /\ dummy[2].name = "dummyVideoSource"
    BY DEF dummy, Class
  <2>. QED
    BY <1>1, <2>1, <2>2, <2>3, <2>4
<1>2. CASE ClassesOf(l) = websocket
  <2>1. Cameras(l) = websocketCameras
    BY <1>0, <1>2 DEF Cameras
  <2>2. i = 1 /\ websocketCameras[1].type = "websocketInput"
    BY <2>1 DEF websocketCameras, CameraInfo
  <2>3. 2 \in 1 .. Len(websocket) /\ websocket[2].name = "websocketInput"
    BY DEF websocket, Class
  <2>. QED
    BY <1>2, <2>1, <2>2, <2>3
<1>3. CASE ClassesOf(l) = cms
  <2>1. Cameras(l) = cmsCameras
    BY <1>0, <1>3 DEF Cameras
  <2>2. i = 1 /\ cmsCameras[1].type = "cmsVideoSource"
    BY <2>1 DEF cmsCameras, CameraInfo
  <2>3. 1 \in 1 .. Len(cms) /\ cms[1].name = "cmsVideoSource"
    BY DEF cms, Class
  <2>. QED
    BY <1>3, <2>1, <2>2, <2>3
<1>4. CASE ClassesOf(l) \notin {dummy, websocket, cms}
  <2>1. Cameras(l) = << >>
    BY <1>4 DEF Cameras
  <2>. QED
    BY <2>1
<1>. QED
  BY <1>1, <1>2, <1>3, <1>4

(* The cameras of a plugin that was loaded can be opened, whatever other   *)
(* plugins are loaded beside it.                                           *)
THEOREM ReportedCamerasOpen == Spec => []CamerasCanBeOpened
<1>1. ExitMeansRegistered => CamerasCanBeOpened
  BY CamerasHaveClasses DEF ExitMeansRegistered, CamerasCanBeOpened
<1>. QED
  BY <1>1, ExitIsHonest, PTL
=============================================================================
