--------------------------- MODULE PluginRegistry ---------------------------
(***************************************************************************)
(* stub/src/PluginManager.cpp and the plugins' initMe().  A load is one    *)
(* call of a plugin's initMe(): it registers the plugin's classes one by   *)
(* one and stops at the first refusal.  Loads run concurrently, and a      *)
(* plugin may be loaded more than once (a retry, or two threads).  A class *)
(* is registered in one critical section of m_classesMutex, which is one   *)
(* step; the checks of the name and of the version before it depend on the *)
(* arguments alone.                                                        *)
(***************************************************************************)
EXTENDS Integers, Sequences

CONSTANTS
  Plugins,          \* the libraries with an initMe()
  Loads,            \* the calls of an initMe()
  PluginOf,         \* the plugin that a load initialises
  Names,            \* the names of classes
  WellFormedNames,  \* those that are not empty and all of [a-zA-Z0-9_]
  Classes           \* what each initMe() registers, in its order

Registrations == [name : Names, major : Nat]

ASSUME PluginsAssumption ==
  /\ WellFormedNames \subseteq Names
  /\ PluginOf \in [Loads -> Plugins]
  /\ Classes \in [Plugins -> Seq(Registrations)]
  /\ \A p \in Plugins : Classes[p] # <<>>

VARIABLES
  m_classes,   \* for each registered name, the load whose constructor it has
  pc,          \* of a load: "ready", "registering" or "done"
  next,        \* the class it registers next
  status,      \* *status of its initMe()
  exit         \* has its initMe() returned an exit function?

vars == <<m_classes, pc, next, status, exit>>

m_version == 1   \* the major version of the manager

Statuses == {"success", "unknown", "wrongVersion", "invalidName", "alreadyRegistered"}

Registered == DOMAIN m_classes
ClassesOf(l) == Classes[PluginOf[l]]
Current(l) == ClassesOf(l)[next[l]]

Init ==
  /\ m_classes = [n \in {} |-> 0]
  /\ pc = [l \in Loads |-> "ready"]
  /\ next = [l \in Loads |-> 1]
  /\ status = [l \in Loads |-> "success"]   \* the caller's, default-constructed
  /\ exit = [l \in Loads |-> FALSE]

InitMe(l) ==
  /\ pc[l] = "ready"
  /\ pc' = [pc EXCEPT ![l] = "registering"]
  /\ UNCHANGED <<m_classes, next, status, exit>>

(* registerClass() accepts or refuses a class, in the order of its checks. *)
Judged(class, compatible) ==
  IF class.name \notin WellFormedNames THEN "invalidName"
  ELSE IF ~compatible THEN "wrongVersion"
  ELSE IF class.name \in Registered THEN "alreadyRegistered"
  ELSE "success"
(* The bug this would be: only older plugins are compatible. *)
Verdict_older(class) == Judged(class, class.major < m_version)
Verdict(class) == Judged(class, class.major = m_version)

(* initMe() goes on to the next class, or returns the exit function. *)
GoesOn(l, last) ==
  IF next[l] = last
  THEN /\ pc' = [pc EXCEPT ![l] = "done"]
       /\ exit' = [exit EXCEPT ![l] = TRUE]
       /\ UNCHANGED next
  ELSE /\ next' = [next EXCEPT ![l] = next[l] + 1]
       /\ UNCHANGED <<pc, exit>>
Proceeds(l) == GoesOn(l, Len(ClassesOf(l)))

Accepted(l, verdicts) ==
  /\ pc[l] = "registering"
  /\ Verdict(Current(l)) \in verdicts
  /\ m_classes' = [n \in Registered \union {Current(l).name} |->
                     IF n = Current(l).name THEN l ELSE m_classes[n]]
  /\ status' = [status EXCEPT ![l] = "success"]
  /\ Proceeds(l)
(* The bug this would be: a class registered before is replaced. *)
Registers_replace(l) == Accepted(l, {"success", "alreadyRegistered"})
Registers(l) == Accepted(l, {"success"})

(* initMe() returns nullptr; the classes it has registered stay. *)
Fails(l, why) ==
  /\ pc[l] = "registering"
  /\ status' = [status EXCEPT ![l] = why]
  /\ pc' = [pc EXCEPT ![l] = "done"]
  /\ UNCHANGED <<m_classes, next, exit>>

(* The bug this would be: a refused class is skipped, the others tried. *)
Refused_goOn(l) ==
  /\ pc[l] = "registering"
  /\ Verdict(Current(l)) # "success"
  /\ status' = [status EXCEPT ![l] = Verdict(Current(l))]
  /\ Proceeds(l)
  /\ UNCHANGED m_classes
Refused(l) == Verdict(Current(l)) # "success" /\ Fails(l, Verdict(Current(l)))

(* An allocation failed; the registry is as it was. *)
Throws(l) == Fails(l, "unknown")

Next == \E l \in Loads : InitMe(l) \/ Registers(l) \/ Refused(l) \/ Throws(l)

Spec == Init /\ [][Next]_vars

(***************************************************************************)
(* Properties.                                                             *)
(***************************************************************************)
(* The type of the state; a load has always a class to register next. *)
TypeOK ==
  /\ Registered \subseteq Names
  /\ \A n \in Registered : m_classes[n] \in Loads
  /\ pc \in [Loads -> {"ready", "registering", "done"}]
  /\ next \in [Loads -> Nat]
  /\ \A l \in Loads : next[l] \in 1 .. Len(ClassesOf(l))
  /\ status \in [Loads -> Statuses]
  /\ exit \in [Loads -> BOOLEAN]

(***************************************************************************)
(* The inductive invariant.                                                *)
(***************************************************************************)
(* The classes a load has got past: all, if it returned an exit function. *)
Passed(l) == {i \in 1 .. Len(ClassesOf(l)) : exit[l] \/ i < next[l]}

(* A load has an exit function only when it is done. *)
ExitInv == \A l \in Loads : exit[l] => pc[l] = "done"

(* What a load has got past is registered, with its constructor ... *)
PassedInv ==
  \A l \in Loads : \A i \in Passed(l) :
    ClassesOf(l)[i].name \in Registered /\ m_classes[ClassesOf(l)[i].name] = l

(* ... and nothing else is registered. *)
OwnerInv ==
  \A n \in Registered : \E i \in Passed(m_classes[n]) :
    ClassesOf(m_classes[n])[i].name = n

(* The classes of plugin p are well-formed, of the manager's version, and  *)
(* no other class has their names.                                         *)
Sound(p) ==
  \A i \in 1 .. Len(Classes[p]) :
    /\ Classes[p][i].name \in WellFormedNames
    /\ Classes[p][i].major = m_version
    /\ \A q \in Plugins : \A j \in 1 .. Len(Classes[q]) :
         Classes[q][j].name = Classes[p][i].name => q = p /\ i = j

(* Only another load makes the load of a sound plugin fail, unless it ran  *)
(* out of memory.                                                          *)
Failed(l) == pc[l] = "done" /\ ~exit[l]
FailedInv ==
  \A l \in Loads :
    Failed(l) /\ status[l] # "unknown" /\ Sound(PluginOf[l]) =>
      Current(l).name \in Registered /\ m_classes[Current(l).name] # l

(* The conjunction that every step preserves: who owns a class.            *)
IInv == TypeOK /\ ExitInv /\ PassedInv /\ OwnerInv /\ FailedInv

(***************************************************************************)
(* What follows from it.                                                   *)
(***************************************************************************)
(* A class never loses its constructor to a later registration.            *)
FirstComeFirstServed ==
  [][\A n \in Registered : n \in DOMAIN m_classes' /\ m_classes'[n] = m_classes[n]]_vars

(* A plugin that is told of success has all its classes, each with its own *)
(* constructor, whatever was loaded beside it.                             *)
ExitMeansRegistered ==
  \A l \in Loads : exit[l] =>
    \A i \in 1 .. Len(ClassesOf(l)) :
      ClassesOf(l)[i].name \in Registered /\ m_classes[ClassesOf(l)[i].name] = l

(* Once a load of a plugin has failed after it had registered a class, no  *)
(* other load of the plugin succeeds any more: nothing is rolled back, and *)
(* the retry is refused as already registered.                             *)
HalfLoaded(p) == \E l \in Loads : PluginOf[l] = p /\ Failed(l) /\ next[l] > 1
RetryIsRefused ==
  [][\A l \in Loads : HalfLoaded(PluginOf[l]) => exit'[l] = exit[l]]_vars

(* Of the loads of one plugin one succeeds, if none runs out of memory and *)
(* no other plugin uses its names: concurrent loads do not defeat each     *)
(* other.                                                                  *)
LoadsOf(p) == {l \in Loads : PluginOf[l] = p}
OneLoadWins ==
  \A p \in Plugins :
    /\ Sound(p) /\ LoadsOf(p) # {}
    /\ \A l \in LoadsOf(p) : pc[l] = "done" /\ status[l] # "unknown"
    => \E l \in LoadsOf(p) : exit[l]
=============================================================================
