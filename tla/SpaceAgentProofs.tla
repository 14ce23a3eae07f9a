-------------------------- MODULE SpaceAgentProofs --------------------------
(***************************************************************************)
(* Proof of OnePerBrowser for any pages and processes.  The bound alone is *)
(* not inductive: a page that has counted no process will start one, so it *)
(* is counted with the processes already (Bound).                          *)
(***************************************************************************)
EXTENDS SpaceAgent, FiniteSetTheorems, TLAPS

(* The pages that have counted no process and are about to start one.      *)
Starting == {g \in Page : main[g] = "start"}

Bound == Cardinality(Running) + Cardinality(Starting) <= Cardinality(Page)

LEMMA Sizes ==
  /\ IsFiniteSet(Running) /\ Cardinality(Running) \in Nat
  /\ IsFiniteSet(Starting) /\ Cardinality(Starting) \in Nat
  /\ Cardinality(Page) \in Nat
  /\ IsFiniteSet(Running') /\ Cardinality(Running') \in Nat
  /\ IsFiniteSet(Starting') /\ Cardinality(Starting') \in Nat
<1>1. /\ Running \in SUBSET Space /\ Starting \in SUBSET Page
      /\ Running' \in SUBSET Space /\ Starting' \in SUBSET Page
  BY DEF Running, Starting
<1> QED
  BY <1>1, FS_Subset, FS_CardinalityType, SpaceAssumption

(* A step that starts no process and no start keeps the bound.             *)
LEMMA Fewer ==
  ASSUME Bound, Running' \subseteq Running, Starting' \subseteq Starting
  PROVE  Bound'
<1>1. /\ Cardinality(Running') <= Cardinality(Running)
      /\ Cardinality(Starting') <= Cardinality(Starting)
  BY Sizes, FS_Subset
<1> QED
  BY <1>1, Sizes DEF Bound

LEMMA TypeInit == Init => TypeOK
  BY DEF Init, TypeOK, Code

LEMMA TypeNext == TypeOK /\ [Next]_vars => TypeOK'
<1> SUFFICES ASSUME TypeOK, [Next]_vars
             PROVE  TypeOK'
  OBVIOUS
<1> USE DEF TypeOK, local
<1>1. getLocalProcessStatus \in Code /\ RemoteStatus \subseteq Remote
      /\ Remote \subseteq Code
  BY DEF getLocalProcessStatus, RemoteStatus, Code, Running
<1>2. ASSUME NEW g \in Page, runSpace(g) \/ callSpace(g)
      PROVE  TypeOK'
  BY <1>2 DEF runSpace, callSpace, Goto
<1>3. ASSUME NEW g \in Page, Plugin(g)
      PROVE  TypeOK'
  <2>1. CASE ProcessStart(g) \/ ServiceAnswers(g) \/ CallThrows(g)
    BY <2>1 DEF ProcessStart, ServiceAnswers, CallThrows, Goto, Remote
  <2>2. CASE ForceList(g) \/ ForceKill(g) \/ ForceEnd(g)
    BY <2>2 DEF ForceList, ForceKill, ForceEnd, Goto, Running
  <2> QED
    BY <1>3, <2>1, <2>2 DEF Plugin
<1>4. ASSUME NEW g \in Poller, NEW c \in Code, set_status(g, c)
      PROVE  code' \in [Page -> Code] /\ shown' \in [Page -> Code]
  BY <1>4 DEF set_status
<1>5. ASSUME NEW g \in Poller,
             \/ init(g) \/ start(g) \/ stop(g) \/ destroy(g)
             \/ get_status_timer(g)
      PROVE  TypeOK'
  <2>1. CASE init(g) \/ stop(g) \/ destroy(g)
    BY <2>1 DEF init, stop, destroy, Code
  <2>2. CASE start(g) \/ get_status_timer(g)
    <3>1. get_status(g)
      BY <2>2 DEF start, get_status_timer
    <3>2. /\ code' \in [Page -> Code] /\ shown' \in [Page -> Code]
          /\ answers' \in [Page -> SUBSET Remote]
      BY <1>1, <1>4, <3>1 DEF get_status
    <3> QED
      BY <2>2, <3>2 DEF start, get_status_timer
  <2> QED
    BY <1>5, <2>1, <2>2
<1>6. ASSUME NEW g \in Poller, NEW c \in Remote, OnStatus(g, c)
      PROVE  TypeOK'
  <2>1. code' \in [Page -> Code] /\ shown' \in [Page -> Code]
    BY <1>1, <1>4, <1>6 DEF OnStatus
  <2> QED
    BY <1>6, <2>1 DEF OnStatus
<1>7. ASSUME NEW q \in Space, SpaceStarts(q) \/ SpaceEnds(q)
      PROVE  TypeOK'
  BY <1>7 DEF SpaceStarts, SpaceEnds, Remote
<1>8. CASE UNCHANGED vars
  BY <1>8 DEF vars
<1> QED
  BY <1>2, <1>3, <1>5, <1>6, <1>7, <1>8 DEF Next

LEMMA BoundInit == Init => Bound
<1> SUFFICES ASSUME Init
             PROVE  Bound
  OBVIOUS
<1>1. Running = {} /\ Starting = {}
  BY DEF Init, Running, Starting
<1> QED
  BY <1>1, Sizes, FS_EmptySet DEF Bound

LEMMA BoundNext == TypeOK /\ Bound /\ [Next]_vars => Bound'
<1> SUFFICES ASSUME TypeOK, Bound, [Next]_vars
             PROVE  Bound'
  OBVIOUS
<1> USE DEF TypeOK, Goto
<1>1. ASSUME NEW g \in Page, runSpace(g)
      PROVE  Bound'
  <2>1. space' = space
    BY <1>1 DEF runSpace
  <2>2. CASE getLocalProcessStatus = "LOCAL_STOP" /\ Goto(g, "start")
    <3>1. Running = {}
      BY <2>2 DEF getLocalProcessStatus
    <3>2. Running' = {} /\ Starting' \in SUBSET Page
      BY <2>1, <3>1 DEF Running, Starting
    <3>3. Cardinality(Starting') <= Cardinality(Page)
      BY <3>2, FS_Subset, SpaceAssumption
    <3> QED
      BY <3>2, <3>3, Sizes, FS_EmptySet DEF Bound
  <2>3. CASE Goto(g, "list")
    BY <2>1, <2>3, Fewer DEF Running, Starting
  <2> QED
    BY <1>1, <2>2, <2>3 DEF runSpace
<1>2. ASSUME NEW g \in Page, callSpace(g)
      PROVE  Bound'
  <2>1. Running' \subseteq Running /\ Starting' \subseteq Starting
    BY <1>2 DEF callSpace, Running, Starting
  <2> QED
    BY <2>1, Fewer
<1>3. ASSUME NEW g \in Page, ProcessStart(g)
      PROVE  Bound'
  <2>1. PICK q \in Space \ Running : space' = [space EXCEPT ![q] = "STARTUP"]
    BY <1>3 DEF ProcessStart
  <2>2. Running' = Running \cup {q}
    BY <2>1 DEF Running
  <2>3. Starting' = Starting \ {g} /\ g \in Starting
    BY <1>3 DEF ProcessStart, Starting
  <2>4. Cardinality(Running') = Cardinality(Running) + 1
    BY <2>1, <2>2, Sizes, FS_AddElement
  <2>5. Cardinality(Starting') = Cardinality(Starting) - 1
    BY <2>3, Sizes, FS_RemoveElement
  <2> QED
    BY <2>4, <2>5, Sizes DEF Bound
<1>4. ASSUME NEW g \in Page,
             \/ ForceList(g) \/ ForceKill(g) \/ ForceEnd(g)
             \/ ServiceAnswers(g) \/ CallThrows(g)
      PROVE  Bound'
  <2>1. Starting' \subseteq Starting
    BY <1>4 DEF ForceList, ForceKill, ForceEnd, ServiceAnswers, CallThrows,
                Starting
  <2>2. Running' \subseteq Running
    BY <1>4 DEF ForceList, ForceKill, ForceEnd, ServiceAnswers, CallThrows,
                Running
  <2> QED
    BY <2>1, <2>2, Fewer
<1>5. ASSUME NEW g \in Poller, NEW c \in Remote,
             \/ init(g) \/ start(g) \/ stop(g) \/ destroy(g)
             \/ get_status_timer(g) \/ OnStatus(g, c)
      PROVE  Bound'
  <2>1. space' = space /\ main' = main
    BY <1>5 DEF init, start, stop, destroy, get_status_timer, OnStatus
  <2> QED
    BY <2>1, Fewer DEF Running, Starting
<1>6. ASSUME NEW q \in Space, SpaceStarts(q) \/ SpaceEnds(q)
      PROVE  Bound'
  <2>1. Running' \subseteq Running /\ Starting' \subseteq Starting
    BY <1>6 DEF SpaceStarts, SpaceEnds, Running, Starting
  <2> QED
    BY <2>1, Fewer
<1>7. CASE UNCHANGED vars
  BY <1>7, Fewer DEF vars, Running, Starting
<1>8. "CONTENTS_READY" \in Remote
  BY DEF Remote
<1> QED
  BY <1>1, <1>2, <1>3, <1>4, <1>5, <1>6, <1>7, <1>8 DEF Next, Plugin

(* The variables of SpaceAgent and its client keep their types.            *)
THEOREM SpaceTypeCorrect == Spec => []TypeOK
  BY TypeInit, TypeNext, PTL DEF Spec

(* There are never more SpaceApp processes than browsers that start them,  *)
(* for any number of pages and whatever the users and crashes do.          *)
THEOREM NeverMoreThanBrowsers == Spec => []OnePerBrowser
<1>1. Bound => OnePerBrowser
  BY Sizes DEF Bound, OnePerBrowser
<1> QED
  BY <1>1, TypeInit, TypeNext, BoundInit, BoundNext, PTL DEF Spec
=============================================================================
