-------------------------- MODULE AppManagerProofs --------------------------
(***************************************************************************)
(* Proofs about the installer, for any plugin objects, applications, files *)
(* and calls, and any set of faults, when installs overlap as they like.   *)
(***************************************************************************)
EXTENDS AppManagerPlugin, TLAPS

(* A step of a page, a thread, the main thread or the environment, for     *)
(* the proofs to split on.                                                 *)
LEMMA NextCases ==
  ASSUME Next
  PROVE  \/ \E c \in Call : Install(c) \/ Job(c)
         \/ \E a \in App : Uninstall(a)
         \/ UninstallStep
         \/ Crash
  BY DEF Next

(* A path is the directory of an application or a temporary one, never     *)
(* both, and a temporary one belongs to one application.                   *)
LEMMA PathsDisjoint ==
  ASSUME NEW c \in Call
  PROVE  /\ Inst(c) \in App /\ Inst(c) \in Path /\ Temp(c) \in Path
         /\ Temp(c) \notin App /\ Inst(c) # Temp(c)
         /\ c.plugin \in Plugin /\ c.files \subseteq Entry
  BY CallAssumption, PathAssumption
     DEF Inst, Temp, Path, InstallThread_Param, Entry

(* What Write does to the directories, entry by entry.                     *)
LEMMA WriteEffect ==
  ASSUME TypeOK, NEW d \in Path, NEW e \in Entry, NEW c \in Call \cup {NoCall},
         Write(d, e, c)
  PROVE  /\ data' \in [Path -> [Entry -> Call \cup {NoCall}]]
         /\ there' = there
         /\ \A p \in Path, q \in Entry :
              data'[p][q] = IF p = d /\ q = e THEN c ELSE data[p][q]
<1>1. data' = [data EXCEPT ![d] = [data[d] EXCEPT ![e] = c]] /\ there' = there
  BY DEF Write
<1>2. data \in [Path -> [Entry -> Call \cup {NoCall}]]
  BY DEF TypeOK
<1>3. [data[d] EXCEPT ![e] = c] \in [Entry -> Call \cup {NoCall}]
  BY <1>2
<1> QED
  BY <1>1, <1>2, <1>3

-----------------------------------------------------------------------------
LEMMA TypeInit == Init => TypeOK
  BY CallAssumption DEF Init, TypeOK, State, Path, Entry, Thread

LEMMA TypeJob ==
  ASSUME TypeOK, NEW c \in Call, Job(c)
  PROVE  TypeOK'
<1>1. /\ Inst(c) \in Path /\ Temp(c) \in Path /\ c.plugin \in Plugin
      /\ c.files \subseteq Entry /\ RemovedDir(c) \in Path /\ c \in Thread
  BY PathsDisjoint DEF RemovedDir, Thread
<1>2. CASE Download(c) \/ Respond(c) \/ ConnectThrows(c)
  BY <1>1, <1>2 DEF TypeOK, Download, Respond, ConnectThrows, setState, Goto,
                    fs, State, Running, Ended
<1>3. CASE MakeTemp(c) \/ ExtractDone(c) \/ ExtractThrows(c)
  BY <1>1, <1>3 DEF TypeOK, MakeTemp, ExtractDone, ExtractThrows, setState,
                    Goto, SetTodo, fs, State, Running, Ended
<1>4. ASSUME NEW f \in File, ExtractFile(c, f) PROVE TypeOK'
  <2>1. CASE Write(Temp(c), f, c)
    <3>1. f \in Entry
      BY DEF Entry
    <3> QED
      BY <1>1, <1>4, <2>1, <3>1, WriteEffect DEF TypeOK, ExtractFile, SetTodo
  <2>2. CASE UNCHANGED fs
    BY <1>1, <1>4, <2>2 DEF TypeOK, ExtractFile, SetTodo, fs
  <2> QED
    BY <1>4, <2>1, <2>2 DEF ExtractFile
<1>5. CASE CheckInstalled(c) \/ CheckTemp(c)
  BY <1>1, <1>5 DEF TypeOK, CheckInstalled, CheckTemp, Goto, SetTodo, Listing,
                    fs, Running, Ended
<1>6. CASE BeginMove(c)
  <2>1. CASE Write(Inst(c), SUBDIR, c)
    <3>1. SUBDIR \in Entry
      BY DEF Entry
    <3>2. pc' \in [Call -> {"idle"} \cup Running \cup Ended]
      BY <1>6 DEF TypeOK, BeginMove, Goto, Running
    <3>3. todo' \in [Thread -> SUBSET Entry]
      BY <1>6, <1>1 DEF TypeOK, BeginMove, SetTodo, Listing
    <3>4. /\ data' \in [Path -> [Entry -> Call \cup {NoCall}]]
          /\ there' = there
      BY <1>1, <2>1, <3>1, WriteEffect
    <3> QED
      BY <1>6, <3>2, <3>3, <3>4 DEF TypeOK, BeginMove
  <2>2. CASE UNCHANGED data
    BY <1>1, <1>6, <2>2 DEF TypeOK, BeginMove, Goto, SetTodo, Write, Listing,
                            fs, Running
  <2> QED
    BY <1>6, <2>1, <2>2 DEF BeginMove, fs
<1>7. ASSUME NEW e \in Entry, CopyFile(c, e) PROVE TypeOK'
  <2>1. data[Temp(c)][e] \in Call \cup {NoCall}
    BY <1>1 DEF TypeOK
  <2> QED
    BY <1>1, <1>7, <2>1, WriteEffect DEF TypeOK, CopyFile, SetTodo
<1>8. CASE CopyDone(c) \/ CopyThrows(c)
  BY <1>1, <1>8 DEF TypeOK, CopyDone, CopyThrows, Goto, SetTodo, Listing, fs,
                    Running
<1>9. ASSUME NEW e \in Entry, JobRemoveEntry(c, e) PROVE TypeOK'
  BY <1>1, <1>9, WriteEffect DEF TypeOK, JobRemoveEntry, RemoveEntry, SetTodo
<1>10. CASE JobRemoveDirectory(c)
  BY <1>1, <1>10 DEF TypeOK, JobRemoveDirectory, RemoveDirectory, Goto,
                     AfterRemove, Removing, Running, Ended
<1>11. CASE JobRemoveThrows(c)
  BY <1>1, <1>11 DEF TypeOK, JobRemoveThrows, RemoveThrows, Goto, SetTodo,
                     AfterThrow, Removing, fs, Running, Ended
<1>12. CASE Fail(c) \/ Finish(c)
  BY <1>1, <1>12 DEF TypeOK, Fail, Finish, setState, Goto, fs, State, Running,
                     Ended
<1>13. CASE WriteMeta(c)
  <2>1. META_FILE \in Entry
    BY DEF Entry
  <2> QED
    BY <1>1, <1>13, <2>1, WriteEffect DEF TypeOK, WriteMeta, Goto, fs, Running
<1> QED
  BY <1>2, <1>3, <1>4, <1>5, <1>6, <1>7, <1>8, <1>9, <1>10, <1>11, <1>12, <1>13
     DEF Job

LEMMA TypeNext == TypeOK /\ [Next]_vars => TypeOK'
<1> SUFFICES ASSUME TypeOK, [Next]_vars PROVE TypeOK'
  OBVIOUS
<1>1. ASSUME NEW c \in Call, Install(c) PROVE TypeOK'
  BY <1>1, PathsDisjoint
     DEF TypeOK, Install, setState, Goto, fs, State, Running
<1>2. ASSUME NEW c \in Call, Job(c) PROVE TypeOK'
  BY <1>2, TypeJob
<1>3. ASSUME NEW a \in App, Uninstall(a) PROVE TypeOK'
  BY <1>3 DEF TypeOK, Uninstall, SetTodo, Listing, Thread, fs
<1>4. CASE UninstallStep
  <2>1. Main \in Thread /\ (uninst # NoApp => uninst \in Path)
    BY DEF TypeOK, Thread, Path
  <2>2. ASSUME NEW e \in Entry, UninstallEntry(e) PROVE TypeOK'
    BY <2>1, <2>2, WriteEffect DEF TypeOK, UninstallEntry, RemoveEntry, SetTodo
  <2>3. CASE UninstallDirectory \/ UninstallThrows
    BY <2>1, <2>3 DEF TypeOK, UninstallDirectory, UninstallThrows,
                      RemoveDirectory, RemoveThrows, SetTodo, fs
  <2> QED
    BY <1>4, <2>2, <2>3 DEF UninstallStep
<1>5. CASE Crash
  BY <1>5 DEF TypeOK, Crash, State, Ended, fs
<1>6. CASE UNCHANGED vars
  BY <1>6 DEF TypeOK, vars
<1> QED
  BY <1>1, <1>2, <1>3, <1>4, <1>5, <1>6, NextCases

(* The variables keep their types, whatever overlaps, fails or crashes.    *)
THEOREM TypeCorrect == Spec => []TypeOK
  BY TypeInit, TypeNext, PTL DEF Spec

-----------------------------------------------------------------------------
(* What a step of a thread does to an entry of a directory: nothing, a     *)
(* removal, a delivery of its own, or a copy out of its temporary one.     *)
LEMMA JobEffect ==
  ASSUME TypeOK, NEW c \in Call, Job(c), NEW d \in Path, NEW e \in Entry
  PROVE  \/ data'[d][e] \in {data[d][e], NoCall}
         \/ /\ data'[d][e] = c
            /\ \/ d = Temp(c) /\ e \in File
               \/ d = Inst(c) /\ e = SUBDIR
               \/ d = Inst(c) /\ e = META_FILE /\ pc'[c] = "finish"
         \/ /\ d = Inst(c) /\ data'[d][e] = data[Temp(c)][e]
            /\ data[Temp(c)][e] # NoCall
<1>1. /\ Inst(c) \in Path /\ Temp(c) \in Path /\ RemovedDir(c) \in Path
      /\ META_FILE \in Entry /\ SUBDIR \in Entry /\ File \subseteq Entry
      /\ NoCall \notin Call
  BY PathsDisjoint, CallAssumption DEF RemovedDir, Entry
<1>2. CASE UNCHANGED data
  BY <1>2
<1>3. ASSUME NEW f \in File, ExtractFile(c, f), Write(Temp(c), f, c)
      PROVE  \/ data'[d][e] = data[d][e]
             \/ data'[d][e] = c /\ d = Temp(c) /\ e \in File
  BY <1>1, <1>3, WriteEffect
<1>4. ASSUME Write(Inst(c), SUBDIR, c)
      PROVE  \/ data'[d][e] = data[d][e]
             \/ data'[d][e] = c /\ d = Inst(c) /\ e = SUBDIR
  BY <1>1, <1>4, WriteEffect
<1>5. ASSUME NEW q \in Entry, CopyFile(c, q)
      PROVE  \/ data'[d][e] = data[d][e]
             \/ /\ d = Inst(c) /\ data'[d][e] = data[Temp(c)][e]
                /\ data[Temp(c)][e] # NoCall
  BY <1>1, <1>5, WriteEffect DEF CopyFile, TypeOK
<1>6. ASSUME NEW q \in Entry, JobRemoveEntry(c, q)
      PROVE  data'[d][e] \in {data[d][e], NoCall}
  BY <1>1, <1>6, WriteEffect DEF JobRemoveEntry, RemoveEntry
<1>7. ASSUME WriteMeta(c), Write(Inst(c), META_FILE, c)
      PROVE  \/ data'[d][e] = data[d][e]
             \/ /\ data'[d][e] = c /\ d = Inst(c) /\ e = META_FILE
                /\ pc'[c] = "finish"
  <2>1. pc'[c] = "finish"
    BY <1>7 DEF WriteMeta, Goto, TypeOK
  <2> QED
    BY <1>1, <1>7, <2>1, WriteEffect
<1> QED
  BY <1>2, <1>3, <1>4, <1>5, <1>6, <1>7
     DEF Job, Download, Respond, ConnectThrows, MakeTemp, ExtractFile,
         ExtractDone, ExtractThrows, CheckInstalled, BeginMove, CopyDone,
         CopyThrows, JobRemoveDirectory, RemoveDirectory, JobRemoveThrows,
         RemoveThrows, Fail, CheckTemp, WriteMeta, Finish, fs

(* The other steps only ever remove.                                       *)
LEMMA OtherEffect ==
  ASSUME TypeOK, [Next]_vars, \A c \in Call : ~Job(c),
         NEW d \in Path, NEW e \in Entry
  PROVE  data'[d][e] \in {data[d][e], NoCall}
<1>1. CASE UNCHANGED data
  BY <1>1
<1>2. ASSUME NEW q \in Entry, UninstallEntry(q)
      PROVE  data'[d][e] \in {data[d][e], NoCall}
  <2>1. uninst \in Path
    BY <1>2 DEF TypeOK, Path, UninstallEntry
  <2> QED
    BY <1>2, <2>1, WriteEffect DEF UninstallEntry, RemoveEntry
<1> QED
  BY <1>1, <1>2, NextCases
     DEF Install, Uninstall, UninstallStep, UninstallDirectory, RemoveDirectory,
         UninstallThrows, RemoveThrows, Crash, vars, fs

LEMMA IsolationNext ==
  ASSUME TypeOK, TypeOK', AppIsolation, [Next]_vars
  PROVE  AppIsolation'
<1> SUFFICES ASSUME NEW d \in Path, NEW e \in Entry, data'[d][e] # NoCall
             PROVE  d \in {Inst(data'[d][e]), Temp(data'[d][e])}
  BY DEF AppIsolation, Inst, Temp
<1>1. data[d][e] # NoCall => d \in {Inst(data[d][e]), Temp(data[d][e])}
  BY DEF AppIsolation
<1>2. ASSUME NEW c \in Call, Job(c)
      PROVE  d \in {Inst(data'[d][e]), Temp(data'[d][e])}
  <2>1. CASE data'[d][e] \in {data[d][e], NoCall}
    BY <1>1, <2>1
  <2>2. CASE data'[d][e] = c /\ d \in {Inst(c), Temp(c)}
    BY <2>2
  <2>3. CASE /\ d = Inst(c) /\ data'[d][e] = data[Temp(c)][e]
             /\ data[Temp(c)][e] # NoCall
    <3> DEFINE b == data[Temp(c)][e]
    <3>1. b \in Call /\ Temp(c) \in Path
      BY <2>3, PathsDisjoint DEF TypeOK
    <3>2. Temp(c) \in {Inst(b), Temp(b)}
      BY <2>3, <3>1 DEF AppIsolation
    <3>3. Temp(c) = Temp(b) /\ b.name \in App /\ c.name \in App
      BY <3>1, <3>2, PathsDisjoint DEF Inst
    <3>4. b.name = c.name
      BY <3>3, PathAssumption DEF Temp
    <3> QED
      BY <2>3, <3>4 DEF Inst
  <2> QED
    BY <1>2, <2>1, <2>2, <2>3, JobEffect
<1>3. CASE \A c \in Call : ~Job(c)
  BY <1>1, <1>3, OtherEffect
<1> QED
  BY <1>2, <1>3

(* Whatever overlaps, fails or crashes, what a call delivers is only ever  *)
(* in the two directories of its own application.                          *)
THEOREM Isolation == Spec => []AppIsolation
<1>1. Init => AppIsolation
  BY DEF Init, AppIsolation
<1>2. TypeOK /\ TypeOK' /\ AppIsolation /\ [Next]_vars => AppIsolation'
  BY IsolationNext
<1> QED
  BY <1>1, <1>2, TypeCorrect, PTL DEF Spec

-----------------------------------------------------------------------------
(* The strengthening that FailedIsNotListed needs: a meta file is only in  *)
(* an application's own directory, so that no move copies one, and the     *)
(* call it belongs to has got past everything that throws.                 *)
MetaInv ==
  \A d \in Path : data[d][META_FILE] # NoCall =>
    d \in App /\ pc[data[d][META_FILE]] \in {"finish", "done", "dead"}

LEMMA MetaNext ==
  ASSUME TypeOK, TypeOK', MetaInv, [Next]_vars
  PROVE  MetaInv'
<1> SUFFICES ASSUME NEW d \in Path, data'[d][META_FILE] # NoCall
             PROVE  /\ d \in App
                    /\ pc'[data'[d][META_FILE]] \in {"finish", "done", "dead"}
  BY DEF MetaInv
<1>1. META_FILE \in Entry /\ META_FILE \notin File /\ META_FILE # SUBDIR
  BY CallAssumption DEF Entry
<1>2. ASSUME NEW b \in Call, pc[b] \in {"finish", "done", "dead"}
      PROVE  pc'[b] \in {"finish", "done", "dead"}
  <2>1. ASSUME NEW c \in Call, Job(c) \/ Install(c)
        PROVE  pc'[b] \in {"finish", "done", "dead"}
    BY <1>2, <2>1
       DEF TypeOK, Job, Install, Download, Respond, ConnectThrows, MakeTemp,
           ExtractFile, ExtractDone, ExtractThrows, CheckInstalled, BeginMove,
           CopyFile, CopyDone, CopyThrows, JobRemoveEntry, JobRemoveDirectory,
           JobRemoveThrows, Removing, Fail, CheckTemp, WriteMeta, Finish, Goto
  <2>2. CASE Crash
    BY <1>2, <2>2 DEF Crash
  <2> QED
    BY <1>2, <2>1, <2>2, NextCases
       DEF vars, Uninstall, UninstallStep, UninstallEntry, UninstallDirectory,
           UninstallThrows
<1>3. data[d][META_FILE] # NoCall =>
        /\ d \in App /\ data[d][META_FILE] \in Call
        /\ pc'[data[d][META_FILE]] \in {"finish", "done", "dead"}
  BY <1>1, <1>2 DEF MetaInv, TypeOK
<1>4. ASSUME NEW c \in Call, Job(c)
      PROVE  /\ d \in App
             /\ pc'[data'[d][META_FILE]] \in {"finish", "done", "dead"}
  <2>1. Inst(c) \in App /\ Temp(c) \in Path /\ Temp(c) \notin App
    BY PathsDisjoint
  <2>2. data[Temp(c)][META_FILE] = NoCall
    BY <2>1 DEF MetaInv
  <2> QED
    BY <1>1, <1>3, <1>4, <2>1, <2>2, JobEffect
<1>5. CASE \A c \in Call : ~Job(c)
  BY <1>1, <1>3, <1>5, OtherEffect
<1> QED
  BY <1>4, <1>5

(* No application is ever listed under a version whose install has failed. *)
THEOREM FailedNotListed == Spec => []FailedIsNotListed
<1>1. Init => MetaInv
  BY CallAssumption DEF Init, MetaInv, Entry
<1>2. TypeOK /\ TypeOK' /\ MetaInv /\ [Next]_vars => MetaInv'
  BY MetaNext
<1>3. MetaInv => FailedIsNotListed
  BY DEF MetaInv, FailedIsNotListed, GetAppList, Path
<1> QED
  BY <1>1, <1>2, <1>3, TypeCorrect, PTL DEF Spec
=============================================================================
