----------------------- MODULE AppManagerStoreProofs -----------------------
(***************************************************************************)
(* Proof that the installer under pages that take turns implements         *)
(* AppStore, whatever fails or crashes, as long as no file of a package is *)
(* silently lost ("short").  Unlike OneDelivery this survives temporary    *)
(* directories that a crash has left: what a thread publishes is known     *)
(* file by file from the extraction on (Transit), and what else it may     *)
(* have found in its directories does not matter to the list.              *)
(***************************************************************************)
EXTENDS AppManagerSerialProofs

(* What has been delivered of call c's files, where its thread stands.     *)
Transit(c) ==
  /\ \A d \in {Inst(c), Temp(c)} :
       ~there[d] => \A e \in Entry : data[d][e] = NoCall
  /\ pc[c] \in {"extract", "check", "remove", "move", "copy"} => there[Temp(c)]
  /\ pc[c] = "extract" =>
       \A f \in c.files : f \in todo[c] \/ data[Temp(c)][f] = c
  /\ pc[c] \in {"check", "remove", "move", "copy"} =>
       \A f \in c.files : data[Temp(c)][f] = c
  /\ pc[c] = "move" => ~there[Inst(c)]
  /\ pc[c] \in {"copy", "drop", "meta", "finish"} => there[Inst(c)]
  /\ pc[c] \in {"copy", "drop", "meta"} => data[Inst(c)][META_FILE] = NoCall
  /\ pc[c] = "copy" =>
       \A f \in c.files : f \in todo[c] \/ data[Inst(c)][f] = c
  /\ pc[c] \in {"drop", "meta", "finish"} =>
       \A f \in c.files : data[Inst(c)][f] = c
  /\ pc[c] = "finish" =>
       \/ data[Inst(c)][META_FILE] = c
       \/ "meta" \in Faults /\ data[Inst(c)][META_FILE] = NoCall

StoreInv ==
  /\ OneAtATime /\ NoOrphans /\ MetaInv
  /\ \A c \in Call : Active(c) => Transit(c)

LEMMA TransitStep ==
  ASSUME TypeOK, TypeOK', MetaInv, NEW c \in Call, Transit(c), Job(c),
         "short" \notin Faults
  PROVE  Active(c)' => Transit(c)'
<1>1. /\ Inst(c) \in Path /\ Temp(c) \in Path /\ Inst(c) # Temp(c)
      /\ META_FILE \in Entry /\ META_FILE \notin File /\ SUBDIR \in Entry
      /\ SUBDIR \notin File /\ c.files \subseteq File
      /\ File \subseteq Entry /\ c \in Thread /\ c # NoCall /\ NoCall \notin Call
      /\ data[Temp(c)][META_FILE] = NoCall
  BY PathsDisjoint, CallAssumption
     DEF Entry, Thread, InstallThread_Param, MetaInv
<1>2. CASE Download(c) \/ Respond(c) \/ ConnectThrows(c) \/ ExtractDone(c)
  BY <1>1, <1>2
     DEF Transit, Download, Respond, ConnectThrows, ExtractDone, Goto, fs,
         TypeOK
<1>3. CASE MakeTemp(c) \/ ExtractThrows(c)
  BY <1>1, <1>3
     DEF Transit, MakeTemp, ExtractThrows, Goto, SetTodo, fs, TypeOK
<1>4. ASSUME NEW f \in File, ExtractFile(c, f) PROVE Transit(c)'
  <2>1. there[Temp(c)] /\ pc' = pc /\ pc[c] = "extract" /\ Write(Temp(c), f, c)
        /\ todo'[c] = todo[c] \ {f}
    BY <1>1, <1>4 DEF ExtractFile, Transit, SetTodo, TypeOK
  <2>2. /\ there' = there
        /\ \A e \in Entry : data'[Inst(c)][e] = data[Inst(c)][e]
        /\ \A e \in Entry :
             data'[Temp(c)][e] = IF e = f THEN c ELSE data[Temp(c)][e]
    BY <1>1, <2>1, WriteEffect
  <2> QED
    BY <1>1, <2>1, <2>2 DEF Transit
<1>5. CASE CheckInstalled(c) \/ CheckTemp(c)
  BY <1>1, <1>5
     DEF Transit, CheckInstalled, CheckTemp, Goto, SetTodo, fs, TypeOK
<1>6. CASE BeginMove(c)
  <2>1. /\ there' = [there EXCEPT ![Inst(c)] = TRUE] /\ data' = data
        /\ todo'[c] = Listing(Temp(c)) /\ pc'[c] = "copy" /\ pc[c] = "move"
    BY <1>1, <1>6 DEF BeginMove, Transit, Goto, SetTodo, TypeOK
  <2>2. /\ \A f \in c.files : f \in todo'[c]
        /\ data[Inst(c)][META_FILE] = NoCall
    BY <1>1, <2>1 DEF Transit, Listing
  <2> QED
    BY <1>1, <2>1, <2>2 DEF Transit, TypeOK
<1>7. ASSUME NEW q \in Entry, CopyFile(c, q) PROVE Transit(c)'
  <2>1. /\ q # META_FILE /\ data[Temp(c)][q] \in Call /\ pc' = pc
        /\ pc[c] = "copy" /\ todo'[c] = todo[c] \ {q}
    BY <1>1, <1>7 DEF CopyFile, SetTodo, TypeOK
  <2>2. /\ there' = there
        /\ \A e \in Entry : data'[Temp(c)][e] = data[Temp(c)][e]
        /\ \A e \in Entry :
             data'[Inst(c)][e] = IF e = q THEN data[Temp(c)][q]
                                 ELSE data[Inst(c)][e]
    BY <1>1, <1>7, <2>1, WriteEffect DEF CopyFile
  <2>3. there[Inst(c)]
    BY <1>7 DEF CopyFile
  <2> QED
    BY <1>1, <2>1, <2>2, <2>3 DEF Transit
<1>8. CASE CopyDone(c) \/ CopyThrows(c)
  BY <1>1, <1>8 DEF Transit, CopyDone, CopyThrows, Goto, SetTodo, fs, TypeOK
<1>9. ASSUME NEW q \in Entry, JobRemoveEntry(c, q) PROVE Transit(c)'
  <2>1. /\ there' = there /\ pc' = pc /\ pc[c] \in Removing
        /\ \A d \in {Inst(c), Temp(c)}, e \in Entry :
             data'[d][e] = IF d = RemovedDir(c) /\ e = q THEN NoCall
                           ELSE data[d][e]
    BY <1>1, <1>9, WriteEffect DEF JobRemoveEntry, RemoveEntry, RemovedDir
  <2> QED
    BY <1>1, <2>1 DEF Transit, Removing, RemovedDir
<1>10. CASE JobRemoveDirectory(c)
  <2>1. /\ data' = data
        /\ \A e \in Entry : data[RemovedDir(c)][e] = NoCall
        /\ there' = [there EXCEPT ![RemovedDir(c)] = FALSE]
        /\ pc' = [pc EXCEPT ![c] = AfterRemove(pc[c])] /\ pc[c] \in Removing
    BY <1>10 DEF JobRemoveDirectory, RemoveDirectory, Goto, Listing
  <2> QED
    BY <1>1, <2>1 DEF Transit, Removing, RemovedDir, AfterRemove, TypeOK
<1>11. CASE JobRemoveThrows(c)
  BY <1>1, <1>11
     DEF Transit, JobRemoveThrows, RemoveThrows, Removing, AfterThrow, Goto, fs,
         TypeOK
<1>12. CASE Fail(c) \/ Finish(c)
  BY <1>1, <1>12 DEF Transit, Fail, Finish, Goto, fs, TypeOK
<1>13. CASE WriteMeta(c)
  <2>1. /\ pc' = [pc EXCEPT ![c] = "finish"] /\ pc[c] = "meta"
        /\ there[Inst(c)]
        /\ \/ Write(Inst(c), META_FILE, c)
           \/ "meta" \in Faults /\ there' = there /\ data' = data
    BY <1>13 DEF WriteMeta, Goto, Transit, fs
  <2>2. CASE Write(Inst(c), META_FILE, c)
    <3>1. /\ there' = there
          /\ \A e \in Entry : data'[Temp(c)][e] = data[Temp(c)][e]
          /\ \A e \in Entry :
               data'[Inst(c)][e] = IF e = META_FILE THEN c ELSE data[Inst(c)][e]
      BY <1>1, <2>1, <2>2, WriteEffect
    <3> QED
      BY <1>1, <2>1, <3>1 DEF Transit, TypeOK
  <2>3. CASE "meta" \in Faults /\ there' = there /\ data' = data
    BY <1>1, <2>1, <2>3 DEF Transit, TypeOK
  <2> QED
    BY <2>1, <2>2, <2>3
<1> QED
  BY <1>2, <1>3, <1>4, <1>5, <1>6, <1>7, <1>8, <1>9, <1>10, <1>11, <1>12, <1>13
     DEF Job

(* Threads that work at the same time have no directory in common.         *)
LEMMA ApartFrom ==
  ASSUME OneAtATime, NEW c \in Call, NEW x \in Call, Active(c), Active(x), x # c
  PROVE  /\ Inst(x) \in Path /\ Temp(x) \in Path
         /\ Inst(x) \notin {Inst(c), Temp(c)} /\ Temp(x) \notin {Inst(c), Temp(c)}
<1>1. x.name # c.name
  BY DEF OneAtATime
<1>2. /\ Inst(x) \in App /\ Inst(c) \in App /\ Temp(x) \notin App
      /\ Temp(c) \notin App /\ Inst(x) \in Path /\ Temp(x) \in Path
  BY PathsDisjoint
<1> QED
  BY <1>1, <1>2, PathAssumption DEF Inst, Temp

LEMMA StoreJob ==
  ASSUME TypeOK, TypeOK', StoreInv, NEW c \in Call, Job(c),
         "short" \notin Faults
  PROVE  OneAtATime' /\ NoOrphans' /\ \A x \in Call : Active(x)' => Transit(x)'
<1>1. /\ Active(c) /\ uninst' = uninst
      /\ \A x \in Call : x # c => pc'[x] = pc[x] /\ todo'[x] = todo[x]
      /\ \A d \in Path : d \notin {Inst(c), Temp(c)} =>
           there'[d] = there[d] /\ data'[d] = data[d]
  BY JobFrame
<1>2. Transit(c) /\ (Active(c)' => Transit(c)')
  BY <1>1, TransitStep DEF StoreInv
<1>3. OneAtATime'
  BY <1>1 DEF StoreInv, OneAtATime, Active
<1>4. NoOrphans'
  <2>1. \A d \in {Inst(c), Temp(c)} :
          ~there'[d] => \A e \in Entry : data'[d][e] = NoCall
    <3>1. CASE Active(c)'
      BY <1>2, <3>1 DEF Transit
    <3>2. CASE ~Active(c)'
      <4>1. ConnectThrows(c) \/ Finish(c) \/ CheckTemp(c) \/ JobRemoveDirectory(c)
            \/ JobRemoveThrows(c)
        BY <1>1, <3>2
           DEF Job, Active, Running, TypeOK, Download, Respond, MakeTemp,
               ExtractFile, ExtractDone, ExtractThrows, CheckInstalled,
               BeginMove, CopyFile, CopyDone, CopyThrows, JobRemoveEntry,
               Fail, WriteMeta, Goto
      <4>2. CASE UNCHANGED fs
        BY <1>2, <4>2 DEF Transit, fs, Inst, Temp
      <4>3. CASE JobRemoveDirectory(c)
        <5>1. /\ data' = data /\ RemovedDir(c) \in Path
              /\ \A e \in Entry : data[RemovedDir(c)][e] = NoCall
              /\ there' = [there EXCEPT ![RemovedDir(c)] = FALSE]
          BY <4>3, PathsDisjoint
             DEF JobRemoveDirectory, RemoveDirectory, RemovedDir, Listing
        <5> QED
          BY <1>2, <5>1 DEF Transit, TypeOK, Inst, Temp
      <4> QED
        BY <4>1, <4>2, <4>3
           DEF ConnectThrows, Finish, CheckTemp, JobRemoveThrows, RemoveThrows
    <3> QED
      BY <3>1, <3>2
  <2> QED
    BY <1>1, <2>1 DEF StoreInv, NoOrphans, Listing
<1>5. ASSUME NEW x \in Call, x # c, Active(x)'
      PROVE  Transit(x)'
  <2>1. Active(x) /\ Transit(x)
    BY <1>1, <1>5 DEF StoreInv, Active
  <2>2. /\ Inst(x) \in Path /\ Temp(x) \in Path
        /\ Inst(x) \notin {Inst(c), Temp(c)} /\ Temp(x) \notin {Inst(c), Temp(c)}
    BY <1>1, <1>5, <2>1, ApartFrom DEF StoreInv
  <2>3. /\ there'[Inst(x)] = there[Inst(x)] /\ data'[Inst(x)] = data[Inst(x)]
        /\ there'[Temp(x)] = there[Temp(x)] /\ data'[Temp(x)] = data[Temp(x)]
        /\ pc'[x] = pc[x] /\ todo'[x] = todo[x]
    BY <1>1, <1>5, <2>2
  <2> QED
    BY <2>1, <2>3 DEF Transit, Inst, Temp
<1> QED
  BY <1>2, <1>3, <1>4, <1>5

(* What the main thread's removal does to application a.                   *)
LEMMA UninstallEffect ==
  ASSUME TypeOK, NoOrphans, NEW a \in App, uninst = a, UninstallStep
  PROVE  /\ pc' = pc /\ uninst' \in {a, NoApp}
         /\ m_state' = m_state
         /\ \A x \in Call : todo'[x] = todo[x]
         /\ \A d \in Path : d # a => there'[d] = there[d] /\ data'[d] = data[d]
         /\ \/ data' = data
            \/ \E e \in Entry : data'[a] = [data[a] EXCEPT ![e] = NoCall]
         /\ ~there'[a] => \A e \in Entry : data'[a][e] = NoCall
<1>1. a \in Path /\ a # NoApp
  BY CallAssumption DEF Path
<1>2. /\ pc' = pc /\ uninst' \in {a, NoApp} /\ m_state' = m_state
      /\ \A x \in Call : todo'[x] = todo[x]
  BY CallAssumption
     DEF UninstallStep, UninstallEntry, UninstallDirectory, UninstallThrows,
         RemoveEntry, RemoveDirectory, RemoveThrows, SetTodo, TypeOK, Thread
<1>3. CASE UninstallDirectory \/ UninstallThrows
  BY <1>1, <1>2, <1>3
     DEF UninstallDirectory, UninstallThrows, RemoveDirectory, RemoveThrows,
         TypeOK, fs, NoOrphans, Listing
<1>4. ASSUME NEW e \in Entry, UninstallEntry(e)
      PROVE  /\ there' = there
             /\ data' = [data EXCEPT ![a] = [data[a] EXCEPT ![e] = NoCall]]
  BY <1>4 DEF UninstallEntry, RemoveEntry, Write
<1>5. ASSUME NEW e \in Entry, UninstallEntry(e)
      PROVE  /\ data'[a] = [data[a] EXCEPT ![e] = NoCall]
             /\ \A d \in Path : d # a => there'[d] = there[d] /\ data'[d] = data[d]
             /\ ~there'[a] => \A q \in Entry : data'[a][q] = NoCall
  BY <1>1, <1>4, <1>5 DEF TypeOK, NoOrphans, Listing
<1> QED
  BY <1>2, <1>3, <1>5 DEF UninstallStep

LEMMA StoreNextStep ==
  ASSUME TypeOK, TypeOK', StoreInv, [SerialNext]_vars, "short" \notin Faults
  PROVE  StoreInv'
<1>1. MetaInv'
  BY MetaNext, SerialRefinesNext DEF StoreInv
<1>2. ASSUME NEW c \in Call, InTurn(c), Install(c) PROVE StoreInv'
  <2>1. /\ pc' = [pc EXCEPT ![c] = "ready"] /\ uninst' = uninst
        /\ uninst = NoApp /\ todo' = todo /\ there' = there /\ data' = data
    BY <1>2 DEF Install, Goto, fs
  <2>2. \A x \in Call : x # c => pc'[x] = pc[x]
    BY <2>1 DEF TypeOK
  <2>3. c.name \in App /\ NoApp \notin App
    BY CallAssumption, PathsDisjoint DEF Inst
  <2>4. OneAtATime'
    BY <1>2, <2>1, <2>2, <2>3, CallAssumption, PathsDisjoint
       DEF StoreInv, OneAtATime, InTurn, Active, Running, TypeOK, Inst
  <2>5. NoOrphans'
    BY <2>1 DEF StoreInv, NoOrphans, Listing
  <2>6. \A x \in Call : x # c /\ Active(x)' => Transit(x)'
    BY <2>1, <2>2 DEF StoreInv, Active, Transit, Inst, Temp
  <2>7. pc'[c] = "ready" /\ Inst(c) \in Path /\ Temp(c) \in Path
    BY <2>1, PathsDisjoint DEF TypeOK
  <2>8. Transit(c)'
    BY <2>1, <2>7 DEF StoreInv, NoOrphans, Listing, Transit, Inst, Temp
  <2> QED
    BY <1>1, <2>4, <2>5, <2>6, <2>8 DEF StoreInv
<1>3. ASSUME NEW a \in App, \A d \in Call : Active(d) => d.name # a, Uninstall(a)
      PROVE  StoreInv'
  <2>1. /\ pc' = pc /\ there' = there /\ data' = data /\ uninst' = a
        /\ \A x \in Call : todo'[x] = todo[x]
    BY <1>3, CallAssumption DEF Uninstall, SetTodo, TypeOK, Thread, fs
  <2> QED
    BY <1>1, <1>3, <2>1
       DEF StoreInv, OneAtATime, NoOrphans, Listing, Active, Transit, Inst, Temp
<1>4. ASSUME NEW c \in Call, Job(c) PROVE StoreInv'
  BY <1>1, <1>4, StoreJob DEF StoreInv
<1>5. CASE UninstallStep
  <2>1. PICK a \in App : uninst = a
    BY <1>5 DEF TypeOK, UninstallStep, UninstallEntry, UninstallDirectory,
                UninstallThrows
  <2>2. /\ pc' = pc /\ uninst' \in {a, NoApp}
        /\ \A x \in Call : todo'[x] = todo[x]
        /\ \A d \in Path : d # a => there'[d] = there[d] /\ data'[d] = data[d]
        /\ ~there'[a] => \A e \in Entry : data'[a][e] = NoCall
    BY <1>5, <2>1, UninstallEffect DEF StoreInv
  <2>3. OneAtATime'
    BY <2>1, <2>2, CallAssumption, PathsDisjoint
       DEF StoreInv, OneAtATime, Active, Inst
  <2>4. NoOrphans'
    BY <2>2 DEF StoreInv, NoOrphans, Listing
  <2>5. ASSUME NEW c \in Call, Active(c)'
        PROVE  Transit(c)'
    <3>1. Active(c) /\ Transit(c) /\ c.name # a
      BY <2>1, <2>2, <2>5 DEF StoreInv, OneAtATime, Active
    <3>2. Inst(c) # a /\ Temp(c) # a /\ Inst(c) \in Path /\ Temp(c) \in Path
      BY <3>1, PathsDisjoint DEF Inst
    <3> QED
      BY <2>2, <3>1, <3>2 DEF Transit, Inst, Temp
  <2> QED
    BY <1>1, <2>3, <2>4, <2>5 DEF StoreInv
<1>6. CASE Crash
  <2>1. \A c \in Call : ~Active(c)'
    BY <1>6 DEF Crash, Active, Running, TypeOK
  <2> QED
    BY <1>1, <1>6, <2>1 DEF StoreInv, OneAtATime, NoOrphans, Listing, Crash, fs
<1>7. CASE UNCHANGED vars
  BY <1>1, <1>7 DEF vars, StoreInv, OneAtATime, NoOrphans, Listing, Active,
                    Transit, Inst, Temp
<1> QED
  BY <1>2, <1>3, <1>4, <1>5, <1>6, <1>7 DEF SerialNext

LEMMA StoreInit == Init => StoreInv
  BY CallAssumption
     DEF Init, StoreInv, OneAtATime, NoOrphans, MetaInv, Active, Running,
         Listing, Path, Entry

LEMMA StoreAlways ==
  ASSUME "short" \notin Faults
  PROVE  SerialSpec => [](TypeOK /\ StoreInv)
<1>1. TypeOK /\ [SerialNext]_vars => TypeOK'
  BY TypeNext, SerialRefinesNext
<1>2. TypeOK /\ TypeOK' /\ StoreInv /\ [SerialNext]_vars => StoreInv'
  BY StoreNextStep
<1> QED
  BY <1>1, <1>2, TypeInit, StoreInit, PTL DEF SerialSpec

-----------------------------------------------------------------------------
(* AppStore's variable, as the refinement maps it.                         *)
Apps == [a \in App |-> Listed(a)]

(* The ways in which one application's directory may change that AppStore  *)
(* knows: nothing is listed before or after; an entry is removed; the meta *)
(* file is written to a whole directory.                                   *)
LEMMA StoreStep ==
  ASSUME TypeOK, TypeOK', NEW a \in App,
         \A b \in App : b # a => data'[b] = data[b],
         \/ data'[a] = data[a]
         \/ data[a][META_FILE] = NoCall /\ data'[a][META_FILE] = NoCall
         \/ \E e \in Entry : data'[a] = [data[a] EXCEPT ![e] = NoCall]
         \/ /\ data[a][META_FILE] = NoCall /\ data'[a][META_FILE] # NoCall
            /\ \A f \in data'[a][META_FILE].files :
                 data'[a][f] = data'[a][META_FILE]
  PROVE  Store!Next \/ Apps' = Apps
<1>1. /\ META_FILE \in Entry /\ a \in Path /\ NoCall \notin Call
      /\ \A c \in Call : c.files \subseteq Entry
  BY CallAssumption DEF Entry, Path, InstallThread_Param
<1>2. \A b \in App : b # a => Listed(b)' = Listed(b)
  BY DEF Listed, Whole
<1>3. Apps' = [Apps EXCEPT ![a] = Listed(a)'] /\ Apps[a] = Listed(a)
  BY <1>2 DEF Apps
<1>4. CASE Listed(a)' = Listed(a)
  BY <1>3, <1>4 DEF Apps
<1>5. CASE data[a][META_FILE] # NoCall /\ data'[a][META_FILE] = NoCall
  <2>1. data[a][META_FILE] \in Call /\ Whole(a, data[a][META_FILE]) \in BOOLEAN
    BY <1>1, <1>5 DEF TypeOK, Whole
  <2>2. Listed(a) # Absent
    BY <1>5, <2>1, AbsentAssumption DEF Listed
  <2>3. Listed(a)' = Absent
    BY <1>5 DEF Listed
  <2> QED
    BY <1>3, <2>2, <2>3 DEF Store!Next, Store!Withdraw, Apps
<1>6. CASE /\ data[a][META_FILE] # NoCall
           /\ data'[a][META_FILE] = data[a][META_FILE]
           /\ \E e \in Entry : data'[a] = [data[a] EXCEPT ![e] = NoCall]
  <2>1. PICK c \in Call : c = data[a][META_FILE]
    BY <1>1, <1>6 DEF TypeOK
  <2>2. PICK w \in BOOLEAN, v \in BOOLEAN : w = Whole(a, c) /\ v = Whole(a, c)'
    BY DEF Whole
  <2>3. Listed(a) = [by |-> c, whole |-> w] /\ Listed(a)' = [by |-> c, whole |-> v]
    BY <1>6, <2>1, <2>2 DEF Listed, Whole
  <2>4. v => w
    BY <1>1, <1>6, <2>1, <2>2 DEF Whole, TypeOK
  <2>5. CASE w = TRUE /\ v = FALSE
    <3>1. /\ Listed(a) # Absent /\ Listed(a).whole
          /\ [Listed(a) EXCEPT !.whole = FALSE] = Listed(a)'
      <4>1. Listed(a) # Absent
        BY <2>3, AbsentAssumption
      <4>2. [Listed(a) EXCEPT !.whole = v] = Listed(a)'
        BY <2>3
      <4>3. Listed(a).whole = w
        BY <2>3
      <4> QED
        BY <2>5, <4>1, <4>2, <4>3
    <3>2. Apps' = [Apps EXCEPT ![a] = [@ EXCEPT !.whole = FALSE]]
      BY <1>3, <3>1
    <3>3. Store!Tear(a)
      BY <1>3, <3>1, <3>2 DEF Store!Tear, Apps
    <3> QED
      BY <3>3 DEF Store!Next
  <2> QED
    BY <1>4, <2>3, <2>4, <2>5
<1>7. CASE data[a][META_FILE] = NoCall /\ data'[a][META_FILE] = NoCall
  BY <1>4, <1>7 DEF Listed
<1>8. CASE /\ data[a][META_FILE] = NoCall /\ data'[a][META_FILE] # NoCall
           /\ \A f \in data'[a][META_FILE].files :
                data'[a][f] = data'[a][META_FILE]
  <2>1. PICK c \in Call : c = data'[a][META_FILE]
    BY <1>1, <1>8 DEF TypeOK
  <2>2. Whole(a, c)' = TRUE
    BY <1>8, <2>1 DEF Whole
  <2>3. Listed(a) = Absent /\ Listed(a)' = [by |-> c, whole |-> TRUE]
    BY <1>8, <2>1, <2>2 DEF Listed, Whole
  <2>4. Store!Publish(a, c)
    BY <1>3, <2>3 DEF Store!Publish, Apps
  <2> QED
    BY <2>1, <2>4 DEF Store!Next
<1>9. CASE data'[a] = data[a]
  BY <1>4, <1>9 DEF Listed, Whole
<1>10. ASSUME NEW e \in Entry, data'[a] = [data[a] EXCEPT ![e] = NoCall]
       PROVE  data'[a][META_FILE] \in {data[a][META_FILE], NoCall}
  BY <1>1, <1>10 DEF TypeOK
<1> QED
  BY <1>5, <1>6, <1>7, <1>8, <1>9, <1>10

(* What a step of a thread does to the application it works for.           *)
LEMMA JobDelivers ==
  ASSUME TypeOK, TypeOK', MetaInv, NEW c \in Call, Transit(c), Job(c),
         "short" \notin Faults
  PROVE  LET a == Inst(c) IN
         \/ data'[a] = data[a]
         \/ data[a][META_FILE] = NoCall /\ data'[a][META_FILE] = NoCall
         \/ \E e \in Entry : data'[a] = [data[a] EXCEPT ![e] = NoCall]
         \/ /\ data[a][META_FILE] = NoCall /\ data'[a][META_FILE] # NoCall
            /\ \A f \in data'[a][META_FILE].files :
                 data'[a][f] = data'[a][META_FILE]
<1> DEFINE a == Inst(c)
<1>1. /\ a \in Path /\ Temp(c) \in Path /\ a # Temp(c)
      /\ META_FILE \in Entry /\ META_FILE \notin File /\ c.files \subseteq File
      /\ File \subseteq Entry /\ c # NoCall
      /\ data[Temp(c)][META_FILE] = NoCall
  BY PathsDisjoint, CallAssumption DEF Entry, InstallThread_Param, MetaInv
<1>2. ASSUME NEW f \in File, ExtractFile(c, f) PROVE data'[a] = data[a]
  BY <1>1, <1>2 DEF ExtractFile, Write, fs, TypeOK
<1>3. CASE BeginMove(c)
  BY <1>3 DEF BeginMove, Transit, fs
<1>4. ASSUME NEW q \in Entry, CopyFile(c, q)
      PROVE  data[a][META_FILE] = NoCall /\ data'[a][META_FILE] = NoCall
  <2>1. /\ q # META_FILE /\ data[a][META_FILE] = NoCall
        /\ data[Temp(c)][q] \in Call \cup {NoCall}
    BY <1>1, <1>4 DEF CopyFile, Transit, TypeOK
  <2> QED
    BY <1>1, <1>4, <2>1, WriteEffect DEF CopyFile
<1>5. ASSUME NEW q \in Entry, JobRemoveEntry(c, q)
      PROVE  data'[a] \in {data[a], [data[a] EXCEPT ![q] = NoCall]}
  BY <1>1, <1>5 DEF JobRemoveEntry, RemoveEntry, RemovedDir, Write, TypeOK
<1>6. CASE WriteMeta(c)
  <2>1. /\ data[a][META_FILE] = NoCall
        /\ \A f \in c.files : data[a][f] = c
        /\ Write(a, META_FILE, c) \/ data' = data
    BY <1>6 DEF WriteMeta, Transit, fs
  <2>2. CASE Write(a, META_FILE, c)
    <3>1. data'[a][META_FILE] = c /\ \A f \in c.files : data'[a][f] = c
      BY <1>1, <2>1, <2>2, WriteEffect
    <3> QED
      BY <1>1, <2>1, <3>1
  <2> QED
    BY <2>1, <2>2
<1>7. CASE UNCHANGED data
  BY <1>7
<1> QED
  BY <1>2, <1>3, <1>4, <1>5, <1>6, <1>7
     DEF Job, Download, Respond, ConnectThrows, MakeTemp, ExtractDone,
         ExtractThrows, CheckInstalled, CopyDone, CopyThrows,
         JobRemoveDirectory, RemoveDirectory, JobRemoveThrows, RemoveThrows,
         Fail, CheckTemp, Finish, fs

(* Every step of the installer is a step of AppStore or changes nothing    *)
(* that AppStore sees.                                                     *)
LEMMA StoreRefines ==
  ASSUME TypeOK, TypeOK', StoreInv, [SerialNext]_vars, "short" \notin Faults
  PROVE  Store!Next \/ Apps' = Apps
<1>1. App \subseteq Path
  BY DEF Path
<1>2. ASSUME NEW c \in Call, Job(c) PROVE Store!Next \/ Apps' = Apps
  <2>1. /\ Active(c) /\ Inst(c) \in App /\ Temp(c) \notin App
        /\ \A d \in Path : d \notin {Inst(c), Temp(c)} =>
             there'[d] = there[d] /\ data'[d] = data[d]
    BY <1>2, JobFrame, PathsDisjoint
  <2>2. \A b \in App : b # Inst(c) => data'[b] = data[b]
    BY <1>1, <2>1
  <2> QED
    BY <1>2, <2>1, <2>2, JobDelivers, StoreStep DEF StoreInv
<1>3. CASE UninstallStep
  <2>1. PICK a \in App : uninst = a
    BY <1>3 DEF TypeOK, UninstallStep, UninstallEntry, UninstallDirectory,
                UninstallThrows
  <2>2. /\ \A d \in Path : d # a => there'[d] = there[d] /\ data'[d] = data[d]
        /\ \/ data' = data
           \/ \E e \in Entry : data'[a] = [data[a] EXCEPT ![e] = NoCall]
    BY <1>3, <2>1, UninstallEffect DEF StoreInv
  <2> QED
    BY <1>1, <2>2, StoreStep
<1>4. CASE data' = data
  BY <1>4 DEF Apps, Listed, Whole
<1> QED
  BY <1>2, <1>3, <1>4
     DEF SerialNext, Install, Uninstall, Crash, vars, fs

(* The list of applications is AppStore's, under any interleaving of pages *)
(* that take turns and with crashes, failed removals and failed clean ups. *)
THEOREM ImplementsStore ==
  ASSUME "short" \notin Faults
  PROVE  SerialSpec => ImplementsAppStore
<1>1. Init => Store!Init
  BY CallAssumption DEF Init, Store!Init, Listed, Path, Entry
<1>2. /\ TypeOK /\ StoreInv /\ (TypeOK /\ StoreInv)' /\ [SerialNext]_vars
      => [Store!Next]_Apps
  BY StoreRefines
<1> QED
  BY <1>1, <1>2, StoreAlways, PTL
     DEF SerialSpec, ImplementsAppStore, Store!Spec, Apps

-----------------------------------------------------------------------------
(* A status becomes FINISH only when all files of one of the plugin        *)
(* object's calls are installed and what is listed is that call's version, *)
(* or nothing where the meta file may fail to be written.                  *)
THEOREM FinishIsPublished ==
  ASSUME "short" \notin Faults
  PROVE  SerialSpec => FinishPublishes
<1> DEFINE Vouched ==
      \A p \in Plugin : m_state[p] # "FINISH" /\ m_state'[p] = "FINISH" =>
        \E c \in Call : c.plugin = p /\ Published(c)
<1>1. ASSUME TypeOK, StoreInv, [SerialNext]_vars
      PROVE  Vouched
  <2> SUFFICES ASSUME NEW p \in Plugin, m_state[p] # "FINISH",
                      m_state'[p] = "FINISH"
               PROVE  \E c \in Call : c.plugin = p /\ Published(c)
    OBVIOUS
  <2>1. PICK c \in Call : Job(c) /\ m_state' # m_state
    <3>1. ASSUME NEW d \in Call, Install(d) PROVE m_state'[p] # "FINISH"
      BY <3>1, PathsDisjoint DEF Install, setState, TypeOK
    <3> QED
      BY <1>1, <3>1
         DEF SerialNext, Uninstall, UninstallStep, UninstallEntry,
             UninstallDirectory, UninstallThrows, Crash, vars
  <2>2. Finish(c) /\ c.plugin = p
    BY <1>1, <2>1, PathsDisjoint
       DEF Job, Download, Respond, ConnectThrows, MakeTemp, ExtractFile,
           ExtractDone, ExtractThrows, CheckInstalled, BeginMove, CopyFile,
           CopyDone, CopyThrows, JobRemoveEntry, JobRemoveDirectory,
           JobRemoveThrows, Fail, CheckTemp, WriteMeta, Finish, setState,
           TypeOK
  <2>3. Transit(c) /\ pc[c] = "finish"
    BY <1>1, <2>1, <2>2, JobFrame DEF StoreInv, Finish
  <2> QED
    BY <2>2, <2>3 DEF Transit, Inst, Whole, Published, GetAppList
<1>2. TypeOK /\ StoreInv /\ [SerialNext]_vars => [Vouched]_vars
  BY <1>1
<1> QED
  BY <1>2, StoreAlways, PTL DEF SerialSpec, FinishPublishes

-----------------------------------------------------------------------------
(* A thread that runs has its plugin object, and its status, to itself.    *)
StatusInv ==
  /\ \A c, d \in Call : Active(c) /\ Active(d) /\ c # d => c.plugin # d.plugin
  /\ BusyIsVisible

LEMMA StatusNext ==
  ASSUME TypeOK, TypeOK', StatusInv, [SerialNext]_vars
  PROVE  StatusInv'
<1>1. ASSUME NEW c \in Call, InTurn(c), Install(c) PROVE StatusInv'
  <2>1. /\ pc' = [pc EXCEPT ![c] = "ready"] /\ c.plugin \in Plugin
        /\ m_state' = [m_state EXCEPT ![c.plugin] = "CHK_VERSION"]
    BY <1>1, PathsDisjoint DEF Install, Goto, setState
  <2>2. \A x \in Call : x # c /\ Active(x)' => Active(x) /\ x.plugin # c.plugin
    BY <1>1, <2>1 DEF InTurn, Active, TypeOK
  <2>3. \A x \in Call : x # c => pc'[x] = pc[x]
    BY <2>1 DEF TypeOK
  <2>4. \A x \in Call : x.plugin # c.plugin => m_state'[x.plugin] = m_state[x.plugin]
    BY <2>1, PathsDisjoint DEF TypeOK
  <2>5. m_state'[c.plugin] = "CHK_VERSION"
    BY <2>1 DEF TypeOK
  <2> QED
    BY <2>2, <2>3, <2>4, <2>5 DEF StatusInv, BusyIsVisible
<1>2. ASSUME NEW c \in Call, Job(c) PROVE StatusInv'
  <2>1. /\ Active(c) /\ c.plugin \in Plugin
        /\ \A x \in Call : x # c => pc'[x] = pc[x]
    BY <1>2, JobFrame, PathsDisjoint
  <2>2. \A x \in Call : Active(x)' => Active(x)
    BY <2>1 DEF Active
  <2>3. \A p \in Plugin : p # c.plugin => m_state'[p] = m_state[p]
    BY <1>2 DEF Job, Download, Respond, ConnectThrows, MakeTemp, ExtractFile,
       ExtractDone, ExtractThrows, CheckInstalled, BeginMove, CopyFile,
       CopyDone, CopyThrows, JobRemoveEntry, JobRemoveDirectory,
       JobRemoveThrows, Fail, CheckTemp, WriteMeta, Finish, setState, TypeOK
  <2>4. Active(c)' /\ pc'[c] \notin {"cleanup", "clean"} =>
          m_state'[c.plugin] \notin {"DEFAULT", "FINISH", "_ERROR"}
    <3>1. pc[c] \notin {"cleanup", "clean"} =>
            m_state[c.plugin] \notin {"DEFAULT", "FINISH", "_ERROR"}
      BY <2>1 DEF StatusInv, BusyIsVisible
    <3> QED
      BY <1>2, <2>1, <3>1
         DEF Job, Active, Running, Download, Respond, ConnectThrows, MakeTemp,
             ExtractFile, ExtractDone, ExtractThrows, CheckInstalled,
             BeginMove, CopyFile, CopyDone, CopyThrows, JobRemoveEntry,
             JobRemoveDirectory, Removing, AfterRemove, AfterThrow,
             JobRemoveThrows, Fail, CheckTemp, WriteMeta, Finish, setState,
             Goto, TypeOK
  <2>5. ASSUME NEW x \in Call, x # c, Active(x)'
        PROVE  m_state'[x.plugin] = m_state[x.plugin] /\ pc'[x] = pc[x]
    <3>1. x.plugin # c.plugin /\ x.plugin \in Plugin
      BY <2>1, <2>2, <2>5, PathsDisjoint DEF StatusInv
    <3> QED
      BY <2>1, <2>3, <2>5, <3>1
  <2> QED
    BY <2>2, <2>4, <2>5 DEF StatusInv, BusyIsVisible
<1>3. CASE pc' = pc /\ m_state' = m_state
  BY <1>3 DEF StatusInv, BusyIsVisible, Active
<1>4. CASE Crash
  <2>1. \A c \in Call : ~Active(c)'
    BY <1>4 DEF Crash, Active, Running, TypeOK
  <2> QED
    BY <2>1 DEF StatusInv, BusyIsVisible
<1> QED
  BY <1>1, <1>2, <1>3, <1>4
     DEF SerialNext, Uninstall, UninstallStep, UninstallEntry,
         UninstallDirectory, UninstallThrows, vars

(* A page that polls while a thread works for its plugin never reads a     *)
(* final status, neither an old nor an early one, whatever fails.          *)
THEOREM StatusIsHonest == SerialSpec => []BusyIsVisible
<1>1. Init => StatusInv
  BY DEF Init, StatusInv, BusyIsVisible, Active, Running
<1>2. TypeOK /\ [SerialNext]_vars => TypeOK'
  BY TypeNext, SerialRefinesNext
<1>3. TypeOK /\ TypeOK' /\ StatusInv /\ [SerialNext]_vars => StatusInv'
  BY StatusNext
<1> QED
  BY <1>1, <1>2, <1>3, TypeInit, PTL DEF SerialSpec, StatusInv
=============================================================================
