----------------------- MODULE AppManagerSerialProofs -----------------------
(***************************************************************************)
(* Proof that OneDelivery is an invariant of AppManagerSerial for any      *)
(* applications, files and calls, as long as nothing leaves a temporary    *)
(* directory behind: neither a crash nor a clean up that fails.  The       *)
(* argument: the thread that works for an application owns its two         *)
(* directories (Local), no other step touches them (JobFrame), and so the  *)
(* move finds no directory in its place and the meta file is written next  *)
(* to that thread's files alone.                                           *)
(***************************************************************************)
EXTENDS AppManagerSerial, AppManagerProofs

(* A thread's step leaves every other thread and application alone.        *)
LEMMA JobFrame ==
  ASSUME TypeOK, NEW c \in Call, Job(c)
  PROVE  /\ Active(c)
         /\ uninst' = uninst
         /\ \A x \in Call : x # c => pc'[x] = pc[x] /\ todo'[x] = todo[x]
         /\ \A d \in Path : d \notin {Inst(c), Temp(c)} =>
              there'[d] = there[d] /\ data'[d] = data[d]
<1>1. c \in Thread /\ c # Main /\ RemovedDir(c) \in {Inst(c), Temp(c)}
  BY CallAssumption DEF Thread, RemovedDir
<1>2. Active(c)
  BY DEF Active, Job, Running, Download, Respond, ConnectThrows, MakeTemp,
         ExtractFile, ExtractDone, ExtractThrows, CheckInstalled, BeginMove,
         CopyFile, CopyDone, CopyThrows, JobRemoveEntry, JobRemoveDirectory,
         JobRemoveThrows, Removing, Fail, CheckTemp, WriteMeta, Finish
<1>3. uninst' = uninst
  BY DEF Job, Download, Respond, ConnectThrows, MakeTemp, ExtractFile,
         ExtractDone, ExtractThrows, CheckInstalled, BeginMove, CopyFile,
         CopyDone, CopyThrows, JobRemoveEntry, JobRemoveDirectory,
         JobRemoveThrows, Fail, CheckTemp, WriteMeta, Finish
<1>4. ASSUME NEW x \in Call, x # c PROVE pc'[x] = pc[x] /\ todo'[x] = todo[x]
  BY <1>4
     DEF TypeOK, Thread, Job, Download, Respond, ConnectThrows, MakeTemp,
         ExtractFile, ExtractDone, ExtractThrows, CheckInstalled, BeginMove,
         CopyFile, CopyDone, CopyThrows, JobRemoveEntry, RemoveEntry,
         JobRemoveDirectory, RemoveDirectory, JobRemoveThrows, RemoveThrows,
         Fail, CheckTemp, WriteMeta, Finish, Goto, SetTodo
<1>5. ASSUME NEW d \in Path, d \notin {Inst(c), Temp(c)}
      PROVE  there'[d] = there[d] /\ data'[d] = data[d]
  BY <1>1, <1>5
     DEF TypeOK, Job, Download, Respond, ConnectThrows, MakeTemp, ExtractFile,
         ExtractDone, ExtractThrows, CheckInstalled, BeginMove, CopyFile,
         CopyDone, CopyThrows, JobRemoveEntry, RemoveEntry,
         JobRemoveDirectory, RemoveDirectory, JobRemoveThrows, RemoveThrows,
         Fail, CheckTemp, WriteMeta, Finish, Write, fs
<1> QED
  BY <1>2, <1>3, <1>4, <1>5

-----------------------------------------------------------------------------
Holding == {"extract", "check", "remove", "move", "copy", "drop", "failed",
            "cleanup", "clean"}

(* The invariant as the thread of call c sees it, in its two directories.  *)
Local(c) ==
  /\ \A d \in {Inst(c), Temp(c)} :
       ~there[d] => \A e \in Entry : data[d][e] = NoCall
  /\ \A e \in Entry : data[Temp(c)][e] # NoCall =>
       e \in File /\ data[Temp(c)][e] = c /\ pc[c] \in Holding
  /\ pc[c] = "clean" => there[Temp(c)] /\ todo[c] = Listing(Temp(c))
  /\ pc[c] = "move" => ~there[Inst(c)]
  /\ pc[c] \in {"copy", "drop", "meta"} =>
       \A e \in Entry : /\ data[Inst(c)][e] \in {NoCall, c}
                        /\ data[Inst(c)][META_FILE] = NoCall
  /\ data[Inst(c)][META_FILE] # NoCall =>
       \A e \in Entry : data[Inst(c)][e] \in {NoCall, data[Inst(c)][META_FILE]}

LEMMA LocalStep ==
  ASSUME TypeOK, TypeOK', NEW c \in Call, Local(c), Job(c),
         "cleanup" \notin Faults
  PROVE  Local(c)'
<1>1. /\ Inst(c) \in Path /\ Temp(c) \in Path /\ Inst(c) # Temp(c)
      /\ META_FILE \in Entry /\ META_FILE \notin File /\ SUBDIR \in Entry
      /\ File \subseteq Entry /\ c \in Thread /\ c # NoCall /\ NoCall \notin Call
  BY PathsDisjoint, CallAssumption DEF Entry, Thread
<1>2. CASE Download(c) \/ Respond(c) \/ ConnectThrows(c) \/ ExtractDone(c)
  BY <1>1, <1>2
     DEF Local, Holding, Download, Respond, ConnectThrows, ExtractDone, Goto,
         fs, TypeOK, Listing
<1>3. CASE MakeTemp(c) \/ ExtractThrows(c)
  BY <1>1, <1>3
     DEF Local, Holding, MakeTemp, ExtractThrows, Goto, SetTodo, fs, TypeOK,
         Listing
<1>4. ASSUME NEW f \in File, ExtractFile(c, f) PROVE Local(c)'
  <2>1. CASE there[Temp(c)] /\ Write(Temp(c), f, c)
    <3>1. /\ there' = there /\ pc' = pc /\ pc[c] = "extract"
          /\ \A e \in Entry : data'[Inst(c)][e] = data[Inst(c)][e]
          /\ \A e \in Entry :
               data'[Temp(c)][e] = IF e = f THEN c ELSE data[Temp(c)][e]
      BY <1>1, <1>4, <2>1, WriteEffect DEF ExtractFile
    <3> QED
      BY <1>1, <2>1, <3>1 DEF Local, Holding
  <2>2. CASE UNCHANGED fs
    BY <1>1, <1>4, <2>2 DEF Local, ExtractFile, fs
  <2> QED
    BY <1>4, <2>1, <2>2 DEF ExtractFile
<1>5. CASE CheckInstalled(c) \/ CheckTemp(c)
  BY <1>1, <1>5
     DEF Local, Holding, CheckInstalled, CheckTemp, Goto, SetTodo, fs, TypeOK,
         Listing
<1>6. CASE BeginMove(c)
  <2>1. CASE ~there[Temp(c)]
    BY <1>1, <1>6, <2>1 DEF Local, Holding, BeginMove, Goto, fs, TypeOK
  <2>2. CASE there[Temp(c)]
    BY <1>1, <1>6, <2>2 DEF Local, Holding, BeginMove, Goto, SetTodo, TypeOK
  <2> QED
    BY <2>1, <2>2
<1>7. ASSUME NEW q \in Entry, CopyFile(c, q) PROVE Local(c)'
  <2>1. q \in File /\ data[Temp(c)][q] = c
    BY <1>1, <1>7 DEF CopyFile, Local
  <2>2. /\ there' = there /\ pc' = pc /\ pc[c] = "copy" /\ there[Inst(c)]
        /\ \A e \in Entry : data'[Temp(c)][e] = data[Temp(c)][e]
        /\ \A e \in Entry :
             data'[Inst(c)][e] = IF e = q THEN c ELSE data[Inst(c)][e]
    BY <1>1, <1>7, <2>1, WriteEffect DEF CopyFile
  <2> QED
    BY <1>1, <2>1, <2>2 DEF Local, Holding
<1>8. CASE CopyDone(c) \/ CopyThrows(c)
  BY <1>1, <1>8 DEF Local, Holding, CopyDone, CopyThrows, Goto, fs, TypeOK
<1>9. ASSUME NEW q \in Entry, JobRemoveEntry(c, q) PROVE Local(c)'
  <2>1. /\ there' = there /\ pc' = pc /\ pc[c] \in Removing
        /\ todo'[c] = todo[c] \ {q}
        /\ \A d \in {Inst(c), Temp(c)}, e \in Entry :
             data'[d][e] = IF d = RemovedDir(c) /\ e = q THEN NoCall
                           ELSE data[d][e]
    BY <1>1, <1>9, WriteEffect
       DEF JobRemoveEntry, RemoveEntry, RemovedDir, SetTodo, TypeOK
  <2> QED
    BY <1>1, <2>1 DEF Local, Holding, Removing, RemovedDir, Listing
<1>10. CASE JobRemoveDirectory(c)
  <2>1. /\ data' = data
        /\ \A e \in Entry : data[RemovedDir(c)][e] = NoCall
        /\ there' = [there EXCEPT ![RemovedDir(c)] = FALSE]
        /\ pc' = [pc EXCEPT ![c] = AfterRemove(pc[c])] /\ pc[c] \in Removing
    BY <1>10 DEF JobRemoveDirectory, RemoveDirectory, Goto, Listing
  <2> QED
    BY <1>1, <2>1
       DEF Local, Holding, Removing, RemovedDir, AfterRemove, TypeOK
<1>11. CASE JobRemoveThrows(c)
  <2>1. pc[c] # "clean"
    BY <1>1, <1>11
       DEF Local, JobRemoveThrows, RemoveThrows, RemovedDir, Listing
  <2> QED
    BY <1>1, <1>11, <2>1
       DEF Local, Holding, JobRemoveThrows, RemoveThrows, Removing, AfterThrow,
           Goto, fs, TypeOK
<1>12. CASE Fail(c) \/ Finish(c)
  BY <1>1, <1>12 DEF Local, Holding, Fail, Finish, Goto, fs, TypeOK
<1>13. CASE WriteMeta(c)
  <2>1. pc' = [pc EXCEPT ![c] = "finish"] /\ pc[c] = "meta"
    BY <1>13 DEF WriteMeta, Goto
  <2>2. CASE there[Inst(c)] /\ Write(Inst(c), META_FILE, c)
    <3>1. /\ there' = there
          /\ \A e \in Entry : data'[Temp(c)][e] = data[Temp(c)][e]
          /\ \A e \in Entry :
               data'[Inst(c)][e] = IF e = META_FILE THEN c ELSE data[Inst(c)][e]
      BY <1>1, <2>2, WriteEffect
    <3> QED
      BY <1>1, <2>1, <2>2, <3>1 DEF Local, Holding, TypeOK
  <2>3. CASE UNCHANGED fs
    BY <1>1, <2>1, <2>3 DEF Local, Holding, fs, TypeOK
  <2> QED
    BY <1>13, <2>2, <2>3 DEF WriteMeta
<1> QED
  BY <1>2, <1>3, <1>4, <1>5, <1>6, <1>7, <1>8, <1>9, <1>10, <1>11, <1>12, <1>13
     DEF Job

-----------------------------------------------------------------------------
LEMMA InvIsLocal ==
  ASSUME TypeOK, SerialInv, NEW c \in Call, Active(c)
  PROVE  Local(c)
<1>1. /\ Inst(c) \in Path /\ Temp(c) \in Path /\ Inst(c) \in App
      /\ c.name = Inst(c) /\ Temp(c) = TempOf[Inst(c)]
  BY PathsDisjoint DEF Inst, Temp
<1>2. ASSUME NEW e \in Entry, data[Temp(c)][e] # NoCall
      PROVE  e \in File /\ data[Temp(c)][e] = c /\ pc[c] \in Holding
  <2> DEFINE b == data[Temp(c)][e]
  <2>1. /\ e \in File /\ b \in Call /\ b.name = c.name /\ pc[b] \in Holding
    BY <1>1, <1>2 DEF SerialInv, TempOwned, Holding, TypeOK
  <2>2. Active(b)
    BY <2>1 DEF Active, Running, Holding
  <2> QED
    BY <2>1, <2>2 DEF SerialInv, OneAtATime
<1>3. data[Inst(c)][META_FILE] # NoCall => Inst(c) \in GetAppList
  BY <1>1 DEF GetAppList
<1> QED
  BY <1>1, <1>2, <1>3
     DEF Local, SerialInv, NoOrphans, CleanMeetsAll, InstOwned, OneDelivery,
         Listing

LEMMA SerialJob ==
  ASSUME TypeOK, TypeOK', SerialInv, NEW c \in Call, Job(c),
         "cleanup" \notin Faults
  PROVE  SerialInv'
<1>1. /\ Inst(c) \in App /\ Inst(c) \in Path /\ Temp(c) \in Path
      /\ Inst(c) # Temp(c) /\ Temp(c) \notin App
      /\ c.name = Inst(c) /\ Temp(c) = TempOf[Inst(c)]
  BY PathsDisjoint DEF Inst, Temp
<1>2. /\ Active(c) /\ uninst' = uninst
      /\ \A x \in Call : x # c => pc'[x] = pc[x] /\ todo'[x] = todo[x]
      /\ \A d \in Path : d \notin {Inst(c), Temp(c)} =>
           there'[d] = there[d] /\ data'[d] = data[d]
  BY JobFrame
<1>3. Local(c)'
  BY <1>2, InvIsLocal, LocalStep
<1>4. \A x \in Call : Active(x)' => Active(x)
  BY <1>2 DEF Active
<1>5. ASSUME NEW x \in Call, x # c, Active(x)
      PROVE  /\ Inst(x) \in Path /\ Temp(x) \in Path
             /\ Inst(x) \notin {Inst(c), Temp(c)}
             /\ Temp(x) \notin {Inst(c), Temp(c)}
  <2>1. x.name # c.name
    BY <1>2, <1>5 DEF SerialInv, OneAtATime
  <2>2. /\ Inst(x) \in App /\ Inst(x) \in Path /\ Temp(x) \in Path
        /\ Temp(x) \notin App
    BY PathsDisjoint
  <2> QED
    BY <1>1, <2>1, <2>2, PathAssumption DEF Inst, Temp
<1>6. OneAtATime'
  BY <1>2, <1>4 DEF SerialInv, OneAtATime
<1>7. NoOrphans'
  BY <1>1, <1>2, <1>3 DEF SerialInv, NoOrphans, Local, Listing
<1>8. TempOwned'
  <2> SUFFICES ASSUME NEW a \in App, NEW e \in Entry,
                      data'[TempOf[a]][e] # NoCall
               PROVE  /\ e \in File
                      /\ data'[TempOf[a]][e].name = a
                      /\ pc'[data'[TempOf[a]][e]] \in Holding
    BY DEF TempOwned, Holding
  <2>1. CASE a = Inst(c)
    BY <1>1, <1>3, <2>1 DEF Local
  <2>2. CASE a # Inst(c)
    <3>1. TempOf[a] \in Path /\ TempOf[a] \notin {Inst(c), Temp(c)}
      BY <1>1, <2>2, PathAssumption DEF Path
    <3>2. data'[TempOf[a]] = data[TempOf[a]]
      BY <1>2, <3>1
    <3> DEFINE b == data[TempOf[a]][e]
    <3>3. e \in File /\ b \in Call /\ b.name = a /\ pc[b] \in Holding
      BY <3>1, <3>2 DEF SerialInv, TempOwned, TypeOK, Holding
    <3>4. b # c
      BY <1>1, <2>2, <3>3
    <3> QED
      BY <1>2, <3>2, <3>3, <3>4
  <2> QED
    BY <2>1, <2>2
<1>9. CleanMeetsAll'
  <2> SUFFICES ASSUME NEW x \in Call, pc'[x] = "clean"
               PROVE  there'[Temp(x)] /\ todo'[x] = Listing(Temp(x))'
    BY DEF CleanMeetsAll, Temp
  <2>1. CASE x = c
    BY <1>3, <2>1 DEF Local
  <2>2. CASE x # c
    <3>1. Active(x)
      BY <1>2, <2>2 DEF Active, Running
    <3> QED
      BY <1>2, <1>5, <2>2, <3>1 DEF SerialInv, CleanMeetsAll, Listing
  <2> QED
    BY <2>1, <2>2
<1>10. InstOwned'
  <2> SUFFICES ASSUME NEW x \in Call
               PROVE  /\ pc'[x] = "move" => ~there'[Inst(x)]
                      /\ pc'[x] \in {"copy", "drop", "meta"} =>
                           \A e \in Entry :
                             /\ data'[Inst(x)][e] \in {NoCall, x}
                             /\ data'[Inst(x)][META_FILE] = NoCall
    BY DEF InstOwned, Inst
  <2>1. CASE x = c
    BY <1>3, <2>1 DEF Local
  <2>2. CASE x # c
    <3>1. pc'[x] \in {"move", "copy", "drop", "meta"} => Active(x)
      BY <1>2, <2>2 DEF Active, Running
    <3> QED
      BY <1>2, <1>5, <2>2, <3>1 DEF SerialInv, InstOwned
  <2> QED
    BY <2>1, <2>2
<1>11. OneDelivery'
  <2> SUFFICES ASSUME NEW a \in App, data'[a][META_FILE] # NoCall,
                      NEW e \in Entry
               PROVE  data'[a][e] \in {NoCall, data'[a][META_FILE]}
    BY DEF OneDelivery, GetAppList
  <2>1. CASE a = Inst(c)
    BY <1>3, <2>1 DEF Local
  <2>2. CASE a # Inst(c)
    <3>1. a \in Path /\ data'[a] = data[a]
      BY <1>1, <1>2, <2>2 DEF Path
    <3> QED
      BY <3>1 DEF SerialInv, OneDelivery, GetAppList
  <2> QED
    BY <2>1, <2>2
<1> QED
  BY <1>6, <1>7, <1>8, <1>9, <1>10, <1>11 DEF SerialInv

(* A new thread starts where no thread works: it owns nothing yet.         *)
LEMMA SerialInstall ==
  ASSUME TypeOK, SerialInv, NEW c \in Call, InTurn(c), Install(c)
  PROVE  SerialInv'
<1>1. /\ pc' = [pc EXCEPT ![c] = "ready"] /\ pc[c] = "idle"
      /\ uninst' = uninst /\ uninst = NoApp /\ todo' = todo
      /\ there' = there /\ data' = data
  BY DEF Install, Goto, fs
<1>2. \A x \in Call : x # c => pc'[x] = pc[x]
  BY <1>1 DEF TypeOK
<1>3. c.name \in App /\ NoApp \notin App
  BY CallAssumption, PathsDisjoint DEF Inst
<1>4. OneAtATime'
  BY <1>1, <1>2, <1>3, CallAssumption, PathsDisjoint
     DEF SerialInv, OneAtATime, InTurn, Active, Running, TypeOK, Inst
<1>5. NoOrphans' /\ OneDelivery'
  BY <1>1 DEF SerialInv, NoOrphans, OneDelivery, GetAppList, Listing
<1>6. TempOwned'
  <2> SUFFICES ASSUME NEW a \in App, NEW e \in Entry, data[TempOf[a]][e] # NoCall
               PROVE  /\ e \in File
                      /\ data[TempOf[a]][e].name = a
                      /\ pc'[data[TempOf[a]][e]] \in Holding
    BY <1>1 DEF TempOwned, Holding
  <2>1. TempOf[a] \in Path
    BY DEF Path
  <2>2. data[TempOf[a]][e] \in Call /\ data[TempOf[a]][e] # c
    BY <1>1, <2>1 DEF SerialInv, TempOwned, TypeOK
  <2> QED
    BY <1>2, <2>2 DEF SerialInv, TempOwned, Holding
<1>7. CleanMeetsAll' /\ InstOwned'
  BY <1>1, <1>2 DEF SerialInv, CleanMeetsAll, InstOwned, TypeOK, Listing, Inst,
                    Temp
<1> QED
  BY <1>4, <1>5, <1>6, <1>7 DEF SerialInv

(* The main thread removes files of an application that no thread works    *)
(* for, so no thread's own directories change.                             *)
LEMMA SerialUninstall ==
  ASSUME TypeOK, TypeOK', SerialInv, NEW a \in App, uninst = a, UninstallStep
  PROVE  SerialInv'
<1>1. a \in Path /\ a # NoApp /\ NoApp \notin App
  BY CallAssumption DEF Path
<1>2. /\ pc' = pc /\ uninst' \in {uninst, NoApp}
      /\ \A x \in Call : todo'[x] = todo[x]
  BY CallAssumption
     DEF UninstallStep, UninstallEntry, UninstallDirectory, UninstallThrows,
         RemoveEntry, RemoveDirectory, RemoveThrows, SetTodo, TypeOK, Thread
<1>3. \A d \in Path : d # a => there'[d] = there[d] /\ data'[d] = data[d]
  BY <1>1 DEF UninstallStep, UninstallEntry, UninstallDirectory,
              UninstallThrows, RemoveEntry, RemoveDirectory, RemoveThrows,
              Write, TypeOK, fs
<1>4. \A e \in Entry : data'[a][e] \in {data[a][e], NoCall}
  <2>1. ASSUME NEW q \in Entry, UninstallEntry(q)
        PROVE  \A e \in Entry : data'[a][e] \in {data[a][e], NoCall}
    BY <1>1, <2>1, WriteEffect DEF UninstallEntry, RemoveEntry
  <2>2. CASE UninstallDirectory \/ UninstallThrows
    BY <2>2 DEF UninstallDirectory, UninstallThrows, RemoveDirectory,
                RemoveThrows, fs
  <2> QED
    BY <2>1, <2>2 DEF UninstallStep
<1>5. ~there'[a] => Listing(a)' = {}
  <2>1. CASE UninstallDirectory
    BY <2>1 DEF UninstallDirectory, RemoveDirectory, Listing
  <2>2. CASE there' = there
    BY <1>1, <1>4, <2>2 DEF SerialInv, NoOrphans, Listing
  <2> QED
    BY <2>1, <2>2 DEF UninstallStep, UninstallEntry, RemoveEntry, Write,
                      UninstallThrows, RemoveThrows, fs
<1>6. ASSUME NEW x \in Call, Active(x)
      PROVE  /\ Inst(x) # a /\ Temp(x) # a
             /\ Inst(x) \in Path /\ Temp(x) \in Path
  BY <1>6, PathsDisjoint DEF SerialInv, OneAtATime, Inst
<1>7. OneAtATime'
  BY <1>1, <1>2, PathsDisjoint
     DEF SerialInv, OneAtATime, Active, Inst
<1>8. NoOrphans'
  BY <1>3, <1>5 DEF SerialInv, NoOrphans, Listing
<1>9. TempOwned'
  <2>1. \A b \in App : data'[TempOf[b]] = data[TempOf[b]]
    BY <1>3, PathAssumption DEF Path
  <2> QED
    BY <1>2, <2>1 DEF SerialInv, TempOwned
<1>10. CleanMeetsAll' /\ InstOwned'
  BY <1>2, <1>3, <1>6
     DEF SerialInv, CleanMeetsAll, InstOwned, Listing, Active, Running, Inst,
         Temp
<1>11. OneDelivery'
  <2> SUFFICES ASSUME NEW b \in App, data'[b][META_FILE] # NoCall,
                      NEW e \in Entry
               PROVE  data'[b][e] \in {NoCall, data'[b][META_FILE]}
    BY DEF OneDelivery, GetAppList
  <2>1. META_FILE \in Entry /\ b \in Path
    BY DEF Entry, Path
  <2>2. data[b][META_FILE] # NoCall /\ data'[b][META_FILE] = data[b][META_FILE]
    BY <1>3, <1>4, <2>1
  <2>3. data'[b][e] \in {data[b][e], NoCall}
    BY <1>3, <1>4, <2>1
  <2> QED
    BY <2>2, <2>3 DEF SerialInv, OneDelivery, GetAppList
<1> QED
  BY <1>7, <1>8, <1>9, <1>10, <1>11 DEF SerialInv

LEMMA SerialNextStep ==
  ASSUME TypeOK, TypeOK', SerialInv, [SerialNext]_vars,
         Faults \cap {"cleanup", "crash"} = {}
  PROVE  SerialInv'
<1>1. ASSUME NEW c \in Call, InTurn(c), Install(c) PROVE SerialInv'
  BY <1>1, SerialInstall
<1>2. ASSUME NEW a \in App, \A d \in Call : Active(d) => d.name # a, Uninstall(a)
      PROVE  SerialInv'
  <2>1. /\ pc' = pc /\ there' = there /\ data' = data /\ uninst' = a
        /\ \A x \in Call : todo'[x] = todo[x]
    BY <1>2, CallAssumption DEF Uninstall, SetTodo, TypeOK, Thread, fs
  <2> QED
    BY <1>2, <2>1
       DEF SerialInv, OneAtATime, NoOrphans, TempOwned, CleanMeetsAll,
           InstOwned, OneDelivery, GetAppList, Listing, Active, Inst, Temp
<1>3. ASSUME NEW c \in Call, Job(c) PROVE SerialInv'
  BY <1>3, SerialJob
<1>4. CASE UninstallStep
  <2>1. uninst \in App
    BY <1>4 DEF TypeOK, UninstallStep, UninstallEntry, UninstallDirectory,
                UninstallThrows
  <2> QED
    BY <1>4, <2>1, SerialUninstall
<1>5. ~Crash
  BY DEF Crash
<1>6. CASE UNCHANGED vars
  BY <1>6 DEF vars, SerialInv, OneAtATime, NoOrphans, TempOwned, CleanMeetsAll,
              InstOwned, OneDelivery, GetAppList, Listing, Active, Inst, Temp
<1> QED
  BY <1>1, <1>2, <1>3, <1>4, <1>5, <1>6 DEF SerialNext

LEMMA SerialInit == Init => SerialInv
  BY CallAssumption
     DEF Init, SerialInv, OneAtATime, NoOrphans, TempOwned, CleanMeetsAll,
         InstOwned, OneDelivery, GetAppList, Listing, Active, Running, Inst,
         Temp, Path, Entry

(* The pages' turns are a restriction of the calls they may make.          *)
LEMMA SerialRefinesNext == [SerialNext]_vars => [Next]_vars
  BY DEF SerialNext, Next

LEMMA SerialAlways ==
  ASSUME Faults \cap {"cleanup", "crash"} = {}
  PROVE  SerialSpec => [](TypeOK /\ SerialInv)
<1>1. TypeOK /\ [SerialNext]_vars => TypeOK'
  BY TypeNext, SerialRefinesNext
<1>2. TypeOK /\ TypeOK' /\ SerialInv /\ [SerialNext]_vars => SerialInv'
  BY SerialNextStep
<1> QED
  BY <1>1, <1>2, TypeInit, SerialInit, PTL DEF SerialSpec

(* The inductive invariant: a thread owns what is in the two directories   *)
(* of its application.                                                     *)
THEOREM SerialInvariant ==
  ASSUME Faults \cap {"cleanup", "crash"} = {}
  PROVE  SerialSpec => []SerialInv
  BY SerialAlways, PTL

(* Every file of a listed application was delivered by the call whose      *)
(* version is listed, whatever fails short of a crash or a failed clean up. *)
THEOREM DeliveredByOne ==
  ASSUME Faults \cap {"cleanup", "crash"} = {}
  PROVE  SerialSpec => []OneDelivery
<1>1. SerialInv => OneDelivery
  BY DEF SerialInv
<1> QED
  BY <1>1, SerialAlways, PTL

-----------------------------------------------------------------------------
(* NoTempLeft, and that a thread has no temporary directory before it makes *)
(* one and after it was moved.                                             *)
TempInv ==
  /\ NoTempLeft
  /\ \A c \in Call : pc[c] \in {"ready", "connect", "mkdir", "meta", "finish"} =>
       ~there[Temp(c)]

LEMMA TempJob ==
  ASSUME TypeOK, SerialInv, TempInv, NEW c \in Call, Job(c),
         "cleanup" \notin Faults
  PROVE  TempInv'
<1>1. /\ Inst(c) \in App /\ Temp(c) \in Path /\ Temp(c) = TempOf[c.name]
      /\ c.name \in App /\ Inst(c) # Temp(c) /\ Inst(c) \in Path
  BY PathsDisjoint DEF Inst, Temp
<1>2. /\ Active(c)
      /\ \A x \in Call : x # c => pc'[x] = pc[x]
      /\ \A d \in Path : d \notin {Inst(c), Temp(c)} => there'[d] = there[d]
  BY JobFrame
<1>3. /\ pc'[c] \in {"ready", "connect", "mkdir", "meta", "finish"} => ~there'[Temp(c)]
      /\ ~Active(c)' => ~there'[Temp(c)]
  <2>1. ~(pc[c] = "clean" /\ JobRemoveThrows(c))
    BY DEF SerialInv, CleanMeetsAll, JobRemoveThrows, RemoveThrows, RemovedDir,
           Listing
  <2>2. pc[c] \in {"ready", "connect", "mkdir", "meta", "finish"} => ~there[Temp(c)]
    BY DEF TempInv
  <2>3. CASE Download(c) \/ Respond(c) \/ ConnectThrows(c) \/ MakeTemp(c)
             \/ ExtractDone(c) \/ ExtractThrows(c)
    BY <1>2, <2>2, <2>3
       DEF Active, Running, Download, Respond, ConnectThrows, MakeTemp,
           ExtractDone, ExtractThrows, Goto, fs, TypeOK
  <2>4. ASSUME NEW e \in Entry, \/ e \in File /\ ExtractFile(c, e)
                                \/ CopyFile(c, e) \/ JobRemoveEntry(c, e)
        PROVE  /\ pc' = pc
               /\ pc[c] \in {"extract", "copy", "remove", "drop", "clean"}
    BY <2>4 DEF ExtractFile, CopyFile, JobRemoveEntry, Removing
  <2>5. CASE CheckInstalled(c) \/ BeginMove(c) \/ CopyDone(c) \/ CopyThrows(c)
             \/ Fail(c) \/ CheckTemp(c)
    BY <1>1, <2>5
       DEF Active, Running, CheckInstalled, BeginMove, CopyDone, CopyThrows,
           Fail, CheckTemp, Goto, fs, TypeOK
  <2>6. CASE JobRemoveDirectory(c) \/ JobRemoveThrows(c)
    BY <1>1, <2>1, <2>6
       DEF Active, Running, JobRemoveDirectory, RemoveDirectory,
           JobRemoveThrows, Removing, RemovedDir, AfterRemove, AfterThrow,
           Goto, fs, TypeOK
  <2>7. CASE WriteMeta(c) \/ Finish(c)
    BY <2>2, <2>7
       DEF Active, Running, WriteMeta, Write, Finish, Goto, fs, TypeOK
  <2>8. File \subseteq Entry
    BY DEF Entry
  <2> QED
    BY <1>2, <2>3, <2>4, <2>5, <2>6, <2>7, <2>8 DEF Job, Active, Running
<1>4. ASSUME NEW a \in App, a # c.name
      PROVE  TempOf[a] \in Path /\ there'[TempOf[a]] = there[TempOf[a]]
  BY <1>1, <1>2, <1>4, PathAssumption DEF Path
<1>5. NoTempLeft'
  <2> SUFFICES ASSUME NEW a \in App, \A d \in Call : d.name = a => ~Active(d)'
               PROVE  ~there'[TempOf[a]]
    BY DEF NoTempLeft
  <2>1. CASE a = c.name
    BY <1>1, <1>3, <2>1
  <2>2. CASE a # c.name
    <3>1. \A d \in Call : d.name = a => ~Active(d)
      BY <1>2, <2>2 DEF Active
    <3> QED
      BY <1>4, <2>2, <3>1 DEF TempInv, NoTempLeft
  <2> QED
    BY <2>1, <2>2
<1>6. ASSUME NEW x \in Call, x # c,
             pc'[x] \in {"ready", "connect", "mkdir", "meta", "finish"}
      PROVE  ~there'[Temp(x)]
  <2>1. Active(x) /\ pc[x] = pc'[x] /\ x.name \in App
    BY <1>2, <1>6, PathsDisjoint DEF Active, Running, Inst
  <2>2. x.name # c.name
    BY <1>2, <1>6, <2>1 DEF SerialInv, OneAtATime
  <2> QED
    BY <1>4, <1>6, <2>1, <2>2 DEF TempInv, Temp
<1> QED
  BY <1>3, <1>5, <1>6 DEF TempInv, Temp

LEMMA TempNext ==
  ASSUME TypeOK, TypeOK', SerialInv, TempInv, [SerialNext]_vars,
         Faults \cap {"cleanup", "crash"} = {}
  PROVE  TempInv'
<1>1. ASSUME NEW c \in Call, InTurn(c), Install(c) PROVE TempInv'
  <2>1. pc' = [pc EXCEPT ![c] = "ready"] /\ there' = there
    BY <1>1 DEF Install, Goto, fs
  <2>2. /\ Active(c)' /\ \A x \in Call : x # c => pc'[x] = pc[x]
    BY <2>1 DEF TypeOK, Active, Running
  <2>3. pc[c] = "idle" /\ ~Active(c) /\ c.name \in App
    BY <1>1, PathsDisjoint DEF Install, Active, Running, Inst
  <2>4. ~there[Temp(c)]
    BY <1>1, <2>3 DEF InTurn, TempInv, NoTempLeft, Temp
  <2>5. NoTempLeft'
    BY <2>1, <2>2, <2>3 DEF TempInv, NoTempLeft, Active
  <2> QED
    BY <2>1, <2>2, <2>4, <2>5 DEF TempInv, Temp
<1>2. ASSUME NEW c \in Call, Job(c) PROVE TempInv'
  BY <1>2, TempJob
<1>3. CASE UninstallStep
  <2>1. pc' = pc /\ uninst \in App
    BY <1>3 DEF UninstallStep, UninstallEntry, UninstallDirectory,
                UninstallThrows, TypeOK
  <2>2. \A a \in App : there'[TempOf[a]] = there[TempOf[a]]
    <3>1. there' = there \/ there' = [there EXCEPT ![uninst] = FALSE]
      BY <1>3
         DEF UninstallStep, UninstallEntry, UninstallDirectory,
             UninstallThrows, RemoveEntry, RemoveDirectory, RemoveThrows,
             Write, fs
    <3> QED
      BY <2>1, <3>1, PathAssumption DEF TypeOK, Path
  <2>3. \A c \in Call : c.name \in App
    BY PathsDisjoint DEF Inst
  <2> QED
    BY <2>1, <2>2, <2>3 DEF TempInv, NoTempLeft, Active, Temp
<1>4. CASE pc' = pc /\ there' = there
  BY <1>4 DEF TempInv, NoTempLeft, Active, Temp
<1>5. ~Crash
  BY DEF Crash
<1> QED
  BY <1>1, <1>2, <1>3, <1>4, <1>5 DEF SerialNext, Uninstall, vars, fs

(* No temporary directory outlives the thread that made it, whatever fails *)
(* short of a crash or a failed clean up.                                  *)
THEOREM TempIsGone ==
  ASSUME Faults \cap {"cleanup", "crash"} = {}
  PROVE  SerialSpec => []NoTempLeft
<1>1. Init => TempInv
  BY PathsDisjoint DEF Init, TempInv, NoTempLeft, Temp, Path
<1>2. TypeOK /\ SerialInv /\ (TypeOK /\ SerialInv)' /\ TempInv /\ [SerialNext]_vars
        => TempInv'
  BY TempNext
<1> QED
  BY <1>1, <1>2, SerialAlways, PTL DEF SerialSpec, TempInv
=============================================================================
