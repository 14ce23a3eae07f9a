-------------------------- MODULE AppManagerPlugin --------------------------
(***************************************************************************)
(* The installer of UPlugin: UPlugin.AppManager/UPlugin.AppManager.cpp.    *)
(*                                                                         *)
(* A page asks a plugin object to Install an application (a name, the URL  *)
(* of a package, a version) or to Uninstall one.  Install starts a worker  *)
(* thread and returns; the thread downloads the package, extracts it into  *)
(* <name>_tmp, removes the directory <name>, moves <name>_tmp to <name>    *)
(* and writes the meta file that makes the application appear in           *)
(* GetAppList.  The page polls GetStatus, which reads m_state.  Nothing in *)
(* the code orders two threads, or a thread and the main thread: all they  *)
(* share is the application directory and the m_state of their plugin.     *)
(*                                                                         *)
(* A step is one system call on the shared directory or one write of       *)
(* m_state.  The bytes of a file are abstracted to the call that delivered *)
(* it, and a version to the call that carried it.                          *)
(***************************************************************************)
EXTENDS Naturals, FiniteSets

CONSTANTS
  Plugin,    \* the plugin objects of the host process
  App,       \* the names of the applications
  File,      \* the files the packages hold
  Version,   \* the versions that Install calls carry
  Call,      \* the Install calls the pages may make, each at most once
  TempOf,    \* the path of <name>_tmp, for each application name
  Faults,    \* the failures of the environment that may happen
  META_FILE, \* AppInfo::META_FILE
  SUBDIR,    \* a directory that a move has put inside an existing one
  Main,      \* the browser's main thread, on which the page's calls run
  NoCall,    \* nobody delivered it: the file is absent
  NoApp      \* the main thread is not uninstalling anything

(* An Install call: its arguments, the plugin object it is made on, and    *)
(* what its url answers with, the files of the package.                    *)
InstallThread_Param ==
  [name : App, version : Version, plugin : Plugin, files : SUBSET File]

Entry  == File \cup {META_FILE, SUBDIR}
Path   == App \cup {TempOf[a] : a \in App}
Thread == Call \cup {Main}

(* connect   sendRequest or receiveResponse throws                         *)
(* short     a file of the package silently does not reach the disk: the   *)
(*           body is cut or is not the package, or its ofstream fails      *)
(* extract   ExtractPKG throws a Poco::Exception                           *)
(* move      moveTo throws after a part of the copy                        *)
(* remove    remove(true) throws after a part of the removal               *)
(* cleanup   the removal in the catch block throws                         *)
(* meta      the ofstream of the meta file fails to open, although the     *)
(*           directory is there                                            *)
(* crash     the host process ends and is started again                    *)
FaultKinds == {"connect", "short", "extract", "move", "remove", "cleanup",
               "meta", "crash"}

ASSUME CallAssumption ==
  /\ Call \subseteq InstallThread_Param
  /\ Faults \subseteq FaultKinds
  /\ NoCall \notin Call /\ Main \notin Call /\ NoApp \notin App
  /\ META_FILE \notin File /\ SUBDIR \notin File /\ META_FILE # SUBDIR

(* No name is another name followed by "_tmp", so no application's         *)
(* directory is another's temporary one.                                   *)
ASSUME PathAssumption ==
  \A a, b \in App : TempOf[a] \notin App /\ (TempOf[a] = TempOf[b] => a = b)

VARIABLES
  m_state,  \* m_state[p]: the status that plugin object p reports
  pc,       \* pc[c]: where the thread of call c stands
  todo,     \* todo[t]: the directory entries that thread t's loop has left
  uninst,   \* the application that the main thread is uninstalling
  there,    \* there[d]: directory d exists
  data      \* data[d][e]: the call that delivered entry e of directory d

vars == <<m_state, pc, todo, uninst, there, data>>
fs   == <<there, data>>

State == {"_ERROR", "DEFAULT", "CHK_VERSION", "DOWNLOAD_PKG", "EXTRACT_PKG",
          "INSTALL", "FINISH"}

Running == {"ready", "connect", "mkdir", "extract", "check", "remove", "move",
            "copy", "drop", "meta", "finish", "failed", "cleanup", "clean"}
Ended   == {"done", "error", "dead"}

TypeOK ==
  /\ m_state \in [Plugin -> State]
  /\ pc \in [Call -> {"idle"} \cup Running \cup Ended]
  /\ todo \in [Thread -> SUBSET Entry]
  /\ uninst \in App \cup {NoApp}
  /\ there \in [Path -> BOOLEAN]
  /\ data \in [Path -> [Entry -> Call \cup {NoCall}]]

Inst(c) == c.name

(* Mutant: one temporary directory for all applications.                   *)
TempMutant(c) == TempOf[CHOOSE a \in App : TRUE]

Temp(c) == TempOf[c.name]

Listing(d) == {e \in Entry : data[d][e] # NoCall}

(* What GetAppList returns: the directories that hold a meta file.         *)
GetAppList == {a \in App : data[a][META_FILE] # NoCall}

Goto(c, l)       == pc' = [pc EXCEPT ![c] = l]
setState(p, s)   == m_state' = [m_state EXCEPT ![p] = s]
Write(d, e, c)   == data' = [data EXCEPT ![d][e] = c] /\ UNCHANGED there
SetTodo(t, S)    == todo' = [todo EXCEPT ![t] = S]

Init ==
  /\ m_state = [p \in Plugin |-> "DEFAULT"]
  /\ pc = [c \in Call |-> "idle"]
  /\ todo = [t \in Thread |-> {}]
  /\ uninst = NoApp
  /\ there = [d \in Path |-> FALSE]
  /\ data = [d \in Path |-> [e \in Entry |-> NoCall]]

-----------------------------------------------------------------------------
(* Poco::File::remove(true): take the listing, remove the entries one by   *)
(* one, then the directory, which has to be empty by then.                 *)

RemoveEntry(t, d, e) ==
  /\ e \in todo[t] /\ data[d][e] # NoCall
  /\ Write(d, e, NoCall)
  /\ SetTodo(t, todo[t] \ {e})

RemoveDirectory(t, d) ==
  /\ todo[t] = {} /\ there[d] /\ Listing(d) = {}
  /\ there' = [there EXCEPT ![d] = FALSE]
  /\ UNCHANGED <<data, todo>>

RemoveThrows(t, d, fault) ==
  /\ \/ \E e \in todo[t] : data[d][e] = NoCall
     \/ todo[t] = {} /\ ~(there[d] /\ Listing(d) = {})
     \/ fault \in Faults
  /\ SetTodo(t, {})
  /\ UNCHANGED fs

-----------------------------------------------------------------------------
(* Mutant: the thread starts without Install having reset the status.      *)
InstallMutant(c) ==
  /\ pc[c] = "idle" /\ uninst = NoApp
  /\ Goto(c, "ready")
  /\ UNCHANGED <<m_state, todo, uninst, fs>>

(* AppManagerPlugin::Install, on the main thread.  m_state is written      *)
(* before the thread starts, and no other call of the plugin is awaited.   *)
Install(c) ==
  /\ pc[c] = "idle" /\ uninst = NoApp
  /\ setState(c.plugin, "CHK_VERSION")
  /\ Goto(c, "ready")
  /\ UNCHANGED <<todo, uninst, fs>>

(* InstallThread_Handler, from its first line to the request.              *)
Download(c) ==
  /\ pc[c] = "ready"
  /\ setState(c.plugin, "DOWNLOAD_PKG")
  /\ Goto(c, "connect")
  /\ UNCHANGED <<todo, uninst, fs>>

(* The server answered, whatever it answered.                              *)
Respond(c) ==
  /\ pc[c] = "connect"
  /\ setState(c.plugin, "EXTRACT_PKG")
  /\ Goto(c, "mkdir")
  /\ UNCHANGED <<todo, uninst, fs>>

(* No try block surrounds the request: its exception ends the thread.      *)
ConnectThrows(c) ==
  /\ pc[c] = "connect" /\ "connect" \in Faults
  /\ Goto(c, "dead")
  /\ UNCHANGED <<m_state, todo, uninst, fs>>

(* ExtractPKG: make the temporary directory, keeping what it may hold.     *)
MakeTemp(c) ==
  /\ pc[c] = "mkdir"
  /\ there' = [there EXCEPT ![Temp(c)] = TRUE]
  /\ SetTodo(c, c.files)
  /\ Goto(c, "extract")
  /\ UNCHANGED <<m_state, uninst, data>>

(* ExtractPKG: write one file.  An ofstream that cannot be opened is not   *)
(* noticed, and neither is the end of a body that was cut.                 *)
ExtractFile(c, f) ==
  /\ pc[c] = "extract" /\ f \in todo[c]
  /\ SetTodo(c, todo[c] \ {f})
  /\ \/ there[Temp(c)] /\ Write(Temp(c), f, c)
     \/ ~there[Temp(c)] /\ UNCHANGED fs
     \/ "short" \in Faults /\ UNCHANGED fs
  /\ UNCHANGED <<m_state, pc, uninst>>

(* Mutant: the loop ends one file early.                                   *)
ExtractDoneMutant(c) ==
  /\ pc[c] = "extract" /\ Cardinality(todo[c]) <= 1
  /\ setState(c.plugin, "INSTALL")
  /\ Goto(c, "check")
  /\ UNCHANGED <<todo, uninst, fs>>

(* Mutant: FINISH is reported in the place of INSTALL.                     *)
ExtractDoneMutantFinish(c) ==
  /\ pc[c] = "extract" /\ todo[c] = {}
  /\ setState(c.plugin, "FINISH")
  /\ Goto(c, "check")
  /\ UNCHANGED <<todo, uninst, fs>>

ExtractDone(c) ==
  /\ pc[c] = "extract" /\ todo[c] = {}
  /\ setState(c.plugin, "INSTALL")
  /\ Goto(c, "check")
  /\ UNCHANGED <<todo, uninst, fs>>

ExtractThrows(c) ==
  /\ pc[c] \in {"mkdir", "extract"} /\ "extract" \in Faults
  /\ SetTodo(c, {})
  /\ Goto(c, "failed")
  /\ UNCHANGED <<m_state, uninst, fs>>

(* Mutant: the installed version is not removed first.                     *)
CheckInstalledMutant(c) ==
  /\ pc[c] = "check"
  /\ Goto(c, "move")
  /\ UNCHANGED <<m_state, todo, uninst, fs>>

(* "remove current installnation", if there is one.                        *)
CheckInstalled(c) ==
  /\ pc[c] = "check"
  /\ IF there[Inst(c)]
       THEN SetTodo(c, Listing(Inst(c))) /\ Goto(c, "remove")
       ELSE UNCHANGED todo /\ Goto(c, "move")
  /\ UNCHANGED <<m_state, uninst, fs>>

(* Mutant: the meta file is written before the files are copied.           *)
BeginMoveMutant(c) ==
  /\ pc[c] = "move" /\ there[Temp(c)]
  /\ there' = [there EXCEPT ![Inst(c)] = TRUE]
  /\ data' = [data EXCEPT ![Inst(c)][META_FILE] = c]
  /\ SetTodo(c, Listing(Temp(c)))
  /\ Goto(c, "copy")
  /\ UNCHANGED <<m_state, uninst>>

(* "rename tmp to install": Poco::File::moveTo makes the target, copies    *)
(* the files one by one and removes the source.  A target that exists gets *)
(* the source as a subdirectory.                                           *)
BeginMove(c) ==
  /\ pc[c] = "move"
  /\ \/ /\ ~there[Temp(c)]
        /\ Goto(c, "meta")
        /\ UNCHANGED <<todo, fs>>
     \/ /\ there[Temp(c)] /\ ~there[Inst(c)]
        /\ there' = [there EXCEPT ![Inst(c)] = TRUE]
        /\ SetTodo(c, Listing(Temp(c)))
        /\ Goto(c, "copy")
        /\ UNCHANGED data
     \/ /\ there[Temp(c)] /\ there[Inst(c)]
        /\ Write(Inst(c), SUBDIR, c)
        /\ SetTodo(c, Listing(Temp(c)))
        /\ Goto(c, "drop")
  /\ UNCHANGED <<m_state, uninst>>

CopyFile(c, e) ==
  /\ pc[c] = "copy" /\ e \in todo[c]
  /\ data[Temp(c)][e] # NoCall /\ there[Inst(c)]
  /\ Write(Inst(c), e, data[Temp(c)][e])
  /\ SetTodo(c, todo[c] \ {e})
  /\ UNCHANGED <<m_state, pc, uninst>>

CopyDone(c) ==
  /\ pc[c] = "copy" /\ todo[c] = {}
  /\ SetTodo(c, Listing(Temp(c)))
  /\ Goto(c, "drop")
  /\ UNCHANGED <<m_state, uninst, fs>>

CopyThrows(c) ==
  /\ pc[c] = "copy"
  /\ \/ \E e \in todo[c] : data[Temp(c)][e] = NoCall \/ ~there[Inst(c)]
     \/ "move" \in Faults
  /\ SetTodo(c, {})
  /\ Goto(c, "failed")
  /\ UNCHANGED <<m_state, uninst, fs>>

(* The three recursive removals of the handler: the installed directory,   *)
(* the source of the move, and the temporary directory in the catch block. *)
Removing == {"remove", "drop", "clean"}

RemovedDir(c)  == IF pc[c] = "remove" THEN Inst(c) ELSE Temp(c)
AfterRemove(l) == CASE l = "remove" -> "move"
                    [] l = "drop"   -> "meta"
                    [] l = "clean"  -> "error"
AfterThrow(l)  == IF l = "clean" THEN "dead" ELSE "failed"

JobRemoveEntry(c, e) ==
  /\ pc[c] \in Removing
  /\ RemoveEntry(c, RemovedDir(c), e)
  /\ UNCHANGED <<m_state, pc, uninst>>

JobRemoveDirectory(c) ==
  /\ pc[c] \in Removing
  /\ RemoveDirectory(c, RemovedDir(c))
  /\ Goto(c, AfterRemove(pc[c]))
  /\ UNCHANGED <<m_state, uninst>>

JobRemoveThrows(c) ==
  /\ pc[c] \in Removing
  /\ RemoveThrows(c, RemovedDir(c),
                  IF pc[c] = "clean" THEN "cleanup" ELSE "remove")
  /\ Goto(c, AfterThrow(pc[c]))
  /\ UNCHANGED <<m_state, uninst>>

(* Mutant: a status that STATE lacks (the page's ERROR_DUP).               *)
FailMutantDup(c) ==
  /\ pc[c] = "failed"
  /\ setState(c.plugin, "ERROR_DUP")
  /\ Goto(c, "cleanup")
  /\ UNCHANGED <<todo, uninst, fs>>

(* Mutant: the catch block reports nothing.                                *)
FailMutantSilent(c) ==
  /\ pc[c] = "failed"
  /\ Goto(c, "cleanup")
  /\ UNCHANGED <<m_state, todo, uninst, fs>>

(* The catch block reports the error first and cleans up afterwards.       *)
Fail(c) ==
  /\ pc[c] = "failed"
  /\ setState(c.plugin, "_ERROR")
  /\ Goto(c, "cleanup")
  /\ UNCHANGED <<todo, uninst, fs>>

(* Mutant: the catch block cleans nothing up.                              *)
CheckTempMutant(c) ==
  /\ pc[c] = "cleanup"
  /\ Goto(c, "error")
  /\ UNCHANGED <<m_state, todo, uninst, fs>>

CheckTemp(c) ==
  /\ pc[c] = "cleanup"
  /\ IF there[Temp(c)]
       THEN SetTodo(c, Listing(Temp(c))) /\ Goto(c, "clean")
       ELSE UNCHANGED todo /\ Goto(c, "error")
  /\ UNCHANGED <<m_state, uninst, fs>>

(* "finalize, write meta info": an ofstream that fails, in a directory     *)
(* that is not there or in one that is, does so without a word.  A file    *)
(* that was opened is the call's, whether its one line reached the disk or *)
(* not: AppInfo::Load lists the application in both cases, and what an     *)
(* empty meta file is read as (version 0.0.0.0) is not told apart here.    *)
WriteMeta(c) ==
  /\ pc[c] = "meta"
  /\ \/ there[Inst(c)] /\ Write(Inst(c), META_FILE, c)
     \/ (~there[Inst(c)] \/ "meta" \in Faults) /\ UNCHANGED fs
  /\ Goto(c, "finish")
  /\ UNCHANGED <<m_state, todo, uninst>>

Finish(c) ==
  /\ pc[c] = "finish"
  /\ setState(c.plugin, "FINISH")
  /\ Goto(c, "done")
  /\ UNCHANGED <<todo, uninst, fs>>

-----------------------------------------------------------------------------
(* AppManagerPlugin::Uninstall, on the main thread from start to end: no   *)
(* other call of a page runs before it returns.                            *)
Uninstall(a) ==
  /\ uninst = NoApp /\ there[a]
  /\ uninst' = a
  /\ SetTodo(Main, Listing(a))
  /\ UNCHANGED <<m_state, pc, fs>>

UninstallEntry(e) ==
  /\ uninst # NoApp
  /\ RemoveEntry(Main, uninst, e)
  /\ UNCHANGED <<m_state, pc, uninst>>

UninstallDirectory ==
  /\ uninst # NoApp
  /\ RemoveDirectory(Main, uninst)
  /\ uninst' = NoApp
  /\ UNCHANGED <<m_state, pc>>

UninstallThrows ==
  /\ uninst # NoApp
  /\ RemoveThrows(Main, uninst, "remove")
  /\ uninst' = NoApp
  /\ UNCHANGED <<m_state, pc>>

(* The host process ends in the middle of anything: its threads are gone,  *)
(* the new plugin objects are in their initial state, the disk is as it    *)
(* was left.                                                               *)
Crash ==
  /\ "crash" \in Faults
  /\ m_state' = [p \in Plugin |-> "DEFAULT"]
  /\ pc' = [c \in Call |-> IF pc[c] \in Running THEN "dead" ELSE pc[c]]
  /\ todo' = [t \in Thread |-> {}]
  /\ uninst' = NoApp
  /\ UNCHANGED <<fs>>

-----------------------------------------------------------------------------
(* InstallThread_Handler(c).                                               *)
Job(c) ==
  \/ Download(c) \/ Respond(c) \/ ConnectThrows(c)
  \/ MakeTemp(c) \/ ExtractDone(c) \/ ExtractThrows(c)
  \/ \E f \in File : ExtractFile(c, f)
  \/ CheckInstalled(c) \/ BeginMove(c)
  \/ \E e \in Entry : CopyFile(c, e)
  \/ CopyDone(c) \/ CopyThrows(c)
  \/ \E e \in Entry : JobRemoveEntry(c, e)
  \/ JobRemoveDirectory(c) \/ JobRemoveThrows(c)
  \/ Fail(c) \/ CheckTemp(c)
  \/ WriteMeta(c) \/ Finish(c)

UninstallStep ==
  \/ \E e \in Entry : UninstallEntry(e)
  \/ UninstallDirectory \/ UninstallThrows

Next ==
  \/ \E c \in Call : Install(c)
  \/ \E a \in App : Uninstall(a)
  \/ \E c \in Call : Job(c)
  \/ UninstallStep
  \/ Crash

Spec == Init /\ [][Next]_vars
-----------------------------------------------------------------------------
(* However installs overlap, fail or crash, what a call delivers stays in  *)
(* the directories of its own application: the installed one and <name>_tmp *)
(* (the paths that InstallThread_Handler builds).                          *)
AppIsolation ==
  \A d \in Path, e \in Entry : data[d][e] # NoCall =>
    d \in {Inst(data[d][e]), Temp(data[d][e])}

(* However installs overlap, no application is ever listed under the       *)
(* version of an install that has reported _ERROR: the meta file is the    *)
(* last thing a thread writes, after everything that can throw.            *)
FailedIsNotListed ==
  \A a \in GetAppList :
    pc[data[a][META_FILE]] \notin {"failed", "cleanup", "clean", "error"}
=============================================================================
