-------------------------- MODULE AppManagerSerial --------------------------
(***************************************************************************)
(* The installer under pages that take turns: no page starts an install on *)
(* a plugin object, or of an application, for which a thread still runs,   *)
(* nor uninstalls such an application.  The code itself enforces none of   *)
(* this, so it is stated here as a condition on the pages' calls, on top   *)
(* of the actions of AppManagerPlugin.  Threads of different plugin        *)
(* objects and applications still interleave freely, and a page may        *)
(* uninstall one application while another is being installed.             *)
(***************************************************************************)
EXTENDS AppManagerPlugin

CONSTANT Absent  \* AppStore's value for an application that is not listed

ASSUME AbsentAssumption ==
  \A c \in Call, w \in BOOLEAN : Absent # [by |-> c, whole |-> w]

Active(c) == pc[c] \in Running

InTurn(c) ==
  \A d \in Call : Active(d) => d.name # c.name /\ d.plugin # c.plugin

SerialNext ==
  \/ \E c \in Call : InTurn(c) /\ Install(c)
  \/ \E a \in App : (\A d \in Call : Active(d) => d.name # a) /\ Uninstall(a)
  \/ \E c \in Call : Job(c)
  \/ UninstallStep
  \/ Crash

SerialSpec == Init /\ [][SerialNext]_vars

(* The operating system runs the threads: a thread that can take a step    *)
(* takes one.  sendRequest and receiveResponse end because the session has *)
(* a timeout, whose exception is a step of the thread too.                 *)
FairSpec ==
  /\ SerialSpec
  /\ \A c \in Call : WF_vars(Job(c))
  /\ WF_vars(UninstallStep)

Whole(a, c) == \A f \in c.files : data[a][f] = c

-----------------------------------------------------------------------------
(* The parts of an inductive invariant, when neither a crash nor a failed  *)
(* clean up may leave a temporary directory behind.                        *)

(* Threads that run at the same time work on different applications, and   *)
(* on none that the main thread is uninstalling.                           *)
OneAtATime ==
  /\ \A c, d \in Call : Active(c) /\ Active(d) /\ c # d => c.name # d.name
  /\ \A c \in Call : Active(c) => c.name # uninst

NoOrphans == \A d \in Path : ~there[d] => Listing(d) = {}

(* What a temporary directory holds was put there by the thread that works *)
(* for the application, and is gone when that thread gets to the meta file *)
(* or ends.                                                                *)
TempOwned ==
  \A a \in App, e \in Entry : data[TempOf[a]][e] # NoCall =>
    /\ e \in File
    /\ data[TempOf[a]][e].name = a
    /\ pc[data[TempOf[a]][e]] \in {"extract", "check", "remove", "move", "copy",
                                   "drop", "failed", "cleanup", "clean"}

(* The catch block's removal meets no surprise.                            *)
CleanMeetsAll ==
  \A c \in Call : pc[c] = "clean" =>
    there[Temp(c)] /\ todo[c] = Listing(Temp(c))

(* From the move on, the installed directory holds the thread's files only. *)
InstOwned ==
  \A c \in Call :
    /\ pc[c] = "move" => ~there[Inst(c)]
    /\ pc[c] \in {"copy", "drop", "meta"} =>
         \A e \in Entry : /\ data[Inst(c)][e] \in {NoCall, c}
                          /\ data[Inst(c)][META_FILE] = NoCall

-----------------------------------------------------------------------------
(* Every file of a listed application was delivered by the one call whose  *)
(* version is listed: a reinstall leaves no file of the version it         *)
(* replaced, and a failed install none in what comes after it              *)
(* (InstallThread_Handler's removals and its clean up).                    *)
OneDelivery ==
  \A a \in GetAppList, e \in Entry :
    data[a][e] \in {NoCall, data[a][META_FILE]}

(* What makes OneDelivery inductive.  One thread at a time works for an    *)
(* application and owns what it put in the two directories, so neither the *)
(* move nor the clean up meets a file of another install.                  *)
SerialInv ==
  /\ OneAtATime /\ NoOrphans /\ TempOwned /\ CleanMeetsAll /\ InstOwned
  /\ OneDelivery

(* A page that polls GetStatus while a thread works for its plugin never   *)
(* reads the final status of an earlier install, nor an early one of its   *)
(* own: Install writes CHK_VERSION before the thread starts, and FINISH or *)
(* _ERROR comes after the last write to the installed directory.           *)
BusyIsVisible ==
  \A c \in Call : Active(c) /\ pc[c] \notin {"cleanup", "clean"} =>
    m_state[c.plugin] \notin {"DEFAULT", "FINISH", "_ERROR"}

(* When no thread works for an application, its temporary directory does   *)
(* not exist: moveTo or the catch block has removed it.                    *)
NoTempLeft ==
  \A a \in App : (\A c \in Call : c.name = a => ~Active(c)) => ~there[TempOf[a]]

(* What FINISH vouches for: every file of the call is installed, and the   *)
(* application is listed by this call's meta file.  The ofstream of the    *)
(* meta file is not checked: where it may fail, FINISH can also find the   *)
(* application not listed at all (or, its line lost, as version 0.0.0.0),  *)
(* but never listed by another call's.                                     *)
Published(c) ==
  /\ Whole(c.name, c)
  /\ \/ data[c.name][META_FILE] = c
     \/ "meta" \in Faults /\ c.name \notin GetAppList

(* A status becomes FINISH only when all files of one of the plugin        *)
(* object's calls are installed and what is listed is that call's version  *)
(* (or nothing, if the meta file could not be written, which               *)
(* InstallThread_Handler does not notice).                                 *)
FinishPublishes ==
  [][\A p \in Plugin : m_state[p] # "FINISH" /\ m_state'[p] = "FINISH" =>
       \E c \in Call : c.plugin = p /\ Published(c)]_vars

(* Every install that starts comes to an end that the page can read: a     *)
(* status CHK_VERSION is followed by FINISH or _ERROR.                     *)
StatusSettles ==
  \A p \in Plugin :
    m_state[p] = "CHK_VERSION" ~> m_state[p] \in {"FINISH", "_ERROR"}

(* An application, as a page that calls GetAppList and then loads its      *)
(* files sees it.                                                          *)
Listed(a) ==
  IF data[a][META_FILE] = NoCall THEN Absent
  ELSE [by    |-> data[a][META_FILE],
        whole |-> Whole(a, data[a][META_FILE])]

Store == INSTANCE AppStore WITH app <- [a \in App |-> Listed(a)]

(* The list of applications is what AppStore promises.                     *)
ImplementsAppStore == Store!Spec

(* What the page takes a final status to mean (UPlugin.AppManager.js, "job *)
(* finish"): the thread of the install no longer runs.                     *)
JobFinish ==
  \A c \in Call : m_state[c.plugin] \in {"FINISH", "_ERROR", "DEFAULT"} =>
    ~Active(c)
=============================================================================
