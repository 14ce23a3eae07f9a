--------------------------- MODULE AppManagerPage ---------------------------
(***************************************************************************)
(* The page client of the installer, gAppManager of                        *)
(* test/js/UPlugin.AppManager.js, over the plugin of AppManagerPlugin.     *)
(*                                                                         *)
(* install looks the application up in GetAppList, uninstalls what is      *)
(* listed, asks a server for the versions, and when the answer comes calls *)
(* Install of the plugin and polls GetStatus on an interval.  What the     *)
(* plugin reports goes to one callback, _OnStateChange, which belongs to   *)
(* whoever called last.  The handlers of all pages run on the browser's    *)
(* main thread, one at a time, and Uninstall keeps that thread busy; the   *)
(* threads of the installs run beside it.                                  *)
(***************************************************************************)
EXTENDS AppManagerPlugin

CONSTANTS
  Page,       \* the pages, each with a gAppManager of its own
  PageOf,     \* PageOf[p]: the page that may make plugin object p
  Request,    \* the calls of install and uninstall the users may make
  Released,   \* the versions in the server's list
  Latest,     \* the version the server calls the latest
  Package,    \* Package[v]: the files of released version v
  Undefined,  \* an argument that was left out, a field that is not there
  Empty,      \* the empty string
  Nobody,     \* no callback
  NoPlugin    \* the client has no plugin object

(* What the page passes to Install for request r, when it has found that   *)
(* version v is to be installed: the third argument is the key file, which *)
(* Install takes for the version.                                          *)
Arguments(r, v, p) ==
  [name |-> r.name, version |-> r.key_file, plugin |-> p, files |-> Package[v]]

(* The version to install: the latest one if the request names none.       *)
Wanted(r) == IF r.version \in {Undefined, Empty} THEN Latest ELSE r.version

ASSUME PageAssumption ==
  /\ Request \subseteq [page : Page, op : {"install", "uninstall"}, name : App,
                        version : Version \cup {Undefined, Empty},
                        key_file : Version]
  /\ Latest \in Released /\ Released \subseteq Version
  /\ \A r \in Request, p \in Plugin :
       r.op = "install" /\ Wanted(r) \in Released /\ PageOf[p] = r.page =>
         Arguments(r, Wanted(r), p) \in Call

VARIABLES
  spare,                \* the plugin objects that no page has made yet
  uplugin,              \* uplugin[g]: the plugin object of page g
  stage,                \* stage[r]: what has become of request r
  job,                  \* job[r]: the call of Install made for r
  shown,                \* shown[r]: what the callback of r was told last
  OnStateChange,        \* OnStateChange[g]: whose callback is set
  Status,               \* Status[g]: the status polled last
  wait_install_timer,   \* the interval that the global names
  intervals             \* intervals[g]: the intervals that run

client == <<uplugin, spare, stage, job, shown, OnStateChange, Status,
            wait_install_timer, intervals>>
pageVars == <<vars, client>>

Told == State \cup {"CHK_UPDATE", "ERR_VERSION_NOT_FOUND"}

PageTypeOK ==
  /\ TypeOK
  /\ spare \subseteq Plugin
  /\ uplugin \in [Page -> Plugin \cup {NoPlugin}]
  /\ stage \in [Request -> {"idle", "uninstall", "asked", "started", "refused",
                            "threw", "done"}]
  /\ job \in [Request -> Call \cup {NoCall}]
  /\ shown \in [Request -> Told]
  /\ OnStateChange \in [Page -> Request \cup {Nobody}]
  /\ Status \in [Page -> State]
  /\ wait_install_timer \in [Page -> Request \cup {Nobody}]
  /\ intervals \in [Page -> SUBSET Request]

PageInit ==
  /\ Init
  /\ spare = Plugin
  /\ uplugin = [g \in Page |-> NoPlugin]
  /\ stage = [r \in Request |-> "idle"]
  /\ job = [r \in Request |-> NoCall]
  /\ shown = [r \in Request |-> "DEFAULT"]
  /\ OnStateChange = [g \in Page |-> Nobody]
  /\ Status = [g \in Page |-> "DEFAULT"]
  /\ wait_install_timer = [g \in Page |-> Nobody]
  /\ intervals = [g \in Page |-> {}]

Enter(r, l) == stage' = [stage EXCEPT ![r] = l]
Show(r, s)  == shown' = [shown EXCEPT ![r] = s]

(* this._OnStateChange.exec(s), unless it is null.                         *)
exec(g, s) ==
  IF OnStateChange[g] = Nobody THEN UNCHANGED shown ELSE Show(OnStateChange[g], s)

(* No handler runs while Uninstall has the main thread.                    *)
MainFree == uninst = NoApp

-----------------------------------------------------------------------------
(* The embed element makes a new plugin object: which of those that do not *)
(* exist yet it is makes no difference.                                    *)
Embed(g) == CHOOSE p \in spare : PageOf[p] = g

init(g) ==
  /\ MainFree /\ uplugin[g] = NoPlugin
  /\ \E p \in spare : /\ PageOf[p] = g /\ p = Embed(g)
                      /\ uplugin' = [uplugin EXCEPT ![g] = p]
                      /\ spare' = spare \ {p}
  /\ UNCHANGED <<vars, stage, job, shown, OnStateChange, Status,
                 wait_install_timer, intervals>>

(* destroy: an interval goes on running, and a property that nobody reads  *)
(* is reset in place of the global.                                        *)
destroy(g) ==
  /\ MainFree /\ uplugin[g] # NoPlugin
  /\ uplugin' = [uplugin EXCEPT ![g] = NoPlugin]
  /\ Status' = [Status EXCEPT ![g] = "DEFAULT"]
  /\ OnStateChange' = [OnStateChange EXCEPT ![g] = Nobody]
  /\ UNCHANGED <<vars, spare, stage, job, shown, wait_install_timer, intervals>>

(* An entry of GetAppList has a field ver and none that is named version.  *)
InstalledVersion == Undefined

ShouldUninstall(r) == r.name \in GetAppList /\ InstalledVersion # r.version

(* install, up to the request for the version list.  An application that   *)
(* is listed under the version asked for is reported as FINISH, and        *)
(* installed nevertheless.                                                 *)
install(r) ==
  /\ stage[r] = "idle" /\ r.op = "install" /\ MainFree
  /\ OnStateChange' = [OnStateChange EXCEPT ![r.page] = r]
  /\ \/ /\ uplugin[r.page] = NoPlugin
        /\ Show(r, "CHK_VERSION") /\ Enter(r, "threw")
        /\ UNCHANGED vars
     \/ /\ uplugin[r.page] # NoPlugin /\ ShouldUninstall(r)
        /\ Show(r, "CHK_VERSION") /\ Enter(r, "uninstall")
        /\ Uninstall(r.name)
     \/ /\ uplugin[r.page] # NoPlugin /\ ~ShouldUninstall(r)
        /\ Show(r, "CHK_UPDATE") /\ Enter(r, "asked")
        /\ UNCHANGED vars
  /\ UNCHANGED <<uplugin, spare, job, Status, wait_install_timer, intervals>>

(* uninstall: an application that is not there counts as uninstalled.      *)
uninstall(r) ==
  /\ stage[r] = "idle" /\ r.op = "uninstall" /\ MainFree
  /\ OnStateChange' = [OnStateChange EXCEPT ![r.page] = r]
  /\ \/ /\ uplugin[r.page] = NoPlugin
        /\ Enter(r, "threw")
        /\ UNCHANGED <<vars, shown>>
     \/ /\ uplugin[r.page] # NoPlugin
        /\ Enter(r, "uninstall")
        /\ Uninstall(r.name)
        /\ UNCHANGED shown
     \/ /\ uplugin[r.page] # NoPlugin /\ ~there[r.name]
        /\ Show(r, "FINISH") /\ Enter(r, "done")
        /\ UNCHANGED vars
  /\ UNCHANGED <<uplugin, spare, job, Status, wait_install_timer, intervals>>

(* Uninstall returns to the handler that called it: FINISH is reported,    *)
(* and install goes on to CHK_UPDATE in the same breath.                   *)
UninstallReturns(r) ==
  /\ stage[r] = "uninstall" /\ UninstallDirectory
  /\ \/ r.op = "install" /\ Show(r, "CHK_UPDATE") /\ Enter(r, "asked")
     \/ r.op = "uninstall" /\ Show(r, "FINISH") /\ Enter(r, "done")
  /\ UNCHANGED <<uplugin, spare, job, OnStateChange, Status, wait_install_timer,
                 intervals>>

(* Uninstall returns false, which the page sees as an exception: the       *)
(* handler ends there and reports nothing.                                 *)
UninstallAborts(r) ==
  /\ stage[r] = "uninstall" /\ UninstallThrows
  /\ Enter(r, "threw")
  /\ UNCHANGED <<uplugin, spare, job, shown, OnStateChange, Status,
                 wait_install_timer, intervals>>

PageUninstallEntry(e) == UninstallEntry(e) /\ UNCHANGED client

(* The callback of $.getJSON.                                              *)
OnVersionInfo(r) ==
  LET g == r.page
      v == Wanted(r)
      c == Arguments(r, v, uplugin[g])
  IN /\ stage[r] = "asked" /\ MainFree
     /\ \/ /\ v \notin Released
           /\ exec(g, "ERR_VERSION_NOT_FOUND") /\ Enter(r, "refused")
           /\ UNCHANGED <<vars, job, wait_install_timer, intervals>>
        \/ /\ v \in Released /\ uplugin[g] = NoPlugin
           /\ Enter(r, "threw")
           /\ UNCHANGED <<vars, shown, job, wait_install_timer, intervals>>
        \/ /\ v \in Released /\ uplugin[g] # NoPlugin
           /\ Install(c) /\ job' = [job EXCEPT ![r] = c]
           /\ wait_install_timer' = [wait_install_timer EXCEPT ![g] = r]
           /\ intervals' = [intervals EXCEPT ![g] = @ \cup {r}]
           /\ Enter(r, "started")
           /\ UNCHANGED shown
     /\ UNCHANGED <<uplugin, spare, OnStateChange, Status>>

(* Mutant: the client does not know that _ERROR is final.                  *)
FinalStatusMutant == {"FINISH", "DEFAULT"}

FinalStatus == {"FINISH", "_ERROR", "DEFAULT"}

(* wait_install_timer, which any of the page's intervals calls: it clears  *)
(* the interval that the global names.                                     *)
Poll(g) ==
  LET status == m_state[uplugin[g]]
  IN /\ intervals[g] # {} /\ uplugin[g] # NoPlugin /\ MainFree
     /\ IF Status[g] # status THEN exec(g, status) ELSE UNCHANGED shown
     /\ Status' = [Status EXCEPT ![g] = status]
     /\ IF status \in FinalStatus
          THEN /\ intervals' = [intervals EXCEPT ![g] = @ \ {wait_install_timer[g]}]
               /\ OnStateChange' = [OnStateChange EXCEPT ![g] = Nobody]
          ELSE UNCHANGED <<intervals, OnStateChange>>
     /\ UNCHANGED <<vars, uplugin, spare, stage, job, wait_install_timer>>

PageJob(c) == Job(c) /\ UNCHANGED client

-----------------------------------------------------------------------------
(* Mutant: the page hides the image while the application is being moved.  *)
LoadingMutant == {"CHK_VERSION", "DOWNLOAD_PKG", "EXTRACT_PKG", "CHK_UPDATE"}

(* The page of UPlugin_AppManager_FF.html shows a loading image from the   *)
(* first of these statuses until any other is reported.                    *)
Loading == {"CHK_VERSION", "DOWNLOAD_PKG", "EXTRACT_PKG", "CHK_UPDATE", "INSTALL"}

(* A user who waits for the image to go before the next request.  The      *)
(* client itself would accept the request.                                 *)
Waits(g) ==
  \A r \in Request : r.page = g => shown[r] \notin Loading /\ stage[r] # "uninstall"

PageNext ==
  \/ \E g \in Page : Waits(g) /\ (init(g) \/ destroy(g))
  \/ \E r \in Request : Waits(r.page) /\ (install(r) \/ uninstall(r))
  \/ \E r \in Request : UninstallReturns(r) \/ UninstallAborts(r)
  \/ \E e \in Entry : PageUninstallEntry(e)
  \/ \E r \in Request : OnVersionInfo(r)
  \/ \E g \in Page : Poll(g)
  \/ \E c \in Call : PageJob(c)

PageSpec == PageInit /\ [][PageNext]_pageVars

PageUninstallStep ==
  \/ \E e \in Entry : PageUninstallEntry(e)
  \/ \E r \in Request : UninstallReturns(r) \/ UninstallAborts(r)

(* The browser's timers go off, threads run and the main thread goes on    *)
(* with an Uninstall; a request for the version list may stay without an   *)
(* answer.                                                                 *)
FairPageSpec ==
  /\ PageSpec
  /\ \A g \in Page : WF_pageVars(Poll(g))
  /\ \A c \in Call : WF_pageVars(PageJob(c))
  /\ WF_pageVars(PageUninstallStep)

-----------------------------------------------------------------------------
(* Whoever waits for the loading image never has two intervals running, of *)
(* which wait_install_timer could clear only the one its global names.     *)
NoStrayInterval ==
  \A g \in Page : intervals[g] # {} => intervals[g] = {wait_install_timer[g]}

(* The poll stops only when the thread of the install has written its last *)
(* status: the status of an earlier install of the same plugin object does *)
(* not end it.                                                             *)
PollOutlivesJob ==
  \A r \in Request : job[r] # NoCall /\ r \notin intervals[r.page] =>
    pc[job[r]] \in Ended \cup {"cleanup", "clean"}

(* A callback that was told FINISH for an install was told the truth: its  *)
(* own thread went to its end without an exception, not an earlier one of  *)
(* the page or of the same plugin object.                                  *)
FinishIsTrue ==
  \A r \in Request : job[r] # NoCall /\ shown[r] = "FINISH" => pc[job[r]] = "done"

(* Page g has the installer begin: an install, or Uninstall.               *)
Begins(g) ==
  \/ \E c \in Call : PageOf[c.plugin] = g /\ pc[c] = "idle" /\ pc'[c] # "idle"
  \/ \E r \in Request : /\ r.page = g
                        /\ stage[r] # "uninstall" /\ stage'[r] = "uninstall"

(* A page whose user waits begins nothing while a thread of its own        *)
(* installs works, on whatever plugin object: Install itself waits for no  *)
(* thread.  The clean up of a failed install is not waited for.            *)
PageTakesTurns ==
  [][\A g \in Page : Begins(g) =>
       \A c \in Call : PageOf[c.plugin] = g =>
         pc[c] \notin Running \ {"cleanup", "clean"}]_pageVars

(* A page that polls comes to stop ("job finish"), with no interval left,  *)
(* whatever other pages do to the same application meanwhile.              *)
PollEnds == \A g \in Page : intervals[g] # {} ~> intervals[g] = {}

(* UPlugin_AppManager_FF.html removes the loading image and reloads the    *)
(* list when FINISH or an error is reported: when the poll has ended, the  *)
(* callback was told how.                                                  *)
EndIsTold ==
  \A r \in Request : job[r] # NoCall /\ r \notin intervals[r.page] =>
    shown[r] \in {"FINISH", "_ERROR"}
=============================================================================
