------------------------ MODULE AppManagerPageProofs ------------------------
(***************************************************************************)
(* Proofs about the installer with its pages, for any pages, requests,     *)
(* versions and faults.  A page calls nothing but what AppManagerPlugin    *)
(* lets anyone call (PageStep), so what is proved of the installer holds   *)
(* under its pages; and a user who waits for the loading image never has   *)
(* two intervals, because whatever is pending owns the page's one callback *)
(* and keeps the image (Pending, PageInv).  From that follow what the poll *)
(* sees (PollInv), and when pages take the turns of AppManagerSerial       *)
(* (TurnsInv).                                                             *)
(***************************************************************************)
EXTENDS AppManagerPage, AppManagerStoreProofs

Pending(r) == stage[r] \in {"uninstall", "asked"} \/ r \in intervals[r.page]

(* The invariant as request r sees it.                                     *)
Kept(r) ==
  /\ Pending(r) => OnStateChange[r.page] = r
  /\ stage[r] = "asked" => shown[r] \in Loading
  /\ r \in intervals[r.page] => /\ shown[r] \in Loading
                                /\ wait_install_timer[r.page] = r
                                /\ stage[r] = "started"

PageInv ==
  /\ \A g \in Page : uplugin[g] # NoPlugin => PageOf[uplugin[g]] = g
  /\ \A g \in Page : \A r \in intervals[g] : r.page = g
  /\ \A r \in Request : Kept(r)

LEMMA RequestFields ==
  ASSUME NEW r \in Request
  PROVE  /\ r.page \in Page /\ r.op \in {"install", "uninstall"}
         /\ r.name \in App
  BY PageAssumption

(* The call of Install that a request leads to is one that is modelled.    *)
LEMMA CallOfRequest ==
  ASSUME PageTypeOK, PageInv, NEW r \in Request, r.op = "install",
         Wanted(r) \in Released, uplugin[r.page] # NoPlugin
  PROVE  Arguments(r, Wanted(r), uplugin[r.page]) \in Call
<1>1. uplugin[r.page] \in Plugin /\ PageOf[uplugin[r.page]] = r.page
  BY RequestFields DEF PageTypeOK, PageInv
<1> QED
  BY <1>1, PageAssumption

(* Only install leads to a request for the version list.                   *)
AskedIsInstall == \A r \in Request : stage[r] = "asked" => r.op = "install"

LEMMA AskedNext == AskedIsInstall /\ PageTypeOK /\ [PageNext]_pageVars => AskedIsInstall'
<1> SUFFICES ASSUME AskedIsInstall, PageTypeOK, [PageNext]_pageVars
             PROVE  AskedIsInstall'
  OBVIOUS
<1>1. CASE UNCHANGED stage
  BY <1>1 DEF AskedIsInstall
<1>2. CASE \E r \in Request : install(r)
  BY <1>2 DEF AskedIsInstall, install, Enter, PageTypeOK
<1>3. CASE \E r \in Request : uninstall(r)
  BY <1>3 DEF AskedIsInstall, uninstall, Enter, PageTypeOK
<1>4. CASE \E r \in Request : UninstallReturns(r) \/ UninstallAborts(r)
  BY <1>4 DEF AskedIsInstall, UninstallReturns, UninstallAborts, Enter, PageTypeOK
<1>5. CASE \E r \in Request : OnVersionInfo(r)
  BY <1>5 DEF AskedIsInstall, OnVersionInfo, Enter, PageTypeOK
<1> QED
  BY <1>1, <1>2, <1>3, <1>4, <1>5
     DEF PageNext, pageVars, client, init, destroy, PageUninstallEntry, Poll,
         PageJob

-----------------------------------------------------------------------------
(* Every step of the pages is a step of the installer or leaves it alone.  *)
LEMMA PageStep ==
  ASSUME PageTypeOK, PageInv, AskedIsInstall, [PageNext]_pageVars
  PROVE  [Next]_vars
<1>1. CASE UNCHANGED pageVars
  BY <1>1 DEF pageVars
<1>2. CASE \E g \in Page : init(g) \/ destroy(g)
  BY <1>2 DEF init, destroy
<1>3. CASE \E r \in Request : install(r) \/ uninstall(r)
  BY <1>3, RequestFields DEF install, uninstall, Next
<1>4. CASE \E r \in Request : UninstallReturns(r) \/ UninstallAborts(r)
  BY <1>4 DEF UninstallReturns, UninstallAborts, Next, UninstallStep
<1>5. CASE \E e \in Entry : PageUninstallEntry(e)
  BY <1>5 DEF PageUninstallEntry, Next, UninstallStep
<1>6. CASE \E r \in Request : OnVersionInfo(r)
  <2>1. PICK r \in Request : OnVersionInfo(r)
    BY <1>6
  <2>2. CASE UNCHANGED vars
    BY <2>2
  <2>3. CASE /\ Wanted(r) \in Released /\ uplugin[r.page] # NoPlugin
             /\ Install(Arguments(r, Wanted(r), uplugin[r.page]))
    <3>1. r.op = "install"
      BY <2>1 DEF OnVersionInfo, AskedIsInstall
    <3> QED
      BY <2>3, <3>1, CallOfRequest DEF Next
  <2> QED
    BY <2>1, <2>2, <2>3 DEF OnVersionInfo
<1>7. CASE \E g \in Page : Poll(g)
  BY <1>7 DEF Poll
<1>8. CASE \E c \in Call : PageJob(c)
  BY <1>8 DEF PageJob, Next
<1> QED
  BY <1>1, <1>2, <1>3, <1>4, <1>5, <1>6, <1>7, <1>8 DEF PageNext

-----------------------------------------------------------------------------
LEMMA PageTypeNext ==
  ASSUME PageTypeOK, PageInv, AskedIsInstall, TypeOK', [PageNext]_pageVars
  PROVE  PageTypeOK'
<1>1. CASE UNCHANGED client
  BY <1>1 DEF PageTypeOK, client
<1>2. CASE \E g \in Page : init(g) \/ destroy(g)
  BY <1>2 DEF PageTypeOK, init, destroy, State
<1>3. CASE \E r \in Request : install(r) \/ uninstall(r)
  BY <1>3, RequestFields DEF PageTypeOK, install, uninstall, Enter, Show, Told, State
<1>4. CASE \E r \in Request : UninstallReturns(r) \/ UninstallAborts(r)
  BY <1>4, RequestFields
     DEF PageTypeOK, UninstallReturns, UninstallAborts, Enter, Show, Told, State
<1>5. CASE \E r \in Request : OnVersionInfo(r)
  <2>1. PICK r \in Request : OnVersionInfo(r)
    BY <1>5
  <2>2. r.op = "install" /\ r.page \in Page
    BY <2>1, RequestFields DEF OnVersionInfo, AskedIsInstall
  <2>3. shown' \in [Request -> Told] /\ stage' \in [Request -> {"idle",
          "uninstall", "asked", "started", "refused", "threw", "done"}]
    BY <2>1 DEF OnVersionInfo, PageTypeOK, exec, Show, Enter, Told
  <2>4. job' \in [Request -> Call \cup {NoCall}]
    BY <2>1, <2>2, CallOfRequest DEF OnVersionInfo, PageTypeOK
  <2>5. /\ wait_install_timer' \in [Page -> Request \cup {Nobody}]
        /\ intervals' \in [Page -> SUBSET Request]
    BY <2>1, <2>2 DEF OnVersionInfo, PageTypeOK
  <2> QED
    BY <2>1, <2>3, <2>4, <2>5 DEF OnVersionInfo, PageTypeOK
<1>6. CASE \E g \in Page : Poll(g)
  <2>1. PICK g \in Page : Poll(g)
    BY <1>6
  <2>2. m_state[uplugin[g]] \in State
    BY <2>1 DEF Poll, PageTypeOK, TypeOK
  <2> QED
    BY <2>1, <2>2 DEF Poll, PageTypeOK, exec, Show, Told
<1> QED
  BY <1>1, <1>2, <1>3, <1>4, <1>5, <1>6
     DEF PageNext, pageVars, PageUninstallEntry, PageJob

(* Who waits has nothing pending.                                          *)
LEMMA WaitsMeansIdle ==
  ASSUME PageInv, NEW g \in Page, Waits(g), NEW r \in Request, r.page = g
  PROVE  ~Pending(r)
  BY DEF Waits, PageInv, Kept, Pending

(* A page has one request pending at most.                                 *)
LEMMA OnePending ==
  ASSUME PageInv, NEW r \in Request, NEW q \in Request, r.page = q.page,
         Pending(r), Pending(q)
  PROVE  r = q
  BY DEF PageInv, Kept

(* What is not final keeps the loading image.                              *)
LEMMA LoadingOrFinal == State \subseteq Loading \cup FinalStatus
  BY DEF State, Loading, FinalStatus

LEMMA PageInvNext ==
  ASSUME PageTypeOK, PageInv, [PageNext]_pageVars
  PROVE  PageInv'
<1>1. CASE UNCHANGED client
  BY <1>1 DEF PageInv, Kept, Pending, client
<1>2. CASE \E g \in Page : Waits(g) /\ (init(g) \/ destroy(g))
  <2>1. PICK g \in Page : Waits(g) /\ (init(g) \/ destroy(g))
    BY <1>2
  <2>2. \A h \in Page : uplugin'[h] # NoPlugin => PageOf[uplugin'[h]] = h
    BY <2>1 DEF init, destroy, PageInv, PageTypeOK
  <2>3. \A h \in Page : \A r \in intervals'[h] : r.page = h
    BY <2>1 DEF init, destroy, PageInv
  <2>4. ASSUME NEW r \in Request PROVE Kept(r)'
    <3>1. CASE r.page = g
      BY <2>1, <3>1, WaitsMeansIdle DEF init, destroy, PageInv, Kept, Pending
    <3>2. CASE r.page # g
      BY <2>1, <3>2, RequestFields DEF init, destroy, PageInv, Kept, Pending, PageTypeOK
    <3> QED
      BY <3>1, <3>2
  <2> QED
    BY <2>2, <2>3, <2>4 DEF PageInv
<1>3. CASE \E r \in Request : Waits(r.page) /\ (install(r) \/ uninstall(r))
  <2>1. PICK r \in Request : Waits(r.page) /\ (install(r) \/ uninstall(r))
    BY <1>3
  <2>2. UNCHANGED <<uplugin, intervals, wait_install_timer>> /\ r.page \in Page
    BY <2>1, RequestFields DEF install, uninstall
  <2>3. /\ OnStateChange' = [OnStateChange EXCEPT ![r.page] = r]
        /\ \A q \in Request : q # r => stage'[q] = stage[q] /\ shown'[q] = shown[q]
        /\ stage'[r] = "asked" => shown'[r] \in Loading
    BY <2>1 DEF install, uninstall, Enter, Show, PageTypeOK, Loading
  <2>4. ASSUME NEW q \in Request PROVE Kept(q)'
    <3>1. CASE q = r
      BY <2>1, <2>2, <2>3, <3>1, WaitsMeansIdle DEF Kept, Pending, PageTypeOK
    <3>2. CASE q # r /\ q.page = r.page
      BY <2>1, <2>2, <2>3, <3>2, WaitsMeansIdle DEF Kept, Pending, PageInv
    <3>3. CASE q.page # r.page
      BY <2>2, <2>3, <3>3, RequestFields DEF Kept, Pending, PageInv, PageTypeOK
    <3> QED
      BY <3>1, <3>2, <3>3
  <2> QED
    BY <2>2, <2>4 DEF PageInv
<1>4. CASE \E r \in Request : UninstallReturns(r) \/ UninstallAborts(r)
  <2>1. PICK r \in Request : UninstallReturns(r) \/ UninstallAborts(r)
    BY <1>4
  <2>2. UNCHANGED <<uplugin, intervals, wait_install_timer, OnStateChange>>
    BY <2>1 DEF UninstallReturns, UninstallAborts
  <2>3. /\ \A q \in Request : q # r => stage'[q] = stage[q] /\ shown'[q] = shown[q]
        /\ stage[r] = "uninstall" /\ stage'[r] # "uninstall"
        /\ stage'[r] = "asked" => shown'[r] \in Loading
    BY <2>1 DEF UninstallReturns, UninstallAborts, Enter, Show, PageTypeOK, Loading
  <2>4. r \notin intervals[r.page] /\ OnStateChange[r.page] = r
    BY <2>3 DEF PageInv, Kept, Pending
  <2>5. ASSUME NEW q \in Request PROVE Kept(q)'
    BY <2>2, <2>3, <2>4 DEF Kept, Pending, PageInv
  <2> QED
    BY <2>2, <2>5 DEF PageInv
<1>5. CASE \E r \in Request : OnVersionInfo(r)
  <2>1. PICK r \in Request : OnVersionInfo(r)
    BY <1>5
  <2>2. /\ UNCHANGED <<uplugin, OnStateChange>> /\ r.page \in Page
        /\ stage[r] = "asked" /\ r \notin intervals[r.page]
        /\ OnStateChange[r.page] = r /\ shown[r] \in Loading
    BY <2>1, RequestFields DEF OnVersionInfo, PageInv, Kept, Pending
  <2>3. ASSUME NEW q \in Request, q # r, q.page = r.page PROVE ~Pending(q)
    BY <2>2, <2>3, OnePending DEF Pending
  <2>4. /\ \A q \in Request : q # r => stage'[q] = stage[q] /\ shown'[q] = shown[q]
        /\ \/ /\ stage'[r] \in {"refused", "threw"}
              /\ UNCHANGED <<wait_install_timer, intervals>>
           \/ /\ stage'[r] = "started" /\ shown'[r] = shown[r]
              /\ wait_install_timer' = [wait_install_timer EXCEPT ![r.page] = r]
              /\ intervals' = [intervals EXCEPT ![r.page] = @ \cup {r}]
    BY <2>1, <2>2 DEF OnVersionInfo, exec, Enter, Show, PageTypeOK
  <2>5. ASSUME NEW q \in Request PROVE Kept(q)'
    <3>1. CASE q = r
      BY <2>2, <2>4, <3>1 DEF Kept, Pending, PageTypeOK
    <3>2. CASE q # r /\ q.page = r.page
      BY <2>2, <2>3, <2>4, <3>2 DEF Kept, Pending, PageTypeOK, PageInv
    <3>3. CASE q.page # r.page
      BY <2>2, <2>4, <3>3, RequestFields DEF Kept, Pending, PageTypeOK, PageInv
    <3> QED
      BY <3>1, <3>2, <3>3
  <2>6. \A h \in Page : \A q \in intervals'[h] : q.page = h
    BY <2>2, <2>4 DEF PageInv, PageTypeOK
  <2> QED
    BY <2>2, <2>5, <2>6 DEF PageInv
<1>6. CASE \E g \in Page : Poll(g)
  <2>1. PICK g \in Page : Poll(g)
    BY <1>6
  <2> DEFINE status == m_state[uplugin[g]]
  <2>2. status \in State
    BY <2>1 DEF Poll, PageTypeOK, TypeOK
  <2>3. PICK r \in Request : r \in intervals[g]
    BY <2>1 DEF Poll, PageTypeOK
  <2>4. /\ r.page = g /\ Pending(r) /\ OnStateChange[g] = r
        /\ wait_install_timer[g] = r /\ stage[r] = "started"
        /\ shown[r] \in Loading
    BY <2>3 DEF PageInv, Kept, Pending
  <2>5. ASSUME NEW q \in Request, q # r, q.page = g PROVE ~Pending(q)
    BY <2>4, <2>5, OnePending
  <2>6. /\ UNCHANGED <<uplugin, stage, wait_install_timer>>
        /\ \A q \in Request : q # r => shown'[q] = shown[q]
        /\ shown'[r] \in {shown[r], status}
        /\ \/ /\ status \in FinalStatus
              /\ intervals' = [intervals EXCEPT ![g] = @ \ {r}]
              /\ OnStateChange' = [OnStateChange EXCEPT ![g] = Nobody]
           \/ /\ status \notin FinalStatus
              /\ UNCHANGED <<intervals, OnStateChange>>
    BY <2>1, <2>4 DEF Poll, exec, Show, PageTypeOK
  <2>7. ASSUME NEW q \in Request PROVE Kept(q)'
    <3>1. CASE q = r
      BY <2>2, <2>4, <2>6, <3>1, LoadingOrFinal DEF Kept, Pending, PageTypeOK
    <3>2. CASE q # r /\ q.page = g
      BY <2>5, <2>6, <3>2 DEF Kept, Pending, PageTypeOK
    <3>3. CASE q.page # g
      BY <2>4, <2>6, <3>3, RequestFields DEF Kept, Pending, PageTypeOK, PageInv
    <3> QED
      BY <3>1, <3>2, <3>3
  <2>8. \A h \in Page : \A q \in intervals'[h] : q.page = h
    BY <2>6 DEF PageInv, PageTypeOK
  <2> QED
    BY <2>6, <2>7, <2>8 DEF PageInv
<1> QED
  BY <1>1, <1>2, <1>3, <1>4, <1>5, <1>6
     DEF PageNext, pageVars, PageUninstallEntry, PageJob

-----------------------------------------------------------------------------
LEMMA PageStart == PageInit => PageTypeOK /\ PageInv /\ AskedIsInstall
<1> SUFFICES ASSUME PageInit PROVE PageTypeOK /\ PageInv /\ AskedIsInstall
  OBVIOUS
<1>1. TypeOK
  BY TypeInit DEF PageInit
<1>2. PageTypeOK
  BY <1>1 DEF PageInit, PageTypeOK, Told, State
<1>3. PageInv /\ AskedIsInstall
  BY RequestFields DEF PageInit, PageInv, Kept, Pending, AskedIsInstall
<1> QED
  BY <1>2, <1>3

LEMMA PageNextAll ==
  ASSUME PageTypeOK, PageInv, AskedIsInstall, [PageNext]_pageVars
  PROVE  PageTypeOK' /\ PageInv' /\ AskedIsInstall'
<1>1. TypeOK'
  BY PageStep, TypeNext DEF PageTypeOK
<1> QED
  BY <1>1, PageTypeNext, PageInvNext, AskedNext

LEMMA PageAlways == PageSpec => [](PageTypeOK /\ PageInv /\ AskedIsInstall)
<1>1. PageInit => PageTypeOK /\ PageInv /\ AskedIsInstall
  BY PageStart
<1>2. PageTypeOK /\ PageInv /\ AskedIsInstall /\ [PageNext]_pageVars
        => (PageTypeOK /\ PageInv /\ AskedIsInstall)'
  BY PageNextAll
<1> QED
  BY <1>1, <1>2, PTL DEF PageSpec

(* The pages and their installers together keep the types of both          *)
(* (gAppManager of test/js/UPlugin.AppManager.js over AppManagerPlugin).   *)
THEOREM PageTypeCorrect == PageSpec => []PageTypeOK
  BY PageAlways, PTL

(* The installer under its pages is the installer: whatever the clients    *)
(* do, they take the steps that AppManagerPlugin allows and no other.      *)
THEOREM PageImplementsInstaller == PageSpec => Spec
<1>1. PageInit => Init
  BY DEF PageInit
<1>2. PageTypeOK /\ PageInv /\ AskedIsInstall /\ [PageNext]_pageVars => [Next]_vars
  BY PageStep
<1> QED
  BY <1>1, <1>2, PageAlways, PTL DEF PageSpec, Spec

(* No page's request ever puts one application's files among another's, or *)
(* leaves an application listed under a version whose install failed.      *)
THEOREM PagesAreIsolated == PageSpec => [](AppIsolation /\ FailedIsNotListed)
  BY PageImplementsInstaller, Isolation, FailedNotListed, PTL

(* Whoever waits for the loading image never has two intervals running, of *)
(* which the global wait_install_timer could clear only one.               *)
THEOREM OneInterval == PageSpec => []NoStrayInterval
<1>1. PageTypeOK /\ PageInv => NoStrayInterval
  <2> SUFFICES ASSUME PageTypeOK, PageInv, NEW g \in Page, intervals[g] # {}
               PROVE  intervals[g] = {wait_install_timer[g]}
    BY DEF NoStrayInterval
  <2>1. \A r \in intervals[g] : r \in Request /\ r.page = g
    BY DEF PageTypeOK, PageInv
  <2>2. \A r \in intervals[g] : r = wait_install_timer[g]
    BY <2>1 DEF PageInv, Kept
  <2> QED
    BY <2>2
<1> QED
  BY <1>1, PageAlways, PTL

-----------------------------------------------------------------------------
(***************************************************************************)
(* The poll tells the truth: it stops only when the thread of its own      *)
(* install has written its last status, and FINISH means that this thread  *)
(* is done.  While a request's interval runs, no thread but its own writes *)
(* the status of the page's plugin object (JobOwner), and Install leaves   *)
(* no final status behind (Honest).                                        *)
(***************************************************************************)
(* The thread has written its last status.                                 *)
Settled == Ended \cup {"cleanup", "clean"}

Busy == Running \ {"cleanup", "clean"}

(* The status of c's plugin object, when c is the last to have written it. *)
Honest(c) ==
  /\ pc[c] # "idle"
  /\ pc[c] \in Busy => m_state[c.plugin] \notin FinalStatus
  /\ pc[c] \in Settled \ {"done"} => m_state[c.plugin] # "FINISH"

Polled(r) ==
  /\ r \in intervals[r.page] => /\ job[r] \in Call
                                /\ uplugin[r.page] = job[r].plugin
                                /\ Honest(job[r])
  /\ job[r] # NoCall => /\ job[r] \in Call
                        /\ stage[r] = "started"
                        /\ PageOf[job[r].plugin] = r.page
                        /\ r \notin intervals[r.page] => pc[job[r]] \in Settled
                        /\ shown[r] = "FINISH" => pc[job[r]] = "done"

PollInv ==
  /\ \A r \in Request : Polled(r)
  /\ \A c \in Call : pc[c] # "idle" => \E r \in Request : job[r] = c

(* A thread writes the status of its own plugin object only, none once it  *)
(* has settled, and stays honest.                                          *)
LEMMA JobStatus ==
  ASSUME TypeOK, NEW c \in Call, Job(c)
  PROVE  /\ pc[c] # "idle" /\ pc[c] # "done" /\ pc'[c] # "idle"
         /\ \A x \in Call : x # c => pc'[x] = pc[x]
         /\ \A p \in Plugin : p # c.plugin => m_state'[p] = m_state[p]
         /\ pc[c] \in Settled => pc'[c] \in Settled /\ m_state' = m_state
         /\ Honest(c) => Honest(c)'
<1>1. c.plugin \in Plugin
  BY PathsDisjoint
<1> USE DEF TypeOK, Goto, setState, Honest, Settled, Busy, Running, Ended,
            FinalStatus, State
<1>2. CASE Download(c) \/ Respond(c) \/ ConnectThrows(c)
  BY <1>1, <1>2 DEF Download, Respond, ConnectThrows
<1>3. CASE MakeTemp(c) \/ ExtractDone(c) \/ ExtractThrows(c)
  BY <1>1, <1>3 DEF MakeTemp, ExtractDone, ExtractThrows
<1>4. CASE \/ \E f \in File : ExtractFile(c, f)
           \/ \E e \in Entry : CopyFile(c, e) \/ JobRemoveEntry(c, e)
  BY <1>1, <1>4 DEF ExtractFile, CopyFile, JobRemoveEntry, Removing
<1>5. CASE CheckInstalled(c) \/ BeginMove(c)
  BY <1>1, <1>5 DEF CheckInstalled, BeginMove
<1>6. CASE CopyDone(c) \/ CopyThrows(c)
  BY <1>1, <1>6 DEF CopyDone, CopyThrows
<1>7. CASE JobRemoveDirectory(c) \/ JobRemoveThrows(c)
  BY <1>1, <1>7 DEF JobRemoveDirectory, JobRemoveThrows, Removing, AfterRemove,
                    AfterThrow
<1>8. CASE Fail(c) \/ CheckTemp(c)
  BY <1>1, <1>8 DEF Fail, CheckTemp
<1>9. CASE WriteMeta(c) \/ Finish(c)
  BY <1>1, <1>9 DEF WriteMeta, Finish
<1> QED
  BY <1>2, <1>3, <1>4, <1>5, <1>6, <1>7, <1>8, <1>9 DEF Job

(* A thread that has not settled and writes to the plugin object of a      *)
(* request with a running interval is that request's own.                  *)
LEMMA JobOwner ==
  ASSUME PageTypeOK, PageInv, PollInv, NEW c \in Call, pc[c] # "idle",
         pc[c] \notin Settled, NEW r \in Request, r \in intervals[r.page],
         job[r].plugin = c.plugin
  PROVE  job[r] = c
<1>1. PICK q \in Request : job[q] = c
  BY DEF PollInv
<1>2. q \in intervals[q.page] /\ q.page = PageOf[c.plugin]
  BY <1>1, CallAssumption DEF PollInv, Polled
<1>3. r.page = PageOf[c.plugin]
  BY CallAssumption DEF PollInv, Polled
<1> QED
  BY <1>1, <1>2, <1>3, OnePending DEF Pending

-----------------------------------------------------------------------------
LEMMA PollInvJob ==
  ASSUME PageTypeOK, PageInv, PollInv, NEW c \in Call, PageJob(c)
  PROVE  PollInv'
<1>1. UNCHANGED <<uplugin, stage, job, shown, intervals>> /\ Job(c) /\ TypeOK
  BY DEF PageJob, client, PageTypeOK
<1>2. /\ pc[c] # "idle" /\ pc[c] # "done" /\ pc'[c] # "idle"
      /\ \A x \in Call : x # c => pc'[x] = pc[x]
      /\ \A p \in Plugin : p # c.plugin => m_state'[p] = m_state[p]
      /\ pc[c] \in Settled => pc'[c] \in Settled /\ m_state' = m_state
      /\ Honest(c) => Honest(c)'
  BY <1>1, JobStatus
<1>3. ASSUME NEW r \in Request, r \in intervals[r.page] PROVE Honest(job[r])'
  <2>1. job[r] \in Call /\ Honest(job[r]) /\ job[r].plugin \in Plugin
    BY <1>3, PathsDisjoint DEF PollInv, Polled
  <2>2. CASE job[r] = c
    BY <1>1, <1>2, <2>1, <2>2
  <2>3. CASE job[r] # c /\ job[r].plugin # c.plugin
    BY <1>1, <1>2, <2>1, <2>3 DEF Honest
  <2>4. CASE job[r] # c /\ job[r].plugin = c.plugin
    <3>1. pc[c] \in Settled
      BY <1>2, <1>3, <2>4, JobOwner
    <3> QED
      BY <1>1, <1>2, <2>1, <2>4, <3>1 DEF Honest
  <2> QED
    BY <2>2, <2>3, <2>4
<1>4. ASSUME NEW r \in Request PROVE Polled(r)'
  BY <1>1, <1>2, <1>3 DEF PollInv, Polled
<1>5. \A x \in Call : pc'[x] # "idle" => \E r \in Request : job'[r] = x
  BY <1>1, <1>2 DEF PollInv
<1> QED
  BY <1>4, <1>5 DEF PollInv

(* Install, for the request whose version list has come.                   *)
LEMMA PollInvVersion ==
  ASSUME PageTypeOK, PageInv, AskedIsInstall, PollInv, NEW r \in Request,
         OnVersionInfo(r)
  PROVE  PollInv'
<1>0. PICK c : c = Arguments(r, Wanted(r), uplugin[r.page])
  OBVIOUS
<1>1. /\ stage[r] = "asked" /\ r.op = "install" /\ r.page \in Page
      /\ UNCHANGED uplugin /\ OnStateChange[r.page] = r
      /\ r \notin intervals[r.page] /\ job[r] = NoCall
      /\ shown[r] \in Loading
  BY RequestFields
     DEF OnVersionInfo, AskedIsInstall, PageInv, Kept, Pending, PollInv, Polled
<1>2. CASE UNCHANGED <<vars, job, intervals>>
  <2>1. \A q \in Request : q # r => stage'[q] = stage[q] /\ shown'[q] = shown[q]
    BY <1>1 DEF OnVersionInfo, exec, Enter, Show, PageTypeOK
  <2>2. UNCHANGED <<m_state, pc>>
    BY <1>2 DEF vars
  <2>3. ASSUME NEW q \in Request PROVE Polled(q)'
    BY <1>1, <1>2, <2>1, <2>2 DEF PollInv, Polled, Honest
  <2> QED
    BY <1>2, <2>2, <2>3 DEF PollInv
<1>3. CASE /\ Wanted(r) \in Released /\ uplugin[r.page] # NoPlugin
           /\ Install(c) /\ job' = [job EXCEPT ![r] = c]
           /\ intervals' = [intervals EXCEPT ![r.page] = @ \cup {r}]
           /\ Enter(r, "started") /\ UNCHANGED shown
  <2>1. c \in Call /\ c.plugin = uplugin[r.page] /\ c.plugin \in Plugin
        /\ PageOf[c.plugin] = r.page
    BY <1>0, <1>1, <1>3, CallOfRequest, PathsDisjoint DEF Arguments, PageInv
  <2>2. /\ pc[c] = "idle" /\ pc' = [pc EXCEPT ![c] = "ready"]
        /\ m_state' = [m_state EXCEPT ![c.plugin] = "CHK_VERSION"]
    BY <1>3 DEF Install, Goto, setState
  <2>3. /\ pc'[c] = "ready" /\ m_state'[c.plugin] = "CHK_VERSION"
        /\ \A x \in Call : x # c => pc'[x] = pc[x]
        /\ \A p \in Plugin : p # c.plugin => m_state'[p] = m_state[p]
    BY <2>1, <2>2 DEF PageTypeOK, TypeOK
  <2>4. Polled(r)'
    <3>1. Honest(c)'
      BY <2>3 DEF Honest, FinalStatus, Settled, Ended
    <3>2. job'[r] = c /\ stage'[r] = "started" /\ r \in intervals'[r.page]
      BY <1>1, <1>3 DEF PageTypeOK, Enter
    <3> QED
      BY <1>1, <1>3, <2>1, <3>1, <3>2 DEF Polled, Loading
  <2>5. ASSUME NEW q \in Request, q # r PROVE Polled(q)'
    <3>1. /\ job'[q] = job[q] /\ stage'[q] = stage[q] /\ shown'[q] = shown[q]
          /\ q \in intervals'[q.page] <=> q \in intervals[q.page]
      BY <1>1, <1>3, <2>5, RequestFields DEF PageTypeOK, Enter
    <3>2. job[q] # c
      BY <2>1, <2>2, CallAssumption
         DEF PollInv, Polled, Honest, Settled, Ended
    <3>3. CASE q \in intervals[q.page]
      <4>1. /\ job[q] \in Call /\ job[q].plugin \in Plugin
            /\ PageOf[job[q].plugin] = q.page
        BY <3>3, PathsDisjoint, CallAssumption DEF PollInv, Polled
      <4>2. q.page # r.page
        BY <1>1, <2>5, <3>3, OnePending DEF Pending
      <4>3. job[q].plugin # c.plugin
        BY <2>1, <4>1, <4>2
      <4> QED
        BY <1>1, <2>3, <3>1, <3>2, <3>3, <4>1, <4>3 DEF PollInv, Polled, Honest
    <3>4. CASE q \notin intervals[q.page]
      BY <1>1, <2>3, <3>1, <3>2, <3>4 DEF PollInv, Polled
    <3> QED
      BY <3>3, <3>4
  <2>6. \A x \in Call : pc'[x] # "idle" => \E q \in Request : job'[q] = x
    <3> SUFFICES ASSUME NEW x \in Call, pc'[x] # "idle"
                 PROVE  \E q \in Request : job'[q] = x
      OBVIOUS
    <3>1. CASE x = c
      BY <1>3, <3>1 DEF PageTypeOK
    <3>2. CASE x # c
      <4>1. PICK q \in Request : job[q] = x
        BY <2>3, <3>2 DEF PollInv
      <4>2. q # r
        BY <1>1, <4>1, CallAssumption
      <4> QED
        BY <1>3, <4>1, <4>2 DEF PageTypeOK
    <3> QED
      BY <3>1, <3>2
  <2> QED
    BY <2>4, <2>5, <2>6 DEF PollInv
<1> QED
  BY <1>0, <1>2, <1>3 DEF OnVersionInfo

(* The poll of request r: it ends only when r's own thread has settled.    *)
LEMMA PollInvPoll ==
  ASSUME PageTypeOK, PageInv, PollInv, NEW g \in Page, Poll(g)
  PROVE  PollInv'
<1> DEFINE status == m_state[uplugin[g]]
<1>1. PICK r \in Request : r \in intervals[g]
  BY DEF Poll, PageTypeOK
<1>2. /\ r.page = g /\ OnStateChange[g] = r /\ wait_install_timer[g] = r
      /\ job[r] \in Call /\ uplugin[g] = job[r].plugin /\ Honest(job[r])
  BY <1>1 DEF PageInv, Kept, Pending, PollInv, Polled
<1>3. /\ UNCHANGED <<m_state, pc, uplugin, stage, job>>
      /\ \A q \in Request : q # r => shown'[q] = shown[q]
      /\ shown'[r] \in {shown[r], status}
      /\ \/ /\ status \in FinalStatus
            /\ intervals' = [intervals EXCEPT ![g] = @ \ {r}]
         \/ /\ status \notin FinalStatus
            /\ UNCHANGED intervals
  BY <1>2 DEF Poll, exec, Show, PageTypeOK, vars
<1>4. /\ status \in FinalStatus => pc[job[r]] \in Settled
      /\ status = "FINISH" => pc[job[r]] = "done"
  BY <1>2 DEF Honest, PageTypeOK, TypeOK, Busy, Settled, Running, Ended, FinalStatus
<1>5. ASSUME NEW q \in Request, q # r PROVE Polled(q)'
  <2>1. q \in intervals'[q.page] <=> q \in intervals[q.page]
    BY <1>3, <1>5, RequestFields DEF PageTypeOK
  <2> QED
    BY <1>3, <1>5, <2>1 DEF PollInv, Polled, Honest
<1>6. Polled(r)'
  <2>1. shown'[r] = "FINISH" => pc'[job'[r]] = "done"
    BY <1>1, <1>2, <1>3, <1>4, CallAssumption DEF PollInv, Polled
  <2>2. r \notin intervals'[r.page] => pc'[job'[r]] \in Settled
    BY <1>1, <1>2, <1>3, <1>4
  <2> QED
    BY <1>1, <1>2, <1>3, <2>1, <2>2, CallAssumption DEF PollInv, Polled, Honest
<1> QED
  BY <1>3, <1>5, <1>6 DEF PollInv

LEMMA PollInvNext ==
  ASSUME PageTypeOK, PageInv, AskedIsInstall, PollInv, [PageNext]_pageVars
  PROVE  PollInv'
<1>1. CASE UNCHANGED <<m_state, pc, client>>
  BY <1>1 DEF PollInv, Polled, Honest, client
<1>2. CASE \E g \in Page : Waits(g) /\ (init(g) \/ destroy(g))
  <2>1. PICK g \in Page : Waits(g) /\ (init(g) \/ destroy(g))
    BY <1>2
  <2>2. /\ UNCHANGED <<m_state, pc, stage, job, shown, intervals>>
        /\ \A h \in Page : h # g => uplugin'[h] = uplugin[h]
    BY <2>1 DEF init, destroy, vars, PageTypeOK
  <2>3. ASSUME NEW r \in Request, r \in intervals[r.page] PROVE r.page # g
    BY <2>1, <2>3, WaitsMeansIdle DEF Pending
  <2>4. ASSUME NEW r \in Request PROVE Polled(r)'
    BY <2>2, <2>3, RequestFields DEF PollInv, Polled, Honest
  <2> QED
    BY <2>2, <2>4 DEF PollInv
<1>3. CASE \E r \in Request : \/ install(r) \/ uninstall(r)
                              \/ UninstallReturns(r) \/ UninstallAborts(r)
  <2>1. PICK r \in Request : \/ install(r) \/ uninstall(r)
                             \/ UninstallReturns(r) \/ UninstallAborts(r)
    BY <1>3
  <2>2. /\ UNCHANGED <<m_state, pc, uplugin, job, intervals>>
        /\ stage[r] # "started"
        /\ \A q \in Request : q # r => stage'[q] = stage[q] /\ shown'[q] = shown[q]
    BY <2>1 DEF install, uninstall, UninstallReturns, UninstallAborts, Uninstall,
                UninstallDirectory, UninstallThrows, vars, Enter, Show, PageTypeOK
  <2>3. job[r] = NoCall /\ r \notin intervals[r.page]
    BY <2>2, CallAssumption DEF PollInv, Polled, PageInv, Kept
  <2>4. ASSUME NEW q \in Request PROVE Polled(q)'
    BY <2>2, <2>3 DEF PollInv, Polled, Honest
  <2> QED
    BY <2>2, <2>4 DEF PollInv
<1>4. CASE \E e \in Entry : PageUninstallEntry(e)
  BY <1>1, <1>4 DEF PageUninstallEntry, UninstallEntry
<1>5. CASE UNCHANGED pageVars
  BY <1>1, <1>5 DEF pageVars, vars
<1> QED
  BY <1>2, <1>3, <1>4, <1>5, PollInvVersion, PollInvPoll, PollInvJob DEF PageNext

-----------------------------------------------------------------------------
LEMMA PollAlways == PageSpec => []PollInv
<1>1. PageInit => PollInv
  BY RequestFields DEF PageInit, Init, PollInv, Polled
<1>2. PageTypeOK /\ PageInv /\ AskedIsInstall /\ PollInv /\ [PageNext]_pageVars
        => PollInv'
  BY PollInvNext
<1> QED
  BY <1>1, <1>2, PageAlways, PTL DEF PageSpec

(* wait_install_timer stops only when the thread of the install has        *)
(* written its last status, never on what an earlier install left.         *)
THEOREM PollSeesTheEnd == PageSpec => []PollOutlivesJob
<1>1. PollInv => PollOutlivesJob
  BY DEF PollInv, Polled, PollOutlivesJob, Settled
<1> QED
  BY <1>1, PollAlways, PTL

(* A callback that was told FINISH for an install was told the truth.      *)
THEOREM ToldTheTruth == PageSpec => []FinishIsTrue
<1>1. PollInv => FinishIsTrue
  BY DEF PollInv, Polled, FinishIsTrue
<1> QED
  BY <1>1, PollAlways, PTL

-----------------------------------------------------------------------------
(***************************************************************************)
(* The pages take turns.  A thread at work has an interval polling for it, *)
(* so that its page shows the loading image and its user waits (NoneAtWork). *)
(* When the pages' requests are about different applications, and nothing  *)
(* but the connection fails, that is the turn taking that AppManagerSerial *)
(* asks for, and all that is proved there holds for the pages.             *)
(***************************************************************************)
(* Requests of different pages are about different applications.           *)
PagesApart == \A r, q \in Request : r.name = q.name => r.page = q.page

(* Whoever starts has no thread at work, on any plugin object.             *)
LEMMA NoneAtWork ==
  ASSUME PageInv, PollInv, NEW r \in Request,
         Waits(r.page) \/ stage[r] = "asked",
         NEW c \in Call, pc[c] \in Busy
  PROVE  /\ PageOf[c.plugin] # r.page
         /\ \E q \in Request : job[q] = c /\ q.page = PageOf[c.plugin]
<1>1. PICK q \in Request : job[q] = c
  BY DEF PollInv, Busy, Running
<1>2. /\ stage[q] = "started" /\ q.page = PageOf[c.plugin]
      /\ q \in intervals[q.page]
  BY <1>1, CallAssumption DEF PollInv, Polled, Busy, Settled, Running, Ended
<1>3. ASSUME q.page = r.page PROVE FALSE
  <2>1. CASE Waits(r.page)
    BY <1>2, <1>3, <2>1, RequestFields, WaitsMeansIdle DEF Pending
  <2>2. CASE stage[r] = "asked"
    <3>1. q = r
      BY <1>2, <1>3, <2>2, OnePending DEF Pending
    <3> QED
      BY <1>2, <2>2, <3>1
  <2> QED
    BY <2>1, <2>2
<1> QED
  BY <1>1, <1>2, <1>3

(* A page begins only by a request whose user waited or whose version list *)
(* has come.                                                               *)
LEMMA Beginner ==
  ASSUME PageTypeOK, PageInv, AskedIsInstall, PageNext,
         NEW g \in Page, Begins(g)
  PROVE  \E r \in Request : r.page = g /\ (Waits(r.page) \/ stage[r] = "asked")
<1>1. CASE \E c \in Call : PageOf[c.plugin] = g /\ pc[c] = "idle" /\ pc'[c] # "idle"
  <2>1. PICK c \in Call : PageOf[c.plugin] = g /\ pc[c] = "idle" /\ pc'[c] # "idle"
    BY <1>1
  <2>2. ~ \E d \in Call : PageJob(d)
    <3> SUFFICES ASSUME NEW d \in Call, Job(d) PROVE FALSE
      BY DEF PageJob
    <3> QED
      BY <2>1, JobStatus DEF PageTypeOK
  <2>3. PICK r \in Request : OnVersionInfo(r)
    BY <2>1, <2>2 DEF PageNext, init, destroy, install, uninstall, Uninstall,
         UninstallReturns, UninstallAborts, UninstallDirectory, UninstallThrows,
         PageUninstallEntry, UninstallEntry, Poll, vars
  <2>4. /\ stage[r] = "asked" /\ r.op = "install"
        /\ Wanted(r) \in Released /\ uplugin[r.page] # NoPlugin
        /\ Install(Arguments(r, Wanted(r), uplugin[r.page]))
    BY <2>1, <2>3 DEF OnVersionInfo, AskedIsInstall, vars
  <2>5. c = Arguments(r, Wanted(r), uplugin[r.page])
    BY <2>1, <2>4 DEF Install, Goto, PageTypeOK, TypeOK
  <2>6. PageOf[c.plugin] = r.page
    BY <2>4, <2>5, RequestFields DEF Arguments, PageInv
  <2> QED
    BY <2>1, <2>4, <2>6
<1>2. CASE \E r \in Request : /\ r.page = g
                              /\ stage[r] # "uninstall" /\ stage'[r] = "uninstall"
  <2>1. PICK r \in Request : /\ r.page = g
                             /\ stage[r] # "uninstall" /\ stage'[r] = "uninstall"
    BY <1>2
  <2>2. PICK q \in Request : Waits(q.page) /\ (install(q) \/ uninstall(q))
    BY <2>1 DEF PageNext, init, destroy, UninstallReturns, UninstallAborts,
         PageUninstallEntry, OnVersionInfo, Poll, PageJob, client, Enter, PageTypeOK
  <2>3. q = r
    BY <2>1, <2>2 DEF install, uninstall, Enter, PageTypeOK
  <2> QED
    BY <2>1, <2>2, <2>3
<1> QED
  BY <1>1, <1>2 DEF Begins

(* A page whose user waits begins no install, and no uninstallation, while *)
(* a thread of its own installs works (gAppManager over InstallThread).    *)
THEOREM TurnsOfAPage == PageSpec => PageTakesTurns
<1>1. PageTypeOK /\ PageInv /\ AskedIsInstall /\ PollInv /\ [PageNext]_pageVars
        => [\A g \in Page : Begins(g) =>
              \A c \in Call : PageOf[c.plugin] = g =>
                pc[c] \notin Running \ {"cleanup", "clean"}]_pageVars
  <2> SUFFICES ASSUME PageTypeOK, PageInv, AskedIsInstall, PollInv, PageNext,
                      NEW g \in Page, Begins(g),
                      NEW c \in Call, PageOf[c.plugin] = g, pc[c] \in Busy
               PROVE  FALSE
    BY DEF Busy
  <2> QED
    BY Beginner, NoneAtWork
<1> QED
  BY <1>1, PageAlways, PollAlways, PTL DEF PageSpec, PageTakesTurns

-----------------------------------------------------------------------------
(* A thread that nothing interferes with and no fault befalls: what it is  *)
(* about to remove or to copy is there.                                    *)
Smooth(c) ==
  /\ pc[c] \notin {"failed", "cleanup", "clean", "error"}
  /\ pc[c] \in {"remove", "drop"} =>
       there[RemovedDir(c)] /\ todo[c] = Listing(RemovedDir(c))
  /\ pc[c] = "copy" =>
       there[Inst(c)] /\ there[Temp(c)] /\ todo[c] \subseteq Listing(Temp(c))

LEMMA SmoothStep ==
  ASSUME TypeOK, Faults \subseteq {"connect", "short", "meta"}, NEW c \in Call,
         Smooth(c), InstOwned, Job(c)
  PROVE  Smooth(c)'
<1>1. /\ Inst(c) \in Path /\ Temp(c) \in Path /\ Inst(c) # Temp(c) /\ c \in Thread
      /\ NoCall \notin Call
  BY PathsDisjoint, CallAssumption DEF Thread
<1>2. CASE Download(c) \/ Respond(c) \/ ConnectThrows(c) \/ MakeTemp(c) \/ ExtractDone(c)
  BY <1>1, <1>2 DEF Smooth, Download, Respond, ConnectThrows, MakeTemp,
                    ExtractDone, Goto, TypeOK
<1>3. CASE WriteMeta(c) \/ Finish(c) \/ \E f \in File : ExtractFile(c, f)
  BY <1>1, <1>3 DEF Smooth, WriteMeta, Finish, ExtractFile, Goto, TypeOK
<1>4. ~ExtractThrows(c) /\ ~Fail(c) /\ ~CheckTemp(c)
  BY DEF ExtractThrows, Fail, CheckTemp, Smooth
<1>5. CASE CheckInstalled(c)
  BY <1>1, <1>5 DEF Smooth, CheckInstalled, Goto, SetTodo, fs, TypeOK, Listing,
                    RemovedDir, Inst
<1>6. CASE BeginMove(c)
  <2>1. pc[c] = "move" /\ ~there[Inst(c)]
    BY <1>6 DEF BeginMove, InstOwned
  <2>2. CASE ~there[Temp(c)]
    BY <1>1, <1>6, <2>1, <2>2 DEF Smooth, BeginMove, Goto, TypeOK
  <2>3. CASE there[Temp(c)]
    <3>1. /\ pc'[c] = "copy" /\ data' = data /\ there'[Inst(c)] /\ there'[Temp(c)]
          /\ todo'[c] = Listing(Temp(c))
      BY <1>1, <1>6, <2>1, <2>3 DEF BeginMove, Goto, SetTodo, TypeOK
    <3> QED
      BY <3>1 DEF Smooth, Listing, Temp, Inst
  <2> QED
    BY <2>2, <2>3
<1>7. ASSUME NEW e \in Entry, CopyFile(c, e) PROVE Smooth(c)'
  <2>1. /\ pc' = pc /\ pc[c] = "copy" /\ todo'[c] = todo[c] \ {e}
        /\ data[Temp(c)][e] \in Call /\ Write(Inst(c), e, data[Temp(c)][e])
    BY <1>1, <1>7 DEF CopyFile, SetTodo, TypeOK
  <2>2. there' = there /\ \A q \in Entry : data'[Temp(c)][q] = data[Temp(c)][q]
    BY <1>1, <2>1, WriteEffect
  <2> QED
    BY <2>1, <2>2 DEF Smooth, Listing, Temp, Inst
<1>8. CASE CopyDone(c)
  <2>1. /\ pc[c] = "copy" /\ pc'[c] = "drop" /\ UNCHANGED <<there, data>>
        /\ todo'[c] = Listing(Temp(c))
    BY <1>1, <1>8 DEF CopyDone, Goto, SetTodo, fs, TypeOK
  <2> QED
    BY <2>1 DEF Smooth, Listing, RemovedDir, Temp
<1>9. ~CopyThrows(c)
  BY DEF CopyThrows, Smooth, Listing
<1>10. ASSUME NEW e \in Entry, JobRemoveEntry(c, e) PROVE Smooth(c)'
  <2> DEFINE d == RemovedDir(c)
  <2>1. /\ pc' = pc /\ pc[c] \in {"remove", "drop"} /\ todo'[c] = todo[c] \ {e}
        /\ Write(d, e, NoCall) /\ d \in Path
    BY <1>1, <1>10 DEF JobRemoveEntry, RemoveEntry, SetTodo, TypeOK, Removing,
                       Smooth, RemovedDir
  <2>2. /\ there' = there
        /\ \A q \in Entry : data'[d][q] = IF q = e THEN NoCall ELSE data[d][q]
    BY <1>1, <2>1, WriteEffect
  <2>3. RemovedDir(c)' = d
    BY <2>1 DEF RemovedDir, Inst, Temp
  <2>4. Listing(d)' = Listing(d) \ {e}
    BY <2>2, <2>3 DEF Listing
  <2> QED
    BY <2>1, <2>2, <2>3, <2>4 DEF Smooth
<1>11. CASE JobRemoveDirectory(c)
  <2>1. pc[c] \in {"remove", "drop"} /\ pc'[c] \in {"move", "meta"}
    BY <1>1, <1>11 DEF JobRemoveDirectory, Removing, AfterRemove, Goto, Smooth, TypeOK
  <2> QED
    BY <2>1 DEF Smooth
<1>12. ~JobRemoveThrows(c)
  BY DEF JobRemoveThrows, RemoveThrows, Removing, Smooth, Listing
<1> QED
  BY <1>2, <1>3, <1>4, <1>5, <1>6, <1>7, <1>8, <1>9, <1>10, <1>11, <1>12 DEF Job

(* Nobody else's step disturbs a thread when turns are taken.              *)
LEMMA SmoothOthers ==
  ASSUME NEW c \in Call, Smooth(c), pc'[c] = pc[c],
         pc[c] \in {"remove", "copy", "drop"} =>
           /\ todo'[c] = todo[c]
           /\ \A d \in {Inst(c), Temp(c)} : there'[d] = there[d] /\ data'[d] = data[d]
  PROVE  Smooth(c)'
  BY DEF Smooth, Listing, RemovedDir, Inst, Temp

LEMMA SmoothNext ==
  ASSUME TypeOK, SerialInv, Faults \subseteq {"connect", "short", "meta"},
         \A c \in Call : Smooth(c), [SerialNext]_vars
  PROVE  \A c \in Call : Smooth(c)'
<1> SUFFICES ASSUME NEW x \in Call PROVE Smooth(x)'
  OBVIOUS
<1>1. /\ Inst(x) \in Path /\ Temp(x) \in Path /\ Inst(x) \in App /\ Temp(x) \notin App
      /\ x \in Thread /\ x # Main /\ Inst(x) = x.name /\ Temp(x) = TempOf[x.name]
  BY PathsDisjoint, CallAssumption DEF Thread, Inst, Temp
<1>2. ASSUME NEW c \in Call, Install(c) PROVE Smooth(x)'
  <2>1. CASE x = c
    BY <1>2, <2>1 DEF Install, Goto, TypeOK, Smooth
  <2>2. CASE x # c
    BY <1>2, <2>2, SmoothOthers DEF Install, Goto, TypeOK, fs
  <2> QED
    BY <2>1, <2>2
<1>3. CASE \E a \in App : Uninstall(a)
  BY <1>1, <1>3, SmoothOthers DEF Uninstall, SetTodo, fs, TypeOK
<1>4. ASSUME NEW c \in Call, Job(c) PROVE Smooth(x)'
  <2>1. CASE x = c
    BY <1>4, <2>1, SmoothStep DEF SerialInv
  <2>2. CASE x # c
    <3>1. /\ Active(c) /\ pc'[x] = pc[x] /\ todo'[x] = todo[x]
          /\ \A d \in Path : d \notin {Inst(c), Temp(c)} =>
               there'[d] = there[d] /\ data'[d] = data[d]
      BY <1>4, <2>2, JobFrame
    <3>2. ASSUME pc[x] \in {"remove", "copy", "drop"}
          PROVE  \A d \in {Inst(x), Temp(x)} : d \notin {Inst(c), Temp(c)}
      <4>1. x.name # c.name /\ c.name \in App
        BY <2>2, <3>1, <3>2, PathsDisjoint
           DEF SerialInv, OneAtATime, Active, Running, Inst
      <4> QED
        BY <1>1, <4>1, PathAssumption DEF Inst, Temp
    <3> QED
      BY <1>1, <3>1, <3>2, SmoothOthers
  <2> QED
    BY <2>1, <2>2
<1>5. CASE UninstallStep
  <2>1. /\ uninst \in App /\ pc' = pc /\ todo'[x] = todo[x]
    BY <1>1, <1>5 DEF UninstallStep, UninstallEntry, UninstallDirectory,
         UninstallThrows, RemoveEntry, RemoveDirectory, RemoveThrows, SetTodo,
         TypeOK, Thread
  <2>2. \A d \in Path : d # uninst => there'[d] = there[d] /\ data'[d] = data[d]
    BY <1>5 DEF UninstallStep, UninstallEntry, UninstallDirectory,
         UninstallThrows, RemoveEntry, RemoveDirectory, RemoveThrows, Write,
         TypeOK, fs
  <2>3. pc[x] \in {"remove", "copy", "drop"} => Inst(x) # uninst /\ Temp(x) # uninst
    BY <1>1, <2>1 DEF SerialInv, OneAtATime, Active, Running
  <2> QED
    BY <1>1, <2>1, <2>2, <2>3, SmoothOthers
<1>6. ~Crash
  BY DEF Crash
<1>7. CASE UNCHANGED vars
  BY <1>7, SmoothOthers DEF vars
<1> QED
  BY <1>2, <1>3, <1>4, <1>5, <1>6, <1>7 DEF SerialNext

-----------------------------------------------------------------------------
(* A request's thread works on the application that the request names.     *)
JobNames == \A r \in Request : job[r] # NoCall => job[r].name = r.name

LEMMA JobNamesNext ==
  ASSUME PageTypeOK, JobNames, [PageNext]_pageVars
  PROVE  JobNames'
<1>1. CASE UNCHANGED job
  BY <1>1 DEF JobNames
<1>2. CASE \E r \in Request : OnVersionInfo(r)
  BY <1>2 DEF JobNames, OnVersionInfo, Arguments, PageTypeOK
<1> QED
  BY <1>1, <1>2
     DEF PageNext, pageVars, client, init, destroy, install, uninstall,
         UninstallReturns, UninstallAborts, PageUninstallEntry, Poll, PageJob

(* Where no fault makes a thread clean up, every thread is one that the    *)
(* page polls: its page waits, and the other pages are elsewhere.          *)
LEMMA NobodyElse ==
  ASSUME PagesApart, PageTypeOK, PageInv, PollInv, JobNames,
         \A c \in Call : Smooth(c),
         NEW r \in Request, Waits(r.page) \/ stage[r] = "asked",
         NEW d \in Call, Active(d)
  PROVE  d.name # r.name /\ PageOf[d.plugin] # r.page
<1>1. pc[d] \in Busy
  BY DEF Active, Busy, Smooth
<1>2. /\ PageOf[d.plugin] # r.page
      /\ \E q \in Request : job[q] = d /\ q.page = PageOf[d.plugin]
  BY <1>1, NoneAtWork
<1>3. PICK q \in Request : job[q] = d /\ q.page = PageOf[d.plugin]
  BY <1>2
<1>4. d.name = q.name
  BY <1>3, CallAssumption DEF JobNames
<1> QED
  BY <1>2, <1>3, <1>4 DEF PagesApart

LEMMA PageTurn ==
  ASSUME PagesApart, PageTypeOK, PageInv, AskedIsInstall, PollInv, JobNames,
         \A c \in Call : Smooth(c), [PageNext]_pageVars
  PROVE  [SerialNext]_vars
<1>1. CASE UNCHANGED pageVars
  BY <1>1 DEF pageVars
<1>2. CASE \E g \in Page : init(g) \/ destroy(g) \/ Poll(g)
  BY <1>2 DEF init, destroy, Poll
<1>3. CASE \E r \in Request : Waits(r.page) /\ (install(r) \/ uninstall(r))
  <2>1. PICK r \in Request : Waits(r.page) /\ (install(r) \/ uninstall(r))
    BY <1>3
  <2>2. CASE UNCHANGED vars
    BY <2>2
  <2>3. CASE Uninstall(r.name)
    <3>1. \A d \in Call : Active(d) => d.name # r.name
      BY <2>1, NobodyElse
    <3> QED
      BY <2>3, <3>1, RequestFields DEF SerialNext
  <2> QED
    BY <2>1, <2>2, <2>3 DEF install, uninstall
<1>4. CASE \E r \in Request : UninstallReturns(r) \/ UninstallAborts(r)
  BY <1>4 DEF UninstallReturns, UninstallAborts, SerialNext, UninstallStep
<1>5. CASE \E e \in Entry : PageUninstallEntry(e)
  BY <1>5 DEF PageUninstallEntry, SerialNext, UninstallStep
<1>6. CASE \E r \in Request : OnVersionInfo(r)
  <2>1. PICK r \in Request : OnVersionInfo(r)
    BY <1>6
  <2> DEFINE c == Arguments(r, Wanted(r), uplugin[r.page])
  <2>2. CASE UNCHANGED vars
    BY <2>2
  <2>3. CASE Wanted(r) \in Released /\ uplugin[r.page] # NoPlugin /\ Install(c)
    <3>1. stage[r] = "asked" /\ r.op = "install"
      BY <2>1 DEF OnVersionInfo, AskedIsInstall
    <3>2. c \in Call
      BY <2>3, <3>1, CallOfRequest
    <3>3. c.name = r.name /\ c.plugin = uplugin[r.page] /\ PageOf[c.plugin] = r.page
      BY <2>3, RequestFields DEF Arguments, PageInv
    <3>4. \A d \in Call : Active(d) => d.name # r.name /\ PageOf[d.plugin] # r.page
      BY <3>1, NobodyElse
    <3>5. InTurn(c)
      <4> HIDE DEF c
      <4> QED
        BY <3>3, <3>4 DEF InTurn
    <3> HIDE DEF c
    <3> QED
      BY <2>3, <3>2, <3>5 DEF SerialNext
  <2> QED
    BY <2>1, <2>2, <2>3 DEF OnVersionInfo
<1>7. CASE \E c \in Call : PageJob(c)
  BY <1>7 DEF PageJob, SerialNext
<1> QED
  BY <1>1, <1>2, <1>3, <1>4, <1>5, <1>6, <1>7 DEF PageNext

(* Turns and ownership need each other: a thread that owns its directories *)
(* meets no surprise, so that it never cleans up behind the page's back,   *)
(* and the page's next request finds no thread at work.                    *)
TurnsInv ==
  /\ PollInv /\ JobNames /\ SerialInv
  /\ \A c \in Call : Smooth(c)

LEMMA TurnsNext ==
  ASSUME PagesApart, Faults \subseteq {"connect", "short", "meta"},
         PageTypeOK, PageInv, AskedIsInstall, TurnsInv, [PageNext]_pageVars
  PROVE  TurnsInv' /\ [SerialNext]_vars
<1>1. [SerialNext]_vars
  BY PageTurn DEF TurnsInv
<1>2. TypeOK /\ TypeOK'
  BY PageNextAll DEF PageTypeOK
<1>3. SerialInv'
  BY <1>1, <1>2, SerialNextStep DEF TurnsInv
<1>4. \A c \in Call : Smooth(c)'
  BY <1>1, <1>2, SmoothNext DEF TurnsInv
<1>5. PollInv' /\ JobNames'
  BY PollInvNext, JobNamesNext DEF TurnsInv
<1> QED
  BY <1>1, <1>3, <1>4, <1>5 DEF TurnsInv

LEMMA TurnsInit == PageInit => TurnsInv
<1> SUFFICES ASSUME PageInit PROVE TurnsInv
  OBVIOUS
<1>1. PollInv
  BY RequestFields DEF PageInit, Init, PollInv, Polled
<1>2. JobNames
  BY DEF PageInit, JobNames
<1>3. SerialInv
  BY SerialInit DEF PageInit
<1>4. \A c \in Call : Smooth(c)
  BY DEF PageInit, Init, Smooth
<1> QED
  BY <1>1, <1>2, <1>3, <1>4 DEF TurnsInv

(* Pages whose users wait for the loading image, and whose requests are    *)
(* about different applications, take the turns that AppManagerSerial asks *)
(* for, as long as only connections, packages and meta files fail: the     *)
(* image is on while InstallThread_Handler has anything left to do.        *)
THEOREM PagesTakeTurns ==
  ASSUME PagesApart, Faults \subseteq {"connect", "short", "meta"}
  PROVE  PageSpec => SerialSpec
<1>1. PageInit => Init /\ TurnsInv
  BY TurnsInit DEF PageInit
<1>2. PageTypeOK /\ PageInv /\ AskedIsInstall /\ TurnsInv /\ [PageNext]_pageVars
        => TurnsInv' /\ [SerialNext]_vars
  BY TurnsNext
<1> QED
  BY <1>1, <1>2, PageAlways, PTL DEF PageSpec, SerialSpec

(* Under such pages every file of a listed application is of the version   *)
(* that is listed, and no temporary directory outlives its thread.         *)
THEOREM PagesDeliverWhole ==
  ASSUME PagesApart, Faults \subseteq {"connect", "short", "meta"}
  PROVE  PageSpec => [](OneDelivery /\ NoTempLeft)
<1>1. Faults \cap {"cleanup", "crash"} = {}
  OBVIOUS
<1> QED
  BY <1>1, PagesTakeTurns, DeliveredByOne, TempIsGone, PTL

(* Under such pages, where a request or a meta file can fail but no file   *)
(* is lost on its way to the disk, the list of applications is AppStore's. *)
THEOREM PagesImplementStore ==
  ASSUME PagesApart, Faults \subseteq {"connect", "meta"}
  PROVE  PageSpec => ImplementsAppStore
<1>1. Faults \subseteq {"connect", "short", "meta"} /\ "short" \notin Faults
  OBVIOUS
<1> QED
  BY <1>1, PagesTakeTurns, ImplementsStore, PTL
=============================================================================
