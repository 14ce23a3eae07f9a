----------------------------- MODULE SpaceAgent -----------------------------
(***************************************************************************)
(* The application SpaceAgent: UPlugin.SpaceAgent/UPlugin.SpaceAgent.cpp   *)
(* and its page client gSpaceAgent, test/js/UPlugin.SpaceAgent.js.         *)
(*                                                                         *)
(* Pages start, stop and ask one external process, SpaceApp, which the     *)
(* plugin finds by its name among the processes of the machine.  A call    *)
(* first counts these processes and acts on the count afterwards.  The     *)
(* client polls the count on an interval, and when it is one, asks the     *)
(* process itself for its status; the answer comes later, or never.        *)
(*                                                                         *)
(* The pages are in browsers of their own, so that nothing orders their    *)
(* calls.  Within a page, no handler runs while a call of the plugin has   *)
(* not returned.                                                           *)
(***************************************************************************)
EXTENDS Naturals, FiniteSets

CONSTANTS
  Page,    \* the pages, each with a gSpaceAgent of its own
  Poller,  \* bound: the pages that poll and show the status
  Space    \* bound: the SpaceApp processes that may be there at a time

ASSUME SpaceAssumption ==
  IsFiniteSet(Page) /\ IsFiniteSet(Space) /\ Poller \subseteq Page

(* What SpaceApp reports of itself, once its web service runs.             *)
Remote == {"STARTED_NOCONTENTS", "CONTENTS_READY"}

(* NEW is the client's initial -100; DUPLICATE is a status of the plugin   *)
(* that the client's STATE lacks.                                          *)
Code == Remote \cup {"NEW", "LOCAL_START", "LOCAL_STOP", "DUPLICATE"}

VARIABLES
  space,    \* space[q]: the process, "STARTUP" before its service runs
  main,     \* main[g]: where the page's call of the plugin stands
  kill,     \* kill[g]: the processes that forceStopAll has left to kill
  inited,   \* inited[g]: gSpaceAgent._inited
  started,  \* started[g]: gSpaceAgent._started, when the interval runs
  code,     \* code[g]: gSpaceAgent._status.code
  shown,    \* shown[g]: what the callback of the page was told last
  answers   \* answers[g]: what the process answered and g has not yet heard

local  == <<inited, started, code, shown>>
vars   == <<space, main, kill, local, answers>>

TypeOK ==
  /\ space \in [Space -> {"none", "STARTUP"} \cup Remote]
  /\ main \in [Page -> {"idle", "start", "list", "kill", "shutdown", "load"}]
  /\ kill \in [Page -> SUBSET Space]
  /\ inited \in [Page -> BOOLEAN]
  /\ started \in [Page -> BOOLEAN]
  /\ code \in [Page -> Code]
  /\ shown \in [Page -> Code]
  /\ answers \in [Page -> SUBSET Remote]

Init ==
  /\ space = [q \in Space |-> "none"]
  /\ main = [g \in Page |-> "idle"]
  /\ kill = [g \in Page |-> {}]
  /\ inited = [g \in Page |-> g \notin Poller]
  /\ started = [g \in Page |-> FALSE]
  /\ code = [g \in Page |-> "NEW"]
  /\ shown = [g \in Page |-> "NEW"]
  /\ answers = [g \in Page |-> {}]

Running == {q \in Space : space[q] # "none"}

getLocalProcessStatus ==
  IF Running = {} THEN "LOCAL_STOP"
  ELSE IF Cardinality(Running) = 1 THEN "LOCAL_START" ELSE "DUPLICATE"

Goto(g, l) == main' = [main EXCEPT ![g] = l]

-----------------------------------------------------------------------------
(* The plugin's calls.  Each begins with a count; a call that ends there   *)
(* changes nothing and is left out.                                        *)

(* Mutant: the duplicate case is the last else.                            *)
runSpaceMutant(g) ==
  /\ main[g] = "idle" /\ inited[g]
  /\ getLocalProcessStatus # "LOCAL_START"
  /\ Goto(g, "start")
  /\ UNCHANGED <<space, kill, local, answers>>

runSpace(g) ==
  /\ main[g] = "idle" /\ inited[g]
  /\ \/ getLocalProcessStatus = "LOCAL_STOP" /\ Goto(g, "start")
     \/ getLocalProcessStatus = "DUPLICATE" /\ Goto(g, "list")
  /\ UNCHANGED <<space, kill, local, answers>>

(* shutdownSpace and loadContents.                                         *)
callSpace(g) ==
  /\ main[g] = "idle" /\ inited[g]
  /\ \/ getLocalProcessStatus = "LOCAL_START" /\ \E l \in {"shutdown", "load"} : Goto(g, l)
     \/ getLocalProcessStatus = "DUPLICATE" /\ Goto(g, "list")
  /\ UNCHANGED <<space, kill, local, answers>>

(* Process::Start, whatever has started since the count.  A process that   *)
(* someone is about to kill is known by its handle and is not a new one.   *)
ProcessStart(g) ==
  /\ main[g] = "start"
  /\ \E q \in Space \ Running : /\ \A h \in Page : q \notin kill[h]
                                /\ space' = [space EXCEPT ![q] = "STARTUP"]
  /\ Goto(g, "idle")
  /\ UNCHANGED <<kill, local, answers>>

(* forceStopAll takes a new list, and kills what is on it one by one.  A   *)
(* process that has gone meanwhile makes Kill throw, and the rest stay.    *)
ForceList(g) ==
  /\ main[g] = "list"
  /\ kill' = [kill EXCEPT ![g] = Running]
  /\ Goto(g, "kill")
  /\ UNCHANGED <<space, local, answers>>

ForceKill(g) ==
  /\ main[g] = "kill"
  /\ \E q \in kill[g] \cap Running :
       /\ space' = [space EXCEPT ![q] = "none"]
       /\ kill' = [kill EXCEPT ![g] = @ \ {q}]
  /\ UNCHANGED <<main, local, answers>>

ForceEnd(g) ==
  /\ main[g] = "kill" /\ (kill[g] = {} \/ kill[g] \ Running # {})
  /\ kill' = [kill EXCEPT ![g] = {}]
  /\ Goto(g, "idle")
  /\ UNCHANGED <<space, local, answers>>

(* The web service takes the request, and the process ends or has contents. *)
ServiceAnswers(g) ==
  /\ main[g] \in {"shutdown", "load"}
  /\ \E q \in Running :
       /\ space[q] # "STARTUP"
       /\ space' = [space EXCEPT ![q] =
            IF main[g] = "shutdown" THEN "none" ELSE "CONTENTS_READY"]
  /\ Goto(g, "idle")
  /\ UNCHANGED <<kill, local, answers>>

(* Process::Start or DownloadString throws.                                *)
CallThrows(g) ==
  /\ main[g] \in {"start", "shutdown", "load"}
  /\ Goto(g, "idle")
  /\ UNCHANGED <<space, kill, local, answers>>

-----------------------------------------------------------------------------
(* The client's handlers.                                                  *)

(* Mutant: the interval's LOCAL_START overwrites what the process reported. *)
set_statusMutant(g, c) ==
  /\ shown' = [shown EXCEPT ![g] = IF inited[g] /\ code[g] # c THEN c ELSE @]
  /\ code' = [code EXCEPT ![g] = c]

(* _set_status: LOCAL_START counts only after LOCAL_STOP, and the callback *)
(* is told of changes.                                                     *)
set_status(g, c) ==
  IF c = "LOCAL_START" /\ code[g] # "LOCAL_STOP" THEN UNCHANGED <<code, shown>>
  ELSE /\ shown' = [shown EXCEPT ![g] = IF inited[g] /\ code[g] # c THEN c ELSE @]
       /\ code' = [code EXCEPT ![g] = c]

(* Mutant: the service is taken to run from the start.                     *)
RemoteStatusMutant == {space[q] : q \in Running}

(* The process answers a request at once, if its service runs; the answer  *)
(* takes its time.                                                         *)
RemoteStatus == {space[q] : q \in Running} \ {"STARTUP"}

(* Mutant: only a running process is reported.                             *)
get_statusMutant(g) ==
  IF getLocalProcessStatus = "LOCAL_START"
    THEN /\ set_status(g, "LOCAL_START")
         /\ answers' = [answers EXCEPT ![g] = @ \cup RemoteStatus]
    ELSE UNCHANGED <<code, shown, answers>>

(* _get_status, and the plugin's GetStatus in it.                          *)
get_status(g) ==
  /\ set_status(g, getLocalProcessStatus)
  /\ answers' = IF getLocalProcessStatus = "LOCAL_START"
                  THEN [answers EXCEPT ![g] = @ \cup RemoteStatus] ELSE answers

init(g) ==
  /\ main[g] = "idle" /\ ~inited[g]
  /\ inited' = [inited EXCEPT ![g] = TRUE]
  /\ shown' = [shown EXCEPT ![g] = "NEW"]
  /\ UNCHANGED <<space, main, kill, started, code, answers>>

start(g) ==
  /\ main[g] = "idle" /\ inited[g]
  /\ get_status(g)
  /\ started' = [started EXCEPT ![g] = TRUE]
  /\ UNCHANGED <<space, main, kill, inited>>

stop(g) ==
  /\ main[g] = "idle"
  /\ started' = [started EXCEPT ![g] = FALSE]
  /\ code' = [code EXCEPT ![g] = "NEW"]
  /\ UNCHANGED <<space, main, kill, inited, shown, answers>>

destroy(g) ==
  /\ main[g] = "idle"
  /\ started' = [started EXCEPT ![g] = FALSE]
  /\ code' = [code EXCEPT ![g] = "NEW"]
  /\ inited' = [inited EXCEPT ![g] = FALSE]
  /\ UNCHANGED <<space, main, kill, shown, answers>>

get_status_timer(g) ==
  /\ main[g] = "idle" /\ started[g]
  /\ get_status(g)
  /\ UNCHANGED <<space, main, kill, inited, started>>

(* The callback of $.getJSON: nothing stops it after stop or destroy.      *)
OnStatus(g, c) ==
  /\ main[g] = "idle" /\ c \in answers[g]
  /\ set_status(g, c)
  /\ answers' = [answers EXCEPT ![g] = @ \ {c}]
  /\ UNCHANGED <<space, main, kill, inited, started>>

-----------------------------------------------------------------------------
(* SpaceApp's own steps: its service starts, its user closes it or it      *)
(* crashes.                                                                *)
SpaceStarts(q) ==
  /\ space[q] = "STARTUP"
  /\ space' = [space EXCEPT ![q] = "STARTED_NOCONTENTS"]
  /\ UNCHANGED <<main, kill, local, answers>>

SpaceEnds(q) ==
  /\ q \in Running
  /\ space' = [space EXCEPT ![q] = "none"]
  /\ UNCHANGED <<main, kill, local, answers>>

Plugin(g) ==
  \/ ProcessStart(g) \/ ForceList(g) \/ ForceKill(g) \/ ForceEnd(g)
  \/ ServiceAnswers(g) \/ CallThrows(g)

Next ==
  \/ \E g \in Page : runSpace(g) \/ callSpace(g) \/ Plugin(g)
  \/ \E g \in Poller : init(g) \/ start(g) \/ stop(g) \/ destroy(g)
  \/ \E g \in Poller : get_status_timer(g)
  \/ \E g \in Poller, c \in Remote : OnStatus(g, c)
  \/ \E q \in Space : SpaceStarts(q) \/ SpaceEnds(q)

Spec == Init /\ [][Next]_vars

(* Calls of the plugin return, an answer arrives, and the page's event     *)
(* queue is served in turn, so that a handler that is ready again and      *)
(* again runs.                                                             *)
FairSpec ==
  /\ Spec
  /\ \A g \in Page : WF_vars(Plugin(g))
  /\ \A g \in Poller : SF_vars(get_status_timer(g))
  /\ \A g \in Poller, c \in Remote : SF_vars(OnStatus(g, c))

-----------------------------------------------------------------------------
(* However the pages' counts and starts interleave, with forced stops and  *)
(* processes that end, there are never more processes than browsers: one   *)
(* browser alone never starts a second one (runSpace's check).             *)
OnePerBrowser == Cardinality(Running) <= Cardinality(Page)

(* Once the only process stays as it is, a page that polls comes to report *)
(* the process's own status and keeps it: neither late answers in any      *)
(* order nor the interval's LOCAL_START displace it for good.              *)
StatusIsReported ==
  \A g \in Poller, c \in Remote :
    <>[](started[g] /\ \E q \in Space : Running = {q} /\ space[q] = c)
      => <>[](code[g] = c)

(* Once no process is left, the callback of a page that polls is told      *)
(* LOCAL_STOP after all answers still on their way.                        *)
StopIsShown ==
  \A g \in Poller : <>[](started[g] /\ Running = {}) => <>[](shown[g] = "LOCAL_STOP")
=============================================================================
