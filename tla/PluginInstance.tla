--------------------------- MODULE PluginInstance ---------------------------
(***************************************************************************)
(* A plugin instance of the host: npUPlugin/npp_gate.cpp and plugin.cpp.   *)
(*                                                                         *)
(* The browser makes an instance (NPP_New), asks for its scriptable object *)
(* and gives it a window, and destroys it.  The scriptable object is made  *)
(* on the first demand, by the application's library or, when that fails,  *)
(* as a DefaultPluginApp, and lives by its reference count: the Plugin     *)
(* owns one reference, the browser one for each time it was handed the     *)
(* object.  An install thread (AppManagerPlugin) keeps a plain C++         *)
(* reference to the scriptable object, which counts for nothing, and may   *)
(* outlive the page.  All but the thread's end runs on the browser's main  *)
(* thread; a call is one step.                                             *)
(***************************************************************************)
EXTENDS Naturals

CONSTANTS
  Instance,    \* the NPP instances of the browser
  Faults,      \* {"reject"} if an application may refuse its window
  MaxHeld,     \* bound: references the browser holds to one object
  MaxThreads   \* bound: install threads of one object at a time

ASSUME InstanceAssumption ==
  Faults \subseteq {"reject"} /\ MaxHeld \in Nat /\ MaxThreads \in Nat

VARIABLES
  phase,           \* what the browser has done with the instance
  pdata,           \* instance->pdata points to a Plugin, alive or not
  plugin,          \* the Plugin object exists
  m_windowset,     \* Plugin::m_windowset
  m_scriptable,    \* the scriptable object, if it was made
  referenceCount,  \* NPObject::referenceCount of the scriptable object
  held,            \* how many of these references the browser has to release
  threads          \* install threads that refer to the scriptable object

vars == <<phase, pdata, plugin, m_windowset, m_scriptable, referenceCount,
          held, threads>>

(* app: of the class the page named.  default: a DefaultPluginApp.  freed:  *)
(* deallocated, after which any use is undefined.                          *)
Scriptable == {"none", "app", "default", "freed"}

TypeOK ==
  /\ phase \in [Instance -> {"fresh", "live", "rejected", "gone"}]
  /\ pdata \in [Instance -> BOOLEAN]
  /\ plugin \in [Instance -> BOOLEAN]
  /\ m_windowset \in [Instance -> BOOLEAN]
  /\ m_scriptable \in [Instance -> Scriptable]
  /\ referenceCount \in [Instance -> Nat]
  /\ held \in [Instance -> Nat]
  /\ threads \in [Instance -> Nat]

Init ==
  /\ phase = [i \in Instance |-> "fresh"]
  /\ pdata = [i \in Instance |-> FALSE]
  /\ plugin = [i \in Instance |-> FALSE]
  /\ m_windowset = [i \in Instance |-> FALSE]
  /\ m_scriptable = [i \in Instance |-> "none"]
  /\ referenceCount = [i \in Instance |-> 0]
  /\ held = [i \in Instance |-> 0]
  /\ threads = [i \in Instance |-> 0]

-----------------------------------------------------------------------------
(* AppManager::createScriptable: the library cannot be loaded, lacks the   *)
(* symbol or wants .NET support, or its object is the one to use.          *)
createScriptable == {"app", "default"}

(* Mutant: the object is handed out without a reference of its own once it *)
(* exists.                                                                 *)
getScriptableObjectMutant(i, obj, count) ==
  \/ /\ m_scriptable[i] = "none"
     /\ obj \in createScriptable
     /\ count = 1
  \/ /\ m_scriptable[i] # "none"
     /\ obj = m_scriptable[i]
     /\ count = referenceCount[i]

(* Plugin::getScriptableObject: obj and count are the object and its       *)
(* reference count when it returns.  A new object has one reference, the   *)
(* Plugin's; then one is added for the caller, each time.                  *)
getScriptableObject(i, obj, count) ==
  \/ /\ m_scriptable[i] = "none"
     /\ obj \in createScriptable
     /\ count = 2
  \/ /\ m_scriptable[i] # "none"
     /\ obj = m_scriptable[i]
     /\ count = referenceCount[i] + 1

(* NPN_ReleaseObject, of an object that had count references: at zero the  *)
(* browser deallocates it.                                                 *)
NPN_ReleaseObject(i, obj, count) ==
  /\ referenceCount' = [referenceCount EXCEPT ![i] = count - 1]
  /\ m_scriptable' = [m_scriptable EXCEPT ![i] =
                        IF count = 1 THEN "freed" ELSE obj]

NPP_New(i) ==
  /\ phase[i] = "fresh"
  /\ phase' = [phase EXCEPT ![i] = "live"]
  /\ pdata' = [pdata EXCEPT ![i] = TRUE]
  /\ plugin' = [plugin EXCEPT ![i] = TRUE]
  /\ UNCHANGED <<m_windowset, m_scriptable, referenceCount, held, threads>>

(* NPP_GetValue(NPPVpluginScriptableNPObject): the browser gets the        *)
(* reference that was added.                                               *)
NPP_GetValue(i) ==
  /\ phase[i] = "live" /\ pdata[i] /\ held[i] < MaxHeld
  /\ \E obj \in Scriptable, count \in 1..(referenceCount[i] + 2) :
       /\ getScriptableObject(i, obj, count)
       /\ m_scriptable' = [m_scriptable EXCEPT ![i] = obj]
       /\ referenceCount' = [referenceCount EXCEPT ![i] = count]
  /\ held' = [held EXCEPT ![i] = @ + 1]
  /\ UNCHANGED <<phase, pdata, plugin, m_windowset, threads>>

(* Mutant: the window that was set is forgotten.                           *)
NPP_SetWindowMutant(i) ==
  /\ phase[i] = "live" /\ pdata[i]
  /\ \E obj \in Scriptable, count \in 1..(referenceCount[i] + 2) :
       /\ getScriptableObject(i, obj, count)
       /\ m_scriptable' = [m_scriptable EXCEPT ![i] = obj]
       /\ referenceCount' = [referenceCount EXCEPT ![i] = count]
  /\ UNCHANGED <<phase, pdata, plugin, m_windowset, held, threads>>

(* NPP_SetWindow with a window, the first time: the reference that         *)
(* onNPP_SetWindows was handed is kept by nobody.                          *)
NPP_SetWindow(i) ==
  /\ phase[i] = "live" /\ pdata[i] /\ ~m_windowset[i]
  /\ \E obj \in Scriptable, count \in 1..(referenceCount[i] + 2) :
       /\ getScriptableObject(i, obj, count)
       /\ m_scriptable' = [m_scriptable EXCEPT ![i] = obj]
       /\ referenceCount' = [referenceCount EXCEPT ![i] = count]
  /\ m_windowset' = [m_windowset EXCEPT ![i] = TRUE]
  /\ UNCHANGED <<phase, pdata, plugin, held, threads>>

(* The same, when an application's own setWindowBase refuses: the Plugin   *)
(* is deleted and instance->pdata still points to it.  What the browser's  *)
(* next call does with that pointer is undefined and not modelled.         *)
NPP_SetWindowRejected(i) ==
  /\ phase[i] = "live" /\ pdata[i] /\ ~m_windowset[i] /\ "reject" \in Faults
  /\ \E count \in 1..(referenceCount[i] + 2) :
       /\ getScriptableObject(i, "app", count)
       /\ NPN_ReleaseObject(i, "app", count)
  /\ phase' = [phase EXCEPT ![i] = "rejected"]
  /\ plugin' = [plugin EXCEPT ![i] = FALSE]
  /\ UNCHANGED <<pdata, m_windowset, held, threads>>

(* Mutant: the destructor releases the object without asking whether it    *)
(* was ever made.                                                          *)
NPP_DestroyMutantTyped(i) ==
  /\ phase[i] = "live" /\ pdata[i]
  /\ NPN_ReleaseObject(i, m_scriptable[i], referenceCount[i])
  /\ phase' = [phase EXCEPT ![i] = "gone"]
  /\ pdata' = [pdata EXCEPT ![i] = FALSE]
  /\ plugin' = [plugin EXCEPT ![i] = FALSE]
  /\ m_windowset' = [m_windowset EXCEPT ![i] = FALSE]
  /\ UNCHANGED <<held, threads>>

(* Mutant: onNPP_Destroy gives back the reference it was handed.           *)
NPP_DestroyMutantReleased(i) ==
  /\ phase[i] = "live" /\ pdata[i]
  /\ \E obj \in Scriptable, count \in 1..(referenceCount[i] + 2) :
       /\ getScriptableObject(i, obj, count)
       /\ NPN_ReleaseObject(i, obj, count - 1)
  /\ phase' = [phase EXCEPT ![i] = "gone"]
  /\ pdata' = [pdata EXCEPT ![i] = FALSE]
  /\ plugin' = [plugin EXCEPT ![i] = FALSE]
  /\ m_windowset' = [m_windowset EXCEPT ![i] = FALSE]
  /\ UNCHANGED <<held, threads>>

(* NPP_Destroy: Plugin::onNPP_Destroy asks for the object, making it if    *)
(* nobody did, to shut it down, and ~Plugin releases one reference.        *)
NPP_Destroy(i) ==
  /\ phase[i] = "live" /\ pdata[i]
  /\ \E obj \in Scriptable, count \in 1..(referenceCount[i] + 2) :
       /\ getScriptableObject(i, obj, count)
       /\ NPN_ReleaseObject(i, obj, count)
  /\ phase' = [phase EXCEPT ![i] = "gone"]
  /\ pdata' = [pdata EXCEPT ![i] = FALSE]
  /\ plugin' = [plugin EXCEPT ![i] = FALSE]
  /\ m_windowset' = [m_windowset EXCEPT ![i] = FALSE]
  /\ UNCHANGED <<held, threads>>

(* The browser releases a reference it was handed, perhaps long after the  *)
(* page is gone.                                                           *)
BrowserRelease(i) ==
  /\ held[i] > 0
  /\ held' = [held EXCEPT ![i] = @ - 1]
  /\ NPN_ReleaseObject(i, m_scriptable[i], referenceCount[i])
  /\ UNCHANGED <<phase, pdata, plugin, m_windowset, threads>>

(* A page calls Install: the thread gets *this.                            *)
Install(i) ==
  /\ phase[i] = "live" /\ held[i] > 0 /\ m_scriptable[i] = "app"
  /\ threads[i] < MaxThreads
  /\ threads' = [threads EXCEPT ![i] = @ + 1]
  /\ UNCHANGED <<phase, pdata, plugin, m_windowset, m_scriptable,
                 referenceCount, held>>

(* InstallThread_Handler writes the last status and returns, whatever has  *)
(* happened to the instance.                                               *)
ThreadEnds(i) ==
  /\ threads[i] > 0
  /\ threads' = [threads EXCEPT ![i] = @ - 1]
  /\ UNCHANGED <<phase, pdata, plugin, m_windowset, m_scriptable,
                 referenceCount, held>>

InstanceStep(i) ==
  \/ NPP_New(i) \/ NPP_GetValue(i) \/ NPP_SetWindow(i)
  \/ NPP_SetWindowRejected(i) \/ NPP_Destroy(i)
  \/ BrowserRelease(i) \/ Install(i) \/ ThreadEnds(i)

Next == \E i \in Instance : InstanceStep(i)

Spec == Init /\ [][Next]_vars

-----------------------------------------------------------------------------
(* The references that somebody is going to release: the Plugin's and the  *)
(* browser's.                                                              *)
Owned(i) ==
  held[i] + (IF plugin[i] /\ m_scriptable[i] # "none" THEN 1 ELSE 0)

(* Every reference that will be released is counted: no release can free   *)
(* the object while somebody else still has a reference to it              *)
(* (getScriptableObject retains for each of its callers).                  *)
EveryOwnerIsCounted == \A i \in Instance : Owned(i) <= referenceCount[i]

(* An install thread never writes the status of a deallocated object, even *)
(* when the page was closed and the browser has released all it held:      *)
(* the reference that onNPP_Destroy does not give back keeps the object.   *)
NoUseAfterFree == \A i \in Instance : threads[i] > 0 => m_scriptable[i] = "app"

(* However often the browser asks, at most two references of an instance   *)
(* are lost: one to onNPP_SetWindows and one to onNPP_Destroy.             *)
LeakIsBounded == \A i \in Instance : referenceCount[i] <= Owned(i) + 2

(* npruntime.h: who was handed a reference releases it, and at zero the    *)
(* object goes.  When the page is gone, the browser has released all it    *)
(* was handed and no thread is left, the object should not be there.       *)
ReleasedIsFreed ==
  \A i \in Instance :
    phase[i] = "gone" /\ held[i] = 0 /\ threads[i] = 0 =>
      m_scriptable[i] \in {"none", "freed"}
=============================================================================
