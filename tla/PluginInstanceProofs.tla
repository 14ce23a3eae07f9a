------------------------ MODULE PluginInstanceProofs ------------------------
(***************************************************************************)
(* Proofs about PluginInstance for any instances and bounds.  The argument *)
(* is an exact account of the reference count: what the browser holds, one *)
(* for the Plugin or for the reference onNPP_Destroy kept in its stead,    *)
(* and at most one for the window.  An object that exists so always has    *)
(* one reference more than the browser can release.                        *)
(***************************************************************************)
EXTENDS PluginInstance, TLAPS

Account(i) ==
  /\ m_scriptable[i] # "freed"
  /\ phase[i] = "fresh" => m_scriptable[i] = "none"
  /\ plugin[i] <=> phase[i] = "live"
  /\ pdata[i] <=> phase[i] \in {"live", "rejected"}
  /\ m_scriptable[i] = "none" =>
       referenceCount[i] = 0 /\ held[i] = 0 /\ ~m_windowset[i]
  /\ m_scriptable[i] # "none" =>
       CASE phase[i] = "live" ->
              referenceCount[i] = held[i] + 1 + (IF m_windowset[i] THEN 1 ELSE 0)
         [] phase[i] = "gone" ->
              referenceCount[i] \in {held[i] + 1, held[i] + 2}
         [] OTHER -> referenceCount[i] = held[i] + 1
  /\ threads[i] > 0 => m_scriptable[i] = "app"

Accounts == \A i \in Instance : Account(i)

(* What the object is, and how its count changes, when getScriptableObject *)
(* returns.                                                                *)
LEMMA GetCounts ==
  ASSUME TypeOK, NEW i \in Instance, Account(i), NEW obj, NEW count,
         getScriptableObject(i, obj, count)
  PROVE  /\ obj \in Scriptable \ {"none", "freed"} /\ count \in Nat
         /\ count = (IF m_scriptable[i] = "none" THEN 2
                     ELSE referenceCount[i] + 1)
         /\ m_scriptable[i] # "none" => obj = m_scriptable[i]
  BY DEF TypeOK, Account, getScriptableObject, createScriptable, Scriptable

LEMMA AccountsInit == Init => TypeOK /\ Accounts
  BY DEF Init, TypeOK, Scriptable, Accounts, Account

LEMMA AccountsNext ==
  ASSUME TypeOK, Accounts, NEW i \in Instance,
         \/ NPP_New(i) \/ NPP_GetValue(i) \/ NPP_SetWindow(i)
         \/ NPP_SetWindowRejected(i) \/ NPP_Destroy(i)
         \/ BrowserRelease(i) \/ Install(i) \/ ThreadEnds(i)
  PROVE  TypeOK' /\ Accounts'
<1>1. Account(i)
  BY DEF Accounts
<1>2. CASE NPP_New(i)
  BY <1>1, <1>2 DEF TypeOK, Accounts, Account, NPP_New
<1>3. CASE NPP_GetValue(i)
  <2>1. PICK obj \in Scriptable, count \in 1..(referenceCount[i] + 2) :
          /\ getScriptableObject(i, obj, count)
          /\ m_scriptable' = [m_scriptable EXCEPT ![i] = obj]
          /\ referenceCount' = [referenceCount EXCEPT ![i] = count]
    BY <1>3 DEF NPP_GetValue
  <2>2. /\ obj \in Scriptable \ {"none", "freed"} /\ count \in Nat
        /\ count = (IF m_scriptable[i] = "none" THEN 2
                    ELSE referenceCount[i] + 1)
        /\ m_scriptable[i] # "none" => obj = m_scriptable[i]
    BY <1>1, <2>1, GetCounts
  <2>3. TypeOK'
    BY <1>3, <2>1, <2>2 DEF TypeOK, NPP_GetValue
  <2>4. Account(i)'
    BY <1>1, <1>3, <2>1, <2>2 DEF TypeOK, Account, NPP_GetValue
  <2>5. \A j \in Instance : j # i => Account(j)'
    BY <1>3, <2>1 DEF TypeOK, Accounts, Account, NPP_GetValue
  <2> QED
    BY <2>3, <2>4, <2>5 DEF Accounts
<1>4. CASE NPP_SetWindow(i)
  <2>1. PICK obj \in Scriptable, count \in 1..(referenceCount[i] + 2) :
          /\ getScriptableObject(i, obj, count)
          /\ m_scriptable' = [m_scriptable EXCEPT ![i] = obj]
          /\ referenceCount' = [referenceCount EXCEPT ![i] = count]
    BY <1>4 DEF NPP_SetWindow
  <2>2. /\ obj \in Scriptable \ {"none", "freed"} /\ count \in Nat
        /\ count = (IF m_scriptable[i] = "none" THEN 2
                    ELSE referenceCount[i] + 1)
        /\ m_scriptable[i] # "none" => obj = m_scriptable[i]
    BY <1>1, <2>1, GetCounts
  <2>3. TypeOK'
    BY <1>4, <2>1, <2>2 DEF TypeOK, NPP_SetWindow
  <2>4. Account(i)'
    BY <1>1, <1>4, <2>1, <2>2 DEF TypeOK, Account, NPP_SetWindow
  <2>5. \A j \in Instance : j # i => Account(j)'
    BY <1>4, <2>1 DEF TypeOK, Accounts, Account, NPP_SetWindow
  <2> QED
    BY <2>3, <2>4, <2>5 DEF Accounts
<1>5. CASE NPP_SetWindowRejected(i)
  <2>1. PICK count \in 1..(referenceCount[i] + 2) :
          /\ getScriptableObject(i, "app", count)
          /\ NPN_ReleaseObject(i, "app", count)
    BY <1>5 DEF NPP_SetWindowRejected
  <2>2. /\ count \in Nat
        /\ count = (IF m_scriptable[i] = "none" THEN 2
                    ELSE referenceCount[i] + 1)
        /\ m_scriptable[i] # "none" => m_scriptable[i] = "app"
    BY <1>1, <2>1, GetCounts
  <2>3. /\ referenceCount' = [referenceCount EXCEPT ![i] = count - 1]
        /\ m_scriptable' = [m_scriptable EXCEPT ![i] = "app"]
        /\ count > 1
    <3>1. count > 1
      BY <1>1, <1>5, <2>2 DEF Account, TypeOK, NPP_SetWindowRejected
    <3>2. (IF count = 1 THEN "freed" ELSE "app") = "app"
      BY <3>1, <2>2
    <3> QED
      BY <2>1, <3>1, <3>2 DEF NPN_ReleaseObject
  <2>4. TypeOK'
    BY <1>5, <2>2, <2>3 DEF TypeOK, NPP_SetWindowRejected, Scriptable
  <2>5. Account(i)'
    BY <1>1, <1>5, <2>2, <2>3 DEF TypeOK, Account, NPP_SetWindowRejected
  <2>6. \A j \in Instance : j # i => Account(j)'
    BY <1>5, <2>3 DEF TypeOK, Accounts, Account, NPP_SetWindowRejected
  <2> QED
    BY <2>4, <2>5, <2>6 DEF Accounts
<1>6. CASE NPP_Destroy(i)
  <2>1. PICK obj \in Scriptable, count \in 1..(referenceCount[i] + 2) :
          /\ getScriptableObject(i, obj, count)
          /\ NPN_ReleaseObject(i, obj, count)
    BY <1>6 DEF NPP_Destroy
  <2>2. /\ obj \in Scriptable \ {"none", "freed"} /\ count \in Nat
        /\ count = (IF m_scriptable[i] = "none" THEN 2
                    ELSE referenceCount[i] + 1)
        /\ m_scriptable[i] # "none" => obj = m_scriptable[i]
    BY <1>1, <2>1, GetCounts
  <2>3. /\ referenceCount' = [referenceCount EXCEPT ![i] = count - 1]
        /\ m_scriptable' = [m_scriptable EXCEPT ![i] = obj]
        /\ count > 1
    <3>1. count > 1
      BY <1>1, <1>6, <2>2 DEF Account, TypeOK, NPP_Destroy
    <3>2. (IF count = 1 THEN "freed" ELSE obj) = obj
      BY <3>1, <2>2
    <3> QED
      BY <2>1, <3>1, <3>2 DEF NPN_ReleaseObject
  <2>4. TypeOK'
    BY <1>6, <2>2, <2>3 DEF TypeOK, NPP_Destroy
  <2>5. Account(i)'
    BY <1>1, <1>6, <2>2, <2>3 DEF TypeOK, Account, NPP_Destroy
  <2>6. \A j \in Instance : j # i => Account(j)'
    BY <1>6, <2>3 DEF TypeOK, Accounts, Account, NPP_Destroy
  <2> QED
    BY <2>4, <2>5, <2>6 DEF Accounts
<1>7. CASE BrowserRelease(i)
  <2>1. /\ referenceCount' = [referenceCount EXCEPT ![i] = @ - 1]
        /\ m_scriptable' = m_scriptable
        /\ referenceCount[i] > 1 /\ held[i] > 0
    BY <1>1, <1>7
       DEF NPN_ReleaseObject, Account, TypeOK, BrowserRelease
  <2>2. TypeOK'
    BY <1>7, <2>1 DEF TypeOK, BrowserRelease
  <2>3. Account(i)'
    BY <1>1, <1>7, <2>1 DEF TypeOK, Account, BrowserRelease
  <2>4. \A j \in Instance : j # i => Account(j)'
    BY <1>7, <2>1 DEF TypeOK, Accounts, Account, BrowserRelease
  <2> QED
    BY <2>2, <2>3, <2>4 DEF Accounts
<1>8. CASE Install(i) \/ ThreadEnds(i)
  <2>1. TypeOK'
    BY <1>8 DEF TypeOK, Install, ThreadEnds
  <2>2. Accounts'
    BY <1>8 DEF TypeOK, Accounts, Account, Install, ThreadEnds
  <2> QED
    BY <2>1, <2>2
<1> QED
  BY <1>2, <1>3, <1>4, <1>5, <1>6, <1>7, <1>8

LEMMA AccountsAlways == Spec => [](TypeOK /\ Accounts)
<1>1. TypeOK /\ Accounts /\ [Next]_vars => (TypeOK /\ Accounts)'
  <2>1. CASE UNCHANGED vars
    BY <2>1 DEF vars, TypeOK, Accounts, Account
  <2> QED
    BY <2>1, AccountsNext DEF Next, InstanceStep
<1> QED
  BY <1>1, AccountsInit, PTL DEF Spec

(* What will be released, against what is counted.                         *)
LEMMA OwnedInPhases ==
  ASSUME TypeOK, NEW i \in Instance, Account(i)
  PROVE  Owned(i) <= referenceCount[i] /\ referenceCount[i] <= Owned(i) + 2
<1>1. referenceCount[i] \in Nat /\ held[i] \in Nat
  BY DEF TypeOK
<1>2. CASE m_scriptable[i] = "none"
  <2>1. Owned(i) = held[i] + 0
    BY <1>2 DEF Owned
  <2> QED
    BY <1>1, <1>2, <2>1 DEF Account
<1>3. CASE m_scriptable[i] # "none" /\ phase[i] = "live"
  <2>1. Owned(i) = held[i] + 1
    BY <1>3 DEF Owned, Account
  <2> QED
    BY <1>1, <1>3, <2>1 DEF Account
<1>4. CASE m_scriptable[i] # "none" /\ phase[i] # "live"
  <2>1. Owned(i) = held[i] + 0
    BY <1>4 DEF Owned, Account
  <2> QED
    BY <1>1, <1>4, <2>1 DEF Account
<1> QED
  BY <1>2, <1>3, <1>4

(* The variables keep their types.                                         *)
THEOREM InstanceTypeCorrect == Spec => []TypeOK
  BY AccountsAlways, PTL

(* No release can free the object while somebody else has a reference.     *)
THEOREM OwnersAreCounted == Spec => []EveryOwnerIsCounted
<1>1. TypeOK /\ Accounts => EveryOwnerIsCounted
  BY OwnedInPhases DEF Accounts, EveryOwnerIsCounted
<1> QED
  BY <1>1, AccountsAlways, PTL

(* An install thread never meets a deallocated object, for any number of   *)
(* instances, references and threads.                                      *)
THEOREM ThreadsAreSafe == Spec => []NoUseAfterFree
<1>1. TypeOK /\ Accounts => NoUseAfterFree
  BY DEF TypeOK, Accounts, Account, NoUseAfterFree
<1> QED
  BY <1>1, AccountsAlways, PTL

(* An instance loses at most two references.                               *)
THEOREM AtMostTwoLost == Spec => []LeakIsBounded
<1>1. TypeOK /\ Accounts => LeakIsBounded
  BY OwnedInPhases DEF Accounts, LeakIsBounded
<1> QED
  BY <1>1, AccountsAlways, PTL
=============================================================================
