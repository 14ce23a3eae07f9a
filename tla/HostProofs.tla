----------------------------- MODULE HostProofs -----------------------------
(***************************************************************************)
(* Proofs about Host, for any instances, applications and addresses.  A    *)
(* step of Host is a step of PluginInstance, so what is proved of an       *)
(* instance holds here; and the account of the references says that an     *)
(* object, once made, stays what it is for good, on which everything that  *)
(* DotNetSupport and AppManager keep about objects depends.                *)
(***************************************************************************)
EXTENDS Host, PluginInstanceProofs, FiniteSetTheorems

(* One element more makes a set larger by one at most.                     *)
LEMMA OneMore ==
  ASSUME NEW S, NEW x, IsFiniteSet(S)
  PROVE  /\ Cardinality(S) \in Nat /\ Cardinality(S \cup {x}) \in Nat
         /\ Cardinality(S \cup {x}) <= Cardinality(S) + 1
         /\ x \notin S => Cardinality(S \cup {x}) = Cardinality(S) + 1
<1>1. Cardinality(S) \in Nat
  BY FS_CardinalityType
<1>2. Cardinality(S \cup {x}) =
        IF x \in S THEN Cardinality(S) ELSE Cardinality(S) + 1
  BY FS_AddElement
<1> QED
  BY <1>1, <1>2

(* Whatever an instance does, the objects that exist stay.                 *)
LEMMA ObjectStays ==
  ASSUME TypeOK, Accounts, NEW i \in Instance, InstanceStep(i)
  PROVE  /\ \A j \in Instance :
              m_scriptable[j] # "none" => m_scriptable'[j] = m_scriptable[j]
         /\ \A j \in Instance \ {i} : m_scriptable'[j] = m_scriptable[j]
<1> USE DEF Accounts
<1>1. Account(i) /\ TypeOK' /\ Accounts'
  BY AccountsNext DEF InstanceStep
<1>2. CASE NPP_New(i) \/ Install(i) \/ ThreadEnds(i)
  BY <1>2 DEF NPP_New, Install, ThreadEnds
<1>3. CASE NPP_GetValue(i) \/ NPP_SetWindow(i)
  <2>1. PICK obj \in Scriptable, count \in 1..(referenceCount[i] + 2) :
          /\ getScriptableObject(i, obj, count)
          /\ m_scriptable' = [m_scriptable EXCEPT ![i] = obj]
    BY <1>3 DEF NPP_GetValue, NPP_SetWindow
  <2> QED
    BY <2>1 DEF getScriptableObject, TypeOK
<1>4. CASE NPP_SetWindowRejected(i)
  <2>1. PICK count \in 1..(referenceCount[i] + 2) :
          /\ getScriptableObject(i, "app", count)
          /\ NPN_ReleaseObject(i, "app", count)
    BY <1>4 DEF NPP_SetWindowRejected
  <2>2. m_scriptable'[i] # "freed"
    BY <1>1 DEF Account
  <2> QED
    BY <2>1, <2>2 DEF getScriptableObject, NPN_ReleaseObject, TypeOK
<1>5. CASE NPP_Destroy(i)
  <2>1. PICK obj \in Scriptable, count \in 1..(referenceCount[i] + 2) :
          /\ getScriptableObject(i, obj, count)
          /\ NPN_ReleaseObject(i, obj, count)
    BY <1>5 DEF NPP_Destroy
  <2>2. m_scriptable'[i] # "freed"
    BY <1>1 DEF Account
  <2> QED
    BY <2>1, <2>2 DEF getScriptableObject, NPN_ReleaseObject, TypeOK
<1>6. CASE BrowserRelease(i)
  <2>1. NPN_ReleaseObject(i, m_scriptable[i], referenceCount[i])
    BY <1>6 DEF BrowserRelease
  <2>2. m_scriptable'[i] # "freed"
    BY <1>1 DEF Account
  <2> QED
    BY <2>1, <2>2 DEF NPN_ReleaseObject, TypeOK
<1> QED
  BY <1>2, <1>3, <1>4, <1>5, <1>6 DEF InstanceStep

(* The host is the plugin instances with more detail: every behaviour of   *)
(* Host is one of PluginInstance.                                          *)
THEOREM HostImplementsInstance == HostSpec => Spec
<1>1. HostInit => Init
  BY DEF HostInit
<1>2. [HostNext]_<<vars, hostVars>> => [Next]_vars
  BY DEF HostNext, Next
<1> QED
  BY <1>1, <1>2, PTL DEF HostSpec, Spec

-----------------------------------------------------------------------------
(* The objects of the class that application n exports.                    *)
AppObjects(n) ==
  {i \in Instance : m_app_name[i] = n /\ m_scriptable[i] = "app"}

(* The objects DotNetInstanceManager knows to be of application n.         *)
Registered(n) ==
  {a \in DOMAIN plugin_to_instance : plugin_to_instance[a] = n}

Adds(n, a) ==
  plugin_to_instance' = [b \in DOMAIN plugin_to_instance \cup {a} |->
                           IF b = a THEN n ELSE plugin_to_instance[b]]

HostInv ==
  /\ HostTypeOK
  /\ RegisteredIsAlive
  /\ IsFiniteSet(DOMAIN plugin_to_instance)
  /\ LoaderIsCounted
  /\ OneLibraryPerObject

LEMMA HostInvInit == HostInit => HostInv
<1> SUFFICES ASSUME HostInit
             PROVE  HostInv
  OBVIOUS
<1> USE DEF HostInit, Init
<1>1. DOMAIN plugin_to_instance = {}
  OBVIOUS
<1>2. HostTypeOK
  BY <1>1 DEF HostTypeOK, Alive
<1>3. RegisteredIsAlive /\ IsFiniteSet(DOMAIN plugin_to_instance)
  BY <1>1, FS_EmptySet DEF RegisteredIsAlive
<1>4. LoaderIsCounted
  <2>1. \A n \in Name : {a \in DOMAIN plugin_to_instance :
                           plugin_to_instance[a] = n} = {}
    BY <1>1
  <2> QED
    BY <2>1, FS_EmptySet DEF LoaderIsCounted
<1>5. OneLibraryPerObject
  <2>1. \A n \in Name : {i \in Instance : m_app_name[i] = n
                                          /\ m_scriptable[i] = "app"} = {}
    OBVIOUS
  <2> QED
    BY <2>1, FS_EmptySet DEF OneLibraryPerObject
<1> QED
  BY <1>2, <1>3, <1>4, <1>5 DEF HostInv

(* What registering an object does to the managed side.                    *)
LEMMA RegisterEffect ==
  ASSUME HostInv, NEW n \in Name, NEW a \in Addr, NEW ok \in BOOLEAN,
         initDotNetSupport(n, a, ok)
  PROVE  /\ ref_count' \in [Name -> Nat]
         /\ \/ UNCHANGED plugin_to_instance
            \/ ok /\ Adds(n, a)
         /\ DOMAIN plugin_to_instance' \subseteq DOMAIN plugin_to_instance \cup {a}
         /\ \A b \in DOMAIN plugin_to_instance :
              /\ b \in DOMAIN plugin_to_instance'
              /\ plugin_to_instance'[b] = plugin_to_instance[b] \/ b = a
         /\ IsFiniteSet(DOMAIN plugin_to_instance')
         /\ LoaderIsCounted'
<1>1. \/ UNCHANGED managed
      \/ GetOrCreateClassLoader(n) /\ UNCHANGED plugin_to_instance
      \/ /\ GetOrCreateClassLoader(n) /\ ok /\ a \notin DOMAIN plugin_to_instance
         /\ Adds(n, a)
  BY DEF initDotNetSupport, RegisterDotNetObject, Add, Adds, managed
<1>2. ref_count \in [Name -> Nat] /\ IsFiniteSet(DOMAIN plugin_to_instance)
  BY DEF HostInv, HostTypeOK
<1>3. \A m \in Name : /\ IsFiniteSet(Registered(m))
                      /\ Cardinality(Registered(m)) \in Nat
                      /\ Cardinality(Registered(m)) <= ref_count[m]
  <2>1. \A m \in Name : Registered(m) \in SUBSET DOMAIN plugin_to_instance
    BY DEF Registered
  <2> QED
    BY <1>2, <2>1, FS_Subset, FS_CardinalityType
       DEF Registered, HostInv, LoaderIsCounted
<1>4. CASE UNCHANGED managed
  BY <1>2, <1>4 DEF managed, HostInv, LoaderIsCounted
<1>5. CASE GetOrCreateClassLoader(n) /\ UNCHANGED plugin_to_instance
  <2>1. \A m \in Name : ref_count'[m] \in Nat /\ ref_count[m] <= ref_count'[m]
    BY <1>2, <1>5 DEF GetOrCreateClassLoader
  <2>2. \A m \in Name : Cardinality(Registered(m)) <= ref_count'[m]
    BY <1>2, <1>3, <2>1
  <2>3. LoaderIsCounted'
    BY <1>5, <2>2 DEF LoaderIsCounted, Registered
  <2> QED
    BY <1>2, <1>5, <2>3 DEF GetOrCreateClassLoader
<1>6. CASE /\ GetOrCreateClassLoader(n) /\ ok /\ a \notin DOMAIN plugin_to_instance
           /\ Adds(n, a)
  <2>1. /\ DOMAIN plugin_to_instance' = DOMAIN plugin_to_instance \cup {a}
        /\ plugin_to_instance'[a] = n
        /\ \A b \in DOMAIN plugin_to_instance :
             plugin_to_instance'[b] = plugin_to_instance[b]
    BY <1>6 DEF Adds
  <2>2. IsFiniteSet(DOMAIN plugin_to_instance')
    BY <1>2, <2>1, FS_AddElement
  <2>3. ref_count' \in [Name -> Nat] /\ ref_count' = [ref_count EXCEPT ![n] = @ + 1]
    BY <1>2, <1>6 DEF GetOrCreateClassLoader
  <2>4. ASSUME NEW m \in Name
        PROVE  Cardinality(Registered(m)') <= ref_count'[m]
    <3>1. CASE m = n
      <4>1. Registered(m)' = Registered(m) \cup {a}
        BY <2>1, <3>1 DEF Registered
      <4>2. /\ Cardinality(Registered(m) \cup {a}) \in Nat
            /\ Cardinality(Registered(m) \cup {a})
                 <= Cardinality(Registered(m)) + 1
        BY <1>3, OneMore
      <4>3. ref_count'[m] = ref_count[m] + 1 /\ ref_count[m] \in Nat
        BY <1>2, <2>3, <3>1
      <4>4. Cardinality(Registered(m) \cup {a}) <= ref_count'[m]
        BY <1>3, <4>2, <4>3
      <4> QED
        BY <4>1, <4>4
    <3>2. CASE m # n
      <4>1. Registered(m)' = Registered(m)
        BY <2>1, <3>2 DEF Registered
      <4> QED
        BY <1>2, <1>3, <2>3, <3>2, <4>1
    <3> QED
      BY <3>1, <3>2
  <2>5. LoaderIsCounted'
    BY <2>4 DEF LoaderIsCounted, Registered
  <2> QED
    BY <1>6, <2>1, <2>2, <2>3, <2>5
<1> QED
  BY <1>1, <1>4, <1>5, <1>6

LEMMA HostInvNext ==
  ASSUME TypeOK, Accounts, HostInv, HostNext
  PROVE  HostInv'
<1>1. PICK i \in Instance :
        /\ InstanceStep(i)
        /\ \/ /\ m_scriptable[i] = "none" /\ m_scriptable'[i] # "none"
              /\ createScriptableFor(i)
              /\ UNCHANGED build
           \/ /\ m_scriptable[i] # "none" \/ m_scriptable'[i] = "none"
              /\ UNCHANGED hostVars
  BY DEF HostNext
<1>2. /\ \A j \in Instance :
            m_scriptable[j] # "none" => m_scriptable'[j] = m_scriptable[j]
      /\ \A j \in Instance \ {i} : m_scriptable'[j] = m_scriptable[j]
  BY <1>1, ObjectStays
<1>3. TypeOK' /\ Accounts'
  BY <1>1, AccountsNext DEF InstanceStep
<1>4. CASE UNCHANGED hostVars /\ UNCHANGED m_scriptable
  BY <1>4 DEF hostVars, build, libraries, managed, HostInv, HostTypeOK, Alive,
              RegisteredIsAlive, LoaderIsCounted, OneLibraryPerObject
<1>5. CASE /\ m_scriptable[i] # "none" \/ m_scriptable'[i] = "none"
           /\ UNCHANGED hostVars
  <2>1. m_scriptable' = m_scriptable
    BY <1>2, <1>3, <1>5 DEF TypeOK
  <2> QED
    BY <1>4, <1>5, <2>1
<1>6. CASE /\ m_scriptable[i] = "none" /\ m_scriptable'[i] # "none"
           /\ createScriptableFor(i)
           /\ UNCHANGED build
  <2> DEFINE n == m_app_name[i]
  <2>1. n \in Name /\ m_app_name' = m_app_name
    BY <1>6 DEF HostInv, HostTypeOK, build
  <2>2. PICK a \in Addr \ Occupied :
          CreateApp(i, a) \/ CreateRefused(i, a) \/ CreateDefault(i, a)
    BY <1>6 DEF createScriptableFor
  <2>3. m_scriptable'[i] \in {"app", "default"}
    BY <1>3, <1>6 DEF TypeOK, Scriptable, Accounts, Account
  <2>4. PICK ok \in BOOLEAN :
          /\ UNCHANGED managed \/ initDotNetSupport(n, a, ok)
          /\ UNCHANGED managed \/ ~ok \/ (CreateApp(i, a) /\ ok)
    BY <2>2 DEF CreateApp, CreateRefused, CreateDefault
  <2>5. /\ ref_count' \in [Name -> Nat]
        /\ \/ UNCHANGED plugin_to_instance
           \/ CreateApp(i, a) /\ Adds(n, a)
        /\ DOMAIN plugin_to_instance' \subseteq DOMAIN plugin_to_instance \cup {a}
        /\ IsFiniteSet(DOMAIN plugin_to_instance')
        /\ LoaderIsCounted'
    <3>1. CASE UNCHANGED managed
      BY <3>1 DEF managed, HostInv, HostTypeOK, LoaderIsCounted
    <3>2. CASE ~(UNCHANGED managed)
      BY <2>1, <2>2, <2>4, <3>2, RegisterEffect
    <3> QED
      BY <3>1, <3>2
  <2>6. PICK d \in Addr : address' = [address EXCEPT ![i] = d]
                           /\ (CreateApp(i, a) => d = a)
    BY <2>2 DEF CreateApp, CreateRefused, CreateDefault
  <2>7. HostTypeOK'
    <3>1. loaded' \in [Name -> Nat] /\ lib_map' \in [Name -> Nat]
      <4>1. loaded \in [Name -> Nat] /\ lib_map \in [Name -> Nat]
        BY DEF HostInv, HostTypeOK
      <4>2. /\ SharedLibrary(n) \/ UNCHANGED loaded
            /\ Register(n) \/ UNCHANGED lib_map
        BY <2>2 DEF CreateApp, CreateRefused, CreateDefault
      <4> QED
        BY <2>1, <4>1, <4>2 DEF SharedLibrary, Register
    <3>2. orphans' \subseteq Addr
      BY <2>2 DEF CreateApp, CreateRefused, CreateDefault, HostInv, HostTypeOK
    <3>3. /\ address' \in [Instance -> Addr \cup {NoAddr}]
          /\ \A j \in Instance : Alive(j)' => address'[j] # NoAddr
      BY <1>2, <2>6, HostAssumption DEF HostInv, HostTypeOK, Alive
    <3>4. /\ DOMAIN plugin_to_instance' \subseteq Addr
          /\ \A b \in DOMAIN plugin_to_instance' : plugin_to_instance'[b] \in Name
      BY <2>1, <2>2, <2>5 DEF Adds, HostInv, HostTypeOK
    <3> QED
      BY <1>6, <2>5, <3>1, <3>2, <3>3, <3>4 DEF HostInv, HostTypeOK, build
  <2>8. RegisteredIsAlive'
    <3> SUFFICES ASSUME NEW b \in DOMAIN plugin_to_instance'
                 PROVE  \E j \in Instance :
                          /\ Alive(j)' /\ address'[j] = b
                          /\ m_app_name'[j] = plugin_to_instance'[b]
      BY DEF RegisteredIsAlive
    <3>1. CASE Adds(n, a) /\ CreateApp(i, a) /\ b = a
      <4>1. plugin_to_instance'[b] = n
        BY <3>1 DEF Adds
      <4>2. Alive(i)' /\ address'[i] = b
        BY <2>3, <2>6, <3>1 DEF Alive, HostInv, HostTypeOK
      <4> QED
        BY <2>1, <4>1, <4>2
    <3>2. CASE b \in DOMAIN plugin_to_instance
               /\ plugin_to_instance'[b] = plugin_to_instance[b]
      <4>1. PICK j \in Instance : /\ Alive(j) /\ address[j] = b
                                 /\ m_app_name[j] = plugin_to_instance[b]
        BY <3>2 DEF HostInv, RegisteredIsAlive
      <4>2. j # i
        BY <1>6, <4>1 DEF Alive
      <4>3. Alive(j)' /\ address'[j] = b
        BY <1>2, <2>6, <4>1, <4>2 DEF Alive, HostInv, HostTypeOK
      <4> QED
        BY <2>1, <3>2, <4>1, <4>3
    <3> QED
      BY <2>5, <3>1, <3>2 DEF Adds
  <2>9. OneLibraryPerObject'
    <3>1. \A m \in Name : IsFiniteSet(AppObjects(m))
      <4>1. \A m \in Name : AppObjects(m) \in SUBSET Instance
        BY DEF AppObjects
      <4> QED
        BY <4>1, FS_Subset, HostAssumption
    <3>2. \A m \in Name : lib_map[m] = Cardinality(AppObjects(m))
      BY DEF HostInv, OneLibraryPerObject, AppObjects
    <3>3. lib_map \in [Name -> Nat]
      BY DEF HostInv, HostTypeOK
    <3>4. CASE CreateApp(i, a)
      <4>1. m_scriptable'[i] = "app"
        BY <2>3, <3>4 DEF CreateApp
      <4>2. lib_map' = [lib_map EXCEPT ![n] = @ + 1]
        BY <3>4 DEF CreateApp, Register
      <4>3. \A m \in Name : AppObjects(m)' =
              IF m = n THEN AppObjects(m) \cup {i} ELSE AppObjects(m)
        BY <1>2, <2>1, <4>1 DEF AppObjects
      <4>4. i \notin AppObjects(n)
        BY <1>6 DEF AppObjects
      <4>5. Cardinality(AppObjects(n) \cup {i}) = Cardinality(AppObjects(n)) + 1
        BY <2>1, <3>1, <4>4, OneMore
      <4>6. \A m \in Name : lib_map'[m] = Cardinality(AppObjects(m)')
        BY <2>1, <3>2, <3>3, <4>2, <4>3, <4>5
      <4> QED
        BY <4>6 DEF OneLibraryPerObject, AppObjects
    <3>5. CASE ~CreateApp(i, a)
      <4>1. m_scriptable'[i] = "default" /\ lib_map' = lib_map
        BY <2>2, <3>5 DEF CreateRefused, CreateDefault
      <4>2. \A m \in Name : AppObjects(m)' = AppObjects(m)
        BY <1>2, <1>6, <2>1, <4>1 DEF AppObjects
      <4>3. \A m \in Name : lib_map'[m] = Cardinality(AppObjects(m)')
        BY <3>2, <4>1, <4>2
      <4> QED
        BY <4>3 DEF OneLibraryPerObject, AppObjects
    <3> QED
      BY <3>4, <3>5
  <2> QED
    BY <2>5, <2>7, <2>8, <2>9 DEF HostInv
<1> QED
  BY <1>1, <1>5, <1>6

LEMMA HostInvAlways == HostSpec => []HostInv
<1>1. TypeOK /\ Accounts /\ HostInv /\ [HostNext]_<<vars, hostVars>> => HostInv'
  <2>1. CASE UNCHANGED <<vars, hostVars>>
    BY <2>1 DEF vars, hostVars, build, libraries, managed, HostInv, HostTypeOK,
         Alive, RegisteredIsAlive, LoaderIsCounted, OneLibraryPerObject
  <2> QED
    BY <2>1, HostInvNext
<1> QED
  BY <1>1, HostInvInit, HostImplementsInstance, AccountsAlways, PTL DEF HostSpec

(* The host's books keep their types, and an instance that has an object   *)
(* has the address of one.                                                 *)
THEOREM HostTypeCorrect == HostSpec => []HostTypeOK
  BY HostInvAlways, PTL DEF HostInv

(* DotNetInstanceManager, which never forgets an address, knows no address *)
(* of a dead object, whatever the pages and the libraries do.              *)
THEOREM NoStaleManagedObject == HostSpec => []RegisteredIsAlive
  BY HostInvAlways, PTL DEF HostInv

(* An assembly is counted for every object registered with it.             *)
THEOREM LoadersAreCounted == HostSpec => []LoaderIsCounted
  BY HostInvAlways, PTL DEF HostInv

(* _lib_map has exactly one library for each application object in use.    *)
THEOREM LibrariesMatchObjects == HostSpec => []OneLibraryPerObject
  BY HostInvAlways, PTL DEF HostInv

(* An install thread meets no deallocated object in the composed host.     *)
THEOREM HostThreadsAreSafe == HostSpec => []NoUseAfterFree
  BY HostImplementsInstance, ThreadsAreSafe, PTL
=============================================================================
