-------------------------------- MODULE Host --------------------------------
(***************************************************************************)
(* How the host makes the scriptable object of an instance: the process's  *)
(* one AppManager (npUPlugin/AppManager.cpp), which loads the              *)
(* application's library and registers it, and DotNetSupport, which        *)
(* registers the object of an application that asks for managed code.      *)
(*                                                                         *)
(* This is PluginInstance with createScriptable in full: a step of an      *)
(* instance that makes its object takes Created with it, in the same call  *)
(* on the browser's main thread.  Objects have addresses here, because     *)
(* DotNetInstanceManager knows an object by nothing else, and nobody ever  *)
(* tells it that the object is gone.                                       *)
(***************************************************************************)
EXTENDS PluginInstance, FiniteSets

CONSTANTS
  Name,      \* application names, each with its library and its assembly
  DotNet,    \* those whose object says useDotNetSupport
  Addr,      \* addresses of objects
  NoAddr     \* no object yet

ASSUME HostAssumption ==
  DotNet \subseteq Name /\ NoAddr \notin Addr /\ IsFiniteSet(Instance)

VARIABLES
  m_app_name,          \* the application the page of an instance names
  UPLUGIN_DOTNET,      \* the host was compiled with UPLUGIN_DOTNET
  m_support,           \* DotNetSupportHelper found the DotNetSupport class
  loaded,              \* how often the process has loaded a library
  lib_map,             \* AppManager::_lib_map, of the main thread
  address,             \* of the scriptable object
  orphans,             \* objects that were made and that nobody refers to
  ref_count,           \* ClassLoaderManager's count for an assembly
  plugin_to_instance   \* DotNetInstanceManager's: the name behind an address

build == <<m_app_name, UPLUGIN_DOTNET, m_support>>
libraries == <<loaded, lib_map>>
managed == <<ref_count, plugin_to_instance>>
hostVars == <<build, libraries, address, orphans, managed>>

Alive(i) == m_scriptable[i] \notin {"none", "freed"}

(* The addresses of the objects that exist.                                *)
Occupied == orphans \cup {address[i] : i \in {j \in Instance : Alive(j)}}

HostTypeOK ==
  /\ m_app_name \in [Instance -> Name]
  /\ UPLUGIN_DOTNET \in BOOLEAN
  /\ m_support \in BOOLEAN
  /\ loaded \in [Name -> Nat]
  /\ lib_map \in [Name -> Nat]
  /\ address \in [Instance -> Addr \cup {NoAddr}]
  /\ \A i \in Instance : Alive(i) => address[i] # NoAddr
  /\ orphans \subseteq Addr
  /\ ref_count \in [Name -> Nat]
  /\ DOMAIN plugin_to_instance \subseteq Addr
  /\ \A a \in DOMAIN plugin_to_instance : plugin_to_instance[a] \in Name

HostInit ==
  /\ Init
  /\ m_app_name \in [Instance -> Name]
  /\ UPLUGIN_DOTNET \in BOOLEAN
  /\ m_support \in {FALSE, UPLUGIN_DOTNET}
  /\ loaded = [n \in Name |-> 0]
  /\ lib_map = [n \in Name |-> 0]
  /\ address = [i \in Instance |-> NoAddr]
  /\ orphans = {}
  /\ ref_count = [n \in Name |-> 0]
  /\ plugin_to_instance = <<>>

-----------------------------------------------------------------------------
(* Mutant: an assembly that is there already is handed out uncounted.      *)
GetOrCreateClassLoaderMutant(n) ==
  ref_count' = [ref_count EXCEPT ![n] = IF @ = 0 THEN 1 ELSE @]

(* Get counts one more, Create starts at one.                              *)
GetOrCreateClassLoader(n) == ref_count' = [ref_count EXCEPT ![n] = @ + 1]

(* DotNetInstanceManager::Add, of the object at a: the dictionary throws   *)
(* when it knows the address already.                                      *)
Add(n, a, ok) ==
  /\ ok = (a \notin DOMAIN plugin_to_instance)
  /\ plugin_to_instance' =
       IF ok THEN [b \in DOMAIN plugin_to_instance \cup {a} |->
                     IF b = a THEN n ELSE plugin_to_instance[b]]
       ELSE plugin_to_instance

(* RegisterDotNetObject(this, ...), which the application's                *)
(* initDotNetSupport calls: without the support class it does nothing, and *)
(* an assembly that cannot be loaded throws after it was counted.          *)
RegisterDotNetObject(n, a, ok) ==
  \/ ~m_support /\ ok /\ UNCHANGED managed
  \/ /\ m_support
     /\ GetOrCreateClassLoader(n)
     /\ ~ok /\ UNCHANGED plugin_to_instance
  \/ /\ m_support
     /\ GetOrCreateClassLoader(n)
     /\ Add(n, a, ok)

(* What follows the creation of an object at a: a host without             *)
(* UPLUGIN_DOTNET throws at an application that asks for it.               *)
initDotNetSupport(n, a, ok) ==
  \/ n \notin DotNet /\ ok /\ UNCHANGED managed
  \/ n \in DotNet /\ ~UPLUGIN_DOTNET /\ ~ok /\ UNCHANGED managed
  \/ n \in DotNet /\ UPLUGIN_DOTNET /\ RegisterDotNetObject(n, a, ok)

SharedLibrary(n) == loaded' = [loaded EXCEPT ![n] = @ + 1]

Register(n) == lib_map' = [lib_map EXCEPT ![n] = @ + 1]

(* Mutant: the library is registered before the application is asked       *)
(* whether it needs .NET.                                                  *)
CreateRefusedMutant(i, a) ==
  /\ m_scriptable'[i] = "default"
  /\ SharedLibrary(m_app_name[i])
  /\ initDotNetSupport(m_app_name[i], a, FALSE)
  /\ Register(m_app_name[i])
  /\ orphans' = orphans \cup {a}
  /\ \E d \in Addr \ (Occupied \cup {a}) : address' = [address EXCEPT ![i] = d]

(* The library made its object, at a, and then something threw: the object *)
(* keeps its reference, which nobody has, and the page gets a              *)
(* DefaultPluginApp.                                                       *)
CreateRefused(i, a) ==
  /\ m_scriptable'[i] = "default"
  /\ SharedLibrary(m_app_name[i])
  /\ initDotNetSupport(m_app_name[i], a, FALSE)
  /\ UNCHANGED lib_map
  /\ orphans' = orphans \cup {a}
  /\ \E d \in Addr \ (Occupied \cup {a}) : address' = [address EXCEPT ![i] = d]

(* The object is the application's and its library is registered.          *)
CreateApp(i, a) ==
  /\ m_scriptable'[i] # "default"
  /\ SharedLibrary(m_app_name[i])
  /\ initDotNetSupport(m_app_name[i], a, TRUE)
  /\ Register(m_app_name[i])
  /\ address' = [address EXCEPT ![i] = a]
  /\ UNCHANGED orphans

(* Mutant: the error path returns NULL and no DefaultPluginApp.            *)
CreateDefaultMutant(i, a) ==
  /\ m_scriptable'[i] = "default"
  /\ SharedLibrary(m_app_name[i]) \/ UNCHANGED loaded
  /\ UNCHANGED <<address, lib_map, orphans, managed>>

(* There is no library to load; or it is loaded and lacks the symbol, or   *)
(* the application's constructor throws, and it stays loaded.              *)
CreateDefault(i, a) ==
  /\ m_scriptable'[i] = "default"
  /\ SharedLibrary(m_app_name[i]) \/ UNCHANGED loaded
  /\ address' = [address EXCEPT ![i] = a]
  /\ UNCHANGED <<lib_map, orphans, managed>>

(* AppManager::createScriptable, in the step that made the object.         *)
createScriptableFor(i) ==
  \E a \in Addr \ Occupied :
    CreateApp(i, a) \/ CreateRefused(i, a) \/ CreateDefault(i, a)

HostNext ==
  \E i \in Instance :
    /\ InstanceStep(i)
    /\ \/ /\ m_scriptable[i] = "none" /\ m_scriptable'[i] # "none"
          /\ createScriptableFor(i)
          /\ UNCHANGED build
       \/ /\ m_scriptable[i] # "none" \/ m_scriptable'[i] = "none"
          /\ UNCHANGED hostVars

HostSpec == HostInit /\ [][HostNext]_<<vars, hostVars>>

-----------------------------------------------------------------------------
(* DotNetInstanceManager never hands out the managed object of a dead      *)
(* plugin: nobody calls Remove, so every address it knows must still be    *)
(* that of an object that exists and asked for managed code.  Add can then *)
(* never meet its key and fail the creation of a good application.         *)
RegisteredIsAlive ==
  \A a \in DOMAIN plugin_to_instance :
    \E i \in Instance : /\ Alive(i) /\ address[i] = a
                        /\ m_app_name[i] = plugin_to_instance[a]

(* An assembly is counted once at least for every object registered with   *)
(* it: RemoveClassLoader, called once for each of them, unloads no domain  *)
(* that another still uses.                                                *)
LoaderIsCounted ==
  \A n \in Name :
    Cardinality({a \in DOMAIN plugin_to_instance :
                   plugin_to_instance[a] = n}) <= ref_count[n]

(* The libraries that clearAllLoadedLibraries would unload are those of    *)
(* the application objects the pages were given, each as often as there    *)
(* are such objects: one whose creation failed is never among them, and    *)
(* none is missing.                                                        *)
OneLibraryPerObject ==
  \A n \in Name :
    lib_map[n] = Cardinality({i \in Instance : /\ m_app_name[i] = n
                                              /\ m_scriptable[i] = "app"})
=============================================================================
