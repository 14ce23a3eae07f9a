# UPlugin in TLA+

UPlugin is a browser plugin (NPAPI, Windows) that hosts small applications:
a page names one, the plugin loads its library and hands the page a scriptable
object. One application, the *AppManager*, installs the others: it downloads a
package, unpacks it beside the installed version, swaps the two and publishes
the result by a meta file. This directory holds models of that code, the TLC
configurations that check them, and proofs checked by TLAPS.

## 1. Inventory

| Component | Source | State | Operations | Modules |
|---|---|---|---|---|
| Installer | `UPlugin.AppManager/UPlugin.AppManager.cpp` (`AppManagerPlugin`, `InstallThread_Handler`, `AppInfo`) | `m_state` of each plugin object, `m_thread`, the application directory on disk | Install (starts a thread), Uninstall, GetStatus, GetAppList; the thread's steps | `AppManagerPlugin`, `AppManagerSerial`, `AppStore` |
| Package reader | same file, `ArchiveReader` | the stream's position, one shared buffer | ReadHeader, ReadEntry, ExtractPKG | `ArchiveReader`, `Delivery` |
| Plugin instance | `npUPlugin/npp_gate.cpp`, `plugin.cpp` | `instance->pdata`, `m_scriptable`, `m_windowset`, the object's reference count | NPP_New, NPP_SetWindow, NPP_GetValue, NPP_Destroy | `PluginInstance` |
| Application libraries | `npUPlugin/AppManager.cpp` | `_lib_map`: the libraries loaded by each thread | createScriptable | `Host` |
| DotNetSupport | `npUPlugin.DotNetSupport/*.h`, `DotNetSupportHelper.h` | reference-counted class loaders, the instance behind an object's address | RegisterDotNetObject | `Host` |
| Installer's page | `test/js/UPlugin.AppManager.js`, `test/UPlugin_AppManager_FF.html` | the callback, the last status, a poll timer | init, destroy, install, uninstall, the poll | `AppManagerPage` |
| SpaceAgent and its page | `UPlugin.SpaceAgent/*`, `test/js/UPlugin.SpaceAgent.js` | the SpaceApp processes; the client's status, interval and callback | Run, Stop, LoadContents, GetStatus; init, destroy, start, stop, the poll | `SpaceAgent` |
| Entry points | `np_entry.cpp`, `npn_gate.cpp` | the function table | NP_Initialize, forwards | not modelled |
| Object glue | `ScriptableBase`, `ScriptableObject`, `FuncMap`, `DefaultPluginApp` | method table of an object | invoke by name | not modelled |
| Env, Logger, Util | `Env.cpp`, `Logger.cpp`, `Util.cpp` | paths, configuration | computed once | not modelled |
| ViewerLauncher | `UPlugin.ViewerLauncher/*` | none after its constructor | Launch, ViewerList | not modelled |

How they interact. A page creates an object element, and the browser calls
`NPP_New`, `NPP_SetWindow` and `NPP_GetValue`; the last one hands out the
scriptable object, which counts its references. The page calls Install on it.
Install writes `m_state` and starts a thread that keeps a plain C++ reference
to the object. The thread and the main thread share `m_state` and the
application directory and no lock. The page learns of progress only by polling
GetStatus, and of the result by GetAppList.

What is hard in this code:

- threads of several installs and the main thread's Uninstall interleave in one
  directory tree; recursive removal and moving are not atomic;
- every file operation can throw, some in the middle, and some failures
  (an ofstream that does not open, a cut body) are silent;
- the process may end between any two steps, and the disk stays as it is;
- status writes race with polls, and the final status has to come, and come last;
- the thread may outlive the page, with a reference that is not counted;
- the package may be cut anywhere, and the reader does not check its reads.

What makes each component correct:

- installer: a listed application is one version, whole, from one call; failures
  leave nothing listed; no directory of another application is touched; nothing
  temporary stays; the status is never wrong and always settles;
- package reader: a file whose bytes arrived is on disk with those bytes, no file
  gets another's, and it always ends, also when it takes other bytes for headers;
- plugin instance: the reference count covers every owner, no freed object is
  used, what is released is freed;
- libraries and DotNetSupport: the libraries on record are those of the objects
  the pages have, loader counts cover their users, and no registered .NET object
  belongs to a plugin object that is gone;
- installer's page: one poll at a time, which does not end before the job, tells
  the truth about the end, does end, and is told;
- SpaceAgent: no more processes than browsers, and a page that polls comes to
  show what is true and keeps it, whatever answers are late.

`PROJECT.json` lists all hazards by line, with the properties that cover them.

## 2. The modules

### AppManagerPlugin

The code of the installer. One Install call is a record (name, version, plugin
object, files of the package), and its thread is known by that record: `pc[c]` says
where it stands. A step is one system call on the shared directory or one
write of `m_state`.

| Code | Model |
|---|---|
| `m_state`, `setState` | `m_state[p]` |
| `InstallThread_Handler`, line by line | `Download` (266), `Respond`/`ConnectThrows` (271-277), `MakeTemp`, `ExtractFile`, `ExtractDone`, `ExtractThrows` (287-289), `CheckInstalled` (295), `BeginMove`, `CopyFile`, `CopyDone`, `CopyThrows` (301), `JobRemove...`, `Fail`, `CheckTemp` (304-312), `WriteMeta` (316-319), `Finish` (321) |
| `Install`, `Uninstall` | `Install`; `Uninstall`, `UninstallEntry`, `UninstallDirectory`, `UninstallThrows` |
| application directory | `there[d]`, `data[d][e]` for the paths `<name>` and `<name>_tmp` |
| `GetAppList`, `AppInfo::Load` | the operator `GetAppList`: the directories with a meta file |
| `Poco::File::remove(true)`, `moveTo` | external: list, remove one by one, remove the directory; make the target, copy one by one, remove the source |
| host process ends | `Crash` |

`Uninstall` runs on the browser's main thread and blocks it: no other call of a
page starts before it returns, but install threads run on.

Abstractions. The bytes of a file are the call that delivered them, and a
version is the call that carried it, which is what the properties tell apart.
The package is a set of files without subdirectories; the order of extraction,
of directory listings and of copying is free. `exists` and the listing that
follows are one step, and so are the creation of the meta file and the write
into it: a meta file that was created and whose line did not reach the disk
lists the application (`AppInfo::Load` makes it version 0.0.0.0), and is not
told apart from one with its line. An ofstream that does not open it at all, in
a directory that is there, is the fault `meta`: nothing is written and the
thread goes on to FINISH (`WriteMeta`). `.meta` is not a file of a package.
Failures are chosen from `Faults` (the comment at `FaultKinds` says what each
stands for), so a run says which it assumes. A target directory that vanishes
while Poco copies into it makes the copy throw. A write of the enumeration
`m_state` is atomic. `PathAssumption` says that no application is named like
another with `_tmp` behind it; the code does not check this.

### AppManagerSerial

The same actions under pages that take turns: `InTurn` lets Install start only
when no thread runs for the same plugin object or the same application, and an
application is not uninstalled while it is being installed. The code enforces
neither, so these are conditions on its users, and the properties that
need them are stated here and not in AppManagerPlugin. Different
applications still install at the same time, and uninstalls of other ones
interleave with them.

### AppStore

The abstract specification: an application is absent, or listed with a version
and whole, or listed and torn. Steps are Publish (absent to whole), Tear, and
Withdraw. `AppManagerSerial` maps the disk to it: the meta file says who is
listed, and the files of that call say whether it is whole.

### ArchiveReader

The tar reader over an archive of abstract units, with `BLOCK` for 512 and
`COUNT` for the 11 octal digits. `oct2dec`, `resize` and `ReadBody` are the
functions of those names, including the early return for a size of zero that
leaves the shared buffer alone, and reads that come back short. `cut` is where
the stream ends. A unit of a body is the number of its entry. `Value` is the
loop of `oct2dec` as a recursive function over the digits, and in base 1 the sum
that says where an entry of the archive starts (`Start`, which is the tar
format's and not the code's: the reader only moves on).

`ReadHeader` returns what the reader may take the next 512 bytes for. Where an
entry begins and its whole header arrived, that is the entry. Otherwise it is any
header of the instance (`Header`), with any path, kind and size, or the end:

- a header of which only a part arrived (`Torn`): the rest of `bytes` is
  uninitialised, typically the header read before, so that its path may be that
  of a file that was delivered, which is then written over;
- any units at all once the reader has lost its place, which happens after a size
  whose first digit counts (a file of 1 GB or more): what is there, a body for
  instance, is read as a header, and the body after it is whatever units follow
  (`Unit`).

Most of what the properties say of files is about archives in which no size is taken
for another (`SizesRead`; a field that is refused is among them). When the reader
has lost its place nothing can be said of them, and what is checked is that it
ends. Inflation and the exact characters of paths are left out, and so is a size
that is read wrongly and for which `data.resize` finds no memory (`ReadEntry` catches
that and the reader is done).

### Delivery

The abstract specification of the reader: of the entries that are wanted, one
after another comes to the disk and stays there as it is; the end comes when all
are there, and an exception may come at any time. Where the last header arrived
only in part (`torn`), one more turn comes when all wanted entries are there, which
may cost one of them (`Spoil`) and after which there is nothing but the end.
`ArchiveReader` maps `wanted` to the entries that are `Delivered` (whose body and
directories arrived and that no other entry claims) and `have` to those of them
whose file holds their body and no more.

### PluginInstance

The life of an NPP instance: what the browser calls, the Plugin object, and
the reference count of the scriptable object. A call on the main thread
is one step; `ThreadEnds` is the last write of an install thread and may come
at any time. `createScriptable` returns an application's object or a
`DefaultPluginApp`. `NPN_RetainObject` and `NPN_ReleaseObject` are the browser's,
modelled as `npruntime.h` documents them: the object is deallocated at zero and
not before. After an application has refused its window the Plugin is deleted
while `pdata` still points to it (`npp_gate.cpp:88`); what a further call does is
undefined and ends the instance's model (`phase = "rejected"`). Nothing is claimed
about `pdata` for that reason: `Plugin` and `pdata` are otherwise set and cleared in
one call.

### Host

`PluginInstance` with `AppManager::createScriptable` in full. A step of an
instance that makes its object (`m_scriptable` leaves `"none"`) takes
`createScriptableFor` with it, because both happen in one call on the main
thread; every other step leaves the host alone.

| Code | Model |
|---|---|
| `createScriptable`: no library, no symbol, or a constructor that throws | `CreateDefault` |
| the object exists and then .NET support fails (`npUPlugin/AppManager.cpp:63`, or `initDotNetSupport` throws) | `CreateRefused`: the object becomes an orphan, the library stays loaded and unrecorded |
| success | `CreateApp` with `Register` (`_lib_map`) |
| `UPLUGIN_DOTNET`, `DotNetSupportHelper::m_support` | two Booleans that stay as they start |
| `RegisterDotNetObject`, `GetOrCreateClassLoader`, `DotNetInstanceManager::Add` | the operators of these names |
| the address of an object | `address[i]`, `orphans`: an address may be used again once its object is freed |

All of this runs on the browser's main thread, so the per-thread map has one
entry, and the locks that a comment asks for (`DotNetClassLoader.h:124`) cannot
matter. Nothing in `src/` calls `clearLoadedLibrary`, `clearAllLoadedLibraries`,
`RemoveClassLoader` or `DotNetInstanceManager::Remove`; they are left out.

### AppManagerPage

gAppManager over `AppManagerPlugin`: its actions take the plugin's actions in
the same step (`Install`, `Uninstall`), while the threads run on (`PageJob`).
`init`, `destroy`, `install`, `uninstall` are the functions of the script;
`OnVersionInfo` is the callback of `$.getJSON`, which may come at any time or
never; `Poll` is `wait_install_timer`. Every page has its own script and plugin
object; the handlers of all pages share one thread, and a page's call of
Uninstall keeps it (`MainFree`). What the code does is kept where it is odd: the
client compares a field `version` that `GetAppList` does not return
(`InstalledVersion`), so it uninstalls whatever is installed; it passes
`key_file` where Install expects the version (`Arguments`); and it reads a
global timer while `destroy` resets a property of the same name.

`Waits` is the user of `UPlugin_AppManager_FF.html` who waits until the loading
image is gone before the next request or a destroy. The script does not enforce
it: without it a second install overwrites the timer and the callback of the
first, and that the properties then fail needs no model checker.

### SpaceAgent

The processes named SpaceApp, the calls of the plugin that act on a count taken
earlier (`main[g]` says where a call stands between the count and the act), and
the page client with its interval and the answers on their way. The pages are
in browsers of their own, which is why nothing orders their calls; within one
page no handler runs during a call. Several answers with the same content are
one member of `answers[g]`, so they may be repeated or overtaken as long as the
process gives them, which is what repeated polls can bring about. SpaceApp is
external: it may start its service, end, or crash at any time. One that a user
starts by hand, and not through `Run`, is outside the model: it would count as one
more browser in `OnePerBrowser`.

## 3. Runs

| Run | Specification and instance | Shows |
|---|---|---|
| `installer_overlap` | `Spec`; two installs of one application on two plugin objects, all faults (a meta file that cannot be written among them) and crashes | `TypeOK`, `FailedIsNotListed`, with no order between threads at all |
| `installer_turns` | `FairSpec`; two versions of one application on one plugin object and a second application on another, exceptions in extraction, removal and move, a meta file that cannot be written | `AppIsolation`, `OneDelivery` and its inductive form `SerialInv`, `BusyIsVisible`, `NoTempLeft`, `FinishPublishes`, `StatusSettles` |
| `installer_crash` | `SerialSpec`; three versions of one application, every fault but a cut body | the installer implements `AppStore` |
| `installer_job_finish` | as `installer_turns`, violation | `_ERROR` is visible while the thread still cleans up, though the page calls it "job finish" |
| `installer_settles` | failed connections, violation | the status stays `DOWNLOAD_PKG` for ever |
| `host` | `HostSpec`; two instances of a native or a .NET application each, hosts with and without .NET, three browser references and two threads each, two addresses for each instance | `TypeOK`, `EveryOwnerIsCounted`, `NoUseAfterFree`, `LeakIsBounded` of the instances, `HostTypeOK`, `RegisteredIsAlive`, `LoaderIsCounted`, `OneLibraryPerObject` |
| `plugin_leak` | `PluginInstance` alone, violation | the object of a closed page is never deallocated |
| `archive_reader` | all archives of up to three entries of nine kinds, and of up to two with a tenth whose size is read wrongly, cut at every unit | `TypeOK`, `DeliveredIsIntact`, `FilesAreWhole`, `ReaderEnds`, and that the reader implements `Delivery` |
| `archive_empty_file` | as above, violation | an empty file gets an earlier entry's bytes |
| `app_manager_page` | `FairPageSpec`; one page with requests for a version, for the latest one and for one that is not released, in any order, with two plugin objects for its inits, a second page that uninstalls the application at any time, exceptions in extraction | `PageTypeOK`, `NoStrayInterval`, `PollOutlivesJob`, `FinishIsTrue`, `PollEnds`, `PageTakesTurns` |
| `app_manager_page_end` | one page that installs twice with one plugin object, violation | the end of a quick second install is never reported |
| `space_agent` | `FairSpec`; two browsers, one of which polls, three processes | `TypeOK`, `OnePerBrowser`, `StatusIsReported`, `StopIsShown` |

Why the bounds are enough. Two threads on one application and one on another are
the smallest sets in which two installs race, one replaces the other, and one
could touch another application. That no order and no fault at all lets one
touch another is proved (`Isolation`); `installer_turns` is where TLC looks for
it. The first version has two files and the second one of them, so a file left
behind is visible, and removal and copy can stop between two entries. Each call
is made at most once; a repeated one would be another call. Three archive
entries let one entry leave the buffer for a second and a third; `BLOCK = 2` has
bodies shorter than, equal to and longer than a block, and `COUNT = 2` has a
skipped digit, a counted one and a blank. Nested directories and a file in the
place of a directory are among the entries, and the tenth kind is nine units
long and read as one, so that the reader goes on within its body. A header cut
in two is taken for any of the ten: one that names a delivered file is among
them, and the run reaches states in which that file is lost. For instances, the
third reference and the second thread are the first that add nothing new; an
instance takes two addresses at most (an orphan and its `DefaultPluginApp`), so
four never run out and are used again as soon as an object is freed. On the
page, the requests for a version and for the latest one are two calls of
Install, so one plugin object can be used for both: the second install then
finds the FINISH or `_ERROR` of the first, which is what `PollOutlivesJob` and
`FinishIsTrue` are about. Two plugin objects let the page be destroyed and
initialised between them instead, also while the first thread still cleans up;
the third is the other page's. Which object an `init` makes is `Embed`: a page
makes them in one order, since nothing tells them apart. Two browsers and three
processes are one process more than `OnePerBrowser` allows. Deadlock is not
checked: every system here stops when all calls were made.

Fairness. `FairSpec` has weak fairness on each thread's steps, because the
operating system schedules threads, and on the main thread's removal loop, which
never waits for anything. Nothing is assumed of pages (they need not call) nor
of faults and crashes (they need not happen). That a request ends, with an
answer or an exception, is the timeout of `HTTPClientSession`.
`StatusSettles` is checked without failed connections, and fails with them
(`installer_settles`). `ArchiveReader` is one loop of one thread, so weak
fairness on it. `FairPageSpec` adds weak fairness of each page's timer, of the
threads and of Uninstall's own steps; the version list may never come, and
`PollEnds` is about the time after it came. `SpaceAgent` has weak fairness of the
calls under way (Process::Start, DownloadString and Kill return or throw), and
strong fairness of the timer and of each answer: another call of the page takes
the thread again and again, but the browser's event queue is served in turn.
Nothing is assumed of SpaceApp or of the users.

## 4. Disagreements found

- `UPlugin.AppManager.cpp:306`: `_ERROR` is reported before the clean up, while
  the page takes it for the end of the job.
- `:271`: an exception of the request ends the thread with the status
  `DOWNLOAD_PKG`, and the page polls for ever.
- `:230`/`:188`: an empty file is written with the bytes of an earlier entry.
- `plugin.cpp:66,75`: references that are handed out are never released, against
  `npruntime.h`. The same leak is what keeps the object alive for a thread that
  outlives its page: `NoUseAfterFree` holds because of it, and its mutant
  (release the reference) violates it.
- `test/js/UPlugin.AppManager.js:110`: `this.Status` is not reset by install, so a
  second install that is over before its first poll is never reported, and the
  test page shows its loading image for ever.

Seen while modelling, and visible without a run of their own: `oct2dec` skips the
first of the eleven digits, so a size of 1 GB or more is read wrongly and the
reader loses its place (`:155`; `FirstDigitIsSkipped`); a last header that arrived
in part is taken for a whole one, with what is left in the array, and can write
over a file that was delivered (`:164`; `DeliveredIsIntact` bounds the loss); FINISH is
reported although the meta file could not be written (`:317`); `install` compares
`installed.version` where `GetAppList` says `ver`, so that it removes the
installed application before it knows whether the version asked for exists, and
when it does not, the application is gone (`:75`); `key_file` is
passed as Install's version (`:104`); a failed Uninstall is a JavaScript
exception, so `ERROR` is never reported (`:125`); `init` clears a global
`_OnStateChange` and `destroy` a property `_wait_install_timer` that nothing
reads (`:57`, `:65`); SpaceAgent's status `DUPLICATE` (-3) is missing in the
client's `STATE`; `createScriptable` uses the object before it tests it for NULL
(`npUPlugin/AppManager.cpp:52`, `:88`); `clearLoadedLibrary`, which nothing calls,
would unload one library and forget all the others (`:119`).

## 5. Proofs

For all sets of plugins, applications, files and calls, under the named
assumptions of the modules only:

- `AppManagerProofs`: `TypeCorrect`; `Isolation` (`AppIsolation`), whose
  inductive invariant is itself with `TypeOK`: every write goes to a
  directory of the call's own application, and a copy takes an entry
  from one of them to the other; `FailedNotListed` (`FailedIsNotListed`),
  which needs the strengthening that no temporary directory ever holds a meta
  file, and that a meta file names a call that has passed everything that can
  throw.
- `AppManagerSerialProofs`: `DeliveredByOne`, that `OneDelivery` holds when pages
  take turns and the faults include neither crashes nor failed clean ups.
  `OneDelivery` is not inductive: a move could copy a foreign file out
  of the temporary directory, or meet one in the target. `SerialInv` adds that
  at most one thread works for an application (`OneAtATime`), a missing
  directory has no entries (`NoOrphans`), a temporary directory holds only its
  thread's files while that thread is between extraction and move (`TempOwned`),
  the clean up meets all there is (`CleanMeetsAll`), and the installed directory
  is empty when the move begins (`InstOwned`). The proof first restricts what a
  step of a thread changes to its own directories (one lemma per action), and
  concludes for all other applications from that. TLC checks `SerialInv` in
  `installer_turns`.
  `TempIsGone` (`NoTempLeft`) follows from the same with `TempInv`: a thread that
  ends has passed the removal or the failure that nothing allows.
- `AppManagerStoreProofs`: that `AppManagerSerial` implements `AppStore`
  (`ImplementsStore`), and `FinishPublishes`. `SerialInv` is of no use here, since
  it fails with crashes and failed clean ups, which these theorems allow; only a
  cut body (`"short"`) is excluded. `FinishPublishes` lets FINISH find the
  application unlisted only if the faults include a meta file that cannot be
  written (`"meta"`); that all its files are there and that no other version is
  listed is proved in any case. What survives a crash is `Transit`: what a
  thread has delivered so far, file by file, or in its own temporary
  directory, when the directories hold leftovers of others; and that a version
  is listed only by the call that wrote it. Each step then maps to a step of
  `AppStore` or a stutter: the meta file to Publish, the first removal of a file
  of a listed version to Tear, the removal of its meta file to Withdraw.
  `StatusIsHonest` (`BusyIsVisible`) needs no assumption on the faults.
- `AppManagerPageProofs`: under the pages the installer is `AppManagerPlugin`
  (`PageImplementsInstaller`), hence `PagesAreIsolated`; that a page's
  arguments are a call that is modelled needs that its plugin object is its own
  and that only an install waits for a version list. `OneInterval`
  (`NoStrayInterval`) by `PageInv`: whatever is pending owns the one callback and
  keeps the loading image, so a user who waits has nothing pending.
  `PollSeesTheEnd` (`PollOutlivesJob`) and `ToldTheTruth` (`FinishIsTrue`):
  while a request's interval runs, no other thread that has not settled writes
  to the plugin object (`JobOwner`: its request would have an interval on the
  same page), so the status is the thread's own (`Honest`).
  `TurnsOfAPage` (`PageTakesTurns`): who waits has no interval, and a thread that
  has not settled has one, so no request of that page begins while it works.
- The same module says when the pages justify what AppManagerSerial assumes:
  `PagesTakeTurns`, `PageSpec => SerialSpec`. It needs that requests of
  different pages are about different applications (`PagesApart`: nothing
  orders two pages), and that no fault makes a thread fail, since `_ERROR`
  comes before the clean up and the page goes on while it runs (the run
  `installer_job_finish`). Connections may fail, files be lost and meta files not be
  written: none of these makes a thread report `_ERROR`. That a thread
  does not fail without a fault is itself a consequence of the turns: what it
  is about to copy or remove is there because nobody else touches it
  (`Smooth`). So `TurnsInv` joins `PollInv`, `SerialInv` and `Smooth`, and each
  step is shown to be one of `SerialNext` before it is shown to keep them.
  `PagesDeliverWhole` (`OneDelivery`, `NoTempLeft`) and `PagesImplementStore`
  (`ImplementsAppStore`, without lost files) follow from the theorems about
  `SerialSpec`.
- `ArchiveReaderProofs`: for any archives, cuts, block sizes and numbers of
  digits. `FirstDigitIsSkipped` says for which size fields `oct2dec` is right:
  those whose first digit adds nothing and that have no blank after it.
  The reader may take anything for a header once it has lost its place, so the
  theorems about files are about archives in which no size is taken for another
  (`SizesRead`, a premise of the properties): there it stands at an entry or at
  the end (`OnTrack`), and a turn takes an entry whose header arrived
  (`EntryTurn`) or what there is of a last one (`TornTurn`).
  `WholeFiles` (`FilesAreWhole`) needs that all turns of an archive that arrived
  whole are of the first kind, with the whole body (`WholeTurn`).
  `IntactDelivery` (`DeliveredIsIntact`) and `Refinement`
  (`ImplementsDelivery`) rest on `DeliveryInv`: where the stream is at an entry,
  the buffer and the files hold units of earlier entries only (`NotBefore`); an
  entry that is to be delivered is on the disk once the stream has passed it,
  nothing takes its path or those above it for something else, and each
  directory above it is made when the stream has passed the entry that names
  it (`Way`). A header cut in two comes after every entry that arrived
  (`TornIs`) and writes one file at most, which at most one of those entries
  claims (`TornCosts`): so one file at most is lost, and `Kept` is what is left
  of `Way`.
  The induction theorems of the library take an operator, which the provers
  cannot instantiate. The module proves induction for sets of numbers in their
  place (`SetInduction`, from the well-foundedness of inclusion among finite
  sets), and with it what `Value` computes: its recursion equation, its type, and that
  it only grows. `ReaderAdvances` is the safety half of `ReaderEnds`: each turn
  moves the stream or is the last, whatever it takes for a header.
- `PluginInstanceProofs`: `InstanceTypeCorrect`, `OwnersAreCounted`,
  `ThreadsAreSafe`, `AtMostTwoLost` from one account of the
  references of each instance: what is counted is what is owned plus what was
  lost, and what was lost is known from `phase` and `m_windowset`.
- `HostProofs`: the host implements `PluginInstance` (`HostImplementsInstance`),
  so that the theorems above hold in it; and its own four invariants together.
  The point of `NoStaleManagedObject` is `ObjectStays`: the reference that
  `onNPP_Destroy` leaks keeps a registered object at its address for ever, so an
  address that is known is never used again. Releasing that reference, as
  `npruntime.h` asks, breaks `RegisteredIsAlive` (that is its mutant): a repair of
  the leak needs a call of `Remove` with it.
- `SpaceAgentProofs`: `NeverMoreThanBrowsers` for any number of pages and
  processes. `Bound` counts each call that is about to start a process as a
  process: a call gets there only when there was none at its count.

Only model-checked: `StatusSettles`, `PollEnds`, `StatusIsReported`,
`StopIsShown` and `ReaderEnds` (liveness is out of this prover's reach). Every
invariant and every other action property or refinement that a passing run
checks is stated by a theorem.

## 6. Not modelled

- Entry points and function tables: copied once at the start, then only read.
- ScriptableBase, ScriptableObject, FuncMap: tables filled in constructors and
  looked up by name; what the methods do is in the modules of their objects.
- Env, Logger, Util: paths and configuration computed once, log output, and
  conversions. The install threads log to one stream without a lock, which
  nothing reads.
- ViewerLauncher: Launch starts a process and forgets it; Close does nothing.
- DefaultPluginApp draws a text. The window procedure that `ScriptableBase.cpp:41`
  replaces is kept in one static variable for all windows; windows of one
  browser have the same one, so there is nothing to tell apart.
- The stream, print and event calls of `npp_gate.cpp` return constants; so does
  everything of `npn_gate.cpp` that forwards to the browser.
- The functions nothing calls (see Host), `GetStatus(true)` of SpaceAgent and
  `RegularUpdate` of the test page, whose `latest_ver` stays empty.

The modules cover the program's own stateful code, which is a small part of the
repository: of its lines nearly all belong to the headers of Poco and of the
xulrunner SDK under `src/include` (generated tuples, sockets, number formatting,
NPAPI declarations), to jQuery and to build files. They are used as libraries,
and modelled as external operators where a property depends on what they do.

What remains worth doing: a weaker condition than `PagesApart` and the faults of
`PagesTakeTurns`, such as a page that waits until the clean up is over; what
`SpaceAgent`'s late answers may never do, as an invariant behind its liveness;
the browser's calls after a rejected window, if a
build's behaviour there is pinned down; the window between creation and first
write of a meta file as a step of its own; and two applications of one page
that share the class loader of one assembly path.
