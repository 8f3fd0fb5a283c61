# Verification of basics-opc-ua

TLA+ models of the programs of this repository, model-checked with TLC and, as far as they
are safety properties, proved with TLAPS. Paths are relative to `src/`.

1. [Inventory](#1-inventory)
2. [Modules](#2-modules)
3. [The server process](#3-the-server-process)
4. [The address space](#4-the-address-space)
5. [The reconnecting client and its program](#5-the-reconnecting-client-and-its-program)
6. [Logging](#6-logging)
7. [The asyncio client](#7-the-asyncio-client)
8. [Runs](#8-runs)
9. [Proofs](#9-proofs)
10. [What the code does and a document says otherwise](#10-what-the-code-does-and-a-document-says-otherwise)
11. [Not modelled](#11-not-modelled)
12. [What could follow](#12-what-could-follow)

## 1. Inventory

The repository holds three OPC UA programs that do not talk to each other's code, and the
scripts that build them.

| component | state | operations | interacts with | what makes it hard | correct if |
|---|---|---|---|---|---|
| server process (`open62541-server/src/main.cpp`, `ggolbik/opcua/OpcUaServer.*`) | `running`, `uaServerPtr`, `uaLoggerPtr` of one static `OpcUaServer`; the SDK's `UA_Server` on the heap | `configure`, `start` (create the server, fill the address space, run it), `stop`, the destructor; the SIGINT handler | the SDK by calls, the logger, the node sets | the signal handler calls `stop()` between any two statements of `main`, deletes the server that `main` is using, and logs under a mutex `main` may hold | a stop request ends the process; nothing is used after it was deleted; the server is gone before the loggers; success is reported only after a stop |
| logging (`ggolbik/opcua/logging`) | each logger's level, the map of a `RootLogger`, `ConsoleLogger::logMutex` | `log`, `vlog`, `setLevel`, `addLogger`, `setLogger`, `removeLogger`, `removeAll`; `UaLogger::vlog` | called by the server process, and by the SDK through `UaLogger` | nested roots, levels that are copied once, exceptions thrown while the mutex is held | a message is written once for each registration or not at all; the mutex is always freed |
| `UAClient` (`ua.netstandard-client/src/UAClient.cs`) | `m_session`, `m_reconnectHandler`, `m_lock` | `ConnectAsync`, `Disconnect`, `Dispose`, `Session_KeepAlive`, `Client_ReconnectComplete` | the .NET SDK, which calls back on its own threads | the callbacks check fields before they take the lock, the application takes no lock at all | one reconnect at a time; its result is never lost; a broken connection is repaired; a disconnected client stays disconnected |
| client program (`ua.netstandard-client/src/Program.cs`) | none of its own | ask for endpoints, connect, enable the transfer of subscriptions, read twice, disconnect, dispose | `UAClient` | it asks for `Session` again and again while a reconnect may exchange it | it never meets a null session; what it sets on a session is there after a reconnect |
| client samples (`ua.netstandard-client/src/ClientSamples.cs`) | none, except a subscription | read, write, browse, call, subscribe | a session | a subscription is half made when an exception comes | the calls are commented out in `Program.cs` |
| asyncio client (`opcua-asyncio-client/src/main.py`) | two files with the key and the certificate; a client per connection | make the key pair, `get_endpoints`, `set_security`, read a value | the file system, the server | a run may die or be cancelled between any two steps, and several share the files | a run uses its own pair; connections and sessions are closed |
| node sets (`nodesets/example_nodeset.c`, `nodesets/di.c`, generated) | the server's address space | per node a begin and a finish function, called in one fixed order, the first failure ends it | the SDK | 384 nodes that name each other; what finishing copies into an object depends on what is there by then; an error in the middle leaves the rest begun and not finished; `#ifdef`s | the order never makes a call fail; GOOD means all of it; nothing is copied that comes anyway |
| the server's own nodes (`OpcUaServer.cpp:138-356`) | `diAvailable`, `myAvailable` | a variable, a device type, a device with its manufacturer, a pump | the node sets, the SDK | each needs a node set that may not have loaded, in whole or in part | they are built from whole node sets only; the device names its maker; the server runs in any case |
| scripts (`libs.sh`, `libs/*.sh`, `scripts/*.sh`, `build.sh`, `docker.sh`) | build directories | clone, configure, build, install, copy out of a container | each other, by directories | a directory counts as a finished build; exit codes are ignored | a failed step is repeated by the next run |

`PROJECT.json` lists the hazards of this code at their lines, with the properties that cover
them.

## 2. Modules

| module | what it is |
|---|---|
| `ServerProcess` | what the operator of the server is promised: start, serve, be asked, drain, end |
| `OpcUaServer` | the server process; refines `ServerProcess` |
| `OpcUaServerProofs` | its safety properties and the refinement, proved |
| `NodeEntries` | the form of a node that a node set or the server adds, and of a loader's calls |
| `DiNodeset`, `ExampleNodeset` | the nodes of `di.c` and `example_nodeset.c`, in the order of their functions, and the calls of the two loaders |
| `AddressSpace` | the loaders, the SDK as far as they rely on it, and the instances of the server, for any two tables; `MCAddressSpace` gives it the two of the repository |
| `AddressSpaceProofs` | its invariants, proved for any tables that the generator has ordered |
| `InstanceProofs` | that every instance has what its type demands, and the device its manufacturer, proved |
| `UAClient` | the reconnecting client; `MCUAClient` adds symmetry sets for TLC |
| `UAClientProofs` | its lock protocol, proved |
| `ClientProgram` | `Program.Run` composed with `UAClient` |
| `ClientProgramProofs` | its safety properties, and that it uses `UAClient` as that allows, proved |
| `Logging` | loggers, fan-out and the console's mutex; `MCLogging` has the shapes of the loggers |
| `LoggingProofs` | types and the mutex, proved |
| `FanOutProofs` | that a message gets to every console, and of whom `isEnabled` tells the truth, proved |
| `AsyncioClient` | the asyncio client, over several runs |
| `AsyncioClientProofs` | all its properties, proved |

No module that a proof uses declares a RECURSIVE operator: the two recursions (`WaysIn` in
`Logging`, `Hierarchy` in `AddressSpace`) are functions, over the places of the maps and over
numbers, and take the state they depend on as an argument.

## 3. The server process

`OpcUaServer.tla` has two actors, `main` and the SIGINT handler. `pc` is the statement
`main` is at, `stopPc[a]` where actor `a` is in `OpcUaServer::stop()`, `logging[a]` whether it
waits for, or holds, `ConsoleLogger::logMutex`. `running`, `uaServerPtr`, `uaLogger` are the
members; `server` is the object on the heap, so that a pointer and what it points to are two
things.

* `unique_ptr::reset()` is three steps (`StopRead`, `StopNull`, `StopDelete`), since the
  destructor's and the handler's may overlap.
* A helper of `start()` asks for `uaServerPtr` once (`CheckServer`) and reads it again for each
  SDK call (`CallServer`, then `CallReturns` or `CallCrashes`). `CallsOf` counts the calls, and
  `Checked` says which of them can end the helper. What the calls put into a node is left out.
* Several log calls in a row are one. Calls of the SDK *may* log (`MayAnnounce`), through the
  same mutex.
* Undefined behaviour is a choice: a null pointer crashes; a use of the deleted server, or a
  second delete, crashes or goes on; `fault` keeps what happened first.
* `HandlerOnOwnThread = FALSE` is POSIX: `main` stands still while the handler runs.
  `TRUE` is Windows, which the mingw toolchain files build for: the handler has its own
  thread, and a second ctrl-c has the default action, which kills the process.

Refinement: `PhaseOf`, `Asked` and `OutcomeOf` map the state to `ServerProcess`; `KeepsPromise`
is its safety part, `KeepsPromiseFairly` the whole of it.

Fairness: the scheduler runs what can run (weak fairness of `main`, of `stop()` and of the end
of a log call), and a mutex that is free again and again is obtained (strong fairness of
`Lock`). Nothing says that anybody presses ctrl-c.

## 4. The address space

`AddressSpace.tla` is what `OpcUaServer::start()` does between `UA_Server_new` and
`UA_Server_run`, one call of the SDK after the other. `stage` is the function `start()` is in,
`next` the call of the loader, `available` is `diAvailable` and `myAvailable`. The server's
side is `nodes` (begun), `finished`, `references`, and `copied`: what finishing an object has put
into it.

* The tables are data: entry *i* + 1 of `DiTable` is what `function_di_<i>_begin` and `_finish`
  hand to the SDK, with class, browse name, parent, reference, type, and every
  `UA_Server_addReference`. Operators of `NodeEntries` name the patterns the generator uses
  (a property, an argument, a state with its number). Attributes are left out.
* `Begin` adds the references even if the node was not added, and the call fails if any of them
  did (`retVal |=`); `Proceed` leaves the loader at the first failure; nothing is taken back.
* The SDK is external, and modelled by what the code relies on: a new node needs its parent,
  reference and type (`Accepts`), a reference needs both ends, finishing an object copies what
  its type and all supertypes and interfaces call mandatory and it has not got (`CopiesInto`),
  an abstract type has no instances. Only the types that the node sets define are followed: what
  the standard types declare, and the children of what is copied, is left out. Besides, the SDK
  may refuse any call (`Grant`), in at most `MaxRefusals` stages.
* `Builds` has both values of `UA_ENABLE_METHODCALLS`. Without it the functions of a method do
  nothing and return GOOD (`Skip`). The arguments of the method are not under the `#ifdef`, have
  no parent then, and end the loader: `MethodlessNeverLoads`.
* `Add` stands for `UA_Server_add...Node`, which adds a node as a whole or not at all.

The loaders and the helpers are one thread, and what is hard is order. The two passes of a
loader (begin upwards, finish downwards) put the objects before their types when they are
finished, so that `copied` has to be computed from types that are begun but not finished, and an
object of a node set that gave up half way may be finished or not. `NothingTwice`,
`InstancesComplete` and `DeviceNamesItsMaker` are about that: the last one follows the property
`Manufacturer` from `DeviceType` over the server's subtype into `ThisDevice`.

`WellOrdered`, `Complete`, `UniqueIds`, `HasArguments`, `PlainFolder`, `InstancesLast`,
`OwnDeclarations` and `MakersAreNamed` say what the generator has to see to. They are hypotheses of
the theorems, and `MCAddressSpace` has TLC evaluate them for the tables of the repository.

`OpcUaServer` has each of these calls as one that may fail; `AddressSpace` has no signal handler
in return: a ctrl-c during start-up is the business of `OpcUaServer`.

Fairness: `start()` waits for nothing, so its next step comes (`WF_vars(Next)`). The model stops
at `"run"`, where `UA_Server_run` begins; its run does not check deadlock.

## 5. The reconnecting client and its program

`UAClient.tla` follows the code statement by statement where threads race. The application
thread (`appPc`) calls `ConnectAsync`, `Disconnect` and `Dispose` without the lock; the
keep-alive threads (`kaPc`) compare the session before they take `m_lock`, then decide, create
a handler, and call `BeginReconnect` with what `m_session` is *then*; the handler's callback
(`doneEvent`) also compares before it locks.

The SDK is modelled by how the code uses it, and mapped as external: a session whose
connection broke still says it is `Connected`; a handler recovers its session, or makes a new
one that inherits the event handlers, and calls back once; a handler that was given null never
ends. A `SessionReconnectHandler` that nobody refers to is used again, which keeps the number
of objects finite.

Fairness: each thread goes on, the SDK raises a keep-alive event for a broken session again
and again, a lock that is free again and again is obtained, a lost server is found again.
Connections do not have to break, and nobody has to disconnect.

`ClientProgram.tla` has `Program.Run` as the application: `at` is its statement, and its calls are
the actions of `UAClient`. Everything else happens `Meanwhile`, until the process ends. `transfer`
are the sessions with `TransferSubscriptionsOnReconnect`; a session that is recreated has the
setting its template has at that moment (`RecreateWithSettings`). `late` is history: `Run` enabled
the setting when a session that is to take over had been made from the old one already, and the
setting is lost. `TransferEnabled` says that this is the only way to lose it. The fairness is that
of `UAClient`; `Run` itself may stand still at any statement, so that the liveness properties are
about a connection that is in use for as long as it takes.

## 6. Logging

`Logging.tla` runs a call through the loops of nested `RootLogger`s (`frames`), each console's
filter, its mutex, the write or the exception of a message that cannot be formatted.
`written` counts what the call made each console write; `Ways` is the reference it is
compared with: on how many ways a console is registered, counted from each place (a root and a
position in its map) over what is registered there and the places behind it. Names are the slots
of a map, in its order; null is an absent entry or an empty pointer.

The maps and the levels have no lock. The model changes them only while nobody logs, as the
program does, which registers its console before any other thread runs; otherwise the code is
undefined. `NestingAssumption` excludes a root that is registered below itself, on which the code
would recurse without end: a root has a rank, and may contain roots of a lower rank only. The layout of a line is left out.

The model shows things a caller should know: `setLevel` of a root is not handed on; the SDK's
messages go to `vlog`, past the level of the root; `ConsoleLogger` writes nothing for an
exception alone, as `ILogger.h` permits; `Level::off` is the smallest level, so that a logger
at `off` lets everything through, and a message of an unknown SDK level has level `off`.
A level is copied when `addLogger` or `setLogger` registers a logger, and only then: a root that is
constructed with a map of loggers (`Init` has every map) leaves their levels alone, a root that is
registered gets a level its own consoles do not follow, a second registration overwrites what the first
one copied. `follows` is history: who still has the level it was given. It is what
`EnabledMeansWritten` needs to say for which consoles `isEnabled` tells what will be written, and
all of these cases are in its run.

Fairness: a thread that logs goes on, and obtains a mutex that is free again and again.

## 7. The asyncio client

`AsyncioClient.tla` numbers the runs of the program, and a key and a certificate by the run
that made them. `open(..., "wb")` truncates a file and its content comes when it is closed, so
each file is unreadable for a while, and for good when the run dies there. An await returns or
raises; `cancelled` is a ctrl-c that the next await will raise, which is how `asyncio.run`
delivers it (older versions raise it on the spot where nothing is awaited: `WritingFails`).
`get_endpoints` returns on whatever is raised, *also* on the cancellation, and the program goes
on (`DiscoveryEnds`). `set_security` asks the server before it reads the files. `async with`
disconnects on every way out of its body.

`disturbed` and `overlapped` are history: the runs that were killed, interrupted or cut off, and
those that were not alone. The properties need them to say when the code is to blame.
There is no fairness: a user may leave the program standing, and all properties are safety.

## 8. Runs

| run | checks | bounds | shows |
|---|---|---|---|
| `server_posix` | `TypeOK`, `ServerDeletedBeforeLogger`, `RunningClearedBeforeExit`, `ExitZeroOnlyAfterStop`, `FaultOnlyAfterInterrupt`, `OnlyHandlerWaitsInVain`, `KeepsPromise` | 3 signals | whatever the handler interrupts, the loggers outlive the server, `running` is false when `main` leaves, success means stopped, without ctrl-c nothing undefined happens, and the handler on the stack of a `main` that logs is the only deadlock |
| `server_windows` | `HandlerReturns`, `StopEndsService`, `KeepsPromiseFairly` | 2 signals | a handler on its own thread always gets the mutex, and a service that was asked to stop ends |
| `server_unsafe_stop` | violation of `StopIsSafe` | 1 signal, POSIX | the handler deletes the server that `main` has handed to the SDK |
| `server_lost_stop` | violation of `StopHonoured` | 1 signal | a ctrl-c during start-up is overwritten by `running = true` |
| `server_handler_stuck` | violation of `HandlerReturns` | 1 signal, POSIX | the handler waits for a mutex its own thread holds |
| `client_races` | `TypeOK`, `OneReconnect`, `CompletionFindsItsHandler`, `CallFindsItsSession` | 3 sessions, 2 handlers, 2 keep-alive threads, 2 connects, 2 breaks | the unlocked checks do no harm to the reconnect protocol, whatever the application calls, and no call of the application dereferences null |
| `client_program` | `SessionThere`, `TransferEnabled`, `ClosedSessionIsReplaced`, `NoWorkingSessionReplaced`, `ReconnectEndsInUse`, `Reconnects` | 2 sessions, 1 handler, 2 keep-alive threads, 2 breaks | the program always has a session, keeps its setting, has every broken connection repaired, and exchanges a session only when that one is broken or closed |
| `client_resurrected` | violation of `StaysDisconnected` | as in its cfg | a reconnect completes after `Disconnect` |
| `client_wedged` | violation of `ReconnectEnds` | as in its cfg | a race with `Disconnect` leaves a handler that never ends |
| `logging_fan_out` | `TypeOK`, `FanOutComplete`, `EnabledMeansWritten`, `MutexReleased`, `CallsEnd` | 2 nested roots, 2 consoles, 2 names, 2 levels, 1 thread | a message comes out once for each registration, in every shape, `isEnabled` of a logger speaks for the consoles that follow it, and every call ends and frees the mutexes, also when it throws |
| `asyncio_reruns` | `TypeOK`, `OwnPair`, `DiscoverySocketClosed`, `NoSessionLeft` | 2 places, 3 runs | runs that overlap, die and are interrupted |
| `nodesets` | `TypeOK`, `LoadsUnlessRefused`, `MethodlessNeverLoads`, `WholeOrUnavailable`, `NothingTwice`, `InstancesComplete`, `InstancesOfLoadedTypes`, `DeviceNamesItsMaker`, `ReachesRun` | the 373 and 11 nodes of the repository, 1 refused stage, both builds | whichever call the SDK refuses, the loaders and helpers leave what they should |

Why the bounds are enough. Three signals are one for each of the two executions of `stop()`
that can overlap in `main` (after a failed run, and the destructor) and one more; on Windows
the second one kills. Three sessions let the application and a handler each replace one; two
handlers are a pending one and its successor; two keep-alive threads race for the lock. Two
consoles below two roots already give every way to be registered twice, and two levels let a
filter pass or not. In that run one thread logs, so that all the shapes fit: two threads in the loops
of one root share the mutexes only, and those are shared by `main` and the handler in `server_posix`
and `server_windows`, where the waiting and its end are checked; the theorems of `Logging` hold for
any number of threads. Three runs are one that dies, one that overlaps, and one more that is
alone with what the two have left. In `client_program` one handler object is enough, since it is
used again when nobody refers to it, and the code has only one at a time (`client_races` has two,
and `OneReconnect` is proved). In `nodesets` each of the 768 calls of the loaders and the five of the helpers is refused in turn, for both
builds; two refused stages pass as well but take four minutes, and the theorems hold for any
number. The proofs lift the bounds for the properties they cover.

Every property of a passing run has a mutant in `PROJECT.json`: a definition with a plausible
bug (a dropped check, a lock left out, a `finally` that is not one) that breaks it under the
same configuration. The comments `MUTANT` in the modules mark them; no action uses them.
Deadlock is checked where a run says nothing else; the client and asyncio runs end because
their counters do, the server's runs because the handler can block `main` for ever on POSIX.

## 9. Proofs

TLAPS proves, for every value of the constants that the named assumptions allow:

| module | theorem | says |
|---|---|---|
| `OpcUaServerProofs` | `TypeCorrect` | `TypeOK` |
| | `NoFaultUnasked` | `FaultOnlyAfterInterrupt` |
| | `RunningCleared`, `ZeroOnlyAfterStop` | the two properties of leaving |
| | `LoggerOutlivesServer` | `ServerDeletedBeforeLogger`, assuming `~HandlerOnOwnThread` |
| | `NoOtherDeadlock` | `OnlyHandlerWaitsInVain`, on both platforms |
| | `PromiseKept` | every behaviour refines `ServerProcess!SafeSpec` |
| `UAClientProofs` | `TypeCorrect`, `OneReconnectAtATime`, `CompletionHeard`, `CallsHaveTheirSession` | `TypeOK`, `OneReconnect`, `CompletionFindsItsHandler`, `CallFindsItsSession` |
| `ClientProgramProofs` | `ProgramIsAClient` | every step of the program is one of `UAClient` or leaves it alone |
| | `SessionIsThere`, `TransferStaysEnabled`, `ClosedOnlyForAWhile`, `OnlyDownIsExchanged` | `SessionThere`, `TransferEnabled`, `ClosedSessionIsReplaced`, `NoWorkingSessionReplaced` |
| `AddressSpaceProofs` | `TypeCorrect`, `InstancesHaveTheirTypes` | `TypeOK`, `InstancesOfLoadedTypes` |
| | `GoodMeansWhole` | `WholeOrUnavailable`, assuming `Complete` |
| | `OrderSuffices` | `LoadsUnlessRefused`, assuming `WellOrdered` |
| | `ArgumentsNeedMethods` | `MethodlessNeverLoads`, assuming `UniqueIds`, `Complete`, `HasArguments` |
| | `NothingCopiedTwice` | `NothingTwice`, assuming `UniqueIds`, `PlainFolder`, `Complete`, `WellOrdered`, `InstancesLast` |
| `InstanceProofs` | `InstancesHaveTheirParts` | `InstancesComplete`, assuming `Generated` (`UniqueIds`, `Complete`, `WellOrdered`, `InstancesLast`, `OwnDeclarations`) and `HasArguments` |
| | `ManufacturerIsFound` | `DeviceNamesItsMaker`, assuming `Generated` and `MakersAreNamed` |
| `LoggingProofs` | `TypeCorrect`, `MutexAlwaysReleased` | `TypeOK`, `MutexReleased` |
| `FanOutProofs` | `EveryConsoleServed` | `FanOutComplete`, for any finite nesting |
| | `EnabledTellsTheTruth` | `EnabledMeansWritten`, for any nesting, initial maps and order of registrations |
| `AsyncioClientProofs` | `TypeCorrect`, `AloneUsesOwnPair`, `DiscoveryCloses`, `SessionsClosed` | all four invariants |

The arguments, by the inductive invariants:

* *Server.* None of the properties is inductive by itself. `RunningInv` says where `running` may
  be set, `AskedInv` what only a ctrl-c can have brought about (a loop that was left, a
  success), `ControlInv` when the exit code is decided and where `main` runs `stop()`. `QuietInv`
  follows the pointer, its copies and the object while no ctrl-c came. `OwnedInv` is for POSIX: a
  live server belongs to the pointer or to a `stop()` that is about to delete it. On Windows the
  loggers can go while the handler is still busy, which is why `LoggerOutlivesServer` has an
  assumption. `OwnerInv` (who owns the logger's mutex is writing) leaves one deadlock, that of
  `server_handler_stuck`. The refinement goes step by step: a statement of the code is a step of
  the promise or a stutter.
* *Client.* `IndInv` = `TypeOK`, `CallInv` (`CallFindsItsSession`, and a session between its creation and
  its assignment), `LockInv` (who is between lock and unlock owns `m_lock`, so there is one) and
  `HandlerInv` (the field is null when a handler is about to be made, names an idle one at
  `BeginReconnect`, names every handler that is not free, and only one that is done has called
  back). The unlocked check of the completion is safe because only the completion itself
  clears the field.
* *Client program.* `ProgramSteps` carries `IndInv` over. `FlowInv` says what `UAClient` is doing
  at each statement of `Run`, `FreshInv` that nothing is called back before the only session is
  subscribed to, `SwapInv` that the handler at work is reconnecting the session in use, which is
  closed by the time another one waits to take its place. `TransferInv` adds that the waiting
  session has the setting as well. No bound on the calls of `ConnectAsync` is needed: `Run` has one.
* *Address space.* `ProgressInv`: what the calls before `next` were about has been done, so that
  GOOD at the end means everything. `FreshInv`: what a loader has not come to is not there, so that
  `WellOrdered` makes every call acceptable. `ParentsInv`: a node that is there has its parent,
  which an argument has not without methods. `ClosedInv`: the children of an object that is
  finished are all there already, since instances come last.
* *Instances.* What a type demands is a closure over its supertypes and interfaces, and both can
  still be added when an object is finished. `MandatorySettled` shows that nothing is: a node set
  describes only types of its own (`Kin`, closed under `Above` by `KinAbove`), where they are added
  (`OwnDeclarations`), and all of it is there (`Loaded`) before its first instance is finished. So
  `CompleteInv` can say that a finished instance is complete from then on, and not just at the
  end, and every step keeps it. `HierarchyIs` unfolds the five steps of the type hierarchy, and shows
  that the recursive function is defined. `MakerInv` follows the device through the three calls
  that make it and name its maker.
* *Logging.* `PhaseInv` ties a thread's phase to its frames and its console, `WriterInv` the
  writer to the owner of the mutex; lemmas on sequences keep the frames well typed.
* *Fan-out.* `CallInv` is an account for each console that would write: what is written, plus the
  line that the thread has in hand, plus what is due in the loops it is in, is the number of ways
  from the logger that was called. A step of a loop moves an amount from one entry of the account to
  another (`Accounts...`), and at the end nothing is due. That takes the equation of `WaysIn`
  (`WaysEquation`), and so that such a function exists (`WaysExist`): `Measure` gives each place a
  number that falls on the way inwards, by the rank of the root and the position in its map, and
  the function is built upwards along these numbers. The induction is `NumbersByInduction`,
  about a *set* of numbers, from the well-founded order of the naturals; no theorem of the library
  with an operator as its parameter is needed. `FollowsInv` (who follows a
  logger has its level, kept by every registration and every `setLevel`) then gives `EnabledTellsTheTruth`.
* *Asyncio client.* `RunInv`: two runs that are there at once have different numbers and are
  both on record as overlapped. `FileInv`: a run that is alone has written what it has got past.
  `SessionInv`: an undisturbed run has a session only in the body of `async with`.

Every invariant and every action property that a passing run checks is stated by one of these
theorems. Only model-checked: liveness (`HandlerReturns`, `StopEndsService`, `KeepsPromiseFairly`,
`ReconnectEndsInUse`, `Reconnects`, `CallsEnd`, `ReachesRun`), which is out of the prover's reach
with its fairness; that the tables of the repository are as the hypotheses say, which TLC
evaluates; and the five findings, which are counterexamples.

## 10. What the code does and a document says otherwise

Five findings, each with a run whose counterexample shows it; `PROJECT.json` quotes the lines.

* `stop()` in the signal handler deletes the server that `main` is using (`server_unsafe_stop`): the helper
  or `UA_Server_run` it interrupted goes on with the deleted object.
* A ctrl-c during start-up is lost (`server_lost_stop`).
* On POSIX the handler can block on the logger's mutex for ever (`server_handler_stuck`).
* A session comes back after `Disconnect` (`client_resurrected`).
* A keep-alive that races `Disconnect` leaves a reconnect that never ends (`client_wedged`).

In the same race as `client_resurrected`, a completion between two of `Disconnect`'s reads of
`m_session` has its session forgotten while it is open; `CallFindsItsSession` says no more than that the reads never
find null. `FaultOnlyAfterInterrupt` says that a ctrl-c is the only way to a use of a deleted or missing
server. A session that `ConnectAsync` has made while a reconnect was under way is overwritten by the
completion and stays open at the server; `Program.cs` connects once, so that it does not happen
there. A run of the asyncio client reads what another one that started meanwhile has written
(`OwnPair` is about runs that are alone), and goes on after a ctrl-c in `get_endpoints`. `Program.cs` may enable the
transfer of subscriptions on a session that is about to be replaced by one without it
(`TransferEnabled` without `~late` does not hold). No line of the repository promises otherwise in
any of these.

A build without `UA_ENABLE_METHODCALLS` loads neither node set (`MethodlessNeverLoads`), and the
server then runs with `the answer` alone. The build scripts do not switch the option off.

`UAClient.Dispose` leaves a reconnect handler working; it is in the model (`Dispose` does not
touch `m_reconnectHandler`), but the process ends there, and no line promises otherwise.

## 11. Not modelled

* The values of node attributes, and the pointers and buffers they are passed in; what the
  standard name space declares; certificate validation in `UAClient`, which answers yes or no and
  keeps no state; the text of log lines, endpoints and certificates.
* The heap's lock in the signal handler: it would behave as `logMutex` does.
* A logger that is registered while another thread logs, which is undefined, and a root below
  itself, which recurses without end: no caller does either.
* `ClientSamples.cs`: its calls are commented out in `Program.cs`, and keep no state except a
  subscription.
* The build and Docker scripts: commands in a row that call git, cmake and docker. Their hazards are
  listed in `PROJECT.json`: a directory counts as a finished build, and exit codes are ignored.

## 12. What could follow

1. The scripts with interrupted and repeated runs, if they grow a state of their own.
2. `AddressSpace` below `OpcUaServer`, as a refinement of its calls of the SDK, so that a ctrl-c may
   come in the middle of a loader.
3. The arguments under the liveness properties that need no fairness, as action properties with
   proofs: a measure that every step of a call through nested loggers lowers, as `Measure` does for
   the ways.
