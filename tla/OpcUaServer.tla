----------------------------- MODULE OpcUaServer -----------------------------
(***************************************************************************)
(* The process of open62541-server: main() with the static OpcUaServer,    *)
(* and the SIGINT handler that calls OpcUaServer::stop() on it.            *)
(*                                                                         *)
(* Two actors execute the code.  On POSIX the handler is nested in the     *)
(* only thread: while it runs, main stands still at whatever statement it  *)
(* had reached.  On Windows (the mingw toolchain files) the C runtime runs *)
(* the handler on a thread of its own and restores the default action      *)
(* first, so that a second ctrl-c kills the process.                       *)
(***************************************************************************)
EXTENDS Naturals

CONSTANTS HandlerOnOwnThread,  \* FALSE: POSIX, TRUE: Windows
          MaxSignals           \* bound: how often ctrl-c is pressed

ASSUME ConstantsAssumption == HandlerOnOwnThread \in BOOLEAN /\ MaxSignals \in Nat

VARIABLES
  pc,           \* the next statement of main
  calls,        \* the UA_Server call that main's current helper is at
  arg,          \* the UA_Server* that was handed to the SDK call in progress
  available,    \* the nodesets that were loaded (diAvailable, myAvailable)
  exitCode,     \* what main returns
  running,      \* OpcUaServer::running
  uaServerPtr,  \* OpcUaServer::uaServerPtr
  uaLogger,     \* OpcUaServer::uaLoggerPtr
  stopPc,       \* per actor: the next statement of stop()
  old,          \* per actor: the pointer unique_ptr::reset() has read
  logging,      \* per actor: waiting for, or inside, ConsoleLogger's lock
  logMutex,     \* ConsoleLogger::logMutex: its owner, or "free"
  server,       \* the UA_Server object on the heap
  signals,      \* how many SIGINTs have been delivered
  fault         \* the first undefined behaviour the process ran into

mainVars   == <<pc, calls, arg, available, exitCode>>
objectVars == <<running, uaServerPtr, uaLogger>>
stopVars   == <<stopPc, old>>
logVars    == <<logging, logMutex>>
vars == <<mainVars, objectVars, stopVars, logVars, server, signals, fault>>

Actors == {"main", "handler"}

(* The helpers start() calls to fill the address space. *)
Populating == {"di", "my", "default", "diInstance", "myInstance"}
Running    == {"startup", "loop", "shutdown"}
Terminal   == {"exited", "crashed", "killed"}
Statements == {"install", "configure", "create", "created", "setRunning", "run",
               "failStop", "report", "destroy"} \cup Populating \cup Running \cup Terminal

(* MUTANT: setManufacturer makes a call that nobody counted. *)
OneCallMore(p) == CASE p = "diInstance" -> 7 [] p = "myInstance" -> 2 [] OTHER -> 1

(* How many UA_Server calls a helper makes, each reading uaServerPtr anew,  *)
(* and which of them can make it return early: adding a namespace cannot.   *)
CallsOf(p) == CASE p = "diInstance" -> 6 [] p = "myInstance" -> 2 [] OTHER -> 1
Checked(p) == CASE p = "diInstance" -> {2, 3, 5, 6} [] p = "myInstance" -> {2} [] OTHER -> {1}

TypeOK ==
  /\ pc \in Statements
  /\ calls \in 0..6
  /\ arg \in {"none", "null", "server"}
  /\ available \subseteq {"di", "my"}
  /\ exitCode \in {"none", "success", "failure"}
  /\ running \in BOOLEAN
  /\ uaServerPtr \in {"null", "server"}
  /\ uaLogger \in {"unset", "set", "destroyed"}
  /\ stopPc \in [Actors -> {"idle", "check", "clear", "read", "null", "delete"}]
  /\ old \in [Actors -> {"null", "server"}]
  /\ logging \in [Actors -> {"no", "wanted", "inside"}]
  /\ logMutex \in Actors \cup {"free"}
  /\ server \in {"none", "live", "deleted"}
  /\ signals \in 0..MaxSignals
  /\ fault \in {"none", "nullPointer", "useAfterDelete", "doubleDelete"}

Init ==
  /\ pc = "install" /\ calls = 0 /\ arg = "none" /\ available = {} /\ exitCode = "none"
  /\ running = FALSE /\ uaServerPtr = "null" /\ uaLogger = "unset"
  /\ stopPc = [a \in Actors |-> "idle"] /\ old = [a \in Actors |-> "null"]
  /\ logging = [a \in Actors |-> "no"] /\ logMutex = "free"
  /\ server = "none" /\ signals = 0 /\ fault = "none"

Ended   == pc \in Terminal
Idle(a) == stopPc[a] = "idle" /\ logging[a] = "no"

(* On POSIX main stands still while the handler runs. *)
CanRun(a) == ~Ended /\ (a = "main" => HandlerOnOwnThread \/ Idle("handler"))

(* main is at the statement p and not inside stop() or a log call. *)
MainAt(p) == CanRun("main") /\ Idle("main") /\ pc = p

------------------------------------------------------------------------------
(* Logging.  Every message ends in ConsoleLogger::vlog, which holds a       *)
(* non-recursive mutex while it writes.                                      *)

Announce(a) == logging' = [logging EXCEPT ![a] = "wanted"]

(* The SDK logs some of the things it does through the same logger. *)
MayAnnounce(a) == logging' \in {logging, [logging EXCEPT ![a] = "wanted"]}

Lock(a) ==
  /\ CanRun(a) /\ logging[a] = "wanted" /\ logMutex = "free"
  /\ logging' = [logging EXCEPT ![a] = "inside"]
  /\ logMutex' = a
  /\ UNCHANGED <<mainVars, objectVars, stopVars, server, signals, fault>>

(* MUTANT: the message of stop() leaves the mutex locked. *)
UnlockForgotten(a) ==
  /\ CanRun(a) /\ logging[a] = "inside"
  /\ logging' = [logging EXCEPT ![a] = "no"]
  /\ logMutex' = IF stopPc[a] = "clear" THEN a ELSE "free"
  /\ UNCHANGED <<mainVars, objectVars, stopVars, server, signals, fault>>

Unlock(a) ==
  /\ CanRun(a) /\ logging[a] = "inside"
  /\ logging' = [logging EXCEPT ![a] = "no"]
  /\ logMutex' = "free"
  /\ UNCHANGED <<mainVars, objectVars, stopVars, server, signals, fault>>

------------------------------------------------------------------------------
(* OpcUaServer::stop(), statement by statement, as either actor runs it.    *)

BeginStop(a) == stopPc' = [stopPc EXCEPT ![a] = "check"]

StopAt(a, s) == CanRun(a) /\ logging[a] = "no" /\ stopPc[a] = s

(* if (running && loggerPtr) log("Stop UA_Server.") *)
StopCheck(a) ==
  /\ StopAt(a, "check")
  /\ stopPc' = [stopPc EXCEPT ![a] = "clear"]
  /\ IF running /\ uaLogger = "set" THEN Announce(a) ELSE UNCHANGED logging
  /\ UNCHANGED <<mainVars, objectVars, old, logMutex, server, signals, fault>>

(* running = false *)
StopClear(a) ==
  /\ StopAt(a, "clear")
  /\ stopPc' = [stopPc EXCEPT ![a] = "read"]
  /\ running' = FALSE
  /\ UNCHANGED <<mainVars, uaServerPtr, uaLogger, old, logVars, server, signals, fault>>

(* uaServerPtr.reset(): read the old pointer ... *)
StopRead(a) ==
  /\ StopAt(a, "read")
  /\ stopPc' = [stopPc EXCEPT ![a] = "null"]
  /\ old' = [old EXCEPT ![a] = uaServerPtr]
  /\ UNCHANGED <<mainVars, objectVars, logVars, server, signals, fault>>

(* MUTANT: reset() replaced by release(): nobody deletes the server. *)
StopReleases(a) ==
  /\ StopAt(a, "null")
  /\ stopPc' = [stopPc EXCEPT ![a] = "idle"]
  /\ uaServerPtr' = "null"
  /\ UNCHANGED <<mainVars, running, uaLogger, old, logVars, server, signals, fault>>

(* MUTANT: the pointer is deleted and left dangling. *)
StopDangles(a) ==
  /\ StopAt(a, "null")
  /\ stopPc' = [stopPc EXCEPT ![a] = IF old[a] = "server" THEN "delete" ELSE "idle"]
  /\ UNCHANGED <<mainVars, objectVars, old, logVars, server, signals, fault>>

(* ... store null ... *)
StopNull(a) ==
  /\ StopAt(a, "null")
  /\ stopPc' = [stopPc EXCEPT ![a] = IF old[a] = "server" THEN "delete" ELSE "idle"]
  /\ uaServerPtr' = "null"
  /\ UNCHANGED <<mainVars, running, uaLogger, old, logVars, server, signals, fault>>

(* ... and hand what was read to UA_Server_delete, which logs the sessions *)
(* and channels it closes if the server was up.                             *)
StopDelete(a) ==
  /\ StopAt(a, "delete")
  /\ stopPc' = [stopPc EXCEPT ![a] = "idle"]
  /\ server' = "deleted"
  /\ IF pc \in Running THEN MayAnnounce(a) ELSE UNCHANGED logging
  /\ fault' = IF server = "deleted" THEN "doubleDelete" ELSE fault
  /\ UNCHANGED <<mainVars, objectVars, old, logMutex, signals>>

(* Deleting an object twice may be fatal. *)
StopCrashes(a) ==
  /\ StopAt(a, "delete") /\ server = "deleted"
  /\ pc' = "crashed"
  /\ fault' = "doubleDelete"
  /\ UNCHANGED <<calls, arg, available, exitCode, objectVars, stopVars, logVars, server, signals>>

StopStep(a) == \/ StopCheck(a) \/ StopClear(a) \/ StopRead(a) \/ StopNull(a)
               \/ StopDelete(a) \/ StopCrashes(a)

------------------------------------------------------------------------------
(* main() and OpcUaServer::start(). *)

(* signal(SIGINT, signalHandler); the logger is set up and used. *)
InstallHandler ==
  /\ MainAt("install")
  /\ pc' = "configure"
  /\ Announce("main")
  /\ UNCHANGED <<calls, arg, available, exitCode, objectVars, stopVars, logMutex, server, signals, fault>>

(* server.configure(rootLogger), which a running server would refuse. *)
Configure ==
  /\ MainAt("configure")
  /\ pc' = "create"
  /\ uaLogger' = IF running THEN uaLogger ELSE "set"
  /\ Announce("main")
  /\ UNCHANGED <<calls, arg, available, exitCode, running, uaServerPtr, stopVars, logMutex,
                 server, signals, fault>>

(* createServer(): the configuration and the server may be refused. *)
CreateServer ==
  /\ MainAt("create")
  /\ \/ /\ uaLogger = "set"
        /\ pc' = "created"
        /\ uaServerPtr' = "server" /\ server' = "live"
        /\ MayAnnounce("main")
        /\ UNCHANGED exitCode
     \/ /\ pc' = "report" /\ exitCode' = "failure"
        /\ Announce("main")
        /\ UNCHANGED <<uaServerPtr, server>>
  /\ UNCHANGED <<calls, arg, available, running, uaLogger, stopVars, logMutex, signals, fault>>

(* return static_cast<bool>(uaServerPtr) reads the pointer a second time. *)
CheckCreated ==
  /\ MainAt("created")
  /\ IF uaServerPtr = "null"
       THEN pc' = "report" /\ exitCode' = "failure"
       ELSE pc' = "di" /\ UNCHANGED exitCode
  /\ Announce("main")
  /\ UNCHANGED <<calls, arg, available, objectVars, stopVars, logMutex, server, signals, fault>>

(* The helper start() calls after p, given the nodesets that were loaded. *)
Following(p, av) ==
  IF p = "di" THEN "my"
  ELSE IF p = "my" THEN "default"
  ELSE IF p = "default" /\ "di" \in av THEN "diInstance"
  ELSE IF p # "myInstance" /\ "my" \in av THEN "myInstance"
  ELSE "setRunning"

(* Helper p is over; the next helper and a failed instance are announced. *)
Leave(p, good) ==
  /\ available' = IF good /\ p \in {"di", "my"} THEN available \cup {p} ELSE available
  /\ pc' = Following(p, available')
  /\ calls' = 0
  /\ IF pc' # "setRunning" \/ ~good THEN Announce("main") ELSE UNCHANGED logging

(* if (!uaServerPtr) return false: each helper asks once, at its start. *)
CheckServer ==
  \E p \in Populating :
    /\ MainAt(p) /\ calls = 0
    /\ IF uaServerPtr = "null"
         THEN Leave(p, FALSE)
         ELSE calls' = 1 /\ UNCHANGED <<pc, available, logging>>
    /\ UNCHANGED <<arg, exitCode, objectVars, stopVars, logMutex, server, signals, fault>>

(* uaServerPtr.get() is read again for each call. *)
CallServer ==
  \E p \in Populating :
    /\ MainAt(p) /\ calls > 0 /\ arg = "none"
    /\ arg' = uaServerPtr
    /\ MayAnnounce("main")
    /\ UNCHANGED <<pc, calls, available, exitCode, objectVars, stopVars, logMutex,
                   server, signals, fault>>

(* A call that returns, on a server that may be gone meanwhile. *)
Survives == /\ arg = "server"
            /\ fault' = IF server = "deleted" THEN "useAfterDelete" ELSE fault

CallReturns ==
  \E p \in Populating, good \in BOOLEAN :
    /\ MainAt(p) /\ Survives
    /\ ~good => calls \in Checked(p)
    /\ arg' = "none"
    /\ IF good /\ calls < CallsOf(p)
         THEN calls' = calls + 1 /\ UNCHANGED <<pc, available, logging>>
         ELSE Leave(p, good)
    /\ UNCHANGED <<exitCode, objectVars, stopVars, logMutex, server, signals>>

SetRunning ==
  /\ MainAt("setRunning")
  /\ pc' = "run"
  /\ running' = TRUE
  /\ Announce("main")
  /\ UNCHANGED <<calls, arg, available, exitCode, uaServerPtr, uaLogger, stopVars, logMutex,
                 server, signals, fault>>

------------------------------------------------------------------------------
(* UA_Server_run(uaServerPtr.get(), &running), of the SDK: start the        *)
(* network, iterate as long as running is set, shut the network down.        *)

EnterRun ==
  /\ MainAt("run")
  /\ pc' = "startup"
  /\ arg' = uaServerPtr
  /\ MayAnnounce("main")
  /\ UNCHANGED <<calls, available, exitCode, objectVars, stopVars, logMutex, server, signals, fault>>

(* MUTANT: a server that did not run well is not stopped. *)
RunReturnsUnstopped(good) ==
  /\ arg' = "none"
  /\ pc' = "report" /\ exitCode' = IF good THEN "success" ELSE "failure"
  /\ Announce("main") /\ UNCHANGED stopPc

(* MUTANT: the status of UA_Server_run is ignored. *)
RunReturnsGood(good) ==
  /\ arg' = "none"
  /\ pc' = "report" /\ exitCode' = "success" /\ Announce("main") /\ UNCHANGED stopPc

(* UA_Server_run returns: start() stops a server that did not run well. *)
RunReturns(good) ==
  /\ arg' = "none"
  /\ IF good THEN pc' = "report" /\ exitCode' = "success" /\ Announce("main") /\ UNCHANGED stopPc
             ELSE pc' = "failStop" /\ exitCode' = "failure" /\ BeginStop("main") /\ UNCHANGED logging

StartupReturns ==
  /\ MainAt("startup") /\ Survives
  /\ \/ pc' = "loop" /\ MayAnnounce("main") /\ UNCHANGED <<arg, exitCode, stopPc>>
     \/ RunReturns(FALSE)
  /\ UNCHANGED <<calls, available, objectVars, old, logMutex, server, signals>>

Iterate ==
  /\ MainAt("loop") /\ Survives /\ running
  /\ MayAnnounce("main")
  /\ UNCHANGED <<mainVars, objectVars, stopVars, logMutex, server, signals>>

LeaveLoop ==
  /\ MainAt("loop") /\ ~running
  /\ pc' = "shutdown"
  /\ UNCHANGED <<calls, arg, available, exitCode, objectVars, stopVars, logVars, server, signals, fault>>

ShutdownReturns ==
  /\ MainAt("shutdown") /\ Survives
  /\ \E good \in BOOLEAN : RunReturns(good)
  /\ UNCHANGED <<calls, available, objectVars, old, logMutex, server, signals>>

(* Using a null pointer is fatal, using a deleted server may be. *)
CallCrashes ==
  /\ CanRun("main") /\ Idle("main")
  /\ arg = "null" \/ (arg = "server" /\ server = "deleted")
  /\ pc' = "crashed"
  /\ fault' = IF arg = "null" THEN "nullPointer" ELSE "useAfterDelete"
  /\ UNCHANGED <<calls, arg, available, exitCode, objectVars, stopVars, logVars, server, signals>>

------------------------------------------------------------------------------
(* main returns, and the static OpcUaServer is destroyed. *)

FailStopped ==
  /\ MainAt("failStop")
  /\ pc' = "report"
  /\ Announce("main")
  /\ UNCHANGED <<calls, arg, available, exitCode, objectVars, stopVars, logMutex, server, signals, fault>>

(* ~OpcUaServer() calls stop() ... *)
Report ==
  /\ MainAt("report")
  /\ pc' = "destroy"
  /\ BeginStop("main")
  /\ UNCHANGED <<calls, arg, available, exitCode, objectVars, old, logVars, server, signals, fault>>

(* ... and then the members go: the pointer, which is null, and the loggers. *)
Destroyed ==
  /\ MainAt("destroy")
  /\ pc' = "exited"
  /\ uaLogger' = "destroyed"
  /\ UNCHANGED <<calls, arg, available, exitCode, running, uaServerPtr, stopVars, logVars,
                 server, signals, fault>>

------------------------------------------------------------------------------
(* ctrl-c: the default action before main has installed its handler, and on *)
(* Windows again after the first one; a handler that runs is not nested.    *)
Interrupt ==
  /\ ~Ended /\ signals < MaxSignals
  /\ signals' = signals + 1
  /\ IF pc = "install" \/ (HandlerOnOwnThread /\ signals > 0)
       THEN pc' = "killed" /\ UNCHANGED stopPc
       ELSE Idle("handler") /\ BeginStop("handler") /\ UNCHANGED pc
  /\ UNCHANGED <<calls, arg, available, exitCode, objectVars, old, logVars, server, fault>>

MainStep ==
  \/ InstallHandler \/ Configure \/ CreateServer \/ CheckCreated
  \/ CheckServer \/ CallServer \/ CallReturns \/ SetRunning
  \/ EnterRun \/ StartupReturns \/ Iterate \/ LeaveLoop \/ ShutdownReturns \/ CallCrashes
  \/ FailStopped \/ Report \/ Destroyed

Terminated == Ended /\ UNCHANGED vars

Next == \/ MainStep
        \/ \E a \in Actors : StopStep(a) \/ Lock(a) \/ Unlock(a)
        \/ Interrupt
        \/ Terminated

(* The scheduler runs whatever can run, and a mutex that is free again and  *)
(* again is eventually obtained.  Nobody has to press ctrl-c.               *)
Fairness == /\ WF_vars(MainStep)
            /\ \A a \in Actors : WF_vars(StopStep(a)) /\ SF_vars(Lock(a)) /\ WF_vars(Unlock(a))

Spec == Init /\ [][Next]_vars /\ Fairness

------------------------------------------------------------------------------
(* Safety. *)

(* When the loggers are destroyed with the static OpcUaServer, the SDK's    *)
(* server, which holds a raw pointer to one of them, is gone for good, on   *)
(* every way out of start(): uaServerPtr is not destroyed by anybody else   *)
(* than stop(), and the handler may be in the middle of the same stop().    *)
ServerDeletedBeforeLogger ==
  uaLogger = "destroyed" => server # "live" /\ Idle("handler")

(* main leaves start() only with running cleared, so that the stop() of the *)
(* destructor never announces a stop that has happened already.              *)
RunningClearedBeforeExit == pc \in {"report", "destroy", "exited"} => ~running

(* The program reports success only when ctrl-c was pressed, and never      *)
(* because of a server that could not start.                                 *)
ExitZeroOnlyAfterStop == exitCode = "success" => signals > 0

(* As long as nobody presses ctrl-c, each of the reads of uaServerPtr that  *)
(* start() makes finds the live server, and the two calls of stop() on the  *)
(* way out delete it once.                                                   *)
FaultOnlyAfterInterrupt == signals = 0 => fault = "none"

(* The only way to wait for the logger's mutex in vain is that of a POSIX   *)
(* handler that has interrupted main in a log call: everybody else waits    *)
(* for an owner that is another one, is writing, and can go on.             *)
OnlyHandlerWaitsInVain ==
  \A a \in Actors : logging[a] = "wanted" /\ logMutex # "free" /\ ~Ended =>
    /\ logMutex # a /\ logging[logMutex] = "inside"
    /\ CanRun(logMutex) \/ (a = "handler" /\ ~HandlerOnOwnThread)

(* main.cpp:23 "catch ctrl-c": stopping a server does not make anybody use  *)
(* or delete what has been deleted, or no server at all: stop() in the      *)
(* handler and main agree on who has the server.                            *)
StopIsSafe == fault = "none"

------------------------------------------------------------------------------
(* Liveness. *)

(* The handler that ctrl-c started comes to its end. *)
HandlerReturns == ~Idle("handler") ~> (Idle("handler") \/ Ended)

(* Once stop() has cleared running under UA_Server_run, the process ends. *)
StopEndsService == (pc = "loop" /\ ~running) ~> Ended

(* main.cpp:23 "catch ctrl-c": once the handler is done, the process ends.   *)
StopHonoured == (signals > 0 /\ Idle("handler")) ~> Ended

------------------------------------------------------------------------------
(* What the operator is promised, with the pointers and the locks hidden. *)

PhaseOf == CASE Ended -> "ended"
             [] exitCode # "none" /\ ~Ended -> "leaving"
             [] pc = "shutdown" \/ (pc = "loop" /\ ~running) -> "draining"
             [] pc = "loop" /\ running -> "serving"
             [] OTHER -> "starting"

Asked == signals > 0

OutcomeOf == IF pc \in {"crashed", "killed"} THEN "abnormal" ELSE exitCode

Promise == INSTANCE ServerProcess
             WITH phase   <- PhaseOf,
                  asked   <- Asked,
                  outcome <- OutcomeOf

(* Without fairness, on either platform. *)
KeepsPromise == Promise!SafeSpec

(* With it, where the handler cannot block main. *)
KeepsPromiseFairly == Promise!Spec
==============================================================================
