------------------------------- MODULE Logging -------------------------------
(***************************************************************************)
(* ggolbik/opcua/logging: a RootLogger hands every message to the loggers  *)
(* that are registered with it, which may be RootLoggers themselves; a     *)
(* ConsoleLogger writes it under its mutex; a UaLogger is the adapter      *)
(* through which the SDK logs.                                             *)
(*                                                                         *)
(* A call is executed statement by statement, since several threads log at *)
(* once.  The maps and the levels have no lock: they change only while     *)
(* nobody logs, as in main.cpp, which registers its console first.         *)
(***************************************************************************)
EXTENDS Integers, SequencesExt

CONSTANTS Roots, Consoles,
          Adapters,     \* the UaLogger objects
          ImplOf,       \* UaLogger::implPtr, which OpcUaServer::configure never leaves null
          Registrable,  \* what may be registered in which root: never the root itself,
                        \* directly or through others, which would never return
          Slots,        \* bound: the names of a root's map, 1..Slots in the map's order
          Threads, null,
          Levels,       \* bound: the levels the run uses
          UaLevels      \* bound: the levels of the SDK's messages

Loggers == Roots \cup Consoles

ASSUME ConstantsAssumption ==
  /\ Roots \cap Consoles = {} /\ null \notin Loggers \cup Threads
  /\ ImplOf \in [Adapters -> Loggers]
  /\ Registrable \in [Roots -> SUBSET Loggers]
  /\ Slots \in Nat
  /\ Levels \subseteq 0..7

(* A root that is registered below itself would never return. *)
ASSUME NestingAssumption ==
  /\ IsFiniteSet(Roots)
  /\ \E rank \in [Roots -> 0..Cardinality(Roots)] :
       \A r \in Roots : \A o \in Registrable[r] \cap Roots : rank[o] < rank[r]

(* enum class Level: the higher, the more important. *)
off == 0
trace == 1
debug == 2
info == 3
warn == 5
error == 6
fatal == 7

(* MUTANT: an unknown level of the SDK becomes a level that does not exist. *)
ToLevelBeyond(l) == IF l \in {"TRACE", "DEBUG", "INFO", "WARNING", "ERROR", "FATAL"}
                    THEN info ELSE fatal + 1

(* UaLogger::toLevel *)
ToLevel(l) ==
  CASE l = "TRACE" -> trace  [] l = "DEBUG" -> debug  [] l = "INFO"  -> info
    [] l = "WARNING" -> warn [] l = "ERROR" -> error  [] l = "FATAL" -> fatal
    [] OTHER -> off

VARIABLES
  level,    \* Logger::level
  loggers,  \* RootLogger::loggers: null where the map has no entry or an empty pointer
  follows,  \* history: <<o, r>> where o got its level from r, and neither level has been
            \* set since
  logMutex, \* ConsoleLogger::logMutex: its owner, or null
  call,     \* per thread: the message it logs, and the logger that got it first
  phase,    \* per thread: where its call is
  frames,   \* per thread: the fan-out loops it is in, the innermost last
  console,  \* per thread: the console whose vlog it is in, or null
  written   \* per thread: how many lines its call has made each console write

config   == <<level, loggers, follows>>
progress == <<frames, console, written>>
vars == <<config, logMutex, call, phase, progress>>

NoLines == [c \in Consoles |-> 0]
NoCall  == [entry |-> null, level |-> off, kind |-> "none", bad |-> FALSE, checked |-> FALSE]
Calls   == [entry : Loggers \cup {null}, level : off..fatal, kind : {"none", "text", "exception"},
            bad : BOOLEAN, checked : BOOLEAN]
Frames  == [root : Roots, next : 1..Slots + 1]

TypeOK ==
  /\ level \in [Loggers -> off..fatal]
  /\ loggers \in [Roots -> [1..Slots -> Loggers \cup {null}]]
  /\ follows \subseteq Loggers \X Loggers
  /\ logMutex \in [Consoles -> Threads \cup {null}]
  /\ call \in [Threads -> Calls]
  /\ phase \in [Threads -> {"idle", "fanOut", "lock", "write", "returned", "threw"}]
  /\ frames \in [Threads -> Seq(Frames)]
  /\ console \in [Threads -> Consoles \cup {null}]
  /\ written \in [Threads -> [Consoles -> Nat]]

(* A root may be constructed with a map of loggers, which keep their levels. *)
Init ==
  /\ level \in [Loggers -> Levels]
  /\ loggers \in [Roots -> [1..Slots -> Loggers \cup {null}]]
  /\ \A r \in Roots, n \in 1..Slots : loggers[r][n] \in Registrable[r] \cup {null}
  /\ follows = {}
  /\ logMutex = [c \in Consoles |-> null]
  /\ call = [t \in Threads |-> NoCall] /\ phase = [t \in Threads |-> "idle"]
  /\ frames = [t \in Threads |-> <<>>] /\ console = [t \in Threads |-> null]
  /\ written = [t \in Threads |-> NoLines]

Enabled(o, l) == level[o] <= l

------------------------------------------------------------------------------
(* Configuration. *)

Configure == (\A t \in Threads : phase[t] = "idle") /\ UNCHANGED <<logMutex, call, phase, progress>>

(* What the others got from each other, once the level of o is set. *)
Without(o) == {p \in follows : o \notin {p[1], p[2]}}

(* RootLogger does not override setLevel: its loggers keep their levels. *)
SetLevel(o, l) ==
  /\ Configure
  /\ level' = [level EXCEPT ![o] = l]
  /\ follows' = Without(o)
  /\ UNCHANGED loggers

(* o gets the level that r has, and that r may have from others. *)
Follow(o, r) ==
  Without(o) \cup {<<o, q>> : q \in {r} \cup {p \in Loggers : <<r, p>> \in Without(o)}}

(* MUTANT: without impl->setLevel(this->level). *)
RegisterOnly(r, n, o) ==
  /\ loggers' = [loggers EXCEPT ![r][n] = o]
  /\ follows' = Follow(o, r)
  /\ UNCHANGED level

(* loggers[n] = o, which takes the level of the root. *)
Register(r, n, o) ==
  /\ loggers' = [loggers EXCEPT ![r][n] = o]
  /\ level' = [level EXCEPT ![o] = level[r]]
  /\ follows' = Follow(o, r)

AddLogger(r, n, o) == Configure /\ loggers[r][n] = null /\ Register(r, n, o)

SetLogger(r, n, o) == Configure /\ Register(r, n, o)

(* removeLogger, or setLogger with an empty pointer. *)
RemoveLogger(r, n) ==
  /\ Configure
  /\ loggers' = [loggers EXCEPT ![r][n] = null]
  /\ UNCHANGED <<level, follows>>

RemoveAll(r) ==
  /\ Configure
  /\ loggers' = [loggers EXCEPT ![r] = [n \in 1..Slots |-> null]]
  /\ UNCHANGED <<level, follows>>

------------------------------------------------------------------------------
(* A message comes in. *)

(* Where a call goes on that has left a logger and has the loops fs to finish. *)
Resume(t, fs) ==
  /\ frames' = [frames EXCEPT ![t] = fs]
  /\ phase' = [phase EXCEPT ![t] = IF fs = <<>> THEN "returned" ELSE "fanOut"]

(* o->vlog(...) out of the loops fs: a root starts a loop of its own, a     *)
(* console ignores what is below its level, and every exception.            *)
Enter(t, o, c, fs) ==
  IF o \in Roots
  THEN Resume(t, Append(fs, [root |-> o, next |-> 1])) /\ UNCHANGED console
  ELSE IF c.kind = "text" /\ Enabled(o, c.level)
  THEN /\ phase' = [phase EXCEPT ![t] = "lock"]
       /\ console' = [console EXCEPT ![t] = o]
       /\ frames' = [frames EXCEPT ![t] = fs]
  ELSE Resume(t, fs) /\ UNCHANGED console

(* Logger::log checks the level at the door, vlog does not. *)
Passes(c) == c.checked => Enabled(c.entry, c.level)

Begin(t, c) ==
  /\ phase[t] = "idle"
  /\ call' = [call EXCEPT ![t] = c]
  /\ written' = [written EXCEPT ![t] = NoLines]
  /\ IF Passes(c) THEN Enter(t, c.entry, c, <<>>)
                  ELSE Resume(t, <<>>) /\ UNCHANGED console
  /\ UNCHANGED <<config, logMutex>>

(* A bad message is one that vsnprintf cannot format. *)
Log(t, o, l, bad) ==
  Begin(t, [entry |-> o, level |-> l, kind |-> "text", bad |-> bad, checked |-> TRUE])

(* With a message of its own an exception goes through the same check.      *)
LogException(t, o, l, checked) ==
  Begin(t, [entry |-> o, level |-> l, kind |-> "exception", bad |-> FALSE, checked |-> checked])

(* The SDK logs: UaLogger::vlog calls implPtr->vlog, not implPtr->log. *)
SdkLog(t, a, l, bad) ==
  Begin(t, [entry |-> ImplOf[a], level |-> ToLevel(l), kind |-> "text", bad |-> bad,
            checked |-> FALSE])

------------------------------------------------------------------------------
(* The message is handed on. *)

(* MUTANT: the loop ends one logger early. *)
FanOutShort(t) ==
  /\ phase[t] = "fanOut"
  /\ LET f    == Last(frames[t])
         rest == Front(frames[t])
         o    == loggers[f.root][f.next]
         fs   == Append(rest, [f EXCEPT !.next = @ + 1])
     IN  IF f.next >= Slots THEN Resume(t, rest) /\ UNCHANGED console
         ELSE IF o = null THEN Resume(t, fs) /\ UNCHANGED console
         ELSE Enter(t, o, call[t], fs)
  /\ UNCHANGED <<config, logMutex, call, written>>

(* RootLogger::vlog: for (auto& entry : this->loggers) *)
FanOut(t) ==
  /\ phase[t] = "fanOut"
  /\ LET f    == Last(frames[t])
         rest == Front(frames[t])
         fs   == Append(rest, [f EXCEPT !.next = @ + 1])
     IN  IF f.next > Slots THEN Resume(t, rest) /\ UNCHANGED console
         ELSE IF loggers[f.root][f.next] = null THEN Resume(t, fs) /\ UNCHANGED console
         ELSE Enter(t, loggers[f.root][f.next], call[t], fs)
  /\ UNCHANGED <<config, logMutex, call, written>>

Lock(t) ==
  /\ phase[t] = "lock" /\ logMutex[console[t]] = null
  /\ logMutex' = [logMutex EXCEPT ![console[t]] = t]
  /\ phase' = [phase EXCEPT ![t] = "write"]
  /\ UNCHANGED <<config, call, progress>>

Write(t) ==
  /\ phase[t] = "write" /\ ~call[t].bad
  /\ written' = [written EXCEPT ![t][console[t]] = @ + 1]
  /\ logMutex' = [logMutex EXCEPT ![console[t]] = null]
  /\ console' = [console EXCEPT ![t] = null]
  /\ Resume(t, frames[t])
  /\ UNCHANGED <<config, call>>

(* MUTANT: a mutex that is locked and unlocked by hand stays locked. *)
ThrowLocked(t) ==
  /\ phase[t] = "write" /\ call[t].bad
  /\ console' = [console EXCEPT ![t] = null]
  /\ frames' = [frames EXCEPT ![t] = <<>>]
  /\ phase' = [phase EXCEPT ![t] = "threw"]
  /\ UNCHANGED <<config, call, written, logMutex>>

(* vstringFormat throws: lock_guard unlocks, and the loops are left. *)
Throw(t) ==
  /\ phase[t] = "write" /\ call[t].bad
  /\ logMutex' = [logMutex EXCEPT ![console[t]] = null]
  /\ console' = [console EXCEPT ![t] = null]
  /\ frames' = [frames EXCEPT ![t] = <<>>]
  /\ phase' = [phase EXCEPT ![t] = "threw"]
  /\ UNCHANGED <<config, call, written>>

(* The caller goes on. *)
GoOn(t) ==
  /\ phase[t] \in {"returned", "threw"}
  /\ phase' = [phase EXCEPT ![t] = "idle"]
  /\ call' = [call EXCEPT ![t] = NoCall]
  /\ written' = [written EXCEPT ![t] = NoLines]
  /\ UNCHANGED <<config, logMutex, frames, console>>

------------------------------------------------------------------------------
Reconfigure ==
  \/ \E o \in Loggers, l \in Levels : SetLevel(o, l)
  \/ \E r \in Roots : \/ RemoveAll(r)
                      \/ \E n \in 1..Slots : RemoveLogger(r, n)
                      \/ \E n \in 1..Slots, o \in Registrable[r] :
                           AddLogger(r, n, o) \/ SetLogger(r, n, o)

Message(t) ==
  \/ \E o \in Loggers, l \in Levels : \/ \E bad \in BOOLEAN : Log(t, o, l, bad)
                                      \/ \E checked \in BOOLEAN : LogException(t, o, l, checked)
  \/ \E a \in Adapters, l \in UaLevels, bad \in BOOLEAN : SdkLog(t, a, l, bad)

Proceed(t) == FanOut(t) \/ Write(t) \/ Throw(t) \/ GoOn(t)

Next == Reconfigure \/ \E t \in Threads : Message(t) \/ Proceed(t) \/ Lock(t)

(* A thread that logs goes on, and gets a mutex that is free again and again. *)
Spec == /\ Init /\ [][Next]_vars
        /\ \A t \in Threads : WF_vars(Proceed(t)) /\ SF_vars(Lock(t))

------------------------------------------------------------------------------
(* Reference: on how many ways a message comes to the console c from the    *)
(* n-th name of o on; p is <<o, n>>, and maps is what is registered.        *)
WaysIn(maps, c) ==
  LET ways[p \in (Loggers \cup {null}) \X (1..Slots + 1)] ==
        IF p[1] = c THEN 1
        ELSE IF p[1] \notin Roots \/ p[2] > Slots THEN 0
        ELSE ways[<<maps[p[1]][p[2]], 1>>] + ways[<<p[1], p[2] + 1>>]
  IN  ways

Ways(c) == [o \in Loggers |-> WaysIn(loggers, c)[<<o, 1>>]]

Reaches(o, c) == Ways(c)[o] > 0

------------------------------------------------------------------------------
(* Safety. *)

(* A call that returns has made every console write its message once for    *)
(* each way it is registered on, and none that filters it; a call throws    *)
(* only where a console had to write a message that cannot be formatted.    *)
FanOutComplete ==
  \A t \in Threads : call[t].kind = "text" =>
    /\ phase[t] = "returned" /\ Passes(call[t]) =>
         \A c \in Consoles :
           written[t][c] = IF Enabled(c, call[t].level) THEN Ways(c)[call[t].entry] ELSE 0
    /\ phase[t] = "threw" =>
         call[t].bad /\ \E c \in Consoles : Reaches(call[t].entry, c) /\ Enabled(c, call[t].level)

(* A console's mutex is held only by the thread that is writing to it: also *)
(* a call that throws leaves it free.                                       *)
MutexReleased ==
  \A c \in Consoles : logMutex[c] # null =>
    phase[logMutex[c]] = "write" /\ console[logMutex[c]] = c

(* ILogger.h:30 "Checks whether the logger instance is enabled for the      *)
(* given log level?": a console behind a logger writes a message of that    *)
(* logger, the SDK's included, exactly if the logger is enabled for its     *)
(* level, unless the two levels were set apart: the console was taken over  *)
(* by the constructor, is behind another root in between that was           *)
(* registered later, was registered in another root since, or setLevel was  *)
(* called on either.                                                        *)
EnabledMeansWritten ==
  \A t \in Threads : phase[t] = "returned" /\ call[t].kind = "text" =>
    \A c \in Consoles :
      Reaches(call[t].entry, c) /\ (c = call[t].entry \/ <<c, call[t].entry>> \in follows) =>
        (written[t][c] > 0 <=> Enabled(call[t].entry, call[t].level) /\ ~call[t].bad)

(* Liveness: every call of a logger comes to an end.                        *)
CallsEnd == \A t \in Threads : phase[t] # "idle" ~> phase[t] = "idle"
==============================================================================
