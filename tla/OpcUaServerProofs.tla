-------------------------- MODULE OpcUaServerProofs --------------------------
(***************************************************************************)
(* Proofs about OpcUaServer, for both platforms unless a theorem says      *)
(* otherwise, and for any number of signals.                               *)
(***************************************************************************)
EXTENDS OpcUaServer, TLAPS

(* What the process does before it decides how it ends, and after that. *)
Deciding == {"install", "configure", "create", "created", "setRunning", "run"}
              \cup Populating \cup Running
Leaving  == {"failStop", "report", "destroy"}

(* While somebody is about to use the server. *)
Using == {"created", "setRunning", "run"} \cup Populating \cup Running

(* Where running may be set: never after UA_Server_run has returned, except *)
(* for the moment until start() has called stop().                          *)
RunningInv ==
  running => \/ pc \in {"run", "startup", "loop", "crashed", "killed"}
             \/ pc = "failStop" /\ stopPc["main"] \in {"check", "clear"}

(* What only a SIGINT can have brought about. *)
AskedInv ==
  /\ ~Idle("handler") => signals > 0
  /\ ~running /\ pc \in {"run", "startup", "loop"} => signals > 0
  /\ pc = "shutdown" => signals > 0
  /\ exitCode = "success" => signals > 0

(* When the exit code is decided, and where main itself runs stop(). *)
ControlInv ==
  /\ pc \in Deciding => exitCode = "none"
  /\ pc \in Leaving \cup {"exited"} => exitCode # "none"
  /\ stopPc["main"] # "idle" => pc \in {"failStop", "destroy"} \cup Terminal

(* Without ctrl-c the pointer, its copies and the object agree. *)
QuietInv ==
  signals = 0 =>
    /\ fault = "none"
    /\ pc \in Using => uaServerPtr = "server"
    /\ uaServerPtr = "server" => server = "live"
    /\ arg # "none" => arg = "server" /\ pc \in Populating \cup Running
    /\ stopPc["main"] = "null" => old["main"] = uaServerPtr
    /\ stopPc["main"] = "delete" => server = "live" /\ uaServerPtr = "null"

(* On POSIX a live server is owned: by the pointer, or by a stop() that is *)
(* about to delete it; and the destructor's stop() leaves no pointer.       *)
OwnedInv ==
  ~HandlerOnOwnThread =>
    /\ uaLogger = "destroyed" => pc = "exited"
    /\ pc = "exited" => server # "live" /\ Idle("handler")
    /\ server = "live" => \/ uaServerPtr = "server"
                          \/ \E a \in Actors : stopPc[a] = "delete"
    /\ \A a \in Actors : stopPc[a] = "null" /\ uaServerPtr = "server" => old[a] = "server"
    /\ pc = "destroy" /\ stopPc["main"] \in {"idle", "delete"} => uaServerPtr = "null"

IndInv == TypeOK /\ RunningInv /\ AskedInv /\ ControlInv /\ QuietInv /\ OwnedInv

------------------------------------------------------------------------------
(* The steps of Next, one by one. *)

LEMMA NextSteps ==
  ASSUME [Next]_vars
  PROVE  \/ InstallHandler \/ Configure \/ CreateServer \/ CheckCreated
         \/ CheckServer \/ CallServer \/ CallReturns \/ SetRunning
         \/ EnterRun \/ StartupReturns \/ Iterate \/ LeaveLoop
         \/ ShutdownReturns \/ CallCrashes \/ FailStopped \/ Report \/ Destroyed
         \/ \E a \in Actors : StopStep(a) \/ Lock(a) \/ Unlock(a)
         \/ Interrupt \/ UNCHANGED vars
BY Zenon DEF Next, MainStep, Terminated

LEMMA CallNumbers ==
  ASSUME NEW p \in Populating
  PROVE  CallsOf(p) \in 1..6 /\ Checked(p) \subseteq 1..6
BY DEF CallsOf, Checked, Populating

LEMMA LeaveTyped ==
  ASSUME TypeOK, NEW p \in Populating, NEW good \in BOOLEAN, Leave(p, good)
  PROVE  /\ pc' \in Statements /\ calls' \in 0..6 /\ available' \subseteq {"di", "my"}
         /\ logging' \in [Actors -> {"no", "wanted", "inside"}]
<1>1. pc' \in Statements /\ calls' = 0
  BY DEF Leave, Following, Statements, Populating
<1>2. available' \subseteq {"di", "my"}
  BY DEF Leave, TypeOK
<1>3. logging' \in [Actors -> {"no", "wanted", "inside"}]
  BY DEF Leave, Announce, TypeOK
<1> QED
  BY <1>1, <1>2, <1>3

LEMMA TypeStep == TypeOK /\ [Next]_vars => TypeOK'
<1> USE DEF TypeOK, mainVars, objectVars, stopVars, logVars
<1>1. TypeOK /\ InstallHandler => TypeOK'
  BY DEF InstallHandler, Announce, Statements, Populating, Running, Terminal, Actors
<1>2. TypeOK /\ Configure => TypeOK'
  BY DEF Configure, Announce, Statements, Populating, Running, Terminal, Actors
<1>3. TypeOK /\ CreateServer => TypeOK'
  BY DEF CreateServer, Announce, MayAnnounce, Statements, Populating, Running, Terminal, Actors
<1>4. TypeOK /\ CheckCreated => TypeOK'
  BY DEF CheckCreated, Announce, Statements, Populating, Running, Terminal, Actors
<1>5. TypeOK /\ CheckServer => TypeOK'
  <2> SUFFICES ASSUME NEW p \in Populating, TypeOK,
                      \/ Leave(p, FALSE)
                      \/ calls' = 1 /\ UNCHANGED <<pc, available, logging>>,
                      UNCHANGED <<arg, exitCode, objectVars, stopVars, logMutex, server, signals, fault>>
               PROVE  TypeOK'
    BY DEF CheckServer
  <2>1. CASE Leave(p, FALSE)
    <3>1. /\ pc' \in Statements /\ calls' \in 0..6 /\ available' \subseteq {"di", "my"}
          /\ logging' \in [Actors -> {"no", "wanted", "inside"}]
      BY <2>1, LeaveTyped
    <3> QED
      BY <3>1
  <2>2. CASE calls' = 1 /\ UNCHANGED <<pc, available, logging>>
    BY <2>2
  <2> QED
    BY <2>1, <2>2
<1>6. TypeOK /\ CallServer => TypeOK'
  BY DEF CallServer, MayAnnounce
<1>7. TypeOK /\ CallReturns => TypeOK'
  <2> SUFFICES ASSUME NEW p \in Populating, NEW good \in BOOLEAN, TypeOK,
                      \/ /\ calls < CallsOf(p) /\ calls' = calls + 1
                         /\ UNCHANGED <<pc, available, logging>>
                      \/ Leave(p, good),
                      fault' \in {fault, "useAfterDelete"}, arg' = "none",
                      UNCHANGED <<exitCode, objectVars, stopVars, logMutex, server, signals>>
               PROVE  TypeOK'
    BY DEF CallReturns, Survives
  <2>1. CASE /\ calls < CallsOf(p) /\ calls' = calls + 1
             /\ UNCHANGED <<pc, available, logging>>
    BY <2>1, CallNumbers
  <2>2. CASE Leave(p, good)
    <3>1. /\ pc' \in Statements /\ calls' \in 0..6 /\ available' \subseteq {"di", "my"}
          /\ logging' \in [Actors -> {"no", "wanted", "inside"}]
      BY <2>2, LeaveTyped
    <3> QED
      BY <3>1
  <2> QED
    BY <2>1, <2>2
<1>8. TypeOK /\ SetRunning => TypeOK'
  BY DEF SetRunning, Announce, Statements, Populating, Running, Terminal, Actors
<1>9. TypeOK /\ EnterRun => TypeOK'
  BY DEF EnterRun, MayAnnounce, Statements, Populating, Running, Terminal, Actors
<1>10. TypeOK /\ StartupReturns => TypeOK'
  BY DEF StartupReturns, Survives, MayAnnounce, RunReturns, BeginStop, Statements, Populating, Running, Terminal, Actors
<1>11. TypeOK /\ Iterate => TypeOK'
  BY DEF Iterate, Survives, MayAnnounce
<1>12. TypeOK /\ LeaveLoop => TypeOK'
  BY DEF LeaveLoop, Statements, Populating, Running, Terminal, Actors
<1>13. TypeOK /\ ShutdownReturns => TypeOK'
  BY DEF ShutdownReturns, Survives, RunReturns, Announce, BeginStop, Statements, Populating, Running, Terminal, Actors
<1>14. TypeOK /\ CallCrashes => TypeOK'
  BY DEF CallCrashes, Statements, Populating, Running, Terminal, Actors
<1>15. TypeOK /\ FailStopped => TypeOK'
  BY DEF FailStopped, Announce, Statements, Populating, Running, Terminal, Actors
<1>16. TypeOK /\ Report => TypeOK'
  BY DEF Report, BeginStop, Statements, Populating, Running, Terminal, Actors
<1>17. TypeOK /\ Destroyed => TypeOK'
  BY DEF Destroyed, Statements, Populating, Running, Terminal, Actors
<1>18. ASSUME NEW a \in Actors
       PROVE  TypeOK /\ StopStep(a) => TypeOK'
  <2>1. TypeOK /\ StopCheck(a) => TypeOK'
    BY DEF StopCheck, Announce
  <2>2. TypeOK /\ StopClear(a) => TypeOK'
    BY DEF StopClear
  <2>3. TypeOK /\ StopRead(a) => TypeOK'
    BY DEF StopRead
  <2>4. TypeOK /\ StopNull(a) => TypeOK'
    BY DEF StopNull
  <2>5. TypeOK /\ StopDelete(a) => TypeOK'
    BY DEF StopDelete, MayAnnounce
  <2>6. TypeOK /\ StopCrashes(a) => TypeOK'
    BY DEF StopCrashes, Statements, Terminal
  <2> QED
    BY <2>1, <2>2, <2>3, <2>4, <2>5, <2>6 DEF StopStep
<1>19. ASSUME NEW a \in Actors
       PROVE  TypeOK /\ Lock(a) => TypeOK'
  BY DEF Lock
<1>20. ASSUME NEW a \in Actors
       PROVE  TypeOK /\ Unlock(a) => TypeOK'
  BY DEF Unlock
<1>21. TypeOK /\ Interrupt => TypeOK'
  BY ConstantsAssumption DEF Interrupt, BeginStop, Statements, Terminal
<1>22. TypeOK /\ UNCHANGED vars => TypeOK'
  BY DEF vars
<1> HIDE DEF TypeOK
<1> QED
  BY NextSteps, <1>1, <1>2, <1>3, <1>4, <1>5, <1>6, <1>7, <1>8, <1>9, <1>10, <1>11, <1>12, <1>13,
     <1>14, <1>15, <1>16, <1>17, <1>18, <1>19, <1>20, <1>21, <1>22

(* What the steps of the helpers of start() have in common. *)
LEMMA PopulatingSteps ==
  ASSUME TypeOK, CheckServer \/ CallServer \/ CallReturns
  PROVE  /\ pc \in Populating /\ pc' \in Populating \cup {"setRunning"}
         /\ \/ arg' = "none"
            \/ arg' = uaServerPtr /\ pc' = pc
            \/ arg' = arg /\ (pc' = pc \/ uaServerPtr = "null")
         /\ fault' = fault \/ (arg = "server" /\ server = "deleted")
         /\ Idle("main") /\ CanRun("main")
         /\ logging'["handler"] = logging["handler"]
         /\ UNCHANGED <<exitCode, running, uaServerPtr, uaLogger, stopPc, old, server, signals>>
<1> USE DEF TypeOK, objectVars, stopVars, MainAt
<1>1. CASE CheckServer
  BY <1>1 DEF CheckServer, Leave, Following, Announce, Populating, Actors
<1>2. CASE CallServer
  BY <1>2 DEF CallServer, MayAnnounce, Actors
<1>3. CASE CallReturns
  BY <1>3 DEF CallReturns, Survives, Leave, Following, Announce, Populating, Actors
<1> QED
  BY <1>1, <1>2, <1>3

LEMMA RunningStep == TypeOK /\ RunningInv /\ [Next]_vars => RunningInv'
<1> USE DEF RunningInv, TypeOK, mainVars, objectVars, stopVars, logVars, MainAt, Idle, Actors
<1>1. TypeOK /\ RunningInv /\ InstallHandler => RunningInv'
  BY DEF InstallHandler, Announce, Populating
<1>2. TypeOK /\ RunningInv /\ Configure => RunningInv'
  BY DEF Configure, Announce, Populating
<1>3. TypeOK /\ RunningInv /\ CreateServer => RunningInv'
  BY DEF CreateServer, Announce, MayAnnounce, Populating
<1>4. TypeOK /\ RunningInv /\ CheckCreated => RunningInv'
  BY DEF CheckCreated, Announce, Populating
<1>5. TypeOK /\ RunningInv /\ (CheckServer \/ CallServer \/ CallReturns) => RunningInv'
  BY PopulatingSteps DEF Populating
<1>6. TypeOK /\ RunningInv /\ SetRunning => RunningInv'
  BY DEF SetRunning, Announce, Populating
<1>7. TypeOK /\ RunningInv /\ EnterRun => RunningInv'
  BY DEF EnterRun, MayAnnounce, Populating
<1>8. TypeOK /\ RunningInv /\ StartupReturns => RunningInv'
  BY DEF StartupReturns, Survives, MayAnnounce, RunReturns, BeginStop, Populating
<1>9. TypeOK /\ RunningInv /\ Iterate => RunningInv'
  BY DEF Iterate, Survives, MayAnnounce, Populating
<1>10. TypeOK /\ RunningInv /\ LeaveLoop => RunningInv'
  BY DEF LeaveLoop, Populating
<1>11. TypeOK /\ RunningInv /\ ShutdownReturns => RunningInv'
  BY DEF ShutdownReturns, Survives, RunReturns, Announce, BeginStop, Populating
<1>12. TypeOK /\ RunningInv /\ CallCrashes => RunningInv'
  BY DEF CallCrashes, Populating
<1>13. TypeOK /\ RunningInv /\ FailStopped => RunningInv'
  BY DEF FailStopped, Announce, Populating
<1>14. TypeOK /\ RunningInv /\ Report => RunningInv'
  BY DEF Report, BeginStop, Populating
<1>15. TypeOK /\ RunningInv /\ Destroyed => RunningInv'
  BY DEF Destroyed, Populating
<1>16. ASSUME NEW a \in Actors
       PROVE  TypeOK /\ RunningInv /\ StopStep(a) => RunningInv'
  <2>1. TypeOK /\ RunningInv /\ StopCheck(a) => RunningInv'
    BY DEF StopCheck, StopAt, Announce, Populating
  <2>2. TypeOK /\ RunningInv /\ StopClear(a) => RunningInv'
    BY DEF StopClear, StopAt, Populating
  <2>3. TypeOK /\ RunningInv /\ StopRead(a) => RunningInv'
    BY DEF StopRead, StopAt, Populating
  <2>4. TypeOK /\ RunningInv /\ StopNull(a) => RunningInv'
    BY DEF StopNull, StopAt, Populating
  <2>5. TypeOK /\ RunningInv /\ StopDelete(a) => RunningInv'
    BY DEF StopDelete, StopAt, MayAnnounce, Populating
  <2>6. TypeOK /\ RunningInv /\ StopCrashes(a) => RunningInv'
    BY DEF StopCrashes, StopAt, Populating
  <2> QED
    BY <2>1, <2>2, <2>3, <2>4, <2>5, <2>6 DEF StopStep
<1>17. ASSUME NEW a \in Actors
       PROVE  TypeOK /\ RunningInv /\ Lock(a) => RunningInv'
  BY DEF Lock, Populating
<1>18. ASSUME NEW a \in Actors
       PROVE  TypeOK /\ RunningInv /\ Unlock(a) => RunningInv'
  BY DEF Unlock, Populating
<1>19. TypeOK /\ RunningInv /\ Interrupt => RunningInv'
  BY DEF Interrupt, BeginStop, Populating
<1>20. TypeOK /\ RunningInv /\ UNCHANGED vars => RunningInv'
  BY DEF vars
<1> HIDE DEF RunningInv, TypeOK, mainVars, objectVars, stopVars, logVars, MainAt, Idle, Actors
<1> QED
  BY NextSteps, <1>1, <1>2, <1>3, <1>4, <1>5, <1>6, <1>7, <1>8, <1>9, <1>10, <1>11, <1>12, <1>13, <1>14, <1>15, <1>16, <1>17, <1>18, <1>19, <1>20

LEMMA AskedStep == TypeOK /\ RunningInv /\ AskedInv /\ ControlInv /\ [Next]_vars => AskedInv'
<1> DEFINE Hyp == TypeOK /\ RunningInv /\ AskedInv /\ ControlInv
<1> USE DEF RunningInv, AskedInv, ControlInv, TypeOK, mainVars, objectVars, stopVars, logVars, MainAt, Idle, Actors
<1>1. Hyp /\ InstallHandler => AskedInv'
  BY DEF InstallHandler, Announce, Populating, Terminal, CanRun, Ended
<1>2. Hyp /\ Configure => AskedInv'
  BY DEF Configure, Announce, Populating, Terminal, CanRun, Ended
<1>3. Hyp /\ CreateServer => AskedInv'
  BY DEF CreateServer, Announce, MayAnnounce, Populating, Terminal, CanRun, Ended
<1>4. Hyp /\ CheckCreated => AskedInv'
  BY DEF CheckCreated, Announce, Populating, Terminal, CanRun, Ended
<1>5. Hyp /\ (CheckServer \/ CallServer \/ CallReturns) => AskedInv'
  BY PopulatingSteps DEF Populating, Terminal, CanRun, Ended
<1>6. Hyp /\ SetRunning => AskedInv'
  BY DEF SetRunning, Announce, Populating, Terminal, CanRun, Ended
<1>7. Hyp /\ EnterRun => AskedInv'
  BY DEF EnterRun, MayAnnounce, Populating, Terminal, CanRun, Ended
<1>8. Hyp /\ StartupReturns => AskedInv'
  BY DEF StartupReturns, Survives, MayAnnounce, RunReturns, BeginStop, Populating, Terminal, CanRun, Ended
<1>9. Hyp /\ Iterate => AskedInv'
  BY DEF Iterate, Survives, MayAnnounce, Populating, Terminal, CanRun, Ended
<1>10. Hyp /\ LeaveLoop => AskedInv'
  BY DEF LeaveLoop, Populating, Terminal, CanRun, Ended
<1>11. Hyp /\ ShutdownReturns => AskedInv'
  BY DEF ShutdownReturns, Survives, RunReturns, Announce, BeginStop, Populating, Terminal, CanRun, Ended
<1>12. Hyp /\ CallCrashes => AskedInv'
  BY DEF CallCrashes, Populating, Terminal, CanRun, Ended
<1>13. Hyp /\ FailStopped => AskedInv'
  BY DEF FailStopped, Announce, Populating, Terminal, CanRun, Ended
<1>14. Hyp /\ Report => AskedInv'
  BY DEF Report, BeginStop, Populating, Terminal, CanRun, Ended
<1>15. Hyp /\ Destroyed => AskedInv'
  BY DEF Destroyed, Populating, Terminal, CanRun, Ended
<1>16. ASSUME NEW a \in Actors
       PROVE  Hyp /\ StopStep(a) => AskedInv'
  <2>1. Hyp /\ StopCheck(a) => AskedInv'
    BY DEF StopCheck, StopAt, Announce, Populating, Terminal, CanRun, Ended
  <2>2. Hyp /\ StopClear(a) => AskedInv'
    BY DEF StopClear, StopAt, Populating, Terminal, CanRun, Ended
  <2>3. Hyp /\ StopRead(a) => AskedInv'
    BY DEF StopRead, StopAt, Populating, Terminal, CanRun, Ended
  <2>4. Hyp /\ StopNull(a) => AskedInv'
    BY DEF StopNull, StopAt, Populating, Terminal, CanRun, Ended
  <2>5. Hyp /\ StopDelete(a) => AskedInv'
    BY DEF StopDelete, StopAt, MayAnnounce, Populating, Terminal, CanRun, Ended
  <2>6. Hyp /\ StopCrashes(a) => AskedInv'
    BY DEF StopCrashes, StopAt, Populating, Terminal, CanRun, Ended
  <2> QED
    BY <2>1, <2>2, <2>3, <2>4, <2>5, <2>6 DEF StopStep
<1>17. ASSUME NEW a \in Actors
       PROVE  Hyp /\ Lock(a) => AskedInv'
  BY DEF Lock, Populating, Terminal, CanRun, Ended
<1>18. ASSUME NEW a \in Actors
       PROVE  Hyp /\ Unlock(a) => AskedInv'
  BY DEF Unlock, Populating, Terminal, CanRun, Ended
<1>19. Hyp /\ Interrupt => AskedInv'
  BY DEF Interrupt, BeginStop, Populating, Terminal, CanRun, Ended
<1>20. Hyp /\ UNCHANGED vars => AskedInv'
  BY DEF vars
<1> HIDE DEF RunningInv, AskedInv, ControlInv, TypeOK, mainVars, objectVars, stopVars, logVars, MainAt, Idle, Actors
<1> QED
  BY NextSteps, <1>1, <1>2, <1>3, <1>4, <1>5, <1>6, <1>7, <1>8, <1>9, <1>10, <1>11, <1>12,
     <1>13, <1>14, <1>15, <1>16, <1>17, <1>18, <1>19, <1>20

LEMMA ControlStep == TypeOK /\ ControlInv /\ [Next]_vars => ControlInv'
<1> USE DEF ControlInv, TypeOK, mainVars, objectVars, stopVars, logVars, MainAt, Idle, Actors
<1>1. TypeOK /\ ControlInv /\ InstallHandler => ControlInv'
  BY DEF InstallHandler, Announce, Deciding, Leaving, Populating, Running, Terminal, CanRun, Ended
<1>2. TypeOK /\ ControlInv /\ Configure => ControlInv'
  BY DEF Configure, Announce, Deciding, Leaving, Populating, Running, Terminal, CanRun, Ended
<1>3. TypeOK /\ ControlInv /\ CreateServer => ControlInv'
  BY DEF CreateServer, Announce, MayAnnounce, Deciding, Leaving, Populating, Running, Terminal, CanRun, Ended
<1>4. TypeOK /\ ControlInv /\ CheckCreated => ControlInv'
  BY DEF CheckCreated, Announce, Deciding, Leaving, Populating, Running, Terminal, CanRun, Ended
<1>5. TypeOK /\ ControlInv /\ (CheckServer \/ CallServer \/ CallReturns) => ControlInv'
  BY PopulatingSteps DEF Deciding, Leaving, Populating, Running, Terminal, CanRun, Ended
<1>6. TypeOK /\ ControlInv /\ SetRunning => ControlInv'
  BY DEF SetRunning, Announce, Deciding, Leaving, Populating, Running, Terminal, CanRun, Ended
<1>7. TypeOK /\ ControlInv /\ EnterRun => ControlInv'
  BY DEF EnterRun, MayAnnounce, Deciding, Leaving, Populating, Running, Terminal, CanRun, Ended
<1>8. TypeOK /\ ControlInv /\ StartupReturns => ControlInv'
  BY DEF StartupReturns, Survives, MayAnnounce, RunReturns, BeginStop, Deciding, Leaving, Populating, Running, Terminal, CanRun, Ended
<1>9. TypeOK /\ ControlInv /\ Iterate => ControlInv'
  BY DEF Iterate, Survives, MayAnnounce, Deciding, Leaving, Populating, Running, Terminal, CanRun, Ended
<1>10. TypeOK /\ ControlInv /\ LeaveLoop => ControlInv'
  BY DEF LeaveLoop, Deciding, Leaving, Populating, Running, Terminal, CanRun, Ended
<1>11. TypeOK /\ ControlInv /\ ShutdownReturns => ControlInv'
  BY DEF ShutdownReturns, Survives, RunReturns, Announce, BeginStop, Deciding, Leaving, Populating, Running, Terminal, CanRun, Ended
<1>12. TypeOK /\ ControlInv /\ CallCrashes => ControlInv'
  BY DEF CallCrashes, Deciding, Leaving, Populating, Running, Terminal, CanRun, Ended
<1>13. TypeOK /\ ControlInv /\ FailStopped => ControlInv'
  BY DEF FailStopped, Announce, Deciding, Leaving, Populating, Running, Terminal, CanRun, Ended
<1>14. TypeOK /\ ControlInv /\ Report => ControlInv'
  BY DEF Report, BeginStop, Deciding, Leaving, Populating, Running, Terminal, CanRun, Ended
<1>15. TypeOK /\ ControlInv /\ Destroyed => ControlInv'
  BY DEF Destroyed, Deciding, Leaving, Populating, Running, Terminal, CanRun, Ended
<1>16. ASSUME NEW a \in Actors
       PROVE  TypeOK /\ ControlInv /\ StopStep(a) => ControlInv'
  <2>1. TypeOK /\ ControlInv /\ StopCheck(a) => ControlInv'
    BY DEF StopCheck, StopAt, Announce, Deciding, Leaving, Populating, Running, Terminal, CanRun, Ended
  <2>2. TypeOK /\ ControlInv /\ StopClear(a) => ControlInv'
    BY DEF StopClear, StopAt, Deciding, Leaving, Populating, Running, Terminal, CanRun, Ended
  <2>3. TypeOK /\ ControlInv /\ StopRead(a) => ControlInv'
    BY DEF StopRead, StopAt, Deciding, Leaving, Populating, Running, Terminal, CanRun, Ended
  <2>4. TypeOK /\ ControlInv /\ StopNull(a) => ControlInv'
    BY DEF StopNull, StopAt, Deciding, Leaving, Populating, Running, Terminal, CanRun, Ended
  <2>5. TypeOK /\ ControlInv /\ StopDelete(a) => ControlInv'
    BY DEF StopDelete, StopAt, MayAnnounce, Deciding, Leaving, Populating, Running, Terminal, CanRun, Ended
  <2>6. TypeOK /\ ControlInv /\ StopCrashes(a) => ControlInv'
    BY DEF StopCrashes, StopAt, Deciding, Leaving, Populating, Running, Terminal, CanRun, Ended
  <2> QED
    BY <2>1, <2>2, <2>3, <2>4, <2>5, <2>6 DEF StopStep
<1>17. ASSUME NEW a \in Actors
       PROVE  TypeOK /\ ControlInv /\ Lock(a) => ControlInv'
  BY DEF Lock, Deciding, Leaving, Populating, Running, Terminal, CanRun, Ended
<1>18. ASSUME NEW a \in Actors
       PROVE  TypeOK /\ ControlInv /\ Unlock(a) => ControlInv'
  BY DEF Unlock, Deciding, Leaving, Populating, Running, Terminal, CanRun, Ended
<1>19. TypeOK /\ ControlInv /\ Interrupt => ControlInv'
  BY DEF Interrupt, BeginStop, Deciding, Leaving, Populating, Running, Terminal, CanRun, Ended
<1>20. TypeOK /\ ControlInv /\ UNCHANGED vars => ControlInv'
  BY DEF vars
<1> HIDE DEF ControlInv, TypeOK, mainVars, objectVars, stopVars, logVars, MainAt, Idle, Actors
<1> QED
  BY NextSteps, <1>1, <1>2, <1>3, <1>4, <1>5, <1>6, <1>7, <1>8, <1>9, <1>10, <1>11, <1>12,
     <1>13, <1>14, <1>15, <1>16, <1>17, <1>18, <1>19, <1>20

LEMMA QuietStep == TypeOK /\ AskedInv /\ ControlInv /\ QuietInv /\ [Next]_vars => QuietInv'
<1> DEFINE Hyp == TypeOK /\ AskedInv /\ ControlInv /\ QuietInv
<1> USE DEF AskedInv, ControlInv, QuietInv, TypeOK, mainVars, objectVars, stopVars, logVars, MainAt, Idle, Actors
<1>1. Hyp /\ InstallHandler => QuietInv'
  BY DEF InstallHandler, Announce, Using, Deciding, Populating, Running, Terminal, CanRun, Ended
<1>2. Hyp /\ Configure => QuietInv'
  BY DEF Configure, Announce, Using, Deciding, Populating, Running, Terminal, CanRun, Ended
<1>3. Hyp /\ CreateServer => QuietInv'
  BY DEF CreateServer, Announce, MayAnnounce, Using, Deciding, Populating, Running, Terminal, CanRun, Ended
<1>4. Hyp /\ CheckCreated => QuietInv'
  BY DEF CheckCreated, Announce, Using, Deciding, Populating, Running, Terminal, CanRun, Ended
<1>5. Hyp /\ (CheckServer \/ CallServer \/ CallReturns) => QuietInv'
  BY PopulatingSteps DEF Using, Deciding, Populating, Running, Terminal, CanRun, Ended
<1>6. Hyp /\ SetRunning => QuietInv'
  BY DEF SetRunning, Announce, Using, Deciding, Populating, Running, Terminal, CanRun, Ended
<1>7. Hyp /\ EnterRun => QuietInv'
  BY DEF EnterRun, MayAnnounce, Using, Deciding, Populating, Running, Terminal, CanRun, Ended
<1>8. Hyp /\ StartupReturns => QuietInv'
  BY DEF StartupReturns, Survives, MayAnnounce, RunReturns, BeginStop, Using, Deciding, Populating, Running, Terminal, CanRun, Ended
<1>9. Hyp /\ Iterate => QuietInv'
  BY DEF Iterate, Survives, MayAnnounce, Using, Deciding, Populating, Running, Terminal, CanRun, Ended
<1>10. Hyp /\ LeaveLoop => QuietInv'
  BY DEF LeaveLoop, Using, Deciding, Populating, Running, Terminal, CanRun, Ended
<1>11. Hyp /\ ShutdownReturns => QuietInv'
  BY DEF ShutdownReturns, Survives, RunReturns, Announce, BeginStop, Using, Deciding, Populating, Running, Terminal, CanRun, Ended
<1>12. Hyp /\ CallCrashes => QuietInv'
  BY DEF CallCrashes, Using, Deciding, Populating, Running, Terminal, CanRun, Ended
<1>13. Hyp /\ FailStopped => QuietInv'
  BY DEF FailStopped, Announce, Using, Deciding, Populating, Running, Terminal, CanRun, Ended
<1>14. Hyp /\ Report => QuietInv'
  BY DEF Report, BeginStop, Using, Deciding, Populating, Running, Terminal, CanRun, Ended
<1>15. Hyp /\ Destroyed => QuietInv'
  BY DEF Destroyed, Using, Deciding, Populating, Running, Terminal, CanRun, Ended
<1>16. ASSUME NEW a \in Actors
       PROVE  Hyp /\ StopStep(a) => QuietInv'
  <2>1. Hyp /\ StopCheck(a) => QuietInv'
    BY DEF StopCheck, StopAt, Announce, Using, Deciding, Populating, Running, Terminal, CanRun, Ended
  <2>2. Hyp /\ StopClear(a) => QuietInv'
    BY DEF StopClear, StopAt, Using, Deciding, Populating, Running, Terminal, CanRun, Ended
  <2>3. Hyp /\ StopRead(a) => QuietInv'
    BY DEF StopRead, StopAt, Using, Deciding, Populating, Running, Terminal, CanRun, Ended
  <2>4. Hyp /\ StopNull(a) => QuietInv'
    BY DEF StopNull, StopAt, Using, Deciding, Populating, Running, Terminal, CanRun, Ended
  <2>5. Hyp /\ StopDelete(a) => QuietInv'
    BY DEF StopDelete, StopAt, MayAnnounce, Using, Deciding, Populating, Running, Terminal, CanRun, Ended
  <2>6. Hyp /\ StopCrashes(a) => QuietInv'
    BY DEF StopCrashes, StopAt, Using, Deciding, Populating, Running, Terminal, CanRun, Ended
  <2> QED
    BY <2>1, <2>2, <2>3, <2>4, <2>5, <2>6 DEF StopStep
<1>17. ASSUME NEW a \in Actors
       PROVE  Hyp /\ Lock(a) => QuietInv'
  BY DEF Lock, Using, Deciding, Populating, Running, Terminal, CanRun, Ended
<1>18. ASSUME NEW a \in Actors
       PROVE  Hyp /\ Unlock(a) => QuietInv'
  BY DEF Unlock, Using, Deciding, Populating, Running, Terminal, CanRun, Ended
<1>19. Hyp /\ Interrupt => QuietInv'
  BY DEF Interrupt, BeginStop, Using, Deciding, Populating, Running, Terminal, CanRun, Ended
<1>20. Hyp /\ UNCHANGED vars => QuietInv'
  BY DEF vars
<1> HIDE DEF AskedInv, ControlInv, QuietInv, TypeOK, mainVars, objectVars, stopVars, logVars, MainAt, Idle, Actors
<1> QED
  BY NextSteps, <1>1, <1>2, <1>3, <1>4, <1>5, <1>6, <1>7, <1>8, <1>9, <1>10, <1>11, <1>12,
     <1>13, <1>14, <1>15, <1>16, <1>17, <1>18, <1>19, <1>20

LEMMA OwnedStep == TypeOK /\ ControlInv /\ OwnedInv /\ [Next]_vars => OwnedInv'
<1> DEFINE Hyp == TypeOK /\ ControlInv /\ OwnedInv
<1> USE DEF ControlInv, OwnedInv, TypeOK, mainVars, objectVars, stopVars, logVars, MainAt, Idle, Actors
<1>1. Hyp /\ InstallHandler => OwnedInv'
  BY DEF InstallHandler, Announce, Populating, Running, Terminal, CanRun, Ended
<1>2. Hyp /\ Configure => OwnedInv'
  BY DEF Configure, Announce, Populating, Running, Terminal, CanRun, Ended
<1>3. Hyp /\ CreateServer => OwnedInv'
  BY DEF CreateServer, Announce, MayAnnounce, Populating, Running, Terminal, CanRun, Ended
<1>4. Hyp /\ CheckCreated => OwnedInv'
  BY DEF CheckCreated, Announce, Populating, Running, Terminal, CanRun, Ended
<1>5. Hyp /\ (CheckServer \/ CallServer \/ CallReturns) => OwnedInv'
  BY PopulatingSteps DEF Populating, Running, Terminal, CanRun, Ended
<1>6. Hyp /\ SetRunning => OwnedInv'
  BY DEF SetRunning, Announce, Populating, Running, Terminal, CanRun, Ended
<1>7. Hyp /\ EnterRun => OwnedInv'
  BY DEF EnterRun, MayAnnounce, Populating, Running, Terminal, CanRun, Ended
<1>8. Hyp /\ StartupReturns => OwnedInv'
  BY DEF StartupReturns, Survives, MayAnnounce, RunReturns, BeginStop, Populating, Running, Terminal, CanRun, Ended
<1>9. Hyp /\ Iterate => OwnedInv'
  BY DEF Iterate, Survives, MayAnnounce, Populating, Running, Terminal, CanRun, Ended
<1>10. Hyp /\ LeaveLoop => OwnedInv'
  BY DEF LeaveLoop, Populating, Running, Terminal, CanRun, Ended
<1>11. Hyp /\ ShutdownReturns => OwnedInv'
  BY DEF ShutdownReturns, Survives, RunReturns, Announce, BeginStop, Populating, Running, Terminal, CanRun, Ended
<1>12. Hyp /\ CallCrashes => OwnedInv'
  BY DEF CallCrashes, Populating, Running, Terminal, CanRun, Ended
<1>13. Hyp /\ FailStopped => OwnedInv'
  BY DEF FailStopped, Announce, Populating, Running, Terminal, CanRun, Ended
<1>14. Hyp /\ Report => OwnedInv'
  BY DEF Report, BeginStop, Populating, Running, Terminal, CanRun, Ended
<1>15. Hyp /\ Destroyed => OwnedInv'
  BY DEF Destroyed, Populating, Running, Terminal, CanRun, Ended
<1>16. ASSUME NEW a \in Actors
       PROVE  Hyp /\ StopStep(a) => OwnedInv'
  <2>1. Hyp /\ StopCheck(a) => OwnedInv'
    BY DEF StopCheck, StopAt, Announce, Populating, Running, Terminal, CanRun, Ended
  <2>2. Hyp /\ StopClear(a) => OwnedInv'
    BY DEF StopClear, StopAt, Populating, Running, Terminal, CanRun, Ended
  <2>3. Hyp /\ StopRead(a) => OwnedInv'
    BY DEF StopRead, StopAt, Populating, Running, Terminal, CanRun, Ended
  <2>4. Hyp /\ StopNull(a) => OwnedInv'
    BY DEF StopNull, StopAt, Populating, Running, Terminal, CanRun, Ended
  <2>5. Hyp /\ StopDelete(a) => OwnedInv'
    BY DEF StopDelete, StopAt, MayAnnounce, Populating, Running, Terminal, CanRun, Ended
  <2>6. Hyp /\ StopCrashes(a) => OwnedInv'
    BY DEF StopCrashes, StopAt, Populating, Running, Terminal, CanRun, Ended
  <2> QED
    BY <2>1, <2>2, <2>3, <2>4, <2>5, <2>6 DEF StopStep
<1>17. ASSUME NEW a \in Actors
       PROVE  Hyp /\ Lock(a) => OwnedInv'
  BY DEF Lock, Populating, Running, Terminal, CanRun, Ended
<1>18. ASSUME NEW a \in Actors
       PROVE  Hyp /\ Unlock(a) => OwnedInv'
  BY DEF Unlock, Populating, Running, Terminal, CanRun, Ended
<1>19. Hyp /\ Interrupt => OwnedInv'
  BY DEF Interrupt, BeginStop, Populating, Running, Terminal, CanRun, Ended
<1>20. Hyp /\ UNCHANGED vars => OwnedInv'
  BY DEF vars
<1> HIDE DEF ControlInv, OwnedInv, TypeOK, mainVars, objectVars, stopVars, logVars, MainAt, Idle, Actors
<1> QED
  BY NextSteps, <1>1, <1>2, <1>3, <1>4, <1>5, <1>6, <1>7, <1>8, <1>9, <1>10, <1>11, <1>12,
     <1>13, <1>14, <1>15, <1>16, <1>17, <1>18, <1>19, <1>20

------------------------------------------------------------------------------
(* The inductive invariant, and what follows from it. *)

LEMMA IndInvInit == Init => IndInv
<1>1. Init => TypeOK
  <2>1. Init => pc \in Statements
    BY DEF Init, Statements
  <2>2. Init => signals \in 0..MaxSignals /\ calls \in 0..6 /\ available \subseteq {"di", "my"}
    BY ConstantsAssumption DEF Init
  <2>3. Init => /\ stopPc \in [Actors -> {"idle", "check", "clear", "read", "null", "delete"}]
                /\ old \in [Actors -> {"null", "server"}]
                /\ logging \in [Actors -> {"no", "wanted", "inside"}]
    BY DEF Init
  <2> QED
    BY <2>1, <2>2, <2>3 DEF Init, TypeOK
<1>2. Init => RunningInv /\ AskedInv /\ ControlInv
  BY DEF Init, RunningInv, AskedInv, ControlInv, Idle, Actors, Leaving
<1>3. Init => QuietInv /\ OwnedInv
  BY DEF Init, QuietInv, OwnedInv, Idle, Actors, Using, Populating, Running
<1> QED
  BY <1>1, <1>2, <1>3 DEF IndInv

THEOREM Invariance == Spec => []IndInv
<1>1. IndInv /\ [Next]_vars => IndInv'
  BY TypeStep, RunningStep, AskedStep, ControlStep, QuietStep, OwnedStep DEF IndInv
<1> QED
  BY IndInvInit, <1>1, PTL DEF Spec

(* Every variable of the process keeps its type. *)
THEOREM TypeCorrect == Spec => []TypeOK
<1>1. IndInv => TypeOK
  BY DEF IndInv
<1> QED
  BY Invariance, <1>1, PTL

(* On either platform, as long as nobody presses ctrl-c, no call of the SDK *)
(* gets a null or a deleted server, and none is deleted twice.              *)
THEOREM NoFaultUnasked == Spec => []FaultOnlyAfterInterrupt
<1>1. IndInv => FaultOnlyAfterInterrupt
  BY DEF IndInv, QuietInv, FaultOnlyAfterInterrupt
<1> QED
  BY Invariance, <1>1, PTL

(* main leaves start() with running cleared, on every path. *)
THEOREM RunningCleared == Spec => []RunningClearedBeforeExit
<1>1. IndInv => RunningClearedBeforeExit
  BY DEF IndInv, RunningInv, TypeOK, RunningClearedBeforeExit
<1> QED
  BY Invariance, <1>1, PTL

(* Exit code 0 means that somebody pressed ctrl-c. *)
THEOREM ZeroOnlyAfterStop == Spec => []ExitZeroOnlyAfterStop
<1>1. IndInv => ExitZeroOnlyAfterStop
  BY DEF IndInv, AskedInv, ExitZeroOnlyAfterStop
<1> QED
  BY Invariance, <1>1, PTL

(* On POSIX, and there for any number of signals, the SDK's server is gone  *)
(* before the logger it points to.                                          *)
THEOREM LoggerOutlivesServer ==
  ASSUME ~HandlerOnOwnThread
  PROVE  Spec => []ServerDeletedBeforeLogger
<1>1. IndInv => ServerDeletedBeforeLogger
  BY DEF IndInv, OwnedInv, ServerDeletedBeforeLogger
<1> QED
  BY Invariance, <1>1, PTL

------------------------------------------------------------------------------
(* Who waits for the logger's mutex. *)

(* The owner of the mutex is who is writing. *)
OwnerInv == \A a \in Actors : logMutex = a <=> logging[a] = "inside"

(* A step in which a writes nothing, though it may have something to log. *)
Quiet(a) ==
  /\ logMutex' = logMutex
  /\ \/ logging' = logging
     \/ logging[a] = "no" /\ logging' = [logging EXCEPT ![a] = "wanted"]

LEMMA MainIsQuiet == MainStep => Quiet("main")
<1> USE DEF MainAt, Idle, Announce, MayAnnounce, Quiet, logVars
<1>1. InstallHandler \/ Configure \/ CreateServer \/ CheckCreated => Quiet("main")
  BY DEF InstallHandler, Configure, CreateServer, CheckCreated
<1>2. CheckServer \/ CallServer \/ CallReturns \/ SetRunning => Quiet("main")
  BY DEF CheckServer, CallServer, CallReturns, SetRunning, Leave
<1>3. EnterRun \/ StartupReturns \/ Iterate \/ LeaveLoop => Quiet("main")
  BY DEF EnterRun, StartupReturns, Iterate, LeaveLoop, RunReturns
<1>4. ShutdownReturns \/ CallCrashes \/ FailStopped \/ Report \/ Destroyed => Quiet("main")
  BY DEF ShutdownReturns, CallCrashes, FailStopped, Report, Destroyed, RunReturns
<1> QED
  BY <1>1, <1>2, <1>3, <1>4 DEF MainStep

LEMMA StopIsQuiet ==
  ASSUME NEW a \in Actors, StopStep(a)
  PROVE  Quiet(a)
BY DEF StopStep, StopCheck, StopClear, StopRead, StopNull, StopDelete, StopCrashes,
       StopAt, Announce, MayAnnounce, Quiet, logVars

LEMMA OwnerStep == TypeOK /\ OwnerInv /\ [Next]_vars => OwnerInv'
<1> SUFFICES ASSUME TypeOK, OwnerInv, [Next]_vars
             PROVE  OwnerInv'
  OBVIOUS
<1>1. ASSUME NEW a \in Actors, Quiet(a)
      PROVE  OwnerInv'
  BY <1>1 DEF Quiet, OwnerInv, TypeOK
<1>2. ASSUME NEW a \in Actors, Lock(a)
      PROVE  OwnerInv'
  BY <1>2 DEF Lock, OwnerInv, TypeOK, Actors
<1>3. ASSUME NEW a \in Actors, Unlock(a)
      PROVE  OwnerInv'
  BY <1>3 DEF Unlock, OwnerInv, TypeOK, Actors
<1>4. CASE MainStep
  BY <1>1, <1>4, MainIsQuiet DEF Actors
<1>5. CASE \E a \in Actors : StopStep(a)
  BY <1>1, <1>5, StopIsQuiet
<1>6. CASE Interrupt \/ UNCHANGED vars
  BY <1>6 DEF Interrupt, vars, logVars, OwnerInv
<1> QED
  BY <1>2, <1>3, <1>4, <1>5, <1>6 DEF Next, Terminated

(* Nobody waits in vain for the mutex of ConsoleLogger::vlog but a signal   *)
(* handler on the stack of the main() that holds it.                        *)
THEOREM NoOtherDeadlock == Spec => []OnlyHandlerWaitsInVain
<1>1. Init => OwnerInv
  BY DEF Init, OwnerInv, Actors
<1>2. TypeOK /\ OwnerInv => OnlyHandlerWaitsInVain
  BY DEF TypeOK, OwnerInv, OnlyHandlerWaitsInVain, CanRun, Actors
<1> QED
  BY <1>1, <1>2, OwnerStep, TypeCorrect, PTL DEF Spec

------------------------------------------------------------------------------
(* The process implements ServerProcess. *)

(* What PhaseOf is, statement by statement of main. *)
PhaseTable ==
  /\ Ended => PhaseOf = "ended"
  /\ pc \in Leaving => PhaseOf = "leaving"
  /\ pc = "shutdown" => PhaseOf = "draining"
  /\ pc = "loop" => PhaseOf = IF running THEN "serving" ELSE "draining"
  /\ pc \in Deciding \ {"loop", "shutdown"} => PhaseOf = "starting"

LEMMA PhaseFacts == (IndInv => PhaseTable) /\ (IndInv' => PhaseTable')
<1> USE DEF PhaseTable, TypeOK, ControlInv, PhaseOf, Ended, Terminal, Leaving, Deciding,
            Populating, Running
<1>1. IndInv => PhaseTable
  BY DEF IndInv
<1>2. IndInv' => PhaseTable'
  BY DEF IndInv
<1> QED
  BY <1>1, <1>2

(* A step into undefined behaviour has been asked for. *)
LEMMA CrashesAreAsked ==
  ASSUME IndInv, CallCrashes \/ \E a \in Actors : StopCrashes(a)
  PROVE  signals > 0 /\ ~Ended /\ pc' = "crashed" /\ signals' = signals
<1> USE DEF IndInv, TypeOK, Idle, CanRun, Ended
<1>1. CASE CallCrashes
  BY <1>1 DEF CallCrashes, QuietInv, Using, Populating, Running
<1>2. ASSUME NEW a \in Actors, StopCrashes(a)
      PROVE  signals > 0 /\ ~Ended /\ pc' = "crashed" /\ signals' = signals
  BY <1>2 DEF StopCrashes, StopAt, QuietInv, AskedInv, Actors
<1> QED
  BY <1>1, <1>2

LEMMA RefinementStep == IndInv /\ IndInv' /\ [Next]_vars => [Promise!Next]_(Promise!vars)
<1> SUFFICES ASSUME IndInv, IndInv', [Next]_vars
             PROVE  [Promise!Next]_<<PhaseOf, Asked, OutcomeOf>>
  BY DEF Promise!vars
<1> USE DEF MainAt, mainVars, objectVars, stopVars, logVars, Asked, OutcomeOf
<1>0. PhaseTable /\ PhaseTable'
  BY PhaseFacts
<1>1. CASE InstallHandler \/ Configure \/ SetRunning \/ EnterRun
  <2>1. UNCHANGED <<PhaseOf, Asked, OutcomeOf>>
    BY <1>0, <1>1 DEF PhaseTable, InstallHandler, Configure, SetRunning, EnterRun, Deciding, Running
  <2> QED
    BY <2>1
<1>2. CASE CreateServer \/ CheckCreated
  BY <1>0, <1>2 DEF PhaseTable, CreateServer, CheckCreated, Deciding, Leaving, Populating, IndInv, ControlInv, Promise!Next, Promise!Fail
<1>3. CASE CheckServer \/ CallServer \/ CallReturns
  <2>1. UNCHANGED <<PhaseOf, Asked, OutcomeOf>>
    BY <1>0, <1>3, PopulatingSteps DEF PhaseTable, IndInv, Deciding, Populating
  <2> QED
    BY <2>1
<1>4. CASE StartupReturns
  BY <1>0, <1>4 DEF PhaseTable, StartupReturns, RunReturns, Deciding, Leaving, Running, IndInv, ControlInv, AskedInv,
                    Promise!Next, Promise!Serve, Promise!Drain, Promise!Fail
<1>5. CASE Iterate \/ LeaveLoop
  <2>1. UNCHANGED <<PhaseOf, Asked, OutcomeOf>>
    BY <1>0, <1>5 DEF PhaseTable, Iterate, LeaveLoop
  <2> QED
    BY <2>1
<1>6. CASE ShutdownReturns
  BY <1>0, <1>6 DEF PhaseTable, ShutdownReturns, RunReturns, Leaving, Promise!Next, Promise!Drained
<1>7. CASE FailStopped \/ Report
  <2>1. UNCHANGED <<PhaseOf, Asked, OutcomeOf>>
    BY <1>0, <1>7 DEF PhaseTable, FailStopped, Report, Leaving
  <2> QED
    BY <2>1
<1>8. CASE Destroyed
  BY <1>0, <1>8 DEF PhaseTable, Destroyed, Leaving, Ended, Terminal, Promise!Next, Promise!End
<1>9. CASE CallCrashes \/ \E a \in Actors : StopCrashes(a)
  <2>1. signals > 0 /\ ~Ended /\ pc' = "crashed" /\ signals' = signals
    BY <1>9, CrashesAreAsked
  <2>2. PhaseOf # "ended" /\ PhaseOf' = "ended"
    BY <2>1, <1>0 DEF PhaseTable, PhaseOf, Ended, Terminal
  <2> QED
    BY <2>1, <2>2 DEF Promise!Next, Promise!Abort
<1>10. ASSUME NEW a \in Actors, StopClear(a)
       PROVE  [Promise!Next]_<<PhaseOf, Asked, OutcomeOf>>
  <2>1. pc' = pc /\ ~Ended /\ signals' = signals /\ exitCode' = exitCode /\ ~running'
    BY <1>10 DEF StopClear, StopAt, CanRun
  <2>2. CASE pc = "loop" /\ running
    <3>1. signals > 0
      BY <1>10, <2>2 DEF StopClear, StopAt, IndInv, AskedInv, ControlInv, Idle, Actors, Terminal
    <3> QED
      BY <1>0, <2>1, <2>2, <3>1 DEF PhaseTable, Promise!Next, Promise!Drain
  <2>3. CASE ~(pc = "loop" /\ running)
    <3>1. UNCHANGED <<PhaseOf, Asked, OutcomeOf>>
      BY <1>0, <2>1, <2>3 DEF PhaseTable, PhaseOf, Ended
    <3> QED
      BY <3>1
  <2> QED
    BY <2>2, <2>3
<1>11. ASSUME NEW a \in Actors,
              \/ StopCheck(a) \/ StopRead(a) \/ StopNull(a) \/ StopDelete(a) \/ Lock(a) \/ Unlock(a)
       PROVE  UNCHANGED <<PhaseOf, Asked, OutcomeOf>>
  BY <1>11 DEF StopCheck, StopRead, StopNull, StopDelete, Lock, Unlock, PhaseOf, Ended
<1>12. CASE Interrupt
  <2>1. ~Ended /\ signals' > 0 /\ exitCode' = exitCode /\ running' = running
    BY <1>12 DEF Interrupt, IndInv, TypeOK
  <2>2. CASE pc' = pc
    BY <1>0, <2>1, <2>2 DEF PhaseTable, PhaseOf, Ended, Promise!Next, Promise!Ask, Terminal, IndInv, TypeOK, Statements
  <2>3. CASE pc' = "killed"
    BY <1>0, <2>1, <2>3 DEF PhaseTable, PhaseOf, Ended, Terminal, Promise!Next, Promise!Abort
  <2> QED
    BY <1>12, <2>2, <2>3 DEF Interrupt
<1>13. CASE UNCHANGED vars
  BY <1>13 DEF vars, PhaseOf, Ended
<1> QED
  BY NextSteps, <1>1, <1>2, <1>3, <1>4, <1>5, <1>6, <1>7, <1>8, <1>9, <1>10, <1>11, <1>12,
     <1>13 DEF StopStep

(* Every execution, fair or not and on either platform, is one that         *)
(* ServerProcess allows: no success without ctrl-c, no drain without ctrl-c, *)
(* no abnormal end without ctrl-c.                                           *)
THEOREM PromiseKept == Spec => KeepsPromise
<1>1. Init => Promise!Init
  BY DEF Init, Promise!Init, PhaseOf, Asked, OutcomeOf, Ended, Terminal
<1> QED
  BY <1>1, Invariance, RefinementStep, PTL DEF Spec, KeepsPromise, Promise!SafeSpec
==============================================================================
