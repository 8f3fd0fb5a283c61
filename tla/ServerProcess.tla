---------------------------- MODULE ServerProcess ----------------------------
(***************************************************************************)
(* What the operator of the OPC UA server is promised, without pointers,   *)
(* signal handlers or mutexes: the process starts, serves, is asked to     *)
(* stop, drains and ends.  It never ends by itself with success, and it    *)
(* never ends abnormally unless somebody asked it to stop.                 *)
(***************************************************************************)
VARIABLES phase,    \* where the process is in its life
          asked,    \* somebody has pressed ctrl-c
          outcome   \* how the process ends, once that is decided

vars == <<phase, asked, outcome>>

Phases   == {"starting", "serving", "draining", "leaving", "ended"}
Outcomes == {"none", "success", "failure", "abnormal"}

Init == phase = "starting" /\ asked = FALSE /\ outcome = "none"

(* ctrl-c. *)
Ask == /\ phase # "ended"
       /\ asked' = TRUE
       /\ UNCHANGED <<phase, outcome>>

Serve == /\ phase = "starting"
         /\ phase' = "serving"
         /\ UNCHANGED <<asked, outcome>>

(* Starting fails: the process leaves with an error. *)
Fail == /\ phase = "starting"
        /\ phase' = "leaving"
        /\ outcome' = "failure"
        /\ UNCHANGED asked

(* Only a process that was asked to stop stops serving. *)
Drain == /\ phase \in {"starting", "serving"}
         /\ asked
         /\ phase' = "draining"
         /\ UNCHANGED <<asked, outcome>>

Drained == /\ phase = "draining"
           /\ phase' = "leaving"
           /\ outcome' \in {"success", "failure"}
           /\ UNCHANGED asked

End == /\ phase = "leaving"
       /\ phase' = "ended"
       /\ UNCHANGED <<asked, outcome>>

(* ctrl-c may also kill the process. *)
Abort == /\ phase # "ended"
         /\ asked' = TRUE
         /\ phase' = "ended"
         /\ outcome' = "abnormal"

Next == Ask \/ Serve \/ Fail \/ Drain \/ Drained \/ End \/ Abort

(* What is promised of every execution, fair or not. *)
SafeSpec == Init /\ [][Next]_vars

(* A process that drains leaves, and one that leaves ends. *)
Spec == SafeSpec /\ WF_vars(Drained \/ (phase = "draining" /\ Abort)) /\ WF_vars(End)
==============================================================================
