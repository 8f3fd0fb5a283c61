---------------------------- MODULE ClientProgram ----------------------------
(***************************************************************************)
(* Program.Run of ua.netstandard-client on top of UAClient: it asks the    *)
(* server for its endpoints, connects once, enables the transfer of        *)
(* subscriptions, reads two values, disconnects and disposes.  Every use   *)
(* of uaClient.Session reads m_session again, which a reconnect exchanges  *)
(* meanwhile on a thread of its own.                                       *)
(***************************************************************************)
EXTENDS UAClient

VARIABLES
  at,       \* where Run is
  transfer, \* the sessions with TransferSubscriptionsOnReconnect
  late      \* history: it was enabled when a new session was about to replace this one

programVars == <<at, transfer, late>>
allVars     == <<vars, programVars>>

(* Where Run uses a session, and where nobody has closed it yet. *)
Using == {"enable", "readNode", "readValue", "disconnect"}
InUse == at \notin {"disconnecting", "exit"}

ProgramInit == Init /\ at = "start" /\ transfer = {} /\ late = FALSE

(* Client_ReconnectComplete is under way with a session to take over. *)
Replacing == \E h \in Handlers : doneEvent[h] # "none" /\ result[h] # null

------------------------------------------------------------------------------
(* Run *)

(* DiscoveryClient.Create or GetEndpoints throws: Main ends with that. *)
DiscoveryFails ==
  /\ at = "start"
  /\ at' = "exit"
  /\ UNCHANGED <<vars, transfer, late>>

CallConnect ==
  /\ at = "start" /\ Connect
  /\ at' = "connecting"
  /\ UNCHANGED <<transfer, late>>

(* if (connected && uaClient.Session != null): the only call of             *)
(* ConnectAsync has left a session, or it has caught an exception.          *)
CheckConnected ==
  /\ at = "connecting" /\ appPc = "idle"
  /\ at' = IF m_session # null THEN "enable" ELSE "leave"
  /\ UNCHANGED <<vars, transfer, late>>

(* MUTANT: only a session that answers is told. *)
EnableWorking ==
  /\ at = "enable" /\ m_session # null
  /\ transfer' = IF session[m_session] = "up" THEN transfer \cup {m_session} ELSE transfer
  /\ late' = Replacing
  /\ at' = "readNode"
  /\ UNCHANGED vars

(* uaClient.Session.TransferSubscriptionsOnReconnect = true *)
EnableTransfer ==
  /\ at = "enable" /\ m_session # null
  /\ transfer' = transfer \cup {m_session}
  /\ late' = Replacing
  /\ at' = "readNode"
  /\ UNCHANGED vars

(* ReadNode and ReadValue, *)
Read ==
  /\ m_session # null /\ session[m_session] = "up"
  /\ \/ at = "readNode"  /\ at' = "readValue"
     \/ at = "readValue" /\ at' = "disconnect"
  /\ UNCHANGED <<vars, transfer, late>>

(* which throw when there is no answer, or a bad one. *)
ReadFails ==
  /\ at \in {"readNode", "readValue"}
  /\ at' = "leave"
  /\ UNCHANGED <<vars, transfer, late>>

CallDisconnect ==
  /\ at = "disconnect" /\ Disconnect
  /\ at' = "disconnecting"
  /\ UNCHANGED <<transfer, late>>

(* The end of the using block, after which Main returns. *)
Leave ==
  /\ \/ at = "leave"
     \/ at = "disconnecting" /\ appPc \in {"idle", "disconnected"}
  /\ Dispose
  /\ at' = "exit"
  /\ UNCHANGED <<transfer, late>>

Run == \/ DiscoveryFails \/ CallConnect \/ CheckConnected \/ EnableTransfer
       \/ Read \/ ReadFails \/ CallDisconnect \/ Leave

------------------------------------------------------------------------------
(* What goes on in UAClient and in the SDK as long as the process exists. *)

Meanwhile(step) == at # "exit" /\ step /\ UNCHANGED programVars

(* The new session has the settings its template has now. *)
RecreateWithSettings(h) ==
  /\ at # "exit" /\ Recreate(h)
  /\ transfer' = IF template[h] \in transfer THEN transfer \cup {result'[h]} ELSE transfer
  /\ UNCHANGED <<at, late>>

ProgramHandlerStep(h) ==
  Meanwhile(Recover(h) \/ CheckSender(h) \/ Complete(h)) \/ RecreateWithSettings(h)

ProgramNext ==
  \/ Run \/ Meanwhile(AppStep)
  \/ \E s \in Sessions : Meanwhile(Break(s)) \/ \E k \in Callbacks : Meanwhile(RaiseKeepAlive(k, s))
  \/ \E k \in Callbacks : Meanwhile(KeepAliveStep(k)) \/ Meanwhile(LockKeepAlive(k))
  \/ \E h \in Handlers : ProgramHandlerStep(h) \/ Meanwhile(LockComplete(h))

(* As in UAClient.  Run may take its time with every one of its steps, as   *)
(* the samples would that it leaves out.                                    *)
ProgramFairness ==
  /\ WF_allVars(Meanwhile(AppStep))
  /\ \A s \in Sessions : SF_allVars(\E k \in Callbacks : Meanwhile(RaiseKeepAlive(k, s)))
  /\ \A k \in Callbacks :
       WF_allVars(Meanwhile(KeepAliveStep(k))) /\ SF_allVars(Meanwhile(LockKeepAlive(k)))
  /\ \A h \in Handlers :
       WF_allVars(ProgramHandlerStep(h)) /\ SF_allVars(Meanwhile(LockComplete(h)))

ProgramSpec == ProgramInit /\ [][ProgramNext]_allVars /\ ProgramFairness

------------------------------------------------------------------------------
(* Safety. *)

(* Once the program has seen its session there is one each time it asks     *)
(* uaClient.Session for it, whatever reconnects exchange (Program.cs:78-92).*)
SessionThere == at \in Using => m_session # null

(* Program.cs:77 "enable subscription transfer": the session in use has     *)
(* the setting, also after reconnects, unless it was made while a new       *)
(* session that has not got it was about to take over.                      *)
TransferEnabled ==
  at \in Using \ {"enable"} /\ ~late => m_session \in transfer

(* Until the program disconnects, a closed session in m_session is one that *)
(* the completion callback under way will replace.                          *)
ClosedSessionIsReplaced ==
  InUse /\ m_session # null /\ session[m_session] = "closed" => Replacing

(* ... and m_session is exchanged only when the session it names is broken  *)
(* or closed: no session that works is left open at the server.  A reconnect*)
(* handler may well have closed it a moment ago, also one that was started  *)
(* for a session that another one had repaired meanwhile.                   *)
NoWorkingSessionReplaced ==
  [][InUse /\ m_session' # m_session /\ m_session # null => session[m_session] # "up"]_allVars

------------------------------------------------------------------------------
(* Liveness. *)

(* A reconnect that Session_KeepAlive has begun comes to an end, unless the *)
(* program disconnects meanwhile.                                           *)
ReconnectEndsInUse == m_reconnectHandler # null ~> (m_reconnectHandler = null \/ ~InUse)

(* A session whose connection broke works again, or another one has taken   *)
(* its place, or the program has given it up.                               *)
Reconnects ==
  \A s \in Sessions :
    (m_session = s /\ session[s] = "broken") ~> (m_session # s \/ session[s] # "broken")
==============================================================================
