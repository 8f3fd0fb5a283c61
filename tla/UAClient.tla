------------------------------- MODULE UAClient -------------------------------
(***************************************************************************)
(* UAClient of ua.netstandard-client: one application thread that calls    *)
(* ConnectAsync, Disconnect and Dispose, keep-alive callbacks of the SDK   *)
(* that start a reconnect, and the completion callbacks of the reconnect   *)
(* handlers.  The callbacks take m_lock, the application thread does not.  *)
(***************************************************************************)
EXTENDS Naturals

CONSTANTS Sessions,       \* the Session objects of the SDK
          Handlers,       \* the SessionReconnectHandler objects
          Callbacks,      \* the threads on which keep-alive events are raised
          null,
          ReconnectPeriod,
          MayDisconnect,  \* whether the application calls Disconnect and Dispose
          MaxConnects,    \* bound: calls of ConnectAsync
          MaxBreaks       \* bound: how often a connection breaks

ASSUME ConstantsAssumption ==
  /\ null \notin Sessions \cup Handlers \cup Callbacks
  /\ Callbacks \cap Handlers = {}
  /\ MayDisconnect \in BOOLEAN
  /\ ReconnectPeriod \in Nat /\ MaxConnects \in Nat /\ MaxBreaks \in Nat

VARIABLES
  m_session, m_reconnectHandler,
  m_lock,     \* the thread that holds the lock, or null
  session,    \* what has become of each Session
  keepAlive,  \* the sessions whose KeepAlive event calls Session_KeepAlive
  handler,    \* what each SessionReconnectHandler is doing
  template,   \* the session that a handler was told to reconnect
  result,     \* SessionReconnectHandler.Session: the session it made, or null
  kaPc,       \* per callback thread: the next statement of Session_KeepAlive
  kaSession,  \* ... and its argument
  doneEvent,  \* per handler: the next statement of Client_ReconnectComplete
  appPc,      \* the next statement of the application's call
  created,    \* the local variable of ConnectAsync
  connects, breaks

fields   == <<m_session, m_reconnectHandler, m_lock>>
sdkVars  == <<session, keepAlive, handler, template, result>>
kaVars   == <<kaPc, kaSession>>
appVars  == <<appPc, created, connects>>
vars == <<fields, sdkVars, kaVars, doneEvent, appVars, breaks>>

Threads == Callbacks \cup Handlers

TypeOK ==
  /\ m_session \in Sessions \cup {null}
  /\ m_reconnectHandler \in Handlers \cup {null}
  /\ m_lock \in Threads \cup {null}
  /\ session \in [Sessions -> {"unused", "up", "broken", "closed"}]
  /\ keepAlive \subseteq Sessions
  /\ handler \in [Handlers -> {"free", "idle", "pending", "done"}]
  /\ template \in [Handlers -> Sessions \cup {null}]
  /\ result \in [Handlers -> Sessions \cup {null}]
  /\ kaPc \in [Callbacks -> {"idle", "check", "lock", "decide", "create", "begin"}]
  /\ kaSession \in [Callbacks -> Sessions \cup {null}]
  /\ doneEvent \in [Handlers -> {"none", "check", "lock", "body"}]
  /\ appPc \in {"idle", "create", "assign", "subscribe", "close", "dispose", "clear",
                "disconnected", "disposed"}
  /\ created \in Sessions \cup {null}
  /\ connects \in 0..MaxConnects
  /\ breaks \in 0..MaxBreaks

Init ==
  /\ m_session = null /\ m_reconnectHandler = null /\ m_lock = null
  /\ session = [s \in Sessions |-> "unused"] /\ keepAlive = {}
  /\ handler = [h \in Handlers |-> "free"]
  /\ template = [h \in Handlers |-> null] /\ result = [h \in Handlers |-> null]
  /\ kaPc = [k \in Callbacks |-> "idle"] /\ kaSession = [k \in Callbacks |-> null]
  /\ doneEvent = [h \in Handlers |-> "none"]
  /\ appPc = "idle" /\ created = null /\ connects = 0 /\ breaks = 0

(* Session.Connected: a session whose connection broke still says so. *)
Connected(s) == session[s] \in {"up", "broken"}

------------------------------------------------------------------------------
(* ConnectAsync *)

Connect ==
  /\ appPc \in {"idle", "disconnected"} /\ connects < MaxConnects
  /\ connects' = connects + 1
  /\ appPc' = IF m_session # null /\ Connected(m_session) THEN "idle" ELSE "create"
  /\ UNCHANGED <<fields, sdkVars, kaVars, doneEvent, created, breaks>>

(* await Session.Create: a connected session, or an exception. *)
CreateSession ==
  /\ appPc = "create"
  /\ \E s \in Sessions : /\ session[s] = "unused"
                         /\ session' = [session EXCEPT ![s] = "up"]
                         /\ created' = s
  /\ appPc' = "assign"
  /\ UNCHANGED <<fields, keepAlive, handler, template, result, kaVars, doneEvent, connects, breaks>>

ConnectFails ==
  /\ appPc = "create"
  /\ appPc' = "idle"
  /\ UNCHANGED <<fields, sdkVars, kaVars, doneEvent, created, connects, breaks>>

AssignSession ==
  /\ appPc = "assign"
  /\ m_session' = created /\ created' = null
  /\ appPc' = "subscribe"
  /\ UNCHANGED <<m_reconnectHandler, m_lock, sdkVars, kaVars, doneEvent, connects, breaks>>

(* m_session.KeepAlive += Session_KeepAlive reads the field again. *)
Subscribe ==
  /\ appPc = "subscribe"
  /\ keepAlive' = keepAlive \cup {m_session}
  /\ appPc' = "idle"
  /\ UNCHANGED <<fields, session, handler, template, result, kaVars, doneEvent, created,
                 connects, breaks>>

------------------------------------------------------------------------------
(* Disconnect: m_session.Close(); m_session.Dispose(); m_session = null      *)

Disconnect ==
  /\ MayDisconnect /\ appPc \in {"idle", "disconnected"} /\ m_session # null
  /\ appPc' = "close"
  /\ UNCHANGED <<fields, sdkVars, kaVars, doneEvent, created, connects, breaks>>

CloseSession ==
  /\ \/ appPc = "close"   /\ appPc' = "dispose"
     \/ appPc = "dispose" /\ appPc' = "clear"
  /\ session' = [session EXCEPT ![m_session] = "closed"]
  /\ UNCHANGED <<fields, keepAlive, handler, template, result, kaVars, doneEvent, created,
                 connects, breaks>>

(* Close throws, and the exception is logged. *)
CloseFails ==
  /\ appPc = "close"
  /\ appPc' = "idle"
  /\ UNCHANGED <<fields, sdkVars, kaVars, doneEvent, created, connects, breaks>>

ClearSession ==
  /\ appPc = "clear"
  /\ m_session' = null
  /\ appPc' = "disconnected"
  /\ UNCHANGED <<m_reconnectHandler, m_lock, sdkVars, kaVars, doneEvent, created, connects, breaks>>

(* Dispose: Utils.SilentDispose(m_session) *)
Dispose ==
  /\ MayDisconnect /\ appPc \in {"idle", "disconnected"}
  /\ appPc' = "disposed"
  /\ session' = IF m_session = null THEN session
                                    ELSE [session EXCEPT ![m_session] = "closed"]
  /\ UNCHANGED <<fields, keepAlive, handler, template, result, kaVars, doneEvent, created,
                 connects, breaks>>

------------------------------------------------------------------------------
(* The SDK and the network. *)

Break(s) ==
  /\ session[s] = "up" /\ breaks < MaxBreaks
  /\ session' = [session EXCEPT ![s] = "broken"]
  /\ breaks' = breaks + 1
  /\ UNCHANGED <<fields, keepAlive, handler, template, result, kaVars, doneEvent, appVars>>

(* A keep-alive event with a bad status; one with a good status does nothing. *)
RaiseKeepAlive(k, s) ==
  /\ kaPc[k] = "idle" /\ s \in keepAlive /\ session[s] = "broken"
  /\ kaPc' = [kaPc EXCEPT ![k] = "check"]
  /\ kaSession' = [kaSession EXCEPT ![k] = s]
  /\ UNCHANGED <<fields, sdkVars, doneEvent, appVars, breaks>>

(* The handler's timer finds the server again and calls back, once.  It     *)
(* cannot reconnect null, and retries that for ever.                        *)
ReconnectDone(h) ==
  /\ handler[h] = "pending"
  /\ handler' = [handler EXCEPT ![h] = "done"]
  /\ doneEvent' = [doneEvent EXCEPT ![h] = "check"]
  /\ UNCHANGED <<fields, template, kaVars, appVars, breaks>>

(* The session is recovered, and SessionReconnectHandler.Session stays null; *)
Recover(h) ==
  /\ template[h] # null /\ Connected(template[h])
  /\ session' = [session EXCEPT ![template[h]] = "up"]
  /\ ReconnectDone(h)
  /\ UNCHANGED <<keepAlive, result>>

(* or another one takes its place, with its settings and event handlers. *)
Recreate(h) ==
  /\ template[h] # null
  /\ \E s \in Sessions :
       /\ session[s] = "unused"
       /\ session' = [session EXCEPT ![template[h]] = "closed", ![s] = "up"]
       /\ result' = [result EXCEPT ![h] = s]
       /\ keepAlive' = IF template[h] \in keepAlive THEN keepAlive \cup {s} ELSE keepAlive
  /\ ReconnectDone(h)

------------------------------------------------------------------------------
(* Session_KeepAlive *)

(* MUTANT: lock (m_lock) left out. *)
TakeUnlocked(t) == m_lock' = t

Take(t) == m_lock = null /\ m_lock' = t
Release == m_lock' = null

(* Events of discarded sessions are ignored; the lock is not held yet. *)
CheckSession(k) ==
  /\ kaPc[k] = "check"
  /\ kaPc' = [kaPc EXCEPT ![k] = IF kaSession[k] = m_session /\ ReconnectPeriod > 0
                                 THEN "lock" ELSE "idle"]
  /\ UNCHANGED <<fields, sdkVars, kaSession, doneEvent, appVars, breaks>>

LockKeepAlive(k) ==
  /\ kaPc[k] = "lock" /\ Take(k)
  /\ kaPc' = [kaPc EXCEPT ![k] = "decide"]
  /\ UNCHANGED <<m_session, m_reconnectHandler, sdkVars, kaSession, doneEvent, appVars, breaks>>

(* MUTANT: the null check left out. *)
DecideUnchecked(k) ==
  /\ kaPc[k] = "decide"
  /\ kaPc' = [kaPc EXCEPT ![k] = "create"]
  /\ UNCHANGED <<fields, sdkVars, kaSession, doneEvent, appVars, breaks>>

(* if (m_reconnectHandler == null) *)
Decide(k) ==
  /\ kaPc[k] = "decide" /\ m_reconnectHandler = null
  /\ kaPc' = [kaPc EXCEPT ![k] = "create"]
  /\ UNCHANGED <<fields, sdkVars, kaSession, doneEvent, appVars, breaks>>

(* m_reconnectHandler = new SessionReconnectHandler(true): objects that     *)
(* nobody refers to any more are used again.                                *)
NewHandler(k) ==
  /\ kaPc[k] = "create"
  /\ \E h \in Handlers :
       /\ handler[h] = "free" /\ doneEvent[h] = "none"
       /\ handler' = [handler EXCEPT ![h] = "idle"]
       /\ template' = [template EXCEPT ![h] = null]
       /\ result' = [result EXCEPT ![h] = null]
       /\ m_reconnectHandler' = h
  /\ kaPc' = [kaPc EXCEPT ![k] = "begin"]
  /\ UNCHANGED <<m_session, m_lock, session, keepAlive, kaSession, doneEvent, appVars, breaks>>

InProgress(k) ==
  /\ kaPc[k] = "decide" /\ m_reconnectHandler # null
  /\ Release
  /\ kaPc' = [kaPc EXCEPT ![k] = "idle"]
  /\ UNCHANGED <<m_session, m_reconnectHandler, sdkVars, kaSession, doneEvent, appVars, breaks>>

(* m_reconnectHandler.BeginReconnect(m_session, ...) reads m_session only now. *)
BeginReconnect(k) ==
  /\ kaPc[k] = "begin" /\ m_reconnectHandler # null
  /\ handler' = [handler EXCEPT ![m_reconnectHandler] = "pending"]
  /\ template' = [template EXCEPT ![m_reconnectHandler] = m_session]
  /\ Release
  /\ kaPc' = [kaPc EXCEPT ![k] = "idle"]
  /\ UNCHANGED <<m_session, m_reconnectHandler, session, keepAlive, result, kaSession, doneEvent,
                 appVars, breaks>>

------------------------------------------------------------------------------
(* Client_ReconnectComplete(sender, e), with the handler h as sender. *)

(* Callbacks of discarded handlers are ignored; the lock is not held yet. *)
CheckSender(h) ==
  /\ doneEvent[h] = "check"
  /\ doneEvent' = [doneEvent EXCEPT ![h] = IF m_reconnectHandler = h THEN "lock" ELSE "none"]
  /\ UNCHANGED <<fields, sdkVars, kaVars, appVars, breaks>>

LockComplete(h) ==
  /\ doneEvent[h] = "lock" /\ Take(h)
  /\ doneEvent' = [doneEvent EXCEPT ![h] = "body"]
  /\ UNCHANGED <<m_session, m_reconnectHandler, sdkVars, kaVars, appVars, breaks>>

(* In the lock: m_session becomes s, and m_reconnectHandler becomes rh. *)
CompleteWith(h, s, rh) ==
  /\ doneEvent[h] = "body" /\ m_reconnectHandler # null
  /\ m_session' = s
  /\ handler' = [handler EXCEPT ![m_reconnectHandler] = "free"]
  /\ m_reconnectHandler' = rh
  /\ Release
  /\ doneEvent' = [doneEvent EXCEPT ![h] = "none"]
  /\ UNCHANGED <<session, keepAlive, template, result, kaVars, appVars, breaks>>

TakenOver == IF result[m_reconnectHandler] # null THEN result[m_reconnectHandler] ELSE m_session

(* MUTANT: the check for a session that recovered left out. *)
CompleteUnchecked(h) == CompleteWith(h, result[m_reconnectHandler], null)

(* MUTANT: the new session is not taken over. *)
CompleteForgetful(h) == CompleteWith(h, m_session, null)

(* MUTANT: the field still names the handler that was disposed of. *)
CompleteDangling(h) == CompleteWith(h, TakenOver, m_reconnectHandler)

(* The body uses the field, not sender. *)
Complete(h) == CompleteWith(h, TakenOver, null)

------------------------------------------------------------------------------
AppStep == \/ CreateSession \/ ConnectFails \/ AssignSession \/ Subscribe
           \/ CloseSession \/ CloseFails \/ ClearSession

KeepAliveStep(k) ==
  CheckSession(k) \/ Decide(k) \/ NewHandler(k) \/ InProgress(k) \/ BeginReconnect(k)

HandlerStep(h) == Recover(h) \/ Recreate(h) \/ CheckSender(h) \/ Complete(h)

Next ==
  \/ Connect \/ Disconnect \/ Dispose \/ AppStep
  \/ \E s \in Sessions : Break(s) \/ \E k \in Callbacks : RaiseKeepAlive(k, s)
  \/ \E k \in Callbacks : KeepAliveStep(k) \/ LockKeepAlive(k)
  \/ \E h \in Handlers : HandlerStep(h) \/ LockComplete(h)

(* Every thread goes on once it runs, and gets m_lock if it is free again   *)
(* and again.  The timer of a session with a broken connection gets a       *)
(* thread to raise its event on, and a server that was lost is found again. *)
(* Nobody has to call Connect, Disconnect or Dispose, and nothing breaks.   *)
Fairness ==
  /\ WF_vars(AppStep)
  /\ \A s \in Sessions : SF_vars(\E k \in Callbacks : RaiseKeepAlive(k, s))
  /\ \A k \in Callbacks : WF_vars(KeepAliveStep(k)) /\ SF_vars(LockKeepAlive(k))
  /\ \A h \in Handlers : WF_vars(HandlerStep(h)) /\ SF_vars(LockComplete(h))

Spec == Init /\ [][Next]_vars /\ Fairness

------------------------------------------------------------------------------
(* Safety. *)

(* There is never more than one reconnect handler at work, and it is the    *)
(* one the field names: the null check and the assignment happen under      *)
(* m_lock, and the field is cleared only together with the handler.         *)
OneReconnect == \A h \in Handlers : handler[h] # "free" => m_reconnectHandler = h

(* When a handler reports that it is done the client listens: the field     *)
(* was set before BeginReconnect and still names it, when the check of      *)
(* Client_ReconnectComplete reads it without the lock as well as when the   *)
(* body dereferences it, so that the session it made is taken over.         *)
CompletionFindsItsHandler ==
  \A h \in Handlers : doneEvent[h] # "none" => m_reconnectHandler = h

(* Each time ConnectAsync or Disconnect reads m_session again there is one, *)
(* whatever a completion callback has assigned since the last read: neither *)
(* dereferences null (UAClient.cs:166-169, 197-199).                        *)
CallFindsItsSession ==
  appPc \in {"subscribe", "close", "dispose", "clear"} => m_session # null

(* UAClient.cs:187 "Disconnects the session.": no session comes back.       *)
StaysDisconnected == appPc = "disconnected" => m_session = null

------------------------------------------------------------------------------
(* Liveness. *)

(* UAClient.cs:216 "triggers a reconnect if necessary": a handler that was  *)
(* started comes to an end, so that the next broken connection can start    *)
(* one again instead of finding that a reconnect is "in progress".          *)
ReconnectEnds ==
  m_reconnectHandler # null ~> (m_reconnectHandler = null \/ appPc = "disposed")
==============================================================================
