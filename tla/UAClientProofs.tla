---------------------------- MODULE UAClientProofs ----------------------------
(***************************************************************************)
(* Proofs about UAClient, for any sets of sessions, reconnect handlers and *)
(* callback threads, and whatever the application calls.                   *)
(***************************************************************************)
EXTENDS UAClient, TLAPS

(* Between two statements of a call the application has its session. *)
CallInv ==
  /\ appPc = "assign" => created # null
  /\ CallFindsItsSession

(* Who is inside lock (m_lock). *)
LockInv ==
  /\ \A k \in Callbacks : kaPc[k] \in {"decide", "create", "begin"} => m_lock = k
  /\ \A h \in Handlers : doneEvent[h] = "body" => m_lock = h

(* The handler between the null check, its construction and BeginReconnect. *)
BeginInv ==
  \A k \in Callbacks :
    /\ kaPc[k] = "create" => m_reconnectHandler = null
    /\ kaPc[k] = "begin" => m_reconnectHandler # null /\ handler[m_reconnectHandler] = "idle"

(* Only a handler that is done has called back. *)
DoneInv == \A h \in Handlers : doneEvent[h] # "none" => handler[h] = "done"

HandlerInv == BeginInv /\ DoneInv /\ OneReconnect

IndInv == TypeOK /\ CallInv /\ LockInv /\ HandlerInv

------------------------------------------------------------------------------
(* Every step preserves each part. *)

LEMMA TypeStep == TypeOK /\ CallInv /\ [Next]_vars => TypeOK'
<1> USE ConstantsAssumption DEF TypeOK, CallInv, CallFindsItsSession, Threads, fields, sdkVars, kaVars, appVars
<1>1. TypeOK /\ CallInv /\ Connect => TypeOK'
  BY DEF Connect
<1>2. TypeOK /\ CallInv /\ Disconnect => TypeOK'
  BY DEF Disconnect
<1>3. TypeOK /\ CallInv /\ Dispose => TypeOK'
  BY DEF Dispose
<1>4. TypeOK /\ CallInv /\ CreateSession => TypeOK'
  BY DEF CreateSession
<1>5. TypeOK /\ CallInv /\ ConnectFails => TypeOK'
  BY DEF ConnectFails
<1>6. TypeOK /\ CallInv /\ AssignSession => TypeOK'
  BY DEF AssignSession
<1>7. TypeOK /\ CallInv /\ Subscribe => TypeOK'
  BY DEF Subscribe
<1>8. TypeOK /\ CallInv /\ CloseSession => TypeOK'
  BY DEF CloseSession
<1>9. TypeOK /\ CallInv /\ CloseFails => TypeOK'
  BY DEF CloseFails
<1>10. TypeOK /\ CallInv /\ ClearSession => TypeOK'
  BY DEF ClearSession
<1>11. ASSUME NEW s \in Sessions
       PROVE  TypeOK /\ CallInv /\ Break(s) => TypeOK'
  BY DEF Break
<1>12. ASSUME NEW s \in Sessions, NEW k \in Callbacks
       PROVE  TypeOK /\ CallInv /\ RaiseKeepAlive(k, s) => TypeOK'
  BY DEF RaiseKeepAlive
<1>13. ASSUME NEW k \in Callbacks
       PROVE  TypeOK /\ CallInv /\ CheckSession(k) => TypeOK'
  BY DEF CheckSession
<1>14. ASSUME NEW k \in Callbacks
       PROVE  TypeOK /\ CallInv /\ LockKeepAlive(k) => TypeOK'
  BY DEF LockKeepAlive, Take
<1>15. ASSUME NEW k \in Callbacks
       PROVE  TypeOK /\ CallInv /\ Decide(k) => TypeOK'
  BY DEF Decide
<1>16. ASSUME NEW k \in Callbacks
       PROVE  TypeOK /\ CallInv /\ NewHandler(k) => TypeOK'
  BY DEF NewHandler
<1>17. ASSUME NEW k \in Callbacks
       PROVE  TypeOK /\ CallInv /\ InProgress(k) => TypeOK'
  BY DEF InProgress, Release
<1>18. ASSUME NEW k \in Callbacks
       PROVE  TypeOK /\ CallInv /\ BeginReconnect(k) => TypeOK'
  BY DEF BeginReconnect, Release
<1>19. ASSUME NEW h \in Handlers
       PROVE  TypeOK /\ CallInv /\ Recover(h) => TypeOK'
  BY DEF Recover, ReconnectDone
<1>20. ASSUME NEW h \in Handlers
       PROVE  TypeOK /\ CallInv /\ Recreate(h) => TypeOK'
  BY DEF Recreate, ReconnectDone
<1>21. ASSUME NEW h \in Handlers
       PROVE  TypeOK /\ CallInv /\ CheckSender(h) => TypeOK'
  BY DEF CheckSender
<1>22. ASSUME NEW h \in Handlers
       PROVE  TypeOK /\ CallInv /\ LockComplete(h) => TypeOK'
  BY DEF LockComplete, Take
<1>23. ASSUME NEW h \in Handlers
       PROVE  TypeOK /\ CallInv /\ Complete(h) => TypeOK'
  BY DEF Complete, CompleteWith, TakenOver, Release
<1>24. TypeOK /\ CallInv /\ UNCHANGED vars => TypeOK'
  BY DEF vars
<1> HIDE DEF TypeOK, CallInv, CallFindsItsSession, Threads, fields, sdkVars, kaVars, appVars
<1> QED
  BY <1>1, <1>2, <1>3, <1>4, <1>5, <1>6, <1>7, <1>8, <1>9, <1>10, <1>11,
     <1>12, <1>13, <1>14, <1>15, <1>16, <1>17, <1>18, <1>19, <1>20, <1>21, <1>22, <1>23, <1>24
     DEF Next, AppStep, KeepAliveStep, HandlerStep

LEMMA CallStep == TypeOK /\ CallInv /\ [Next]_vars => CallInv'
<1> USE ConstantsAssumption DEF TypeOK, CallInv, CallFindsItsSession, fields, sdkVars, kaVars, appVars
<1>1. TypeOK /\ CallInv /\ Connect => CallInv'
  BY DEF Connect
<1>2. TypeOK /\ CallInv /\ Disconnect => CallInv'
  BY DEF Disconnect
<1>3. TypeOK /\ CallInv /\ Dispose => CallInv'
  BY DEF Dispose
<1>4. TypeOK /\ CallInv /\ CreateSession => CallInv'
  BY DEF CreateSession
<1>5. TypeOK /\ CallInv /\ ConnectFails => CallInv'
  BY DEF ConnectFails
<1>6. TypeOK /\ CallInv /\ AssignSession => CallInv'
  BY DEF AssignSession
<1>7. TypeOK /\ CallInv /\ Subscribe => CallInv'
  BY DEF Subscribe
<1>8. TypeOK /\ CallInv /\ CloseSession => CallInv'
  BY DEF CloseSession
<1>9. TypeOK /\ CallInv /\ CloseFails => CallInv'
  BY DEF CloseFails
<1>10. TypeOK /\ CallInv /\ ClearSession => CallInv'
  BY DEF ClearSession
<1>11. ASSUME NEW s \in Sessions
       PROVE  TypeOK /\ CallInv /\ Break(s) => CallInv'
  BY DEF Break
<1>12. ASSUME NEW s \in Sessions, NEW k \in Callbacks
       PROVE  TypeOK /\ CallInv /\ RaiseKeepAlive(k, s) => CallInv'
  BY DEF RaiseKeepAlive
<1>13. ASSUME NEW k \in Callbacks
       PROVE  TypeOK /\ CallInv /\ CheckSession(k) => CallInv'
  BY DEF CheckSession
<1>14. ASSUME NEW k \in Callbacks
       PROVE  TypeOK /\ CallInv /\ LockKeepAlive(k) => CallInv'
  BY DEF LockKeepAlive, Take
<1>15. ASSUME NEW k \in Callbacks
       PROVE  TypeOK /\ CallInv /\ Decide(k) => CallInv'
  BY DEF Decide
<1>16. ASSUME NEW k \in Callbacks
       PROVE  TypeOK /\ CallInv /\ NewHandler(k) => CallInv'
  BY DEF NewHandler
<1>17. ASSUME NEW k \in Callbacks
       PROVE  TypeOK /\ CallInv /\ InProgress(k) => CallInv'
  BY DEF InProgress, Release
<1>18. ASSUME NEW k \in Callbacks
       PROVE  TypeOK /\ CallInv /\ BeginReconnect(k) => CallInv'
  BY DEF BeginReconnect, Release
<1>19. ASSUME NEW h \in Handlers
       PROVE  TypeOK /\ CallInv /\ Recover(h) => CallInv'
  BY DEF Recover, ReconnectDone
<1>20. ASSUME NEW h \in Handlers
       PROVE  TypeOK /\ CallInv /\ Recreate(h) => CallInv'
  BY DEF Recreate, ReconnectDone
<1>21. ASSUME NEW h \in Handlers
       PROVE  TypeOK /\ CallInv /\ CheckSender(h) => CallInv'
  BY DEF CheckSender
<1>22. ASSUME NEW h \in Handlers
       PROVE  TypeOK /\ CallInv /\ LockComplete(h) => CallInv'
  BY DEF LockComplete, Take
<1>23. ASSUME NEW h \in Handlers
       PROVE  TypeOK /\ CallInv /\ Complete(h) => CallInv'
  BY DEF Complete, CompleteWith, TakenOver, Release
<1>24. TypeOK /\ CallInv /\ UNCHANGED vars => CallInv'
  BY DEF vars
<1> HIDE DEF TypeOK, CallInv, CallFindsItsSession, fields, sdkVars, kaVars, appVars
<1> QED
  BY <1>1, <1>2, <1>3, <1>4, <1>5, <1>6, <1>7, <1>8, <1>9, <1>10, <1>11,
     <1>12, <1>13, <1>14, <1>15, <1>16, <1>17, <1>18, <1>19, <1>20, <1>21, <1>22, <1>23, <1>24
     DEF Next, AppStep, KeepAliveStep, HandlerStep

LEMMA LockStep == TypeOK /\ LockInv /\ [Next]_vars => LockInv'
<1> USE ConstantsAssumption DEF TypeOK, LockInv, Threads, fields, sdkVars, kaVars, appVars
<1>1. TypeOK /\ LockInv /\ Connect => LockInv'
  BY DEF Connect
<1>2. TypeOK /\ LockInv /\ Disconnect => LockInv'
  BY DEF Disconnect
<1>3. TypeOK /\ LockInv /\ Dispose => LockInv'
  BY DEF Dispose
<1>4. TypeOK /\ LockInv /\ CreateSession => LockInv'
  BY DEF CreateSession
<1>5. TypeOK /\ LockInv /\ ConnectFails => LockInv'
  BY DEF ConnectFails
<1>6. TypeOK /\ LockInv /\ AssignSession => LockInv'
  BY DEF AssignSession
<1>7. TypeOK /\ LockInv /\ Subscribe => LockInv'
  BY DEF Subscribe
<1>8. TypeOK /\ LockInv /\ CloseSession => LockInv'
  BY DEF CloseSession
<1>9. TypeOK /\ LockInv /\ CloseFails => LockInv'
  BY DEF CloseFails
<1>10. TypeOK /\ LockInv /\ ClearSession => LockInv'
  BY DEF ClearSession
<1>11. ASSUME NEW s \in Sessions
       PROVE  TypeOK /\ LockInv /\ Break(s) => LockInv'
  BY DEF Break
<1>12. ASSUME NEW s \in Sessions, NEW k \in Callbacks
       PROVE  TypeOK /\ LockInv /\ RaiseKeepAlive(k, s) => LockInv'
  BY DEF RaiseKeepAlive
<1>13. ASSUME NEW k \in Callbacks
       PROVE  TypeOK /\ LockInv /\ CheckSession(k) => LockInv'
  BY DEF CheckSession
<1>14. ASSUME NEW k \in Callbacks
       PROVE  TypeOK /\ LockInv /\ LockKeepAlive(k) => LockInv'
  BY DEF LockKeepAlive, Take
<1>15. ASSUME NEW k \in Callbacks
       PROVE  TypeOK /\ LockInv /\ Decide(k) => LockInv'
  BY DEF Decide
<1>16. ASSUME NEW k \in Callbacks
       PROVE  TypeOK /\ LockInv /\ NewHandler(k) => LockInv'
  BY DEF NewHandler
<1>17. ASSUME NEW k \in Callbacks
       PROVE  TypeOK /\ LockInv /\ InProgress(k) => LockInv'
  BY DEF InProgress, Release
<1>18. ASSUME NEW k \in Callbacks
       PROVE  TypeOK /\ LockInv /\ BeginReconnect(k) => LockInv'
  BY DEF BeginReconnect, Release
<1>19. ASSUME NEW h \in Handlers
       PROVE  TypeOK /\ LockInv /\ Recover(h) => LockInv'
  BY DEF Recover, ReconnectDone
<1>20. ASSUME NEW h \in Handlers
       PROVE  TypeOK /\ LockInv /\ Recreate(h) => LockInv'
  BY DEF Recreate, ReconnectDone
<1>21. ASSUME NEW h \in Handlers
       PROVE  TypeOK /\ LockInv /\ CheckSender(h) => LockInv'
  BY DEF CheckSender
<1>22. ASSUME NEW h \in Handlers
       PROVE  TypeOK /\ LockInv /\ LockComplete(h) => LockInv'
  BY DEF LockComplete, Take
<1>23. ASSUME NEW h \in Handlers
       PROVE  TypeOK /\ LockInv /\ Complete(h) => LockInv'
  BY DEF Complete, CompleteWith, TakenOver, Release
<1>24. TypeOK /\ LockInv /\ UNCHANGED vars => LockInv'
  BY DEF vars
<1> HIDE DEF TypeOK, LockInv, Threads, fields, sdkVars, kaVars, appVars
<1> QED
  BY <1>1, <1>2, <1>3, <1>4, <1>5, <1>6, <1>7, <1>8, <1>9, <1>10, <1>11,
     <1>12, <1>13, <1>14, <1>15, <1>16, <1>17, <1>18, <1>19, <1>20, <1>21, <1>22, <1>23, <1>24
     DEF Next, AppStep, KeepAliveStep, HandlerStep

LEMMA OneReconnectStep == TypeOK /\ LockInv /\ HandlerInv /\ [Next]_vars => HandlerInv'
<1> DEFINE Hyp == TypeOK /\ LockInv /\ HandlerInv
<1> USE ConstantsAssumption DEF TypeOK, LockInv, BeginInv, DoneInv, OneReconnect, HandlerInv, Threads, fields, sdkVars, kaVars, appVars
<1>1. Hyp /\ Connect => HandlerInv'
  BY DEF Connect
<1>2. Hyp /\ Disconnect => HandlerInv'
  BY DEF Disconnect
<1>3. Hyp /\ Dispose => HandlerInv'
  BY DEF Dispose
<1>4. Hyp /\ CreateSession => HandlerInv'
  BY DEF CreateSession
<1>5. Hyp /\ ConnectFails => HandlerInv'
  BY DEF ConnectFails
<1>6. Hyp /\ AssignSession => HandlerInv'
  BY DEF AssignSession
<1>7. Hyp /\ Subscribe => HandlerInv'
  BY DEF Subscribe
<1>8. Hyp /\ CloseSession => HandlerInv'
  BY DEF CloseSession
<1>9. Hyp /\ CloseFails => HandlerInv'
  BY DEF CloseFails
<1>10. Hyp /\ ClearSession => HandlerInv'
  BY DEF ClearSession
<1>11. ASSUME NEW s \in Sessions
       PROVE  Hyp /\ Break(s) => HandlerInv'
  BY DEF Break
<1>12. ASSUME NEW s \in Sessions, NEW k \in Callbacks
       PROVE  Hyp /\ RaiseKeepAlive(k, s) => HandlerInv'
  BY DEF RaiseKeepAlive
<1>13. ASSUME NEW k \in Callbacks
       PROVE  Hyp /\ CheckSession(k) => HandlerInv'
  BY DEF CheckSession
<1>14. ASSUME NEW k \in Callbacks
       PROVE  Hyp /\ LockKeepAlive(k) => HandlerInv'
  BY DEF LockKeepAlive, Take
<1>15. ASSUME NEW k \in Callbacks
       PROVE  Hyp /\ Decide(k) => HandlerInv'
  BY DEF Decide
<1>16. ASSUME NEW k \in Callbacks
       PROVE  Hyp /\ NewHandler(k) => HandlerInv'
  BY DEF NewHandler
<1>17. ASSUME NEW k \in Callbacks
       PROVE  Hyp /\ InProgress(k) => HandlerInv'
  BY DEF InProgress, Release
<1>18. ASSUME NEW k \in Callbacks
       PROVE  Hyp /\ BeginReconnect(k) => HandlerInv'
  BY DEF BeginReconnect, Release
<1>19. ASSUME NEW h \in Handlers
       PROVE  Hyp /\ Recover(h) => HandlerInv'
  BY DEF Recover, ReconnectDone
<1>20. ASSUME NEW h \in Handlers
       PROVE  Hyp /\ Recreate(h) => HandlerInv'
  BY DEF Recreate, ReconnectDone
<1>21. ASSUME NEW h \in Handlers
       PROVE  Hyp /\ CheckSender(h) => HandlerInv'
  BY DEF CheckSender
<1>22. ASSUME NEW h \in Handlers
       PROVE  Hyp /\ LockComplete(h) => HandlerInv'
  BY DEF LockComplete, Take
<1>23. ASSUME NEW h \in Handlers
       PROVE  Hyp /\ Complete(h) => HandlerInv'
  BY DEF Complete, CompleteWith, TakenOver, Release
<1>24. Hyp /\ UNCHANGED vars => HandlerInv'
  BY DEF vars
<1> HIDE DEF TypeOK, LockInv, BeginInv, DoneInv, OneReconnect, HandlerInv, Threads, fields, sdkVars, kaVars, appVars
<1> QED
  BY <1>1, <1>2, <1>3, <1>4, <1>5, <1>6, <1>7, <1>8, <1>9, <1>10, <1>11,
     <1>12, <1>13, <1>14, <1>15, <1>16, <1>17, <1>18, <1>19, <1>20, <1>21, <1>22, <1>23, <1>24
     DEF Next, AppStep, KeepAliveStep, HandlerStep

------------------------------------------------------------------------------
THEOREM Invariance == Spec => []IndInv
<1>1. Init => IndInv
  BY ConstantsAssumption DEF Init, IndInv, TypeOK, CallInv, CallFindsItsSession, LockInv, HandlerInv, BeginInv, DoneInv, OneReconnect
<1>2. IndInv /\ [Next]_vars => IndInv'
  BY TypeStep, CallStep, LockStep, OneReconnectStep DEF IndInv
<1> QED
  BY <1>1, <1>2, PTL DEF Spec

(* Every variable of the client keeps its type.                             *)
THEOREM TypeCorrect == Spec => []TypeOK
<1>1. IndInv => TypeOK
  BY DEF IndInv
<1> QED
  BY Invariance, <1>1, PTL

(* m_session is never null where ConnectAsync and Disconnect dereference    *)
(* it, whatever completion callbacks assign between two of their reads.     *)
THEOREM CallsHaveTheirSession == Spec => []CallFindsItsSession
<1>1. IndInv => CallFindsItsSession
  BY DEF IndInv, CallInv
<1> QED
  BY Invariance, <1>1, PTL

(* No two reconnect handlers are ever at work, whatever the number of       *)
(* keep-alive threads.                                                      *)
THEOREM OneReconnectAtATime == Spec => []OneReconnect
<1>1. IndInv => OneReconnect
  BY DEF IndInv, HandlerInv
<1> QED
  BY Invariance, <1>1, PTL

(* No completion is ignored, and none meets a null handler. *)
THEOREM CompletionHeard == Spec => []CompletionFindsItsHandler
<1>1. IndInv => CompletionFindsItsHandler
  BY DEF IndInv, HandlerInv, DoneInv, OneReconnect, CompletionFindsItsHandler
<1> QED
  BY Invariance, <1>1, PTL
===============================================================================
