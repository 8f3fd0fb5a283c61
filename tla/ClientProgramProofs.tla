-------------------------- MODULE ClientProgramProofs --------------------------
(***************************************************************************)
(* Proofs about ClientProgram, for any sets of sessions, reconnect handlers*)
(* and callback threads, and however often connections break.              *)
(***************************************************************************)
EXTENDS ClientProgram, UAClientProofs

(* What Run waits for, and what UAClient is doing then. *)
FlowInv ==
  /\ at \in {"start", "connecting", "disconnecting", "leave", "exit"} \cup Using
  /\ transfer \subseteq Sessions
  /\ at \in Using \cup {"start", "leave"} => appPc = "idle"
  /\ at = "connecting" => appPc \in {"idle", "create", "assign", "subscribe"}

(* Until the session is subscribed to, nothing is called back. *)
Silent ==
  /\ keepAlive = {}
  /\ \A k \in Callbacks : kaPc[k] = "idle"
  /\ \A h \in Handlers : handler[h] = "free"

FreshInv ==
  InUse =>
    /\ at = "start" \/ appPc \in {"create", "assign"} => m_session = null
    /\ m_session = null \/ appPc = "subscribe" => Silent
    /\ appPc = "assign" => session[created] \in {"up", "broken"}

(* A handler at work is reconnecting the session in use; the one that takes *)
(* its place is open, and the one in use is not.                            *)
SwapInv ==
  InUse =>
    \A h \in Handlers :
      /\ handler[h] \in {"idle", "pending"} => result[h] = null
      /\ handler[h] = "pending" => template[h] = m_session
      /\ doneEvent[h] # "none" /\ result[h] # null =>
           /\ session[m_session] = "closed"
           /\ session[result[h]] \in {"up", "broken"}

(* The setting of the session in use, and of the one that takes its place. *)
TransferInv ==
  at \in Using \ {"enable"} /\ ~late =>
    /\ m_session \in transfer
    /\ \A h \in Handlers : doneEvent[h] # "none" /\ result[h] # null => result[h] \in transfer

ProgInv ==
  /\ IndInv /\ FlowInv /\ FreshInv /\ SessionThere
  /\ SwapInv /\ ClosedSessionIsReplaced /\ TransferInv

------------------------------------------------------------------------------
(* The program uses UAClient as UAClient allows. *)

LEMMA ProgramSteps == [ProgramNext]_allVars => [Next]_vars
BY DEF ProgramNext, Run, DiscoveryFails, CallConnect, CheckConnected, EnableTransfer, Read, ReadFails,
       CallDisconnect, Leave, Meanwhile, RecreateWithSettings, ProgramHandlerStep, HandlerStep,
       Next, allVars

LEMMA ClientStep == IndInv /\ [ProgramNext]_allVars => IndInv'
BY ProgramSteps, TypeStep, CallStep, LockStep, OneReconnectStep DEF IndInv

------------------------------------------------------------------------------
(* Every step preserves each part. *)

LEMMA FlowStep == TypeOK /\ FlowInv /\ [ProgramNext]_allVars => FlowInv'
<1> DEFINE Hyp == TypeOK /\ FlowInv
<1> USE ConstantsAssumption DEF TypeOK, FlowInv, Using, fields, sdkVars, kaVars, appVars, programVars
<1>1. Hyp /\ DiscoveryFails => FlowInv'
  BY DEF DiscoveryFails, vars
<1>2. Hyp /\ CallConnect => FlowInv'
  BY DEF CallConnect, Connect
<1>3. Hyp /\ CheckConnected => FlowInv'
  BY DEF CheckConnected, vars
<1>4. Hyp /\ EnableTransfer => FlowInv'
  BY DEF EnableTransfer, vars
<1>5. Hyp /\ Read => FlowInv'
  BY DEF Read, vars
<1>6. Hyp /\ ReadFails => FlowInv'
  BY DEF ReadFails, vars
<1>7. Hyp /\ CallDisconnect => FlowInv'
  BY DEF CallDisconnect, Disconnect
<1>8. Hyp /\ Leave => FlowInv'
  BY DEF Leave, Dispose
<1>9. Hyp /\ Meanwhile(CreateSession) => FlowInv'
  BY DEF Meanwhile, CreateSession
<1>10. Hyp /\ Meanwhile(ConnectFails) => FlowInv'
  BY DEF Meanwhile, ConnectFails
<1>11. Hyp /\ Meanwhile(AssignSession) => FlowInv'
  BY DEF Meanwhile, AssignSession
<1>12. Hyp /\ Meanwhile(Subscribe) => FlowInv'
  BY DEF Meanwhile, Subscribe
<1>13. Hyp /\ Meanwhile(CloseSession) => FlowInv'
  BY DEF Meanwhile, CloseSession
<1>14. Hyp /\ Meanwhile(CloseFails) => FlowInv'
  BY DEF Meanwhile, CloseFails
<1>15. Hyp /\ Meanwhile(ClearSession) => FlowInv'
  BY DEF Meanwhile, ClearSession
<1>16. ASSUME NEW s \in Sessions
       PROVE  Hyp /\ Meanwhile(Break(s)) => FlowInv'
  BY DEF Meanwhile, Break
<1>17. ASSUME NEW s \in Sessions, NEW k \in Callbacks
       PROVE  Hyp /\ Meanwhile(RaiseKeepAlive(k, s)) => FlowInv'
  BY DEF Meanwhile, RaiseKeepAlive
<1>18. ASSUME NEW k \in Callbacks
       PROVE  Hyp /\ Meanwhile(CheckSession(k)) => FlowInv'
  BY DEF Meanwhile, CheckSession
<1>19. ASSUME NEW k \in Callbacks
       PROVE  Hyp /\ Meanwhile(LockKeepAlive(k)) => FlowInv'
  BY DEF Meanwhile, LockKeepAlive, Take
<1>20. ASSUME NEW k \in Callbacks
       PROVE  Hyp /\ Meanwhile(Decide(k)) => FlowInv'
  BY DEF Meanwhile, Decide
<1>21. ASSUME NEW k \in Callbacks
       PROVE  Hyp /\ Meanwhile(NewHandler(k)) => FlowInv'
  BY DEF Meanwhile, NewHandler
<1>22. ASSUME NEW k \in Callbacks
       PROVE  Hyp /\ Meanwhile(InProgress(k)) => FlowInv'
  BY DEF Meanwhile, InProgress, Release
<1>23. ASSUME NEW k \in Callbacks
       PROVE  Hyp /\ Meanwhile(BeginReconnect(k)) => FlowInv'
  BY DEF Meanwhile, BeginReconnect, Release
<1>24. ASSUME NEW h \in Handlers
       PROVE  Hyp /\ Meanwhile(Recover(h)) => FlowInv'
  BY DEF Meanwhile, Recover, ReconnectDone
<1>25. ASSUME NEW h \in Handlers
       PROVE  Hyp /\ Meanwhile(CheckSender(h)) => FlowInv'
  BY DEF Meanwhile, CheckSender
<1>26. ASSUME NEW h \in Handlers
       PROVE  Hyp /\ Meanwhile(Complete(h)) => FlowInv'
  BY DEF Meanwhile, Complete, CompleteWith, TakenOver, Release
<1>27. ASSUME NEW h \in Handlers
       PROVE  Hyp /\ Meanwhile(LockComplete(h)) => FlowInv'
  BY DEF Meanwhile, LockComplete, Take
<1>28. ASSUME NEW h \in Handlers
       PROVE  Hyp /\ RecreateWithSettings(h) => FlowInv'
  BY DEF RecreateWithSettings, Recreate, ReconnectDone
<1>29. Hyp /\ UNCHANGED allVars => FlowInv'
  BY DEF allVars, vars
<1> HIDE DEF TypeOK, FlowInv, Using, fields, sdkVars, kaVars, appVars, programVars
<1> QED
  BY <1>1, <1>2, <1>3, <1>4, <1>5, <1>6, <1>7, <1>8, <1>9, <1>10, <1>11, <1>12, <1>13, 
     <1>14, <1>15, <1>16, <1>17, <1>18, <1>19, <1>20, <1>21, <1>22, <1>23, <1>24, <1>25, 
     <1>26, <1>27, <1>28, <1>29
     DEF ProgramNext, Run, ProgramHandlerStep, Meanwhile, AppStep, KeepAliveStep

LEMMA FreshStep == TypeOK /\ CallInv /\ HandlerInv /\ FlowInv /\ FreshInv /\ [ProgramNext]_allVars => FreshInv'
<1> DEFINE Hyp == TypeOK /\ CallInv /\ HandlerInv /\ FlowInv /\ FreshInv
<1> USE ConstantsAssumption DEF TypeOK, CallInv, CallFindsItsSession, HandlerInv, BeginInv, DoneInv, OneReconnect, FlowInv, FreshInv, Silent, InUse, Using, Connected, fields, sdkVars, kaVars, appVars, programVars
<1>1. Hyp /\ DiscoveryFails => FreshInv'
  BY DEF DiscoveryFails, vars
<1>2. Hyp /\ CallConnect => FreshInv'
  BY DEF CallConnect, Connect
<1>3. Hyp /\ CheckConnected => FreshInv'
  BY DEF CheckConnected, vars
<1>4. Hyp /\ EnableTransfer => FreshInv'
  BY DEF EnableTransfer, vars
<1>5. Hyp /\ Read => FreshInv'
  BY DEF Read, vars
<1>6. Hyp /\ ReadFails => FreshInv'
  BY DEF ReadFails, vars
<1>7. Hyp /\ CallDisconnect => FreshInv'
  BY DEF CallDisconnect, Disconnect
<1>8. Hyp /\ Leave => FreshInv'
  BY DEF Leave, Dispose
<1>9. Hyp /\ Meanwhile(CreateSession) => FreshInv'
  BY DEF Meanwhile, CreateSession
<1>10. Hyp /\ Meanwhile(ConnectFails) => FreshInv'
  BY DEF Meanwhile, ConnectFails
<1>11. Hyp /\ Meanwhile(AssignSession) => FreshInv'
  BY DEF Meanwhile, AssignSession
<1>12. Hyp /\ Meanwhile(Subscribe) => FreshInv'
  BY DEF Meanwhile, Subscribe
<1>13. Hyp /\ Meanwhile(CloseSession) => FreshInv'
  BY DEF Meanwhile, CloseSession
<1>14. Hyp /\ Meanwhile(CloseFails) => FreshInv'
  BY DEF Meanwhile, CloseFails
<1>15. Hyp /\ Meanwhile(ClearSession) => FreshInv'
  BY DEF Meanwhile, ClearSession
<1>16. ASSUME NEW s \in Sessions
       PROVE  Hyp /\ Meanwhile(Break(s)) => FreshInv'
  BY DEF Meanwhile, Break
<1>17. ASSUME NEW s \in Sessions, NEW k \in Callbacks
       PROVE  Hyp /\ Meanwhile(RaiseKeepAlive(k, s)) => FreshInv'
  BY DEF Meanwhile, RaiseKeepAlive
<1>18. ASSUME NEW k \in Callbacks
       PROVE  Hyp /\ Meanwhile(CheckSession(k)) => FreshInv'
  BY DEF Meanwhile, CheckSession
<1>19. ASSUME NEW k \in Callbacks
       PROVE  Hyp /\ Meanwhile(LockKeepAlive(k)) => FreshInv'
  BY DEF Meanwhile, LockKeepAlive, Take
<1>20. ASSUME NEW k \in Callbacks
       PROVE  Hyp /\ Meanwhile(Decide(k)) => FreshInv'
  BY DEF Meanwhile, Decide
<1>21. ASSUME NEW k \in Callbacks
       PROVE  Hyp /\ Meanwhile(NewHandler(k)) => FreshInv'
  BY DEF Meanwhile, NewHandler
<1>22. ASSUME NEW k \in Callbacks
       PROVE  Hyp /\ Meanwhile(InProgress(k)) => FreshInv'
  BY DEF Meanwhile, InProgress, Release
<1>23. ASSUME NEW k \in Callbacks
       PROVE  Hyp /\ Meanwhile(BeginReconnect(k)) => FreshInv'
  BY DEF Meanwhile, BeginReconnect, Release
<1>24. ASSUME NEW h \in Handlers
       PROVE  Hyp /\ Meanwhile(Recover(h)) => FreshInv'
  BY DEF Meanwhile, Recover, ReconnectDone
<1>25. ASSUME NEW h \in Handlers
       PROVE  Hyp /\ Meanwhile(CheckSender(h)) => FreshInv'
  BY DEF Meanwhile, CheckSender
<1>26. ASSUME NEW h \in Handlers
       PROVE  Hyp /\ Meanwhile(Complete(h)) => FreshInv'
  BY DEF Meanwhile, Complete, CompleteWith, TakenOver, Release
<1>27. ASSUME NEW h \in Handlers
       PROVE  Hyp /\ Meanwhile(LockComplete(h)) => FreshInv'
  BY DEF Meanwhile, LockComplete, Take
<1>28. ASSUME NEW h \in Handlers
       PROVE  Hyp /\ RecreateWithSettings(h) => FreshInv'
  BY DEF RecreateWithSettings, Recreate, ReconnectDone
<1>29. Hyp /\ UNCHANGED allVars => FreshInv'
  BY DEF allVars, vars
<1> HIDE DEF TypeOK, CallInv, CallFindsItsSession, HandlerInv, BeginInv, DoneInv, OneReconnect, FlowInv, FreshInv, Silent, InUse, Using, Connected, fields, sdkVars, kaVars, appVars, programVars
<1> QED
  BY <1>1, <1>2, <1>3, <1>4, <1>5, <1>6, <1>7, <1>8, <1>9, <1>10, <1>11, <1>12, <1>13, 
     <1>14, <1>15, <1>16, <1>17, <1>18, <1>19, <1>20, <1>21, <1>22, <1>23, <1>24, <1>25, 
     <1>26, <1>27, <1>28, <1>29
     DEF ProgramNext, Run, ProgramHandlerStep, Meanwhile, AppStep, KeepAliveStep

LEMMA ThereStep == TypeOK /\ CallInv /\ FlowInv /\ SessionThere /\ [ProgramNext]_allVars => SessionThere'
<1> DEFINE Hyp == TypeOK /\ CallInv /\ FlowInv /\ SessionThere
<1> USE ConstantsAssumption DEF TypeOK, CallInv, CallFindsItsSession, FlowInv, SessionThere, Using, fields, sdkVars, kaVars, appVars, programVars
<1>1. Hyp /\ DiscoveryFails => SessionThere'
  BY DEF DiscoveryFails, vars
<1>2. Hyp /\ CallConnect => SessionThere'
  BY DEF CallConnect, Connect
<1>3. Hyp /\ CheckConnected => SessionThere'
  BY DEF CheckConnected, vars
<1>4. Hyp /\ EnableTransfer => SessionThere'
  BY DEF EnableTransfer, vars
<1>5. Hyp /\ Read => SessionThere'
  BY DEF Read, vars
<1>6. Hyp /\ ReadFails => SessionThere'
  BY DEF ReadFails, vars
<1>7. Hyp /\ CallDisconnect => SessionThere'
  BY DEF CallDisconnect, Disconnect
<1>8. Hyp /\ Leave => SessionThere'
  BY DEF Leave, Dispose
<1>9. Hyp /\ Meanwhile(CreateSession) => SessionThere'
  BY DEF Meanwhile, CreateSession
<1>10. Hyp /\ Meanwhile(ConnectFails) => SessionThere'
  BY DEF Meanwhile, ConnectFails
<1>11. Hyp /\ Meanwhile(AssignSession) => SessionThere'
  BY DEF Meanwhile, AssignSession
<1>12. Hyp /\ Meanwhile(Subscribe) => SessionThere'
  BY DEF Meanwhile, Subscribe
<1>13. Hyp /\ Meanwhile(CloseSession) => SessionThere'
  BY DEF Meanwhile, CloseSession
<1>14. Hyp /\ Meanwhile(CloseFails) => SessionThere'
  BY DEF Meanwhile, CloseFails
<1>15. Hyp /\ Meanwhile(ClearSession) => SessionThere'
  BY DEF Meanwhile, ClearSession
<1>16. ASSUME NEW s \in Sessions
       PROVE  Hyp /\ Meanwhile(Break(s)) => SessionThere'
  BY DEF Meanwhile, Break
<1>17. ASSUME NEW s \in Sessions, NEW k \in Callbacks
       PROVE  Hyp /\ Meanwhile(RaiseKeepAlive(k, s)) => SessionThere'
  BY DEF Meanwhile, RaiseKeepAlive
<1>18. ASSUME NEW k \in Callbacks
       PROVE  Hyp /\ Meanwhile(CheckSession(k)) => SessionThere'
  BY DEF Meanwhile, CheckSession
<1>19. ASSUME NEW k \in Callbacks
       PROVE  Hyp /\ Meanwhile(LockKeepAlive(k)) => SessionThere'
  BY DEF Meanwhile, LockKeepAlive, Take
<1>20. ASSUME NEW k \in Callbacks
       PROVE  Hyp /\ Meanwhile(Decide(k)) => SessionThere'
  BY DEF Meanwhile, Decide
<1>21. ASSUME NEW k \in Callbacks
       PROVE  Hyp /\ Meanwhile(NewHandler(k)) => SessionThere'
  BY DEF Meanwhile, NewHandler
<1>22. ASSUME NEW k \in Callbacks
       PROVE  Hyp /\ Meanwhile(InProgress(k)) => SessionThere'
  BY DEF Meanwhile, InProgress, Release
<1>23. ASSUME NEW k \in Callbacks
       PROVE  Hyp /\ Meanwhile(BeginReconnect(k)) => SessionThere'
  BY DEF Meanwhile, BeginReconnect, Release
<1>24. ASSUME NEW h \in Handlers
       PROVE  Hyp /\ Meanwhile(Recover(h)) => SessionThere'
  BY DEF Meanwhile, Recover, ReconnectDone
<1>25. ASSUME NEW h \in Handlers
       PROVE  Hyp /\ Meanwhile(CheckSender(h)) => SessionThere'
  BY DEF Meanwhile, CheckSender
<1>26. ASSUME NEW h \in Handlers
       PROVE  Hyp /\ Meanwhile(Complete(h)) => SessionThere'
  BY DEF Meanwhile, Complete, CompleteWith, TakenOver, Release
<1>27. ASSUME NEW h \in Handlers
       PROVE  Hyp /\ Meanwhile(LockComplete(h)) => SessionThere'
  BY DEF Meanwhile, LockComplete, Take
<1>28. ASSUME NEW h \in Handlers
       PROVE  Hyp /\ RecreateWithSettings(h) => SessionThere'
  BY DEF RecreateWithSettings, Recreate, ReconnectDone
<1>29. Hyp /\ UNCHANGED allVars => SessionThere'
  BY DEF allVars, vars
<1> HIDE DEF TypeOK, CallInv, CallFindsItsSession, FlowInv, SessionThere, Using, fields, sdkVars, kaVars, appVars, programVars
<1> QED
  BY <1>1, <1>2, <1>3, <1>4, <1>5, <1>6, <1>7, <1>8, <1>9, <1>10, <1>11, <1>12, <1>13, 
     <1>14, <1>15, <1>16, <1>17, <1>18, <1>19, <1>20, <1>21, <1>22, <1>23, <1>24, <1>25, 
     <1>26, <1>27, <1>28, <1>29
     DEF ProgramNext, Run, ProgramHandlerStep, Meanwhile, AppStep, KeepAliveStep

LEMMA SwapStep == TypeOK /\ CallInv /\ HandlerInv /\ FlowInv /\ FreshInv /\ SwapInv /\ [ProgramNext]_allVars => SwapInv'
<1> DEFINE Hyp == TypeOK /\ CallInv /\ HandlerInv /\ FlowInv /\ FreshInv /\ SwapInv
<1> USE ConstantsAssumption DEF TypeOK, CallInv, CallFindsItsSession, HandlerInv, BeginInv, DoneInv, OneReconnect, FlowInv, FreshInv, Silent, SwapInv, InUse, Using, Connected, fields, sdkVars, kaVars, appVars, programVars
<1>1. Hyp /\ DiscoveryFails => SwapInv'
  BY DEF DiscoveryFails, vars
<1>2. Hyp /\ CallConnect => SwapInv'
  BY DEF CallConnect, Connect
<1>3. Hyp /\ CheckConnected => SwapInv'
  BY DEF CheckConnected, vars
<1>4. Hyp /\ EnableTransfer => SwapInv'
  BY DEF EnableTransfer, vars
<1>5. Hyp /\ Read => SwapInv'
  BY DEF Read, vars
<1>6. Hyp /\ ReadFails => SwapInv'
  BY DEF ReadFails, vars
<1>7. Hyp /\ CallDisconnect => SwapInv'
  BY DEF CallDisconnect, Disconnect
<1>8. Hyp /\ Leave => SwapInv'
  BY DEF Leave, Dispose
<1>9. Hyp /\ Meanwhile(CreateSession) => SwapInv'
  BY DEF Meanwhile, CreateSession
<1>10. Hyp /\ Meanwhile(ConnectFails) => SwapInv'
  BY DEF Meanwhile, ConnectFails
<1>11. Hyp /\ Meanwhile(AssignSession) => SwapInv'
  BY DEF Meanwhile, AssignSession
<1>12. Hyp /\ Meanwhile(Subscribe) => SwapInv'
  BY DEF Meanwhile, Subscribe
<1>13. Hyp /\ Meanwhile(CloseSession) => SwapInv'
  BY DEF Meanwhile, CloseSession
<1>14. Hyp /\ Meanwhile(CloseFails) => SwapInv'
  BY DEF Meanwhile, CloseFails
<1>15. Hyp /\ Meanwhile(ClearSession) => SwapInv'
  BY DEF Meanwhile, ClearSession
<1>16. ASSUME NEW s \in Sessions
       PROVE  Hyp /\ Meanwhile(Break(s)) => SwapInv'
  BY DEF Meanwhile, Break
<1>17. ASSUME NEW s \in Sessions, NEW k \in Callbacks
       PROVE  Hyp /\ Meanwhile(RaiseKeepAlive(k, s)) => SwapInv'
  BY DEF Meanwhile, RaiseKeepAlive
<1>18. ASSUME NEW k \in Callbacks
       PROVE  Hyp /\ Meanwhile(CheckSession(k)) => SwapInv'
  BY DEF Meanwhile, CheckSession
<1>19. ASSUME NEW k \in Callbacks
       PROVE  Hyp /\ Meanwhile(LockKeepAlive(k)) => SwapInv'
  BY DEF Meanwhile, LockKeepAlive, Take
<1>20. ASSUME NEW k \in Callbacks
       PROVE  Hyp /\ Meanwhile(Decide(k)) => SwapInv'
  BY DEF Meanwhile, Decide
<1>21. ASSUME NEW k \in Callbacks
       PROVE  Hyp /\ Meanwhile(NewHandler(k)) => SwapInv'
  BY DEF Meanwhile, NewHandler
<1>22. ASSUME NEW k \in Callbacks
       PROVE  Hyp /\ Meanwhile(InProgress(k)) => SwapInv'
  BY DEF Meanwhile, InProgress, Release
<1>23. ASSUME NEW k \in Callbacks
       PROVE  Hyp /\ Meanwhile(BeginReconnect(k)) => SwapInv'
  BY DEF Meanwhile, BeginReconnect, Release
<1>24. ASSUME NEW h \in Handlers
       PROVE  Hyp /\ Meanwhile(Recover(h)) => SwapInv'
  BY DEF Meanwhile, Recover, ReconnectDone
<1>25. ASSUME NEW h \in Handlers
       PROVE  Hyp /\ Meanwhile(CheckSender(h)) => SwapInv'
  BY DEF Meanwhile, CheckSender
<1>26. ASSUME NEW h \in Handlers
       PROVE  Hyp /\ Meanwhile(Complete(h)) => SwapInv'
  BY DEF Meanwhile, Complete, CompleteWith, TakenOver, Release
<1>27. ASSUME NEW h \in Handlers
       PROVE  Hyp /\ Meanwhile(LockComplete(h)) => SwapInv'
  BY DEF Meanwhile, LockComplete, Take
<1>28. ASSUME NEW h \in Handlers
       PROVE  Hyp /\ RecreateWithSettings(h) => SwapInv'
  BY DEF RecreateWithSettings, Recreate, ReconnectDone
<1>29. Hyp /\ UNCHANGED allVars => SwapInv'
  BY DEF allVars, vars
<1> HIDE DEF TypeOK, CallInv, CallFindsItsSession, HandlerInv, BeginInv, DoneInv, OneReconnect, FlowInv, FreshInv, Silent, SwapInv, InUse, Using, Connected, fields, sdkVars, kaVars, appVars, programVars
<1> QED
  BY <1>1, <1>2, <1>3, <1>4, <1>5, <1>6, <1>7, <1>8, <1>9, <1>10, <1>11, <1>12, <1>13, 
     <1>14, <1>15, <1>16, <1>17, <1>18, <1>19, <1>20, <1>21, <1>22, <1>23, <1>24, <1>25, 
     <1>26, <1>27, <1>28, <1>29
     DEF ProgramNext, Run, ProgramHandlerStep, Meanwhile, AppStep, KeepAliveStep

LEMMA ClosedStep == TypeOK /\ HandlerInv /\ FlowInv /\ FreshInv /\ SwapInv /\ ClosedSessionIsReplaced /\ [ProgramNext]_allVars => ClosedSessionIsReplaced'
<1> DEFINE Hyp == TypeOK /\ HandlerInv /\ FlowInv /\ FreshInv /\ SwapInv /\ ClosedSessionIsReplaced
<1> USE ConstantsAssumption DEF TypeOK, HandlerInv, BeginInv, DoneInv, OneReconnect, FlowInv, FreshInv, SwapInv, ClosedSessionIsReplaced, Replacing, InUse, Using, Connected, fields, sdkVars, kaVars, appVars, programVars
<1>1. Hyp /\ DiscoveryFails => ClosedSessionIsReplaced'
  BY DEF DiscoveryFails, vars
<1>2. Hyp /\ CallConnect => ClosedSessionIsReplaced'
  BY DEF CallConnect, Connect
<1>3. Hyp /\ CheckConnected => ClosedSessionIsReplaced'
  BY DEF CheckConnected, vars
<1>4. Hyp /\ EnableTransfer => ClosedSessionIsReplaced'
  BY DEF EnableTransfer, vars
<1>5. Hyp /\ Read => ClosedSessionIsReplaced'
  BY DEF Read, vars
<1>6. Hyp /\ ReadFails => ClosedSessionIsReplaced'
  BY DEF ReadFails, vars
<1>7. Hyp /\ CallDisconnect => ClosedSessionIsReplaced'
  BY DEF CallDisconnect, Disconnect
<1>8. Hyp /\ Leave => ClosedSessionIsReplaced'
  BY DEF Leave, Dispose
<1>9. Hyp /\ Meanwhile(CreateSession) => ClosedSessionIsReplaced'
  BY DEF Meanwhile, CreateSession
<1>10. Hyp /\ Meanwhile(ConnectFails) => ClosedSessionIsReplaced'
  BY DEF Meanwhile, ConnectFails
<1>11. Hyp /\ Meanwhile(AssignSession) => ClosedSessionIsReplaced'
  BY DEF Meanwhile, AssignSession
<1>12. Hyp /\ Meanwhile(Subscribe) => ClosedSessionIsReplaced'
  BY DEF Meanwhile, Subscribe
<1>13. Hyp /\ Meanwhile(CloseSession) => ClosedSessionIsReplaced'
  BY DEF Meanwhile, CloseSession
<1>14. Hyp /\ Meanwhile(CloseFails) => ClosedSessionIsReplaced'
  BY DEF Meanwhile, CloseFails
<1>15. Hyp /\ Meanwhile(ClearSession) => ClosedSessionIsReplaced'
  BY DEF Meanwhile, ClearSession
<1>16. ASSUME NEW s \in Sessions
       PROVE  Hyp /\ Meanwhile(Break(s)) => ClosedSessionIsReplaced'
  BY DEF Meanwhile, Break
<1>17. ASSUME NEW s \in Sessions, NEW k \in Callbacks
       PROVE  Hyp /\ Meanwhile(RaiseKeepAlive(k, s)) => ClosedSessionIsReplaced'
  BY DEF Meanwhile, RaiseKeepAlive
<1>18. ASSUME NEW k \in Callbacks
       PROVE  Hyp /\ Meanwhile(CheckSession(k)) => ClosedSessionIsReplaced'
  BY DEF Meanwhile, CheckSession
<1>19. ASSUME NEW k \in Callbacks
       PROVE  Hyp /\ Meanwhile(LockKeepAlive(k)) => ClosedSessionIsReplaced'
  BY DEF Meanwhile, LockKeepAlive, Take
<1>20. ASSUME NEW k \in Callbacks
       PROVE  Hyp /\ Meanwhile(Decide(k)) => ClosedSessionIsReplaced'
  BY DEF Meanwhile, Decide
<1>21. ASSUME NEW k \in Callbacks
       PROVE  Hyp /\ Meanwhile(NewHandler(k)) => ClosedSessionIsReplaced'
  BY DEF Meanwhile, NewHandler
<1>22. ASSUME NEW k \in Callbacks
       PROVE  Hyp /\ Meanwhile(InProgress(k)) => ClosedSessionIsReplaced'
  BY DEF Meanwhile, InProgress, Release
<1>23. ASSUME NEW k \in Callbacks
       PROVE  Hyp /\ Meanwhile(BeginReconnect(k)) => ClosedSessionIsReplaced'
  BY DEF Meanwhile, BeginReconnect, Release
<1>24. ASSUME NEW h \in Handlers
       PROVE  Hyp /\ Meanwhile(Recover(h)) => ClosedSessionIsReplaced'
  BY DEF Meanwhile, Recover, ReconnectDone
<1>25. ASSUME NEW h \in Handlers
       PROVE  Hyp /\ Meanwhile(CheckSender(h)) => ClosedSessionIsReplaced'
  BY DEF Meanwhile, CheckSender
<1>26. ASSUME NEW h \in Handlers
       PROVE  Hyp /\ Meanwhile(Complete(h)) => ClosedSessionIsReplaced'
  BY DEF Meanwhile, Complete, CompleteWith, TakenOver, Release
<1>27. ASSUME NEW h \in Handlers
       PROVE  Hyp /\ Meanwhile(LockComplete(h)) => ClosedSessionIsReplaced'
  BY DEF Meanwhile, LockComplete, Take
<1>28. ASSUME NEW h \in Handlers
       PROVE  Hyp /\ RecreateWithSettings(h) => ClosedSessionIsReplaced'
  BY DEF RecreateWithSettings, Recreate, ReconnectDone
<1>29. Hyp /\ UNCHANGED allVars => ClosedSessionIsReplaced'
  BY DEF allVars, vars
<1> HIDE DEF TypeOK, HandlerInv, BeginInv, DoneInv, OneReconnect, FlowInv, FreshInv, SwapInv, ClosedSessionIsReplaced, Replacing, InUse, Using, Connected, fields, sdkVars, kaVars, appVars, programVars
<1> QED
  BY <1>1, <1>2, <1>3, <1>4, <1>5, <1>6, <1>7, <1>8, <1>9, <1>10, <1>11, <1>12, <1>13, 
     <1>14, <1>15, <1>16, <1>17, <1>18, <1>19, <1>20, <1>21, <1>22, <1>23, <1>24, <1>25, 
     <1>26, <1>27, <1>28, <1>29
     DEF ProgramNext, Run, ProgramHandlerStep, Meanwhile, AppStep, KeepAliveStep

LEMMA TransferStep == TypeOK /\ HandlerInv /\ FlowInv /\ SessionThere /\ SwapInv /\ TransferInv /\ [ProgramNext]_allVars => TransferInv'
<1> DEFINE Hyp == TypeOK /\ HandlerInv /\ FlowInv /\ SessionThere /\ SwapInv /\ TransferInv
<1> USE ConstantsAssumption DEF TypeOK, HandlerInv, BeginInv, DoneInv, OneReconnect, FlowInv, SessionThere, SwapInv, TransferInv, Replacing, InUse, Using, Connected, fields, sdkVars, kaVars, appVars, programVars
<1>1. Hyp /\ DiscoveryFails => TransferInv'
  BY DEF DiscoveryFails, vars
<1>2. Hyp /\ CallConnect => TransferInv'
  BY DEF CallConnect, Connect
<1>3. Hyp /\ CheckConnected => TransferInv'
  BY DEF CheckConnected, vars
<1>4. Hyp /\ EnableTransfer => TransferInv'
  BY DEF EnableTransfer, vars
<1>5. Hyp /\ Read => TransferInv'
  BY DEF Read, vars
<1>6. Hyp /\ ReadFails => TransferInv'
  BY DEF ReadFails, vars
<1>7. Hyp /\ CallDisconnect => TransferInv'
  BY DEF CallDisconnect, Disconnect
<1>8. Hyp /\ Leave => TransferInv'
  BY DEF Leave, Dispose
<1>9. Hyp /\ Meanwhile(CreateSession) => TransferInv'
  BY DEF Meanwhile, CreateSession
<1>10. Hyp /\ Meanwhile(ConnectFails) => TransferInv'
  BY DEF Meanwhile, ConnectFails
<1>11. Hyp /\ Meanwhile(AssignSession) => TransferInv'
  BY DEF Meanwhile, AssignSession
<1>12. Hyp /\ Meanwhile(Subscribe) => TransferInv'
  BY DEF Meanwhile, Subscribe
<1>13. Hyp /\ Meanwhile(CloseSession) => TransferInv'
  BY DEF Meanwhile, CloseSession
<1>14. Hyp /\ Meanwhile(CloseFails) => TransferInv'
  BY DEF Meanwhile, CloseFails
<1>15. Hyp /\ Meanwhile(ClearSession) => TransferInv'
  BY DEF Meanwhile, ClearSession
<1>16. ASSUME NEW s \in Sessions
       PROVE  Hyp /\ Meanwhile(Break(s)) => TransferInv'
  BY DEF Meanwhile, Break
<1>17. ASSUME NEW s \in Sessions, NEW k \in Callbacks
       PROVE  Hyp /\ Meanwhile(RaiseKeepAlive(k, s)) => TransferInv'
  BY DEF Meanwhile, RaiseKeepAlive
<1>18. ASSUME NEW k \in Callbacks
       PROVE  Hyp /\ Meanwhile(CheckSession(k)) => TransferInv'
  BY DEF Meanwhile, CheckSession
<1>19. ASSUME NEW k \in Callbacks
       PROVE  Hyp /\ Meanwhile(LockKeepAlive(k)) => TransferInv'
  BY DEF Meanwhile, LockKeepAlive, Take
<1>20. ASSUME NEW k \in Callbacks
       PROVE  Hyp /\ Meanwhile(Decide(k)) => TransferInv'
  BY DEF Meanwhile, Decide
<1>21. ASSUME NEW k \in Callbacks
       PROVE  Hyp /\ Meanwhile(NewHandler(k)) => TransferInv'
  BY DEF Meanwhile, NewHandler
<1>22. ASSUME NEW k \in Callbacks
       PROVE  Hyp /\ Meanwhile(InProgress(k)) => TransferInv'
  BY DEF Meanwhile, InProgress, Release
<1>23. ASSUME NEW k \in Callbacks
       PROVE  Hyp /\ Meanwhile(BeginReconnect(k)) => TransferInv'
  BY DEF Meanwhile, BeginReconnect, Release
<1>24. ASSUME NEW h \in Handlers
       PROVE  Hyp /\ Meanwhile(Recover(h)) => TransferInv'
  BY DEF Meanwhile, Recover, ReconnectDone
<1>25. ASSUME NEW h \in Handlers
       PROVE  Hyp /\ Meanwhile(CheckSender(h)) => TransferInv'
  BY DEF Meanwhile, CheckSender
<1>26. ASSUME NEW h \in Handlers
       PROVE  Hyp /\ Meanwhile(Complete(h)) => TransferInv'
  BY DEF Meanwhile, Complete, CompleteWith, TakenOver, Release
<1>27. ASSUME NEW h \in Handlers
       PROVE  Hyp /\ Meanwhile(LockComplete(h)) => TransferInv'
  BY DEF Meanwhile, LockComplete, Take
<1>28. ASSUME NEW h \in Handlers
       PROVE  Hyp /\ RecreateWithSettings(h) => TransferInv'
  BY DEF RecreateWithSettings, Recreate, ReconnectDone
<1>29. Hyp /\ UNCHANGED allVars => TransferInv'
  BY DEF allVars, vars
<1> HIDE DEF TypeOK, HandlerInv, BeginInv, DoneInv, OneReconnect, FlowInv, SessionThere, SwapInv, TransferInv, Replacing, InUse, Using, Connected, fields, sdkVars, kaVars, appVars, programVars
<1> QED
  BY <1>1, <1>2, <1>3, <1>4, <1>5, <1>6, <1>7, <1>8, <1>9, <1>10, <1>11, <1>12, <1>13, 
     <1>14, <1>15, <1>16, <1>17, <1>18, <1>19, <1>20, <1>21, <1>22, <1>23, <1>24, <1>25, 
     <1>26, <1>27, <1>28, <1>29
     DEF ProgramNext, Run, ProgramHandlerStep, Meanwhile, AppStep, KeepAliveStep

------------------------------------------------------------------------------
THEOREM ProgramInvariance == ProgramSpec => []ProgInv
<1>1. ProgramInit => ProgInv
  BY ConstantsAssumption
     DEF ProgramInit, Init, ProgInv, IndInv, TypeOK, CallInv, CallFindsItsSession, LockInv, HandlerInv, BeginInv, DoneInv,
         OneReconnect, FlowInv, FreshInv, Silent, SessionThere, SwapInv, ClosedSessionIsReplaced,
         TransferInv, Using, InUse
<1>2. ProgInv /\ [ProgramNext]_allVars => ProgInv'
  BY ClientStep, FlowStep, FreshStep, ThereStep, SwapStep, ClosedStep, TransferStep DEF ProgInv, IndInv
<1> QED
  BY <1>1, <1>2, PTL DEF ProgramSpec

(* Program.Run is an application as UAClient expects one: whatever it does  *)
(* is a step of UAClient, so that all that is proved of that holds here.    *)
THEOREM ProgramIsAClient == ProgramSpec => Init /\ [][Next]_vars
<1>1. ProgramInit => Init
  BY DEF ProgramInit
<1> QED
  BY <1>1, ProgramSteps, PTL DEF ProgramSpec

(* uaClient.Session is never null where Program.Run dereferences it. *)
THEOREM SessionIsThere == ProgramSpec => []SessionThere
<1>1. ProgInv => SessionThere
  BY DEF ProgInv
<1> QED
  BY ProgramInvariance, <1>1, PTL

(* Once Program.Run has enabled the transfer of subscriptions every session *)
(* in use has it, unless a new session was about to take over just then.    *)
THEOREM TransferStaysEnabled == ProgramSpec => []TransferEnabled
<1>1. ProgInv => TransferEnabled
  BY DEF ProgInv, TransferInv, TransferEnabled
<1> QED
  BY ProgramInvariance, <1>1, PTL

(* Until Program.Run disconnects, UAClient names a closed session only      *)
(* while Client_ReconnectComplete is about to replace it.                   *)
THEOREM ClosedOnlyForAWhile == ProgramSpec => []ClosedSessionIsReplaced
<1>1. ProgInv => ClosedSessionIsReplaced
  BY DEF ProgInv
<1> QED
  BY ProgramInvariance, <1>1, PTL

(* Only Client_ReconnectComplete exchanges a session, and a closed one. *)
LEMMA WorkingStep == ProgInv /\ [ProgramNext]_allVars =>
  (InUse /\ m_session' # m_session /\ m_session # null => session[m_session] # "up")
<1> DEFINE Hyp == ProgInv
<1> DEFINE Kept == InUse /\ m_session' # m_session /\ m_session # null => session[m_session] # "up"
<1> USE ConstantsAssumption DEF ProgInv, IndInv, TypeOK, CallInv, CallFindsItsSession, LockInv, HandlerInv, BeginInv, DoneInv, OneReconnect, Threads, FlowInv, FreshInv, SwapInv, InUse, Using, fields, sdkVars, kaVars, appVars, programVars
<1>1. Hyp /\ DiscoveryFails => Kept
  BY DEF DiscoveryFails, vars
<1>2. Hyp /\ CallConnect => Kept
  BY DEF CallConnect, Connect
<1>3. Hyp /\ CheckConnected => Kept
  BY DEF CheckConnected, vars
<1>4. Hyp /\ EnableTransfer => Kept
  BY DEF EnableTransfer, vars
<1>5. Hyp /\ Read => Kept
  BY DEF Read, vars
<1>6. Hyp /\ ReadFails => Kept
  BY DEF ReadFails, vars
<1>7. Hyp /\ CallDisconnect => Kept
  BY DEF CallDisconnect, Disconnect
<1>8. Hyp /\ Leave => Kept
  BY DEF Leave, Dispose
<1>9. Hyp /\ Meanwhile(CreateSession) => Kept
  BY DEF Meanwhile, CreateSession
<1>10. Hyp /\ Meanwhile(ConnectFails) => Kept
  BY DEF Meanwhile, ConnectFails
<1>11. Hyp /\ Meanwhile(AssignSession) => Kept
  BY DEF Meanwhile, AssignSession
<1>12. Hyp /\ Meanwhile(Subscribe) => Kept
  BY DEF Meanwhile, Subscribe
<1>13. Hyp /\ Meanwhile(CloseSession) => Kept
  BY DEF Meanwhile, CloseSession
<1>14. Hyp /\ Meanwhile(CloseFails) => Kept
  BY DEF Meanwhile, CloseFails
<1>15. Hyp /\ Meanwhile(ClearSession) => Kept
  BY DEF Meanwhile, ClearSession
<1>16. ASSUME NEW s \in Sessions
       PROVE  Hyp /\ Meanwhile(Break(s)) => Kept
  BY DEF Meanwhile, Break
<1>17. ASSUME NEW s \in Sessions, NEW k \in Callbacks
       PROVE  Hyp /\ Meanwhile(RaiseKeepAlive(k, s)) => Kept
  BY DEF Meanwhile, RaiseKeepAlive
<1>18. ASSUME NEW k \in Callbacks
       PROVE  Hyp /\ Meanwhile(CheckSession(k)) => Kept
  BY DEF Meanwhile, CheckSession
<1>19. ASSUME NEW k \in Callbacks
       PROVE  Hyp /\ Meanwhile(LockKeepAlive(k)) => Kept
  BY DEF Meanwhile, LockKeepAlive, Take
<1>20. ASSUME NEW k \in Callbacks
       PROVE  Hyp /\ Meanwhile(Decide(k)) => Kept
  BY DEF Meanwhile, Decide
<1>21. ASSUME NEW k \in Callbacks
       PROVE  Hyp /\ Meanwhile(NewHandler(k)) => Kept
  BY DEF Meanwhile, NewHandler
<1>22. ASSUME NEW k \in Callbacks
       PROVE  Hyp /\ Meanwhile(InProgress(k)) => Kept
  BY DEF Meanwhile, InProgress, Release
<1>23. ASSUME NEW k \in Callbacks
       PROVE  Hyp /\ Meanwhile(BeginReconnect(k)) => Kept
  BY DEF Meanwhile, BeginReconnect, Release
<1>24. ASSUME NEW h \in Handlers
       PROVE  Hyp /\ Meanwhile(Recover(h)) => Kept
  BY DEF Meanwhile, Recover, ReconnectDone
<1>25. ASSUME NEW h \in Handlers
       PROVE  Hyp /\ Meanwhile(CheckSender(h)) => Kept
  BY DEF Meanwhile, CheckSender
<1>26. ASSUME NEW h \in Handlers
       PROVE  Hyp /\ Meanwhile(Complete(h)) => Kept
  BY DEF Meanwhile, Complete, CompleteWith, TakenOver, Release
<1>27. ASSUME NEW h \in Handlers
       PROVE  Hyp /\ Meanwhile(LockComplete(h)) => Kept
  BY DEF Meanwhile, LockComplete, Take
<1>28. ASSUME NEW h \in Handlers
       PROVE  Hyp /\ RecreateWithSettings(h) => Kept
  BY DEF RecreateWithSettings, Recreate, ReconnectDone
<1>29. Hyp /\ UNCHANGED allVars => Kept
  BY DEF allVars, vars
<1> HIDE DEF ProgInv, IndInv, TypeOK, CallInv, CallFindsItsSession, LockInv, HandlerInv, BeginInv, DoneInv, OneReconnect, Threads, FlowInv, FreshInv, SwapInv, InUse, Using, fields, sdkVars, kaVars, appVars, programVars
<1> QED
  BY <1>1, <1>2, <1>3, <1>4, <1>5, <1>6, <1>7, <1>8, <1>9, <1>10, <1>11, <1>12, <1>13, 
     <1>14, <1>15, <1>16, <1>17, <1>18, <1>19, <1>20, <1>21, <1>22, <1>23, <1>24, <1>25, 
     <1>26, <1>27, <1>28, <1>29
     DEF ProgramNext, Run, ProgramHandlerStep, Meanwhile, AppStep, KeepAliveStep

(* Until Program.Run disconnects, m_session is exchanged only when the      *)
(* session it names is broken or closed.                                    *)
THEOREM OnlyDownIsExchanged == ProgramSpec => NoWorkingSessionReplaced
<1>1. ProgInv /\ [ProgramNext]_allVars =>
        [InUse /\ m_session' # m_session /\ m_session # null => session[m_session] # "up"]_allVars
  BY WorkingStep
<1> QED
  BY <1>1, ProgramInvariance, PTL DEF ProgramSpec, NoWorkingSessionReplaced
================================================================================
