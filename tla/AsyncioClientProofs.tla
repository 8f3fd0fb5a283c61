------------------------- MODULE AsyncioClientProofs -------------------------
(***************************************************************************)
(* The invariants of AsyncioClient hold for any number of processes and of *)
(* runs.                                                                   *)
(***************************************************************************)
EXTENDS AsyncioClient, TLAPS

(* Runs are numbered in the order in which they start, and a run that is    *)
(* not alone is on record.                                                  *)
RunInv ==
  /\ sessions \subseteq 1..runs
  /\ \A p \in Processes : pc[p] # "ended" => run[p] \in 1..runs
  /\ \A p, q \in Processes :
       p # q /\ pc[p] # "ended" /\ pc[q] # "ended" =>
         run[p] # run[q] /\ run[p] \in overlapped

(* What is in the files, and what was read, while a run is alone. *)
FileInv ==
  \A p \in Processes :
    pc[p] # "ended" /\ run[p] \notin overlapped =>
      /\ pc[p] \notin {"openKey", "writeKey"} => keyFile = run[p]
      /\ pc[p] \notin Writing => certFile = run[p]
      /\ pc[p] \in {"loadKey", "connect", "read", "leave"} => cert[p] = run[p]
      /\ pc[p] \in {"connect", "read", "leave"} => key[p] = run[p]

(* A run has its session only in the body of async with, unless something   *)
(* went wrong when it connected.                                            *)
SessionInv ==
  \A p \in Processes :
    pc[p] # "ended" /\ run[p] \in sessions /\ run[p] \notin disturbed =>
      pc[p] \in {"read", "leave"}

IndInv == /\ TypeOK /\ RunInv /\ FileInv
          /\ DiscoverySocketClosed /\ SessionInv /\ NoSessionLeft

LEMMA InitInd == Init => IndInv
BY ConstantsAssumption
   DEF Init, IndInv, TypeOK, RunInv, FileInv, DiscoverySocketClosed, SessionInv, NoSessionLeft,
       Statements, Writing, Discovery, Securing, Runs, Unreadable, Running

LEMMA IndImplies == IndInv => OwnPair
BY DEF IndInv, FileInv, OwnPair

USE DEF Goto, Await, Raised, Disturb, Running, Runs, Unreadable, Statements, Writing, Discovery,
        Securing, files, loaded, network, history

(* The files: whoever is alone writes both before it reads either. *)
LEMMA NextFiles ==
  ASSUME IndInv, NEW p \in Processes,
         \/ Start(p) \/ Step(p) \/ Interrupt(p) \/ Kill(p) \/ LoseConnection(p)
  PROVE  TypeOK' /\ RunInv' /\ FileInv'
<1> USE ConstantsAssumption DEF IndInv, TypeOK, RunInv, FileInv
<1>a. pc[p] # "ended" => run[p] \in 1..runs /\ run[p] \in 1..MaxRuns
  OBVIOUS
<1>1. CASE Start(p)
  <2>1. TypeOK'
    <3>1. runs + 1 \in 1..MaxRuns /\ 1..MaxRuns \subseteq 0..MaxRuns
      BY <1>1 DEF Start
    <3>2. {run[q] : q \in Running} \subseteq 1..MaxRuns
      BY <1>1
    <3>3. overlapped' \subseteq 1..MaxRuns
      BY <1>1, <3>1, <3>2 DEF Start
    <3>4. run' \in [Processes -> 0..MaxRuns] /\ runs' \in 0..MaxRuns
          /\ pc' \in [Processes -> Statements]
      BY <1>1, <3>1 DEF Start
    <3> QED BY <1>1, <3>3, <3>4 DEF Start
  <2>2. RunInv'
    <3>1. runs' = runs + 1 /\ run' = [run EXCEPT ![p] = runs + 1] /\ sessions' = sessions
          /\ pc' = [pc EXCEPT ![p] = "openKey"] /\ pc[p] = "ended" /\ runs \in Nat
      BY <1>1 DEF Start
    <3>2. overlapped \subseteq overlapped'
      BY <1>1 DEF Start
    <3>3. \A q \in Processes :
            q # p /\ pc[q] # "ended" => runs + 1 \in overlapped' /\ run[q] \in overlapped'
      BY <1>1 DEF Start
    <3>4. \A q \in Processes : q # p => run'[q] = run[q] /\ pc'[q] = pc[q]
      BY <3>1
    <3>5. run'[p] = runs + 1
      BY <3>1
    <3> QED BY <3>1, <3>2, <3>3, <3>4, <3>5
  <2>3. FileInv' BY <1>1 DEF Start
  <2> QED BY <2>1, <2>2, <2>3
<1>2. CASE TruncateKey(p)     BY <1>2 DEF TruncateKey
<1>3. CASE WriteKey(p)        BY <1>3 DEF WriteKey
<1>4. CASE TruncateCert(p)    BY <1>4 DEF TruncateCert
<1>5. CASE WriteCert(p)       BY <1>5 DEF WriteCert
<1>6. CASE WritingFails(p)    BY <1>6 DEF WritingFails
<1>7. CASE ConnectSocket(p)   BY <1>7 DEF ConnectSocket
<1>8. CASE DiscoveryEnds(p)   BY <1>8 DEF DiscoveryEnds
<1>9. CASE Verify(p)          BY <1>9 DEF Verify
<1>10. CASE LoadCert(p)       BY <1>10 DEF LoadCert
<1>11. CASE LoadKey(p)        BY <1>11 DEF LoadKey
<1>12. CASE SecuringFails(p)  BY <1>12 DEF SecuringFails
<1>13. CASE Connect(p)
  <2>1. TypeOK'  BY <1>13, <1>a DEF Connect
  <2>2. RunInv'  BY <1>13, <1>a DEF Connect
  <2>3. FileInv' BY <1>13, <1>a DEF Connect
  <2> QED BY <2>1, <2>2, <2>3
<1>14. CASE ConnectFails(p)   BY <1>14 DEF ConnectFails
<1>15. CASE ReadingEnds(p)    BY <1>15 DEF ReadingEnds
<1>16. CASE CloseSession(p)   BY <1>16 DEF CloseSession
<1>17. CASE ClosingFails(p)   BY <1>17 DEF ClosingFails
<1>18. CASE Interrupt(p)
  <2>1. TypeOK'  BY <1>18, <1>a DEF Interrupt
  <2>2. RunInv'  BY <1>18, <1>a DEF Interrupt
  <2>3. FileInv' BY <1>18, <1>a DEF Interrupt
  <2> QED BY <2>1, <2>2, <2>3
<1>19. CASE Kill(p)
  <2>1. TypeOK'  BY <1>19, <1>a DEF Kill
  <2>2. RunInv'  BY <1>19, <1>a DEF Kill
  <2>3. FileInv' BY <1>19, <1>a DEF Kill
  <2> QED BY <2>1, <2>2, <2>3
<1>20. CASE LoseConnection(p)
  <2>1. TypeOK'  BY <1>20, <1>a DEF LoseConnection
  <2>2. RunInv'  BY <1>20, <1>a DEF LoseConnection
  <2>3. FileInv' BY <1>20, <1>a DEF LoseConnection
  <2> QED BY <2>1, <2>2, <2>3
<1> QED BY <1>1, <1>2, <1>3, <1>4, <1>5, <1>6, <1>7, <1>8, <1>9, <1>10, <1>11, <1>12, <1>13,
           <1>14, <1>15, <1>16, <1>17, <1>18, <1>19, <1>20 DEF Step

(* The connections: only get_endpoints holds its own, and a session outlives *)
(* the body of async with only when the run was disturbed.                   *)
LEMMA NextNetwork ==
  ASSUME IndInv, NEW p \in Processes,
         \/ Start(p) \/ Step(p) \/ Interrupt(p) \/ Kill(p) \/ LoseConnection(p)
  PROVE  DiscoverySocketClosed' /\ SessionInv' /\ NoSessionLeft'
<1> USE ConstantsAssumption
    DEF IndInv, TypeOK, RunInv, DiscoverySocketClosed, SessionInv, NoSessionLeft
<1>1. CASE Start(p)           BY <1>1 DEF Start
<1>2. CASE TruncateKey(p)     BY <1>2 DEF TruncateKey
<1>3. CASE WriteKey(p)        BY <1>3 DEF WriteKey
<1>4. CASE TruncateCert(p)    BY <1>4 DEF TruncateCert
<1>5. CASE WriteCert(p)       BY <1>5 DEF WriteCert
<1>6. CASE WritingFails(p)    BY <1>6 DEF WritingFails
<1>7. CASE ConnectSocket(p)   BY <1>7 DEF ConnectSocket
<1>8. CASE DiscoveryEnds(p)   BY <1>8 DEF DiscoveryEnds
<1>9. CASE Verify(p)          BY <1>9 DEF Verify
<1>10. CASE LoadCert(p)       BY <1>10 DEF LoadCert
<1>11. CASE LoadKey(p)        BY <1>11 DEF LoadKey
<1>12. CASE SecuringFails(p)  BY <1>12 DEF SecuringFails
<1>13. CASE Connect(p)        BY <1>13 DEF Connect
<1>14. CASE ConnectFails(p)   BY <1>14 DEF ConnectFails
<1>15. CASE ReadingEnds(p)    BY <1>15 DEF ReadingEnds
<1>16. CASE CloseSession(p)   BY <1>16 DEF CloseSession
<1>17. CASE ClosingFails(p)   BY <1>17 DEF ClosingFails
<1>18. CASE Interrupt(p)      BY <1>18 DEF Interrupt
<1>19. CASE Kill(p)           BY <1>19 DEF Kill
<1>20. CASE LoseConnection(p) BY <1>20 DEF LoseConnection
<1> QED BY <1>1, <1>2, <1>3, <1>4, <1>5, <1>6, <1>7, <1>8, <1>9, <1>10, <1>11, <1>12, <1>13,
           <1>14, <1>15, <1>16, <1>17, <1>18, <1>19, <1>20 DEF Step

LEMMA NextInd == IndInv /\ [Next]_vars => IndInv'
<1> SUFFICES ASSUME IndInv, [Next]_vars PROVE IndInv'
  OBVIOUS
<1>1. CASE Next
  BY <1>1, NextFiles, NextNetwork DEF Next, IndInv
<1>2. CASE UNCHANGED vars
  BY <1>2 DEF vars, IndInv, TypeOK, RunInv, FileInv, DiscoverySocketClosed, SessionInv, NoSessionLeft
<1> QED BY <1>1, <1>2

LEMMA Inductive == Spec => []IndInv
BY InitInd, NextInd, PTL DEF Spec

(* Every variable keeps its type. *)
THEOREM TypeCorrect == Spec => []TypeOK
<1>1. IndInv => TypeOK BY DEF IndInv
<1> QED BY Inductive, <1>1, PTL

(* A run that is alone uses its own key and certificate, whatever the runs   *)
(* before it have left in the files.                                         *)
THEOREM AloneUsesOwnPair == Spec => []OwnPair
BY Inductive, IndImplies, PTL

(* get_endpoints closes its connection on every way out.                     *)
THEOREM DiscoveryCloses == Spec => []DiscoverySocketClosed
<1>1. IndInv => DiscoverySocketClosed BY DEF IndInv
<1> QED BY Inductive, <1>1, PTL

(* Only a run that was interrupted, killed or cut off leaves its session at  *)
(* the server.                                                               *)
THEOREM SessionsClosed == Spec => []NoSessionLeft
<1>1. IndInv => NoSessionLeft BY DEF IndInv
<1> QED BY Inductive, <1>1, PTL
==============================================================================
