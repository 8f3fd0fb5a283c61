---------------------------- MODULE AsyncioClient ----------------------------
(***************************************************************************)
(* opcua-asyncio-client: a program that makes a key and a certificate,     *)
(* writes them to two files, lists the endpoints of the server, and reads  *)
(* a value in a session that the two files secure.  It is run again and    *)
(* again, by several users of one directory at a time; it is interrupted   *)
(* (ctrl-c) and killed, and connections are lost.                          *)
(*                                                                         *)
(* A run is named by its number, and so are the key and the certificate    *)
(* that it makes.                                                          *)
(***************************************************************************)
EXTENDS Naturals

CONSTANTS Processes,  \* the places the program can run at
          MaxRuns     \* bound: how often it is started

ASSUME ConstantsAssumption == MaxRuns \in Nat

VARIABLES
  pc,          \* the next statement of main()
  run,         \* the number of the run, the last one if there is none now
  runs,        \* how many there have been
  keyFile,     \* private_key: whose key it holds
  certFile,    \* client_cert: whose certificate it holds
  cert, key,   \* what set_security has read
  socket,      \* whether get_endpoints has its connection open
  cancelled,   \* ctrl-c was pressed, and no await has raised it yet
  sessions,    \* the runs that have a session at the server
  disturbed,   \* the runs that were killed, interrupted or cut off
  overlapped   \* the runs that were not alone all the time

files   == <<keyFile, certFile>>
loaded  == <<cert, key>>
network == <<socket, sessions>>
history == <<disturbed, overlapped>>
vars == <<pc, run, runs, files, loaded, network, cancelled, history>>

Runs == 1..MaxRuns
Unreadable == 0  \* a file that is absent, truncated or torn

Writing    == {"openKey", "writeKey", "openCert", "writeCert"}
Discovery  == {"connectSocket", "talk"}
Securing   == {"verify", "loadCert", "loadKey"}
Statements == {"ended", "connect", "read", "leave"} \cup Writing \cup Discovery \cup Securing

TypeOK ==
  /\ pc \in [Processes -> Statements]
  /\ run \in [Processes -> 0..MaxRuns]
  /\ runs \in 0..MaxRuns
  /\ keyFile \in 0..MaxRuns /\ certFile \in 0..MaxRuns
  /\ cert \in [Processes -> 0..MaxRuns] /\ key \in [Processes -> 0..MaxRuns]
  /\ socket \in [Processes -> BOOLEAN]
  /\ cancelled \in [Processes -> BOOLEAN]
  /\ sessions \subseteq Runs
  /\ disturbed \subseteq Runs /\ overlapped \subseteq Runs

Init ==
  /\ pc = [p \in Processes |-> "ended"] /\ run = [p \in Processes |-> 0] /\ runs = 0
  /\ keyFile = Unreadable /\ certFile = Unreadable
  /\ cert = [p \in Processes |-> 0] /\ key = [p \in Processes |-> 0]
  /\ socket = [p \in Processes |-> FALSE]
  /\ cancelled = [p \in Processes |-> FALSE]
  /\ sessions = {} /\ disturbed = {} /\ overlapped = {}

Running == {p \in Processes : pc[p] # "ended"}

Goto(p, s) == pc' = [pc EXCEPT ![p] = s]

(* An await that returns: a pending cancellation would be raised instead. *)
Await(p, from, to) == pc[p] = from /\ ~cancelled[p] /\ Goto(p, to)

(* The exception a cancelled await raises has been raised. *)
Raised(p) == cancelled' = [cancelled EXCEPT ![p] = FALSE]

------------------------------------------------------------------------------
(* cert_gen: nothing in it suspends the coroutine. *)

(* MUTANT: a run too many. *)
StartOnceMore(p) ==
  /\ pc[p] = "ended" /\ runs <= MaxRuns
  /\ Goto(p, "openKey")
  /\ runs' = runs + 1
  /\ run' = [run EXCEPT ![p] = runs + 1]
  /\ UNCHANGED <<files, loaded, network, cancelled, history>>

Start(p) ==
  /\ pc[p] = "ended" /\ runs < MaxRuns
  /\ Goto(p, "openKey")
  /\ runs' = runs + 1
  /\ run' = [run EXCEPT ![p] = runs + 1]
  /\ overlapped' = IF Running = {} THEN overlapped
                   ELSE overlapped \cup {runs + 1} \cup {run[q] : q \in Running}
  /\ UNCHANGED <<files, loaded, network, cancelled, disturbed>>

(* MUTANT: a key that is already there is kept. *)
KeepKey(p) ==
  /\ pc[p] = "openKey"
  /\ IF keyFile = Unreadable THEN Goto(p, "writeKey") ELSE Goto(p, "openCert")
  /\ UNCHANGED <<run, runs, files, loaded, network, cancelled, history>>

(* open(private_key, "wb") truncates the file; its content follows when it *)
(* is closed.                                                              *)
TruncateKey(p) ==
  /\ pc[p] = "openKey" /\ Goto(p, "writeKey")
  /\ keyFile' = Unreadable
  /\ UNCHANGED <<run, runs, certFile, loaded, network, cancelled, history>>

WriteKey(p) ==
  /\ pc[p] = "writeKey" /\ Goto(p, "openCert")
  /\ keyFile' = run[p]
  /\ UNCHANGED <<run, runs, certFile, loaded, network, cancelled, history>>

TruncateCert(p) ==
  /\ pc[p] = "openCert" /\ Goto(p, "writeCert")
  /\ certFile' = Unreadable
  /\ UNCHANGED <<run, runs, keyFile, loaded, network, cancelled, history>>

WriteCert(p) ==
  /\ pc[p] = "writeCert" /\ Goto(p, "connectSocket")
  /\ certFile' = run[p]
  /\ UNCHANGED <<run, runs, keyFile, loaded, network, cancelled, history>>

(* The file system refuses, or ctrl-c raises KeyboardInterrupt on the spot, *)
(* as Python did before 3.11.                                               *)
WritingFails(p) ==
  /\ pc[p] \in Writing /\ Goto(p, "ended")
  /\ Raised(p)
  /\ UNCHANGED <<run, runs, files, loaded, network, history>>

------------------------------------------------------------------------------
(* get_endpoints, on a client of its own. *)

ConnectSocket(p) ==
  /\ Await(p, "connectSocket", "talk")
  /\ socket' = [socket EXCEPT ![p] = TRUE]
  /\ UNCHANGED <<run, runs, files, loaded, sessions, cancelled, history>>

(* MUTANT: the socket is closed when all went well, not in a finally. *)
DiscoveryLeaks(p) ==
  /\ pc[p] \in Discovery /\ Goto(p, "verify")
  /\ Raised(p)
  /\ socket' = [socket EXCEPT ![p] = cancelled[p] /\ @]
  /\ UNCHANGED <<run, runs, files, loaded, sessions, history>>

(* It returns the endpoints, or [] for whatever was raised, a cancellation  *)
(* included; finally the socket is closed, if there is one.                 *)
DiscoveryEnds(p) ==
  /\ pc[p] \in Discovery /\ Goto(p, "verify")
  /\ Raised(p)
  /\ socket' = [socket EXCEPT ![p] = FALSE]
  /\ UNCHANGED <<run, runs, files, loaded, sessions, history>>

------------------------------------------------------------------------------
(* set_security asks the server for its certificate on a connection that it *)
(* closes itself, and reads the two files only then.                        *)

Verify(p) ==
  /\ Await(p, "verify", "loadCert")
  /\ UNCHANGED <<run, runs, files, loaded, network, cancelled, history>>

LoadCert(p) ==
  /\ Await(p, "loadCert", "loadKey") /\ certFile # Unreadable
  /\ cert' = [cert EXCEPT ![p] = certFile]
  /\ UNCHANGED <<run, runs, files, key, network, cancelled, history>>

LoadKey(p) ==
  /\ Await(p, "loadKey", "connect") /\ keyFile # Unreadable
  /\ key' = [key EXCEPT ![p] = keyFile]
  /\ UNCHANGED <<run, runs, files, cert, network, cancelled, history>>

(* An exception ends main(): an unreadable file, a server that does not     *)
(* answer or offers no such security, or a cancellation.                    *)
SecuringFails(p) ==
  /\ pc[p] \in Securing /\ Goto(p, "ended")
  /\ Raised(p)
  /\ UNCHANGED <<run, runs, files, loaded, network, history>>

------------------------------------------------------------------------------
(* async with client *)

(* The server checks what the key signed with the certificate. *)
Connect(p) ==
  /\ Await(p, "connect", "read") /\ cert[p] = key[p]
  /\ sessions' = sessions \cup {run[p]}
  /\ UNCHANGED <<run, runs, files, loaded, socket, cancelled, history>>

(* The body is not entered.  The SDK cleans up after an error, but not      *)
(* after a cancellation, and cannot without a connection.                   *)
ConnectFails(p) ==
  /\ pc[p] = "connect" /\ Goto(p, "ended")
  /\ \/ UNCHANGED sessions
     \/ /\ run[p] \in disturbed /\ cert[p] = key[p]
        /\ sessions' = sessions \cup {run[p]}
  /\ Raised(p)
  /\ UNCHANGED <<run, runs, files, loaded, socket, history>>

(* MUTANT: connect and disconnect instead of async with. *)
ReadingEscapes(p) ==
  /\ pc[p] = "read"
  /\ Goto(p, "leave") \/ Goto(p, "ended")
  /\ Raised(p)
  /\ UNCHANGED <<run, runs, files, loaded, network, history>>

(* The requests of the body have all been answered, or one of them raised   *)
(* an exception: the client disconnects in any case.                        *)
ReadingEnds(p) ==
  /\ pc[p] = "read" /\ Goto(p, "leave")
  /\ Raised(p)
  /\ UNCHANGED <<run, runs, files, loaded, network, history>>

CloseSession(p) ==
  /\ Await(p, "leave", "ended")
  /\ sessions' = sessions \ {run[p]}
  /\ UNCHANGED <<run, runs, files, loaded, socket, cancelled, history>>

(* The request that closes the session is not answered, or interrupted. *)
ClosingFails(p) ==
  /\ pc[p] = "leave" /\ run[p] \in disturbed /\ Goto(p, "ended")
  /\ Raised(p)
  /\ UNCHANGED <<run, runs, files, loaded, network, history>>

------------------------------------------------------------------------------
(* The user, the operating system and the network. *)

Disturb(p) == disturbed' = disturbed \cup {run[p]}

Interrupt(p) ==
  /\ pc[p] # "ended"
  /\ cancelled' = [cancelled EXCEPT ![p] = TRUE]
  /\ Disturb(p)
  /\ UNCHANGED <<pc, run, runs, files, loaded, network, overlapped>>

Kill(p) ==
  /\ pc[p] # "ended" /\ Goto(p, "ended")
  /\ Raised(p)
  /\ socket' = [socket EXCEPT ![p] = FALSE]
  /\ Disturb(p)
  /\ UNCHANGED <<run, runs, files, loaded, sessions, overlapped>>

(* What a request raises then is an outcome of the action it belongs to. *)
LoseConnection(p) ==
  /\ pc[p] \in {"connect", "read", "leave"}
  /\ Disturb(p)
  /\ UNCHANGED <<pc, run, runs, files, loaded, network, cancelled, overlapped>>

------------------------------------------------------------------------------
Step(p) ==
  \/ TruncateKey(p) \/ WriteKey(p) \/ TruncateCert(p) \/ WriteCert(p) \/ WritingFails(p)
  \/ ConnectSocket(p) \/ DiscoveryEnds(p)
  \/ Verify(p) \/ LoadCert(p) \/ LoadKey(p) \/ SecuringFails(p)
  \/ Connect(p) \/ ConnectFails(p) \/ ReadingEnds(p) \/ CloseSession(p) \/ ClosingFails(p)

Next == \E p \in Processes : \/ Start(p) \/ Step(p)
                             \/ Interrupt(p) \/ Kill(p) \/ LoseConnection(p)

Spec == Init /\ [][Next]_vars

------------------------------------------------------------------------------
(* A run that nobody else shares the directory with secures its session     *)
(* with the key and the certificate it made itself, whatever an earlier run *)
(* that was killed or interrupted between its two files has left there.     *)
OwnPair ==
  \A p \in Processes :
    pc[p] \in {"connect", "read", "leave"} /\ run[p] \notin overlapped =>
      cert[p] = run[p] /\ key[p] = run[p]

(* Also when a ctrl-c is swallowed, the connection of get_endpoints is      *)
(* closed before the program opens the next one.                            *)
DiscoverySocketClosed == \A p \in Processes : socket[p] => pc[p] = "talk"

(* A session that outlives its run is one that was interrupted, killed or   *)
(* cut off: a failing request of read_value does not leave it behind.       *)
NoSessionLeft ==
  \A r \in sessions : r \in disturbed \/ \E p \in Running : run[p] = r
==============================================================================
