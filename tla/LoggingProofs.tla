----------------------------- MODULE LoggingProofs -----------------------------
(***************************************************************************)
(* Proofs about Logging, for any loggers, registrations and threads.       *)
(***************************************************************************)
EXTENDS Logging, TLAPS

(* A thread that is in a loop has one to go on with, and one that waits for *)
(* a console, or writes to it, knows which.                                 *)
PhaseInv ==
  \A t \in Threads :
    /\ phase[t] = "fanOut" => frames[t] # <<>>
    /\ phase[t] \in {"lock", "write"} => console[t] \in Consoles

(* Who writes to a console holds its mutex. *)
WriterInv == \A t \in Threads : phase[t] = "write" => logMutex[console[t]] = t

IndInv == TypeOK /\ PhaseInv /\ MutexReleased /\ WriterInv

------------------------------------------------------------------------------
(* The loops of a thread. *)

LEMMA LastFrame ==
  ASSUME NEW fs \in Seq(Frames), fs # <<>>
  PROVE  Last(fs) \in Frames /\ Front(fs) \in Seq(Frames)
BY DEF Last, Front

LEMMA MoreFrames ==
  ASSUME NEW fs \in Seq(Frames), NEW f \in Frames
  PROVE  Append(fs, f) \in Seq(Frames) /\ Append(fs, f) # <<>>
<1>1. Append(fs, f) \in Seq(Frames)
  OBVIOUS
<1>2. Len(Append(fs, f)) = Len(fs) + 1 /\ Len(fs) \in Nat
  OBVIOUS
<1> QED
  BY <1>1, <1>2

(* A loop that has a name to look at can go on to the next one. *)
LEMMA NextFrame ==
  ASSUME NEW f \in Frames, f.next \in 1..Slots
  PROVE  [f EXCEPT !.next = @ + 1] \in Frames
<1>1. f.next + 1 \in 1..Slots + 1
  <2>1. Slots \in Nat
    BY ConstantsAssumption
  <2> QED
    BY <2>1
<1> QED
  BY <1>1 DEF Frames

(* Leaving a logger, with the loops fs to finish. *)
LEMMA ResumeStep ==
  ASSUME TypeOK, NEW t \in Threads, NEW fs \in Seq(Frames), Resume(t, fs)
  PROVE  /\ frames' \in [Threads -> Seq(Frames)] /\ frames' = [frames EXCEPT ![t] = fs]
         /\ \/ fs = <<>> /\ phase' = [phase EXCEPT ![t] = "returned"]
            \/ fs # <<>> /\ phase' = [phase EXCEPT ![t] = "fanOut"]
BY DEF TypeOK, Resume

(* What a step of one thread t may do to the part of the state that the     *)
(* mutex invariant is about.                                                *)
Goes(t) ==
  /\ frames' \in [Threads -> Seq(Frames)]
  /\ \A u \in Threads \ {t} : frames'[u] = frames[u]
  /\ \/ /\ console' = console
        /\ \/ phase' = [phase EXCEPT ![t] = "returned"]
           \/ phase' = [phase EXCEPT ![t] = "fanOut"] /\ frames'[t] # <<>>
     \/ \E c \in Consoles : /\ console' = [console EXCEPT ![t] = c]
                            /\ phase' = [phase EXCEPT ![t] = "lock"]

LEMMA ResumeGoes ==
  ASSUME TypeOK, NEW t \in Threads, NEW fs \in Seq(Frames), Resume(t, fs), UNCHANGED console
  PROVE  Goes(t)
BY ResumeStep DEF Goes, TypeOK

LEMMA EnterGoes ==
  ASSUME TypeOK, NEW t \in Threads, NEW o \in Loggers, NEW c, NEW fs \in Seq(Frames),
         Enter(t, o, c, fs)
  PROVE  Goes(t)
<1>1. CASE o \in Roots
  <2> DEFINE f == [root |-> o, next |-> 1]
  <2>1. f \in Frames
    BY <1>1, ConstantsAssumption DEF Frames
  <2>2. Append(fs, f) \in Seq(Frames)
    BY <2>1, MoreFrames
  <2>3. Resume(t, Append(fs, f)) /\ UNCHANGED console
    BY <1>1 DEF Enter
  <2> QED
    BY <2>2, <2>3, ResumeGoes
<1>2. CASE o \notin Roots /\ c.kind = "text" /\ Enabled(o, c.level)
  <2>1. o \in Consoles
    BY <1>2 DEF Loggers
  <2>2. /\ phase' = [phase EXCEPT ![t] = "lock"]
        /\ console' = [console EXCEPT ![t] = o]
        /\ frames' = [frames EXCEPT ![t] = fs]
    BY <1>2 DEF Enter
  <2> QED
    BY <2>1, <2>2 DEF Goes, TypeOK
<1>3. CASE o \notin Roots /\ ~(c.kind = "text" /\ Enabled(o, c.level))
  BY <1>3, ResumeGoes DEF Enter
<1> QED
  BY <1>1, <1>2, <1>3

(* A step of a thread that neither takes nor holds a mutex. *)
LEMMA GoesInv ==
  ASSUME IndInv, NEW t \in Threads, Goes(t), phase[t] # "write", UNCHANGED logMutex
  PROVE  /\ phase' \in [Threads -> {"idle", "fanOut", "lock", "write", "returned", "threw"}]
         /\ console' \in [Threads -> Consoles \cup {null}]
         /\ PhaseInv' /\ MutexReleased' /\ WriterInv'
<1>1. /\ phase' \in [Threads -> {"idle", "fanOut", "lock", "write", "returned", "threw"}]
      /\ console' \in [Threads -> Consoles \cup {null}]
  <2> USE DEF IndInv, TypeOK
  <2>1. CASE console' = console /\ phase' = [phase EXCEPT ![t] = "returned"]
    BY <2>1
  <2>2. CASE console' = console /\ phase' = [phase EXCEPT ![t] = "fanOut"]
    BY <2>2
  <2>3. ASSUME NEW c \in Consoles, console' = [console EXCEPT ![t] = c],
               phase' = [phase EXCEPT ![t] = "lock"]
        PROVE  /\ phase' \in [Threads -> {"idle", "fanOut", "lock", "write", "returned", "threw"}]
               /\ console' \in [Threads -> Consoles \cup {null}]
    BY <2>3
  <2> QED
    BY <2>1, <2>2, <2>3 DEF Goes
<1> USE DEF IndInv, TypeOK, PhaseInv, MutexReleased, WriterInv, Goes
<1>2. phase'[t] # "write" /\ \A u \in Threads \ {t} : phase'[u] = phase[u] /\ console'[u] = console[u]
  OBVIOUS
<1>3. PhaseInv'
  <2>1. ASSUME NEW u \in Threads \ {t}
        PROVE  /\ phase'[u] = "fanOut" => frames'[u] # <<>>
               /\ phase'[u] \in {"lock", "write"} => console'[u] \in Consoles
    BY <1>2
  <2>2. /\ phase'[t] = "fanOut" => frames'[t] # <<>>
        /\ phase'[t] \in {"lock", "write"} => console'[t] \in Consoles
    OBVIOUS
  <2> QED
    BY <2>1, <2>2
<1>4. MutexReleased'
  <2> SUFFICES ASSUME NEW c \in Consoles, logMutex[c] # null
               PROVE  phase'[logMutex[c]] = "write" /\ console'[logMutex[c]] = c
    OBVIOUS
  <2>1. logMutex[c] \in Threads \ {t}
    OBVIOUS
  <2> QED
    BY <2>1, <1>2
<1>5. WriterInv'
  BY <1>2
<1> QED
  BY <1>1, <1>3, <1>4, <1>5

------------------------------------------------------------------------------
(* Every step preserves the invariant. *)

LEMMA InitInv == Init => IndInv
<1> SUFFICES ASSUME Init
             PROVE  IndInv
  OBVIOUS
<1>1. level \in [Loggers -> off..fatal]
  BY ConstantsAssumption DEF Init, off, fatal
<1>2. NoCall \in Calls /\ NoLines \in [Consoles -> Nat]
  BY DEF NoCall, NoLines, Calls, off, fatal
<1>3. TypeOK
  BY <1>1, <1>2 DEF Init, TypeOK
<1>4. PhaseInv /\ MutexReleased /\ WriterInv
  BY DEF Init, PhaseInv, MutexReleased, WriterInv
<1> QED
  BY <1>3, <1>4 DEF IndInv

LEMMA FollowType ==
  ASSUME follows \subseteq Loggers \X Loggers, NEW o \in Loggers, NEW r \in Loggers
  PROVE  Without(o) \subseteq Loggers \X Loggers /\ Follow(o, r) \subseteq Loggers \X Loggers
<1>1. Without(o) \subseteq Loggers \X Loggers
  BY DEF Without
<1>2. ASSUME NEW q \in {r} \cup {p \in Loggers : <<r, p>> \in Without(o)}
      PROVE  <<o, q>> \in Loggers \X Loggers
  OBVIOUS
<1> QED
  BY <1>1, <1>2 DEF Follow

(* The configuration changes while nobody logs. *)
LEMMA ConfigureStep ==
  ASSUME IndInv, Configure, level' \in [Loggers -> off..fatal],
         loggers' \in [Roots -> [1..Slots -> Loggers \cup {null}]],
         follows' \subseteq Loggers \X Loggers
  PROVE  IndInv'
BY DEF Configure, progress, IndInv, TypeOK, PhaseInv, MutexReleased, WriterInv

LEMMA ReconfigureStep == IndInv /\ Reconfigure => IndInv'
<1> SUFFICES ASSUME IndInv, Reconfigure
             PROVE  IndInv'
  OBVIOUS
<1>0. TypeOK
  BY DEF IndInv
<1>1. ASSUME NEW o \in Loggers, NEW l \in Levels, SetLevel(o, l)
      PROVE  IndInv'
  <2>1. Configure /\ follows' \subseteq Loggers \X Loggers
    BY <1>0, <1>1, FollowType DEF SetLevel, TypeOK
  <2>2. /\ level' \in [Loggers -> off..fatal]
        /\ loggers' \in [Roots -> [1..Slots -> Loggers \cup {null}]]
    BY <1>0, <1>1, ConstantsAssumption DEF SetLevel, TypeOK, off, fatal
  <2> QED
    BY <2>1, <2>2, ConfigureStep
<1>2. ASSUME NEW r \in Roots, RemoveAll(r)
      PROVE  IndInv'
  BY <1>0, <1>2, ConfigureStep DEF RemoveAll, TypeOK
<1>3. ASSUME NEW r \in Roots, NEW n \in 1..Slots, RemoveLogger(r, n)
      PROVE  IndInv'
  BY <1>0, <1>3, ConfigureStep DEF RemoveLogger, TypeOK
<1>4. ASSUME NEW r \in Roots, NEW n \in 1..Slots, NEW o \in Registrable[r],
             AddLogger(r, n, o) \/ SetLogger(r, n, o)
      PROVE  IndInv'
  <2>1. o \in Loggers /\ r \in Loggers
    BY ConstantsAssumption DEF Loggers
  <2>2. Configure /\ Register(r, n, o)
    BY <1>4 DEF AddLogger, SetLogger
  <2>3. loggers' \in [Roots -> [1..Slots -> Loggers \cup {null}]]
    BY <1>0, <2>1, <2>2 DEF Register, TypeOK
  <2>4. level' \in [Loggers -> off..fatal]
    BY <1>0, <2>1, <2>2 DEF Register, TypeOK
  <2>5. follows' \subseteq Loggers \X Loggers
    BY <1>0, <2>1, <2>2, FollowType DEF Register, TypeOK
  <2> QED
    BY <2>2, <2>3, <2>4, <2>5, ConfigureStep
<1> QED
  BY <1>1, <1>2, <1>3, <1>4 DEF Reconfigure

LEMMA BeginStep ==
  ASSUME IndInv, NEW t \in Threads, NEW c \in Calls, c.entry \in Loggers, Begin(t, c)
  PROVE  IndInv'
<1>0. TypeOK
  BY DEF IndInv
<1>1. Goes(t)
  <2>0. <<>> \in Seq(Frames)
    OBVIOUS
  <2>1. CASE Passes(c)
    <3>1. Enter(t, c.entry, c, <<>>)
      BY <2>1 DEF Begin
    <3> QED
      BY <1>0, <2>0, <3>1, EnterGoes
  <2>2. CASE ~Passes(c)
    <3>1. Resume(t, <<>>) /\ UNCHANGED console
      BY <2>2 DEF Begin
    <3> QED
      BY <1>0, <2>0, <3>1, ResumeGoes
  <2> QED
    BY <2>1, <2>2
<1>2. UNCHANGED logMutex /\ phase[t] # "write"
  BY DEF Begin
<1>3. /\ UNCHANGED <<level, loggers, follows, logMutex>>
      /\ call' = [call EXCEPT ![t] = c]
      /\ written' = [written EXCEPT ![t] = NoLines]
  BY DEF Begin, config
<1>4. call' \in [Threads -> Calls] /\ written' \in [Threads -> [Consoles -> Nat]]
  BY <1>0, <1>3 DEF TypeOK, NoLines
<1> QED
  BY <1>0, <1>1, <1>2, <1>3, <1>4, GoesInv DEF IndInv, TypeOK, Goes

LEMMA MessageStep ==
  ASSUME IndInv, NEW t \in Threads, Message(t)
  PROVE  IndInv'
<1>1. ASSUME NEW o \in Loggers, NEW l \in Levels, NEW bad \in BOOLEAN, Log(t, o, l, bad)
      PROVE  IndInv'
  <2> DEFINE c == [entry |-> o, level |-> l, kind |-> "text", bad |-> bad, checked |-> TRUE]
  <2>1. c \in Calls /\ c.entry \in Loggers
    BY ConstantsAssumption DEF Calls, off, fatal
  <2>2. Begin(t, c)
    BY <1>1 DEF Log
  <2> QED
    BY <2>1, <2>2, BeginStep
<1>2. ASSUME NEW o \in Loggers, NEW l \in Levels, NEW checked \in BOOLEAN,
             LogException(t, o, l, checked)
      PROVE  IndInv'
  <2> DEFINE c == [entry |-> o, level |-> l, kind |-> "exception", bad |-> FALSE,
                   checked |-> checked]
  <2>1. c \in Calls /\ c.entry \in Loggers
    BY ConstantsAssumption DEF Calls, off, fatal
  <2>2. Begin(t, c)
    BY <1>2 DEF LogException
  <2> QED
    BY <2>1, <2>2, BeginStep
<1>3. ASSUME NEW a \in Adapters, NEW l \in UaLevels, NEW bad \in BOOLEAN,
             SdkLog(t, a, l, bad)
      PROVE  IndInv'
  <2> DEFINE c == [entry |-> ImplOf[a], level |-> ToLevel(l), kind |-> "text", bad |-> bad,
                   checked |-> FALSE]
  <2>1. ToLevel(l) \in off..fatal
    BY DEF ToLevel, off, trace, debug, info, warn, error, fatal
  <2>2. c \in Calls /\ c.entry \in Loggers
    BY <2>1, ConstantsAssumption DEF Calls
  <2>3. Begin(t, c)
    BY <1>3 DEF SdkLog
  <2> QED
    BY <2>2, <2>3, BeginStep
<1> QED
  BY <1>1, <1>2, <1>3 DEF Message

LEMMA FanOutStep ==
  ASSUME IndInv, NEW t \in Threads, FanOut(t)
  PROVE  IndInv'
<1> DEFINE f    == Last(frames[t])
           rest == Front(frames[t])
           fs   == Append(rest, [f EXCEPT !.next = @ + 1])
<1>0. TypeOK
  BY DEF IndInv
<1>1. f \in Frames /\ rest \in Seq(Frames)
  BY LastFrame DEF FanOut, IndInv, TypeOK, PhaseInv
<1>2. ASSUME f.next \in 1..Slots
      PROVE  fs \in Seq(Frames) /\ loggers[f.root][f.next] \in Loggers \cup {null}
  <2>1. [f EXCEPT !.next = @ + 1] \in Frames
    BY <1>1, <1>2, NextFrame
  <2>2. fs \in Seq(Frames)
    BY <1>1, <2>1, MoreFrames
  <2>3. f.root \in Roots
    BY <1>1 DEF Frames
  <2> HIDE DEF f
  <2>4. loggers[f.root][f.next] \in Loggers \cup {null}
    <3>1. loggers \in [Roots -> [1..Slots -> Loggers \cup {null}]]
      BY <1>0 DEF TypeOK
    <3> QED
      BY <1>2, <2>3, <3>1
  <2> QED
    BY <2>2, <2>4
<1>3. Goes(t)
  <2>1. CASE f.next > Slots
    <3>1. Resume(t, rest) /\ UNCHANGED console
      BY <2>1 DEF FanOut
    <3> QED
      BY <1>0, <1>1, <3>1, ResumeGoes
  <2>2. CASE ~(f.next > Slots) /\ loggers[f.root][f.next] = null
    <3>1. Resume(t, fs) /\ UNCHANGED console
      BY <2>2 DEF FanOut
    <3>2. f.next \in 1..Slots
      BY <1>1, <2>2, ConstantsAssumption DEF Frames
    <3> QED
      BY <1>0, <1>2, <3>1, <3>2, ResumeGoes
  <2>3. CASE ~(f.next > Slots) /\ loggers[f.root][f.next] # null
    <3>1. Enter(t, loggers[f.root][f.next], call[t], fs)
      BY <2>3 DEF FanOut
    <3>2. f.next \in 1..Slots
      BY <1>1, <2>3, ConstantsAssumption DEF Frames
    <3>3. fs \in Seq(Frames) /\ loggers[f.root][f.next] \in Loggers
      BY <1>2, <2>3, <3>2
    <3> HIDE DEF f, fs
    <3> QED
      BY <1>0, <3>1, <3>3, EnterGoes
  <2> QED
    BY <2>1, <2>2, <2>3
<1>4. UNCHANGED <<level, loggers, follows, logMutex, call, written>> /\ phase[t] # "write"
  BY DEF FanOut, config
<1> QED
  BY <1>0, <1>3, <1>4, GoesInv DEF IndInv, TypeOK, Goes

(* A thread takes, or gives back, the mutex of the console it is at. *)
LEMMA LockStep ==
  ASSUME IndInv, NEW t \in Threads, Lock(t)
  PROVE  IndInv'
<1> USE DEF IndInv, TypeOK, PhaseInv, MutexReleased, WriterInv, Lock, config, progress
<1>1. console[t] \in Consoles
  OBVIOUS
<1>2. TypeOK'
  BY <1>1
<1>3. PhaseInv'
  BY <1>1
<1>4. MutexReleased'
  BY <1>1, ConstantsAssumption
<1>5. WriterInv'
  <2> SUFFICES ASSUME NEW u \in Threads, phase'[u] = "write"
               PROVE  logMutex'[console[u]] = u
    OBVIOUS
  <2>1. CASE u = t
    BY <1>1, <2>1
  <2>2. CASE u # t
    <3>1. phase[u] = "write" /\ console[u] \in Consoles
      BY <2>2
    <3>2. console[u] # console[t]
      BY <3>1, ConstantsAssumption
    <3> QED
      BY <1>1, <3>1, <3>2
  <2> QED
    BY <2>1, <2>2
<1> QED
  BY <1>2, <1>3, <1>4, <1>5

(* What Write and Throw have in common. *)
Leaves(t) ==
  /\ phase[t] = "write"
  /\ logMutex' = [logMutex EXCEPT ![console[t]] = null]
  /\ console' = [console EXCEPT ![t] = null]
  /\ frames' \in [Threads -> Seq(Frames)]
  /\ \A u \in Threads \ {t} : frames'[u] = frames[u]
  /\ \/ phase' = [phase EXCEPT ![t] = "returned"]
     \/ phase' = [phase EXCEPT ![t] = "threw"]
     \/ phase' = [phase EXCEPT ![t] = "fanOut"] /\ frames'[t] # <<>>

LEMMA LeavesInv ==
  ASSUME IndInv, NEW t \in Threads, Leaves(t)
  PROVE  /\ phase' \in [Threads -> {"idle", "fanOut", "lock", "write", "returned", "threw"}]
         /\ console' \in [Threads -> Consoles \cup {null}]
         /\ logMutex' \in [Consoles -> Threads \cup {null}]
         /\ PhaseInv' /\ MutexReleased' /\ WriterInv'
<1>1. console[t] \in Consoles /\ logMutex[console[t]] = t
  BY DEF IndInv, PhaseInv, WriterInv, Leaves
<1>2. phase' \in [Threads -> {"idle", "fanOut", "lock", "write", "returned", "threw"}]
  BY DEF IndInv, TypeOK, Leaves
<1>3. /\ console' \in [Threads -> Consoles \cup {null}]
      /\ logMutex' \in [Consoles -> Threads \cup {null}]
  BY <1>1 DEF IndInv, TypeOK, Leaves
<1>4. phase'[t] \notin {"lock", "write"} /\ (phase'[t] = "fanOut" => frames'[t] # <<>>)
  BY DEF IndInv, TypeOK, Leaves
<1>5. \A u \in Threads \ {t} :
        phase'[u] = phase[u] /\ console'[u] = console[u] /\ frames'[u] = frames[u]
  BY DEF IndInv, TypeOK, Leaves
<1>6. \A c \in Consoles : logMutex'[c] = IF c = console[t] THEN null ELSE logMutex[c]
  BY <1>1 DEF IndInv, TypeOK, Leaves
<1>7. PhaseInv'
  BY <1>4, <1>5 DEF IndInv, PhaseInv
<1>8. MutexReleased'
  <2> SUFFICES ASSUME NEW c \in Consoles, logMutex'[c] # null
               PROVE  phase'[logMutex'[c]] = "write" /\ console'[logMutex'[c]] = c
    BY DEF MutexReleased
  <2>1. c # console[t] /\ logMutex'[c] = logMutex[c]
    BY <1>6
  <2>2. phase[logMutex[c]] = "write" /\ console[logMutex[c]] = c
    BY <2>1 DEF IndInv, MutexReleased
  <2>3. logMutex[c] \in Threads \ {t}
    BY <2>1, <2>2 DEF IndInv, TypeOK
  <2> QED
    BY <1>5, <2>1, <2>2, <2>3
<1>9. WriterInv'
  <2> SUFFICES ASSUME NEW u \in Threads, phase'[u] = "write"
               PROVE  logMutex'[console'[u]] = u
    BY DEF WriterInv
  <2>1. u \in Threads \ {t}
    BY <1>4
  <2>2. phase[u] = "write" /\ console'[u] = console[u]
    BY <1>5, <2>1
  <2>3. console[u] \in Consoles /\ logMutex[console[u]] = u
    BY <2>2 DEF IndInv, PhaseInv, WriterInv
  <2>4. console[u] # console[t]
    BY <1>1, <2>1, <2>3
  <2> QED
    BY <1>6, <2>2, <2>3, <2>4
<1> QED
  BY <1>2, <1>3, <1>7, <1>8, <1>9

LEMMA WriteStep ==
  ASSUME IndInv, NEW t \in Threads, Write(t)
  PROVE  IndInv'
<1>0. TypeOK
  BY DEF IndInv
<1>1. console[t] \in Consoles
  BY DEF IndInv, PhaseInv, Write
<1>2. frames[t] \in Seq(Frames) /\ Resume(t, frames[t])
  BY <1>0 DEF TypeOK, Write
<1>3. Leaves(t)
  <2>1. /\ frames' \in [Threads -> Seq(Frames)] /\ frames' = [frames EXCEPT ![t] = frames[t]]
        /\ \/ phase' = [phase EXCEPT ![t] = "returned"]
           \/ frames[t] # <<>> /\ phase' = [phase EXCEPT ![t] = "fanOut"]
    BY <1>0, <1>2, ResumeStep
  <2>2. \A u \in Threads : frames'[u] = frames[u]
    BY <1>0, <2>1 DEF TypeOK
  <2> QED
    BY <2>1, <2>2 DEF Leaves, Write
<1>4. /\ UNCHANGED <<level, loggers, follows, call>>
      /\ written' = [written EXCEPT ![t][console[t]] = @ + 1]
  BY DEF Write, config
<1>5. written' \in [Threads -> [Consoles -> Nat]]
  BY <1>0, <1>1, <1>4 DEF TypeOK
<1>6. frames' \in [Threads -> Seq(Frames)]
  BY <1>3 DEF Leaves
<1> QED
  BY <1>0, <1>3, <1>4, <1>5, <1>6, LeavesInv DEF IndInv, TypeOK

LEMMA ThrowStep ==
  ASSUME IndInv, NEW t \in Threads, Throw(t)
  PROVE  IndInv'
<1>0. TypeOK
  BY DEF IndInv
<1>1. Leaves(t)
  <2>1. <<>> \in Seq(Frames)
    OBVIOUS
  <2> QED
    BY <1>0, <2>1 DEF Leaves, Throw, TypeOK
<1>2. UNCHANGED <<level, loggers, follows, call, written>> /\ frames' \in [Threads -> Seq(Frames)]
  BY <1>1 DEF Throw, config, Leaves
<1> QED
  BY <1>0, <1>1, <1>2, LeavesInv DEF IndInv, TypeOK

LEMMA GoOnStep ==
  ASSUME IndInv, NEW t \in Threads, GoOn(t)
  PROVE  IndInv'
<1> USE DEF IndInv, TypeOK, GoOn, config
<1>1. NoCall \in Calls /\ NoLines \in [Consoles -> Nat]
  BY DEF NoCall, NoLines, Calls, off, fatal
<1>2. TypeOK'
  BY <1>1
<1>3. PhaseInv'
  BY DEF PhaseInv
<1>4. MutexReleased'
  BY DEF MutexReleased
<1>5. WriterInv'
  BY DEF WriterInv
<1> QED
  BY <1>2, <1>3, <1>4, <1>5

LEMMA IndStep == IndInv /\ [Next]_vars => IndInv'
<1> SUFFICES ASSUME IndInv, [Next]_vars
             PROVE  IndInv'
  OBVIOUS
<1>1. CASE Reconfigure
  BY <1>1, ReconfigureStep
<1>2. ASSUME NEW t \in Threads, Message(t)
      PROVE  IndInv'
  BY <1>2, MessageStep
<1>3. ASSUME NEW t \in Threads, Proceed(t)
      PROVE  IndInv'
  BY <1>3, FanOutStep, WriteStep, ThrowStep, GoOnStep DEF Proceed
<1>4. ASSUME NEW t \in Threads, Lock(t)
      PROVE  IndInv'
  BY <1>4, LockStep
<1>5. CASE UNCHANGED vars
  BY <1>5 DEF vars, config, progress, IndInv, TypeOK, PhaseInv, MutexReleased, WriterInv
<1> QED
  BY <1>1, <1>2, <1>3, <1>4, <1>5 DEF Next

------------------------------------------------------------------------------
(* The invariant holds in every reachable state. *)
THEOREM Invariance == Spec => []IndInv
BY InitInv, IndStep, PTL DEF Spec

(* Every variable keeps its type: a loop never leaves its root's map, and   *)
(* the loops are nested properly.                                           *)
THEOREM TypeCorrect == Spec => []TypeOK
<1>1. IndInv => TypeOK
  BY DEF IndInv
<1> QED
  BY <1>1, Invariance, PTL

(* A console's mutex is never left locked, however many threads log, roots  *)
(* are nested and messages cannot be formatted: ConsoleLogger::vlog.        *)
THEOREM MutexAlwaysReleased == Spec => []MutexReleased
<1>1. IndInv => MutexReleased
  BY DEF IndInv
<1> QED
  BY <1>1, Invariance, PTL
===============================================================================
