---------------------------- MODULE ServerProofs ----------------------------
(***************************************************************************)
(* The end of the server, for any configuration, any number of connections *)
(* and any number of signals.  The inductive invariant ties the deferred   *)
(* calls that are left to the state of the pool, and exit code 0 to a      *)
(* server whose last connection is closed.                                 *)
(***************************************************************************)
EXTENDS Server, SequenceTheorems, TLAPS

(* Pushing and popping the three deferred calls. *)
LEMMA StackFacts ==
  /\ <<"pool">> \o <<"logger">> = <<"pool", "logger">>
  /\ <<"sweeper">> \o <<"pool", "logger">> = <<"sweeper", "pool", "logger">>
  /\ Head(<<"logger">>) = "logger"
  /\ Tail(<<"logger">>) = <<>>
  /\ Head(<<"pool", "logger">>) = "pool"
  /\ Tail(<<"pool", "logger">>) = <<"logger">>
  /\ Head(<<"sweeper", "pool", "logger">>) = "sweeper"
  /\ Tail(<<"sweeper", "pool", "logger">>) = <<"pool", "logger">>
<1> DEFINE Calls == {"logger", "pool", "sweeper"}
           l == <<"logger">>
           p == <<"pool">>
           s == <<"sweeper">>
           pl == <<"pool", "logger">>
           spl == <<"sweeper", "pool", "logger">>
<1>0. /\ l \in Seq(Calls) /\ p \in Seq(Calls) /\ s \in Seq(Calls)
      /\ pl \in Seq(Calls) /\ spl \in Seq(Calls)
  <2>1. l \in Seq(Calls) /\ p \in Seq(Calls) /\ s \in Seq(Calls)
    OBVIOUS
  <2>2. pl \in Seq(Calls)
    OBVIOUS
  <2>3. spl \in Seq(Calls)
    OBVIOUS
  <2>4. QED BY <2>1, <2>2, <2>3
<1>1. p \o l = pl
  <2>1. /\ p \o l \in Seq(Calls) /\ Len(p \o l) = 2
        /\ (p \o l)[1] = "pool" /\ (p \o l)[2] = "logger"
    BY <1>0, ConcatProperties
  <2>2. Len(pl) = 2 /\ \A i \in 1 .. 2 : (p \o l)[i] = pl[i]
    BY <2>1
  <2>3. QED BY <2>1, <2>2, <1>0, SeqEqual
<1>2. s \o pl = spl
  <2>1. /\ s \o pl \in Seq(Calls) /\ Len(s \o pl) = 3
        /\ (s \o pl)[1] = "sweeper" /\ (s \o pl)[2] = "pool"
        /\ (s \o pl)[3] = "logger"
    BY <1>0, ConcatProperties
  <2>2. Len(spl) = 3 /\ \A i \in 1 .. 3 : (s \o pl)[i] = spl[i]
    BY <2>1
  <2>3. QED BY <2>1, <2>2, <1>0, SeqEqual
<1>3. Head(l) = "logger" /\ Tail(l) = <<>>
  OBVIOUS
<1>4. Head(pl) = "pool"
  OBVIOUS
<1>5. Tail(pl) = l
  OBVIOUS
<1>6. Head(spl) = "sweeper"
  OBVIOUS
<1>7. Tail(spl) = pl
  OBVIOUS
<1>8. QED BY <1>1, <1>2, <1>3, <1>4, <1>5, <1>6, <1>7

(* What validation leaves of the joined layers. *)
LEMMA ValidatedBounds ==
  ASSUME NEW in, Loads(in)
  PROVE  /\ Effective(in).min_conns <= Effective(in).max_conns
         /\ Effective(in).cleanup_interval > 0
BY DEF Loads, Validate

-----------------------------------------------------------------------------
(* The inductive invariant, in its parts.                                  *)

Opening == {"load", "log", "connect", "serve"}
Serving == {"notify", "select", "stop", "shutdown"}

(* Past its first step the process has a configuration that loads. *)
Loaded ==
  \/ Loads(input)
  \/ main \in {"load", "exited", "killed"} /\ pool = "none" /\ sweeper = "none"

(* What is still to be done on return is what has been opened. *)
StackMatches ==
  /\ main \in {"load", "log", "exited"} => deferred = <<>>
  /\ main = "connect" => deferred = <<"logger">>
  /\ main = "serve" => deferred = <<"pool", "logger">>
  /\ main \in Serving => deferred = <<"sweeper", "pool", "logger">>
  /\ (pool \in {"open", "closing"}) <=>
       (deferred \in {<<"pool", "logger">>, <<"sweeper", "pool", "logger">>})

(* Connections are in use only while the pool is open or being closed. *)
InUse == pool \in {"none", "closed"} => Holding = {}

(* The pool and the log file are closed by main's return and nothing else. *)
ClosedLast ==
  main \notin Ended /\ (pool \in {"closing", "closed"} \/ logger = "closed")
    => main = "unwind"

(* The listener starts once, with the clean-up goroutine, and fails once. *)
FailsOnce ==
  /\ main \in Opening => listener = "none"
  /\ serverErr = 1 => listener = "ended"

(* Before the goroutines are started nobody is connected. *)
Unserved ==
  /\ main \in Opening => sweeper = "none"
  /\ sweeper = "none" => \A c \in Conns : at[c] = "none"
  /\ listener = "none" => \A c \in Conns : at[c] = "none"
  /\ sweeper = "none" => listener = "none"

(* With exit code 0 main returns only after Shutdown emptied the server. *)
Emptied ==
  /\ main = "shutdown" => shutting
  /\ main \in {"unwind", "exited"} /\ code = 0 =>
       /\ shutting /\ listener # "listening"
       /\ \A c \in Conns : at[c] = "none"

(* Nobody is refused or left out of the log on the way to exit code 0, and *)
(* a change is owed only by a request that is still being served.          *)
Harmless ==
  /\ code = 0 => harm = {}
  /\ \A c \in Conns : at[c] \in {"none", "idle"} => debt[c] # "stored"

Sound == main # "panicked"

IInv ==
  /\ TypeOK /\ Sound /\ Loaded /\ StackMatches /\ InUse /\ ClosedLast
  /\ FailsOnce /\ Unserved /\ Emptied /\ Harmless

(* The invariant holds before main has done anything.                      *)
LEMMA InitIInv == Init => IInv
<1> SUFFICES ASSUME Init PROVE IInv
  OBVIOUS
<1> USE DEF Init, Ended, Opening, Serving
<1>1. TypeOK
  <2>1. signals \in 0 .. MaxSignals
    BY ServerAssumption
  <2>2. deferred \in DeferStacks
    BY DEF DeferStacks
  <2>3. QED BY <2>1, <2>2 DEF TypeOK
<1>2. Sound /\ Loaded /\ ClosedLast /\ FailsOnce /\ Unserved /\ Emptied
  BY DEF Sound, Loaded, ClosedLast, FailsOnce, Unserved, Emptied
<1>3. StackMatches
  BY DEF StackMatches
<1>4. InUse /\ Harmless
  BY DEF InUse, Holding, Harmless
<1>5. QED BY <1>1, <1>2, <1>3, <1>4 DEF IInv

(* The steps of main keep the invariant. *)
LEMMA MainIInv == IInv /\ MainStep => IInv'
<1> SUFFICES ASSUME IInv, MainStep PROVE IInv'
  OBVIOUS
<1> USE DEF IInv, TypeOK, Sound, Loaded, StackMatches, InUse, ClosedLast,
            FailsOnce, Unserved, Emptied, Harmless, Holding, Ended, DeferStacks,
            Opening, Serving, Running, Fail, Conf, parts, channels, ending,
            connVars
<1>1. CASE LoadConfig
  BY <1>1 DEF LoadConfig
<1>2. CASE SetupLogger
  BY <1>2 DEF SetupLogger
<1>3. CASE ConnectPool
  <2>1. deferred = <<"logger">> /\ pool \notin {"open", "closing"}
    BY <1>3 DEF ConnectPool
  <2>2. CASE main' = "unwind"
    BY <1>3, <2>2 DEF ConnectPool
  <2>3. CASE main' = "serve"
    <3>1. pool' = "open" /\ deferred' = <<"pool", "logger">> /\ code' = code
      BY <1>3, <2>1, <2>3, StackFacts DEF ConnectPool
    <3>2. QED BY <1>3, <2>3, <3>1 DEF ConnectPool
  <2>4. QED BY <1>3, <2>2, <2>3 DEF ConnectPool
<1>4. CASE StartGoroutines
  BY <1>4, StackFacts DEF StartGoroutines
<1>5. CASE Notify
  BY <1>5 DEF Notify
<1>6. CASE Select
  <2>1. CASE main' = "unwind"
    BY <1>6, <2>1 DEF Select
  <2>2. CASE main' = "stop"
    BY <1>6, <2>2 DEF Select
  <2>3. QED BY <1>6, <2>1, <2>2 DEF Select
<1>11. CASE CallShutdown
  BY <1>11 DEF CallShutdown
<1>7. CASE Shutdown
  BY <1>7 DEF Shutdown
<1>8. CASE Unwind
  <2>1. CASE Head(deferred) = "sweeper"
    <3>1. deferred = <<"sweeper", "pool", "logger">>
      BY <1>8, <2>1, StackFacts DEF Unwind
    <3>2. deferred' = <<"pool", "logger">> /\ UNCHANGED <<pool, logger>>
      BY <1>8, <2>1, <3>1, StackFacts DEF Unwind
    <3>3. QED BY <1>8, <2>1, <3>1, <3>2 DEF Unwind
  <2>2. CASE Head(deferred) = "pool"
    <3>1. deferred = <<"pool", "logger">>
      BY <1>8, <2>2, StackFacts DEF Unwind
    <3>2. CASE pool' = "closing"
      <4>1. UNCHANGED <<deferred, sweeper, logger>>
        BY <1>8, <2>2, <3>2 DEF Unwind
      <4>2. QED BY <1>8, <3>1, <3>2, <4>1 DEF Unwind
    <3>3. CASE pool' = "closed"
      <4>1. deferred' = <<"logger">> /\ Holding = {} /\ UNCHANGED <<sweeper, logger>>
        BY <1>8, <2>2, <3>1, <3>3, StackFacts DEF Unwind
      <4>2. QED BY <1>8, <3>1, <3>3, <4>1 DEF Unwind
    <3>4. QED BY <1>8, <2>2, <3>2, <3>3 DEF Unwind
  <2>3. CASE Head(deferred) = "logger"
    <3>1. deferred = <<"logger">>
      BY <1>8, <2>3, StackFacts DEF Unwind
    <3>2. deferred' = <<>> /\ UNCHANGED <<pool, sweeper>>
      BY <1>8, <2>3, <3>1, StackFacts DEF Unwind
    <3>3. logger' = "closed"
      BY <1>8, <2>3 DEF Unwind
    <3>4. QED BY <1>8, <3>1, <3>2, <3>3 DEF Unwind
  <2>4. QED BY <1>8, <2>1, <2>2, <2>3 DEF Unwind
<1>9. CASE Exit
  BY <1>9 DEF Exit
<1>10. QED
  BY <1>1, <1>2, <1>3, <1>4, <1>5, <1>6, <1>7, <1>8, <1>9, <1>11 DEF MainStep

(* So do the other goroutines, the signals, the timer and the requests. *)
LEMMA OthersIInv ==
  IInv /\ (StartSweeper \/ Listen \/ ListenerFails \/ Signal \/ DeadlinePasses)
    => IInv'
<1> SUFFICES ASSUME IInv,
                    StartSweeper \/ Listen \/ ListenerFails \/ Signal
                      \/ DeadlinePasses
             PROVE  IInv'
  OBVIOUS
<1> USE DEF IInv, TypeOK, Sound, Loaded, StackMatches, InUse, ClosedLast,
            FailsOnce, Unserved, Emptied, Harmless, Holding, Ended, DeferStacks,
            Opening, Serving, Conf, mainVars, parts, channels, ending,
            connVars
<1>1. CASE StartSweeper
  <2>1. Loads(input)
    BY <1>1 DEF StartSweeper
  <2>2. Conf.cleanup_interval > 0
    BY <2>1, ValidatedBounds
  <2>3. main' = main /\ sweeper' = "ticking"
    BY <1>1, <2>2 DEF StartSweeper
  <2>4. QED BY <1>1, <2>3 DEF StartSweeper
<1>2. CASE Listen
  BY <1>2 DEF Listen
<1>3. CASE ListenerFails
  BY <1>3 DEF ListenerFails
<1>4. CASE Signal
  <2>1. signals' \in 0 .. MaxSignals
    BY <1>4, ServerAssumption DEF Signal
  <2>2. CASE main' = "killed"
    BY <1>4, <2>1, <2>2 DEF Signal
  <2>3. CASE main' = main
    BY <1>4, <2>1, <2>3 DEF Signal
  <2>4. QED BY <1>4, <2>2, <2>3 DEF Signal
<1>5. CASE DeadlinePasses
  BY <1>5 DEF DeadlinePasses
<1>6. QED BY <1>1, <1>2, <1>3, <1>4, <1>5

(* A connection's goroutine changes where it is, what it is owed and the   *)
(* history, and nothing main decides on.                                   *)
LEMMA ConnIInv ==
  ASSUME IInv, NEW c \in Conns, ConnStep(c)
  PROVE  IInv'
<1> USE DEF IInv, TypeOK, Sound, Loaded, StackMatches, InUse, ClosedLast,
            FailsOnce, Unserved, Emptied, Harmless, Ended, Turn, mainVars, parts,
            channels, ending
<1>1. CASE Connect(c)
  BY <1>1 DEF Connect, Holding
<1>2. CASE CloseIdle(c)
  BY <1>2 DEF CloseIdle, Holding
<1>3. CASE Ask(c)
  BY <1>3 DEF Ask, Holding
<1>4. CASE Acquire(c)
  BY <1>4 DEF Acquire, Holding
<1>5. CASE Acquired(c)
  BY <1>5 DEF Acquired, Holding
<1>6. CASE Refused(c)
  BY <1>6 DEF Refused, Holding
<1>7. CASE Release(c)
  BY <1>7 DEF Release, Holding
<1>8. CASE Log(c)
  BY <1>8 DEF Log, Holding
<1>9. CASE Answer(c)
  BY <1>9 DEF Answer, Holding
<1>10. QED
  BY <1>1, <1>2, <1>3, <1>4, <1>5, <1>6, <1>7, <1>8, <1>9 DEF ConnStep

(* Every step of main, of its goroutines and of the connections keeps it.  *)
LEMMA NextIInv == IInv /\ [Next]_vars => IInv'
<1> SUFFICES ASSUME IInv, [Next]_vars PROVE IInv'
  OBVIOUS
<1>1. CASE MainStep
  BY <1>1, MainIInv
<1>2. CASE StartSweeper \/ Listen \/ ListenerFails \/ Signal \/ DeadlinePasses
  BY <1>2, OthersIInv
<1>3. CASE \E c \in Conns : ConnStep(c)
  BY <1>3, ConnIInv
<1>4. CASE UNCHANGED vars
  BY <1>4 DEF vars, mainVars, parts, channels, ending, connVars, IInv, TypeOK,
              Sound, Loaded, StackMatches, InUse, ClosedLast, FailsOnce,
              Unserved, Emptied, Harmless, Holding
<1>5. QED BY <1>1, <1>2, <1>3, <1>4 DEF Next, Done

(* What one goroutine relies on about the others holds in every state.     *)
THEOREM Invariance == Spec => []IInv
BY InitIInv, NextIInv, PTL DEF Spec

-----------------------------------------------------------------------------
(* The variables stay in their ranges; in particular the goroutine of      *)
(* ListenAndServe never blocks on its channel of capacity one.             *)
THEOREM ServerTypes == Spec => []TypeOK
<1>1. IInv => TypeOK
  BY DEF IInv
<1>2. QED BY <1>1, Invariance, PTL

(* A pool is opened only with bounds it can keep and the clean-up          *)
(* goroutine does not panic, whichever layers the values came from         *)
(* (LoadWithViper, NewPoolFromConfig, startSessionCleanup).                *)
THEOREM ServerStartsSound == Spec => []StartedSound
<1>1. IInv => StartedSound
  BY ValidatedBounds DEF IInv, Sound, Loaded, StartedSound, Conf
<1>2. QED BY <1>1, Invariance, PTL

(* Only a signal between the start of the listener and signal.Notify cuts  *)
(* transactions: in every other step that ends the process nobody holds a  *)
(* connection, because pool.Close is deferred and waits (runServer).       *)
THEOREM ServerCutsOnlyBeforeNotify == Spec => CutOnlyBeforeNotify
<1> DEFINE Cut == main' \in Ended /\ Holding # {} => main = "notify" /\ main' = "killed"
<1>1. IInv /\ [Next]_vars => [Cut]_main
  <2> SUFFICES ASSUME IInv, [Next]_vars, main' # main, main' \in Ended, Holding # {}
               PROVE  main = "notify" /\ main' = "killed"
    OBVIOUS
  <2> USE DEF mainVars, parts, channels, ending, connVars, Ended
  <2>1. pool \notin {"none", "closed"} /\ sweeper # "none" /\ listener # "none"
    BY DEF IInv, InUse, Unserved, Holding
  <2>2. deferred \in {<<"pool", "logger">>, <<"sweeper", "pool", "logger">>}
    BY <2>1 DEF IInv, StackMatches, TypeOK
  <2>3. main \notin Opening
    BY <2>1 DEF IInv, FailsOnce
  <2>4. CASE Signal
    BY <2>1, <2>3, <2>4 DEF Signal, Opening
  <2>5. CASE StartSweeper
    <3>1. Loads(input)
      BY <2>1, <2>5 DEF StartSweeper, IInv, Loaded
    <3>2. QED BY <2>5, <3>1, ValidatedBounds DEF StartSweeper, Conf
  <2>6. CASE Exit
    BY <2>2, <2>6 DEF Exit
  <2>7. CASE LoadConfig \/ SetupLogger \/ ConnectPool \/ StartGoroutines
    BY <2>3, <2>7 DEF LoadConfig, SetupLogger, ConnectPool, StartGoroutines,
                      Running, Opening
  <2>8. CASE Notify \/ Select \/ CallShutdown \/ Shutdown \/ Unwind
    BY <2>8 DEF Notify, Select, CallShutdown, Shutdown, Unwind, Running, Fail
  <2>9. CASE Listen \/ ListenerFails \/ DeadlinePasses
    BY <2>9 DEF Listen, ListenerFails, DeadlinePasses
  <2>10. CASE \E c \in Conns : ConnStep(c)
    BY <2>10 DEF ConnStep, Connect, CloseIdle, Ask, Acquire, Acquired, Refused,
                 Release, Log, Answer, Turn
  <2>11. QED
    BY <2>4, <2>5, <2>6, <2>7, <2>8, <2>9, <2>10 DEF Next, MainStep, Done, vars
<1>2. QED BY <1>1, Invariance, PTL DEF Spec, CutOnlyBeforeNotify

(* Exit code 0 means that no request was refused or lost from the log and  *)
(* no client is owed the answer to a change: Shutdown is waited for before *)
(* anything is closed (runServer, LoggingMiddleware).                      *)
THEOREM ServerExitsOrderly == Spec => []OrderlyExit
<1>1. IInv => OrderlyExit
  BY DEF IInv, OrderlyExit, Emptied, Harmless
<1>2. QED BY <1>1, Invariance, PTL
=============================================================================
