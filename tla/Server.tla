------------------------------- MODULE Server -------------------------------
(***************************************************************************)
(* cmd/server/main.go from main to exit: configuration, logger, pool, the  *)
(* clean-up goroutine, the listener goroutine, the wait for a signal, the  *)
(* shutdown bounded by a deadline, and the deferred calls, run last first. *)
(* The requests in flight are reduced to what the end of the process can   *)
(* harm: the connection a request waits for or holds, the change it has    *)
(* stored, its line in the log and its answer.                             *)
(*                                                                         *)
(* net/http, the pool and the operating system are external: Shutdown      *)
(* closes the listener, closes idle connections and waits for busy ones;   *)
(* pool.Close refuses further Acquires and waits for the connections in    *)
(* use; a signal nobody is notified of ends the process.                   *)
(***************************************************************************)
EXTENDS Configuration, Sequences, FiniteSets

CONSTANTS
  Conns,         \* slots for client connections
  Inputs,        \* the flags, environments and files of the instance
  MaxSignals     \* bound: SIGINT and SIGTERM sent

ASSUME ServerAssumption == IsFiniteSet(Conns) /\ MaxSignals \in Nat

VARIABLES
  input,         \* the layers of configuration the process starts with
  main,          \* the next step of main and runServer
  code,          \* the exit code
  deferred,      \* the deferred calls of runServer, the last one first
  logger,        \* "default", "open" or "closed"
  pool,          \* "none", "open", "closing" or "closed"
  sweeper,       \* the clean-up goroutine
  listener,      \* the goroutine of ListenAndServe
  serverErr,     \* its channel, of capacity one
  quit,          \* the signals in the channel, of capacity one
  signals,       \* signals sent so far
  shutting,      \* server.Shutdown has been called
  deadline,      \* its thirty seconds: "off", "running" or "over"
  at,            \* the next step of each connection's goroutine
  debt,          \* what the client of each connection has not been told
  harm           \* history: what requests met that they never should

mainVars  == <<input, main, code, deferred>>
parts     == <<logger, pool, sweeper, listener>>
channels  == <<serverErr, quit, signals>>
ending    == <<shutting, deadline>>
connVars  == <<at, debt, harm>>
vars      == <<mainVars, parts, channels, ending, connVars>>

Ended == {"exited", "killed", "panicked"}
Conf  == Effective(input)

-----------------------------------------------------------------------------
(* Start.                                                                  *)

Fail(next) == main' = next /\ code' = 1

Running(step) == main = step

LoadConfig ==
  /\ Running("load")
  /\ IF Loads(input) THEN main' = "log" /\ UNCHANGED code ELSE Fail("exited")
  /\ UNCHANGED <<input, deferred, parts, channels, ending, connVars>>

(* The log file may fail to open, and nothing is deferred yet. *)
SetupLogger ==
  /\ Running("log")
  /\ \/ /\ Fail("exited")
        /\ UNCHANGED <<deferred, logger>>
     \/ /\ main' = "connect" /\ logger' = "open"
        /\ deferred' = <<"logger">>
        /\ UNCHANGED code
  /\ UNCHANGED <<input, pool, sweeper, listener, channels, ending, connVars>>

(* NewPoolFromConfig closes the pool again when the database does not      *)
(* answer the ping.                                                        *)
ConnectPool ==
  /\ Running("connect")
  /\ \/ /\ Fail("unwind")
        /\ UNCHANGED <<deferred, pool>>
     \/ /\ main' = "serve" /\ pool' = "open"
        /\ deferred' = <<"pool">> \o deferred
        /\ UNCHANGED code
  /\ UNCHANGED <<input, logger, sweeper, listener, channels, ending, connVars>>

(* The clean-up goroutine and the listener start; nobody is notified of    *)
(* signals yet.                                                            *)
StartGoroutines ==
  /\ Running("serve")
  /\ main' = "notify" /\ sweeper' = "starting" /\ listener' = "starting"
  /\ deferred' = <<"sweeper">> \o deferred
  /\ UNCHANGED <<input, code, logger, pool, channels, ending, connVars>>

Notify ==
  /\ Running("notify")
  /\ main' = "select"
  /\ UNCHANGED <<input, code, deferred, parts, channels, ending, connVars>>

-----------------------------------------------------------------------------
(* The other goroutines.                                                   *)

(* time.NewTicker panics unless its interval is positive. *)
StartSweeper ==
  /\ main \notin Ended
  /\ sweeper = "starting"
  /\ IF Conf.cleanup_interval > 0
     THEN sweeper' = "ticking" /\ UNCHANGED main
     ELSE sweeper' = "stopped" /\ main' = "panicked"
  /\ UNCHANGED <<input, code, deferred, logger, pool, listener, channels,
                 ending, connVars>>

(* Mutant: the listener is tried again after each failure, so that more    *)
(* errors are sent than the channel holds.                                 *)
ListenerRetries ==
  /\ main \notin Ended /\ listener = "binding"
  /\ serverErr' = serverErr + 1
  /\ UNCHANGED <<listener, logger, pool, sweeper, quit, signals, mainVars,
                 ending, connVars>>

(* net.Listen fails - the port is in use - or Accept fails for good.  The  *)
(* error is sent even when main has left its select meanwhile; only that   *)
(* of an Accept which Shutdown has interrupted is not.                     *)
ListenerFails ==
  /\ main \notin Ended
  /\ listener = "binding" \/ (listener = "listening" /\ ~shutting)
  /\ listener' = "ended" /\ serverErr' = serverErr + 1
  /\ UNCHANGED <<logger, pool, sweeper, quit, signals, mainVars, ending,
                 connVars>>

(* ListenAndServe looks for a Shutdown when it is called and again when    *)
(* net.Listen has returned; Shutdown ends the Accept of a listener.        *)
Listen ==
  /\ main \notin Ended
  /\ \/ /\ listener = "starting"
        /\ listener' = IF shutting THEN "ended" ELSE "binding"
     \/ /\ listener = "binding"
        /\ listener' = IF shutting THEN "ended" ELSE "listening"
     \/ listener = "listening" /\ shutting /\ listener' = "ended"
  /\ UNCHANGED <<logger, pool, sweeper, mainVars, channels, ending, connVars>>

(* SIGINT or SIGTERM.  A signal that finds the channel full is dropped. *)
Signal ==
  /\ main \notin Ended /\ signals < MaxSignals
  /\ signals' = signals + 1
  /\ IF main \in {"load", "log", "connect", "serve", "notify"}
          \/ (main = "unwind" /\ sweeper = "none")
     THEN main' = "killed" /\ UNCHANGED quit
     ELSE quit' = 1 /\ UNCHANGED main
  /\ UNCHANGED <<input, code, deferred, serverErr, parts, ending, connVars>>

-----------------------------------------------------------------------------
(* Shutdown.                                                               *)

(* With both channels ready either case may be taken.  A failed listener   *)
(* returns without Shutdown.                                               *)
Select ==
  /\ Running("select")
  /\ \/ serverErr = 1 /\ serverErr' = 0 /\ Fail("unwind") /\ UNCHANGED quit
     \/ quit = 1 /\ quit' = 0 /\ main' = "stop" /\ UNCHANGED <<code, serverErr>>
  /\ UNCHANGED <<input, deferred, signals, parts, ending, connVars>>

CallShutdown ==
  /\ Running("stop")
  /\ main' = "shutdown" /\ shutting' = TRUE /\ deadline' = "running"
  /\ UNCHANGED <<input, code, deferred, parts, channels, connVars>>

DeadlinePasses ==
  /\ main = "shutdown" /\ deadline = "running"
  /\ deadline' = "over"
  /\ UNCHANGED <<shutting, mainVars, parts, channels, connVars>>

(* Mutant: server.Close in the place of server.Shutdown. *)
ShutdownClosing ==
  /\ Running("shutdown") /\ listener # "listening"
  /\ main' = "unwind"
  /\ UNCHANGED <<input, code, deferred, parts, channels, ending, connVars>>

(* Mutant: Shutdown given context.Background(). *)
ShutdownUnbounded ==
  /\ Running("shutdown") /\ listener # "listening"
  /\ \A c \in Conns : at[c] = "none"
  /\ main' = "unwind"
  /\ UNCHANGED <<input, code, deferred, parts, channels, ending, connVars>>

(* server.Shutdown returns once the listener and every connection are      *)
(* closed, or with an error when the deadline has passed.                  *)
Shutdown ==
  /\ Running("shutdown") /\ listener # "listening"
  /\ \/ (\A c \in Conns : at[c] = "none") /\ main' = "unwind" /\ UNCHANGED code
     \/ deadline = "over" /\ Fail("unwind")
  /\ UNCHANGED <<input, deferred, parts, channels, ending, connVars>>

Holding == {c \in Conns : at[c] = "holding"}

(* Mutant: a defer that closes the pool without waiting for its users. *)
UnwindAtOnce ==
  /\ Running("unwind") /\ deferred # <<>>
  /\ deferred' = Tail(deferred)
  /\ sweeper' = IF Head(deferred) = "sweeper" THEN "stopped" ELSE sweeper
  /\ pool' = IF Head(deferred) = "pool" THEN "closed" ELSE pool
  /\ logger' = IF Head(deferred) = "logger" THEN "closed" ELSE logger
  /\ UNCHANGED <<input, main, code, listener, channels, ending, connVars>>

(* One deferred call.  pool.Close first refuses Acquires, then waits. *)
Unwind ==
  /\ Running("unwind") /\ deferred # <<>>
  /\ \/ /\ Head(deferred) = "sweeper" /\ sweeper' = "stopped"
        /\ deferred' = Tail(deferred)
        /\ UNCHANGED <<pool, logger>>
     \/ /\ Head(deferred) = "pool" /\ pool = "open" /\ pool' = "closing"
        /\ UNCHANGED <<deferred, sweeper, logger>>
     \/ /\ Head(deferred) = "pool" /\ pool = "closing" /\ Holding = {}
        /\ pool' = "closed" /\ deferred' = Tail(deferred)
        /\ UNCHANGED <<sweeper, logger>>
     \/ /\ Head(deferred) = "logger" /\ logger' = "closed"
        /\ deferred' = Tail(deferred)
        /\ UNCHANGED <<pool, sweeper>>
  /\ UNCHANGED <<input, main, code, listener, channels, ending, connVars>>

Exit ==
  /\ Running("unwind") /\ deferred = <<>>
  /\ main' = "exited"
  /\ UNCHANGED <<input, code, deferred, parts, channels, ending, connVars>>

-----------------------------------------------------------------------------
(* Requests.                                                               *)

Turn(c, from, to) ==
  /\ main \notin Ended /\ at[c] = from
  /\ at' = [at EXCEPT ![c] = to]
  /\ UNCHANGED <<mainVars, parts, channels, ending>>

Connect(c) ==
  /\ listener = "listening" /\ Turn(c, "none", "idle")
  /\ UNCHANGED <<debt, harm>>

(* The client, IdleTimeout or Shutdown closes a connection between two     *)
(* requests.                                                               *)
CloseIdle(c) == Turn(c, "idle", "none") /\ UNCHANGED <<debt, harm>>

Ask(c) ==
  /\ Turn(c, "idle", "handler")
  /\ debt' = [debt EXCEPT ![c] = "none"]
  /\ UNCHANGED harm

(* Acquire waits for a free connection, or is refused by a closed pool. *)
Acquire(c) == Turn(c, "handler", "waiting") /\ UNCHANGED <<debt, harm>>

Acquired(c) ==
  /\ pool = "open" /\ Cardinality(Holding) < Conf.max_conns
  /\ Turn(c, "waiting", "holding")
  /\ UNCHANGED <<debt, harm>>

Refused(c) ==
  /\ pool \in {"closing", "closed"} /\ Turn(c, "waiting", "handler")
  /\ harm' = harm \cup {"refused"}
  /\ UNCHANGED debt

(* The transaction, or the one query, ends and gives its connection back. *)
Release(c) ==
  /\ Turn(c, "holding", "handler")
  /\ debt' \in {debt, [debt EXCEPT ![c] = "stored"]}
  /\ UNCHANGED harm

(* LoggingMiddleware writes its line after the handler; the answer is      *)
(* still in net/http's buffer.                                             *)
Log(c) ==
  /\ Turn(c, "handler", "flush")
  /\ harm' = harm \cup (IF logger = "closed" THEN {"unlogged"} ELSE {})
  /\ UNCHANGED debt

(* The answer is flushed, or fails because WriteTimeout has passed or the  *)
(* client has gone; the connection is kept unless the server is shutting.  *)
Answer(c) ==
  /\ \/ /\ Turn(c, "flush", IF shutting THEN "none" ELSE "idle")
        /\ debt' = [debt EXCEPT ![c] = "none"]
     \/ /\ Turn(c, "flush", "none")
        /\ debt' = [debt EXCEPT ![c] = IF @ = "stored" THEN "timeout" ELSE @]
  /\ UNCHANGED harm

-----------------------------------------------------------------------------
MainStep ==
  \/ LoadConfig \/ SetupLogger \/ ConnectPool \/ StartGoroutines \/ Notify
  \/ Select \/ CallShutdown \/ Shutdown \/ Unwind \/ Exit

ConnStep(c) ==
  \/ Connect(c) \/ CloseIdle(c) \/ Ask(c) \/ Acquire(c) \/ Acquired(c)
  \/ Refused(c) \/ Release(c) \/ Log(c) \/ Answer(c)

Init ==
  /\ input \in Inputs
  /\ main = "load" /\ code = 0 /\ deferred = <<>>
  /\ logger = "default" /\ pool = "none"
  /\ sweeper = "none" /\ listener = "none"
  /\ serverErr = 0 /\ quit = 0 /\ signals = 0
  /\ shutting = FALSE /\ deadline = "off"
  /\ at = [c \in Conns |-> "none"]
  /\ debt = [c \in Conns |-> "none"]
  /\ harm = {}

(* The process is gone; anything else that stops is a deadlock. *)
Done == main \in Ended /\ UNCHANGED vars

Next ==
  \/ MainStep
  \/ StartSweeper \/ Listen \/ ListenerFails \/ Signal \/ DeadlinePasses
  \/ \E c \in Conns : ConnStep(c)
  \/ Done

Spec == Init /\ [][Next]_vars

(* The Go scheduler runs every goroutine that can run and the timer fires. *)
(* Of the requests only the queries must end: a handler may hang outside   *)
(* the database, on a body its client never finishes to send.              *)
FairSpec ==
  /\ Spec
  /\ WF_vars(MainStep) /\ WF_vars(Listen) /\ WF_vars(DeadlinePasses)
  /\ \A c \in Conns : WF_vars(Release(c))

-----------------------------------------------------------------------------
DeferStacks ==
  {<<>>, <<"logger">>, <<"pool", "logger">>, <<"sweeper", "pool", "logger">>}

TypeOK ==
  /\ main \in {"load", "log", "connect", "serve", "notify", "select",
               "stop", "shutdown", "unwind"} \cup Ended
  /\ code \in {0, 1} /\ serverErr \in {0, 1} /\ quit \in {0, 1}
  /\ deferred \in DeferStacks
  /\ logger \in {"default", "open", "closed"}
  /\ pool \in {"none", "open", "closing", "closed"}
  /\ sweeper \in {"none", "starting", "ticking", "stopped"}
  /\ listener \in {"none", "starting", "binding", "listening", "ended"}
  /\ signals \in 0 .. MaxSignals
  /\ shutting \in BOOLEAN /\ deadline \in {"off", "running", "over"}
  /\ at \in [Conns ->
       {"none", "idle", "handler", "waiting", "holding", "flush"}]
  /\ debt \in [Conns -> {"none", "stored", "timeout"}]
  /\ harm \subseteq {"refused", "unlogged"}

(* A pool is opened only with bounds it can keep and the clean-up          *)
(* goroutine never panics on its interval, whichever layers the values     *)
(* came from: the layers are joined before they are validated.             *)
StartedSound ==
  /\ main # "panicked"
  /\ pool # "none" => Conf.min_conns <= Conf.max_conns

(* The end of the process cuts a transaction in one case: a signal that    *)
(* arrives after runServer has started the listener and before it calls    *)
(* signal.Notify kills the process, with whatever requests it has already  *)
(* taken.  When runServer returns, after a signal, the deadline or a       *)
(* failed listener, the deferred pool.Close lets the queries in use        *)
(* finish, and before the listener starts there are none.                  *)
CutOnlyBeforeNotify ==
  [][main' \in Ended /\ Holding # {} => main = "notify" /\ main' = "killed"]_main

(* A process that exits with code 0 refused no request a connection, left  *)
(* no request out of its log and owes no client the answer to a change it  *)
(* stored, unless that client went away or was too slow.                   *)
OrderlyExit ==
  main = "exited" /\ code = 0 =>
    harm = {} /\ \A c \in Conns : debt[c] # "stored"

(* After a signal, or once the listener has failed, the process ends, even *)
(* when a request hangs outside the database.                              *)
ProcessEnds == signals > 0 \/ listener = "ended" ~> main \in Ended
=============================================================================
