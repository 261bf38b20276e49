----------------------------- MODULE Lifecycle -----------------------------
(***************************************************************************)
(* The life of one cloudkey process (cmd/cloudkey/main.go, with Serve of   *)
(* internal/api/api.go): main starts the dashboard server and the signal   *)
(* handler and then runs the display until the process ends; each of the   *)
(* three goroutines can end it, and whoever does clears the pidfile first. *)
(*                                                                         *)
(* net/http is modelled by its contract: Shutdown makes Serve return at    *)
(* once, and itself returns when no request is active or its context       *)
(* expires.  An SSE request ends only when its client goes away.  The      *)
(* pidfile package is modelled by its contract too: Create refuses a file  *)
(* that names another live process, Clear removes the file it created.     *)
(***************************************************************************)
EXTENDS FiniteSets

CONSTANTS
  Pages,    \* requests for files: they end by themselves
  Streams   \* SSE requests: they end when the client leaves

ASSUME RequestAssumption == IsFiniteSet(Pages \cup Streams) /\ Pages \cap Streams = {}

VARIABLES
  opts,      \* [http, reset]: a port is configured; --reset
  main,      \* main's location
  server,    \* the Serve goroutine's location
  drain,     \* Serve's watcher: srv.Shutdown "none", "running" or "over"
  handler,   \* the signal handler's location
  cancelled, \* serverCtx
  done,      \* serverDone is closed
  active,    \* requests being served
  file,      \* the pidfile: "none", "ours", or "other" (another live process)
  pid,       \* main's pid # nil
  exit       \* how the process ended: "no", "ok", "fatal" or "killed"

lifeVars == <<opts, main, server, drain, handler, cancelled, done, active, file, pid, exit>>

Requests == Pages \cup Streams
Alive == exit = "no"

LifeInit ==
  /\ opts \in [http : BOOLEAN, reset : BOOLEAN]
  /\ main = "start"
  /\ server = "none" /\ drain = "none" /\ handler = "none"
  /\ cancelled = FALSE /\ done = FALSE
  /\ active = {}
  /\ file \in {"none", "other"}
  /\ pid = FALSE
  /\ exit = "no"

(* if pid != nil { pid.Clear() }                                           *)
ClearPidfile == file' = IF pid THEN "none" ELSE file

-----------------------------------------------------------------------------
(* main.                                                                   *)

(* An invalid configuration is fatal before there is anything to clean up. *)
BadConfig ==
  /\ Alive /\ main = "start"
  /\ exit' = "fatal"
  /\ UNCHANGED <<opts, main, server, drain, handler, cancelled, done, active, file, pid>>

CreatePidfile ==
  /\ Alive /\ main = "start"
  /\ \/ file = "none" /\ file' = "ours" /\ pid' = TRUE
     \/ UNCHANGED <<file, pid>>                     \* refused, or not writable: a warning
  /\ main' = "serve"
  /\ UNCHANGED <<opts, server, drain, handler, cancelled, done, active, exit>>

StartServer ==
  /\ Alive /\ main = "serve"
  /\ server' = IF opts.http THEN "listen" ELSE "none"
  /\ done' = ~opts.http
  /\ main' = "notify"
  /\ UNCHANGED <<opts, drain, handler, cancelled, active, file, pid, exit>>

StartHandler ==
  /\ Alive /\ main = "notify"
  /\ handler' = "waiting"
  /\ main' = "new"
  /\ UNCHANGED <<opts, server, drain, cancelled, done, active, file, pid, exit>>

(* display.New runs the carousel for good, or returns early: an error when *)
(* the framebuffer does not open, nil after --reset.                       *)
RunDisplay ==
  /\ Alive /\ main = "new" /\ ~opts.reset
  /\ main' = "carousel"
  /\ UNCHANGED <<opts, server, drain, handler, cancelled, done, active, file, pid, exit>>

NewFails ==
  /\ Alive /\ main = "new"
  /\ main' = "fatal"
  /\ ClearPidfile
  /\ UNCHANGED <<opts, server, drain, handler, cancelled, done, active, pid, exit>>

NewResets ==               \* New returns, then the deferred Clear
  /\ Alive /\ main = "new" /\ opts.reset
  /\ main' = "return"
  /\ ClearPidfile
  /\ UNCHANGED <<opts, server, drain, handler, cancelled, done, active, pid, exit>>

MainEnds ==
  /\ Alive /\ main \in {"fatal", "return"}
  /\ exit' = IF main = "fatal" THEN "fatal" ELSE "ok"
  /\ UNCHANGED <<opts, main, server, drain, handler, cancelled, done, active, file, pid>>

-----------------------------------------------------------------------------
(* The server goroutine: api.Serve.                                        *)
Listen ==
  /\ Alive /\ server = "listen"
  /\ server' \in {"serving", "failed"}
  /\ UNCHANGED <<opts, main, drain, handler, cancelled, done, active, file, pid, exit>>

Accept(r) ==
  /\ Alive /\ server = "serving" /\ drain = "none"
  /\ r \notin active
  /\ active' = active \cup {r}
  /\ UNCHANGED <<opts, main, server, drain, handler, cancelled, done, file, pid, exit>>

Finish(r) ==
  /\ Alive /\ r \in active
  /\ active' = active \ {r}
  /\ UNCHANGED <<opts, main, server, drain, handler, cancelled, done, file, pid, exit>>

AcceptFails ==
  /\ Alive /\ server = "serving" /\ drain = "none"
  /\ server' = "failed"
  /\ UNCHANGED <<opts, main, drain, handler, cancelled, done, active, file, pid, exit>>

(* The watcher sees ctx.Done and calls srv.Shutdown.                       *)
BeginShutdown ==
  /\ Alive /\ server = "serving" /\ cancelled /\ drain = "none"
  /\ drain' = "running"
  /\ UNCHANGED <<opts, main, server, handler, cancelled, done, active, file, pid, exit>>

(* srv.Shutdown returns: nothing is active, or shutdownGrace has passed.   *)
GraceOver ==
  /\ Alive /\ drain = "running"
  /\ drain' = "over"
  /\ UNCHANGED <<opts, main, server, handler, cancelled, done, active, file, pid, exit>>

(* srv.Serve returns http.ErrServerClosed as soon as Shutdown is called,   *)
(* so api.Serve returns nil and the deferred close(serverDone) runs.       *)
ServeReturns ==
  /\ Alive /\ server = "serving" /\ drain # "none"
  /\ server' = "returned"
  /\ done' = TRUE
  /\ UNCHANGED <<opts, main, drain, handler, cancelled, active, file, pid, exit>>

FatalUncleared ==          \* mutated: log.Fatal skips the deferred Clear
  /\ Alive /\ server = "failed"
  /\ server' = "fatal"
  /\ UNCHANGED <<opts, main, drain, handler, cancelled, done, active, file, pid, exit>>

ServeFails ==              \* clear, then log.Fatal
  /\ Alive /\ server = "failed"
  /\ server' = "fatal"
  /\ ClearPidfile
  /\ UNCHANGED <<opts, main, drain, handler, cancelled, done, active, pid, exit>>

ServerFatal ==
  /\ Alive /\ server = "fatal"
  /\ exit' = "fatal"
  /\ UNCHANGED <<opts, main, server, drain, handler, cancelled, done, active, file, pid>>

-----------------------------------------------------------------------------
(* The signal handler.                                                     *)
SignalArrives ==
  /\ Alive /\ handler = "waiting"
  /\ handler' = "await"
  /\ cancelled' = TRUE
  /\ UNCHANGED <<opts, main, server, drain, done, active, file, pid, exit>>

AwaitIdle ==               \* mutated: waits for the requests themselves, without a bound
  /\ Alive /\ handler = "await" /\ active = {}
  /\ handler' = "panel"
  /\ UNCHANGED <<opts, main, server, drain, cancelled, done, active, file, pid, exit>>

(* awaitServerShutdown: serverDone, or serverShutdownWait, which is long   *)
(* enough for the watcher to begin srv.Shutdown and use up its grace.      *)
AwaitServer ==
  /\ Alive /\ handler = "await"
  /\ done \/ drain = "over"
  /\ handler' = "panel"
  /\ UNCHANGED <<opts, main, server, drain, cancelled, done, active, file, pid, exit>>

ShutdownPanel ==           \* display.Shutdown, then pid.Clear
  /\ Alive /\ handler = "panel"
  /\ handler' = "exit"
  /\ ClearPidfile
  /\ UNCHANGED <<opts, main, server, drain, cancelled, done, active, pid, exit>>

HandlerExits ==
  /\ Alive /\ handler = "exit"
  /\ exit' = "ok"
  /\ UNCHANGED <<opts, main, server, drain, handler, cancelled, done, active, file, pid>>

(* Before signal.Notify the default action of SIGTERM ends the process.    *)
KilledEarly ==
  /\ Alive /\ handler = "none"
  /\ exit' = "killed"
  /\ UNCHANGED <<opts, main, server, drain, handler, cancelled, done, active, file, pid>>

MainStep == BadConfig \/ CreatePidfile \/ StartServer \/ StartHandler \/ RunDisplay
            \/ NewFails \/ NewResets \/ MainEnds
ServerStep == Listen \/ AcceptFails \/ ServeReturns \/ ServeFails \/ ServerFatal
DrainStep == BeginShutdown \/ GraceOver
HandlerStep == AwaitServer \/ ShutdownPanel \/ HandlerExits

LifeNext ==
  \/ MainStep \/ ServerStep \/ DrainStep \/ HandlerStep
  \/ SignalArrives \/ KilledEarly
  \/ \E r \in Requests : Accept(r) \/ Finish(r)

LifeSpec == LifeInit /\ [][LifeNext]_lifeVars

(* The goroutines keep running and the timers fire; page requests finish,  *)
(* streams need not; nobody has to send a signal.                          *)
FairSpec ==
  /\ LifeSpec
  /\ WF_lifeVars(MainStep) /\ WF_lifeVars(ServeReturns \/ ServeFails \/ ServerFatal \/ Listen)
  /\ WF_lifeVars(DrainStep) /\ WF_lifeVars(HandlerStep)
  /\ \A r \in Pages : WF_lifeVars(Finish(r))

-----------------------------------------------------------------------------
(* main's comment at the deferred Clear: every path out of the process but *)
(* an unhandled signal clears the pidfile, since os.Exit skips deferred    *)
(* functions; whichever goroutine gets there first, no file is left naming *)
(* a process that no longer exists.                                        *)
NoStalePidfile == exit \in {"ok", "fatal"} => file # "ours"

(* A signal ends the process, even with a dashboard stream that never      *)
(* closes.                                                                 *)
SignalEnds == (handler = "await") ~> (exit # "no")

(* main's comment at serverDone: the handler waits for the server to       *)
(* drain "instead of calling os.Exit out from under it".  So when the      *)
(* handler exits while srv.Shutdown is at work, either every request had   *)
(* been served or the drain had used up its grace.                         *)
DrainBeforeExit ==
  exit = "ok" /\ handler = "exit" /\ drain = "running" => active = {}
=============================================================================
