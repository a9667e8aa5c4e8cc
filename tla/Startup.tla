------------------------------- MODULE Startup -------------------------------
(***************************************************************************)
(* From the start of the process to its first accept, and its exit codes   *)
(* (main of src/main.rs, Config::from_env, and run of src/server.rs before *)
(* and after what module Server describes).  Every variable that from_env  *)
(* reads and every call that may fail is one step; SIGINT and SIGTERM may  *)
(* arrive between any two.                                                 *)
(*                                                                         *)
(* An operator named Bad... is a mutant of the one after it.               *)
(***************************************************************************)
EXTENDS Config, FiniteSets

CONSTANT RawValues(_, _)    \* what may be in a variable, given those read before it

VARIABLES
  pc,            \* the next call
  environment,   \* the raw values read so far, by variable
  settings,      \* what they became
  error,         \* the variable from_env complains of, or "none"
  handlers,      \* the signals shutdown_signal is installed for
  shutdown,      \* SHUTDOWN
  signalled,     \* shutdown_signal ran
  exit           \* how the process ended: an exit code, or a name, or "running"

startupVars ==
  <<pc, environment, settings, error, handlers, shutdown, signalled, exit>>

Signals == {"SIGINT", "SIGTERM"}

\* What run calls in turn, by what it sets up.
RunCalls == {"reset", "SIGINT", "SIGTERM", "root", "bind", "nonblocking", "spawn"}

StartupTypeOK ==
  /\ pc \in RunCalls \cup {"main", "config", "serve", "exited"}
  /\ DOMAIN environment \subseteq ToSet(Variables)
  /\ DOMAIN settings = IF error = "none" THEN DOMAIN environment
                       ELSE DOMAIN environment \ {error}
  /\ Invalid \notin {settings[v] : v \in DOMAIN settings}
  /\ handlers \subseteq Signals
  /\ shutdown \in BOOLEAN
  /\ signalled \in BOOLEAN
  /\ exit \in {"running", "0", "1", "2", "panic", "killed"}
  /\ (pc = "exited") = (exit # "running")

StartupInit ==
  /\ pc = "main"
  /\ environment = <<>>
  /\ settings = <<>>
  /\ error = "none"
  /\ handlers = {}
  /\ shutdown = FALSE
  /\ signalled = FALSE
  /\ exit = "running"

BadExit(code) == pc' = "reset" /\ exit' = code    \* the error is only told

Exit(code) == pc' = "exited" /\ exit' = code

Proceed(from, to) == pc = from /\ pc' = to /\ UNCHANGED exit

ReadsArguments ==
  /\ Proceed("main", "config")
  /\ UNCHANGED <<environment, settings, error, handlers, shutdown, signalled>>

PrintsVersion ==
  /\ pc = "main"
  /\ Exit("0")
  /\ UNCHANGED <<environment, settings, error, handlers, shutdown, signalled>>

With(f, v, x) == [w \in DOMAIN f \cup {v} |-> IF w = v THEN x ELSE f[w]]

NextVariable == Variables[Cardinality(DOMAIN environment) + 1]

\* from_env looks at the next variable, and returns at the first error.
ReadsVariable(raw) ==
  /\ pc = "config"
  /\ environment' = With(environment, NextVariable, raw)
  /\ LET setting == Setting(NextVariable, raw, settings)
     IN IF setting = Invalid
        THEN Exit("2") /\ error' = NextVariable /\ UNCHANGED settings
        ELSE /\ settings' = With(settings, NextVariable, setting)
             /\ pc' = IF NextVariable = Last(Variables) THEN "reset" ELSE "config"
             /\ UNCHANGED <<error, exit>>
  /\ UNCHANGED <<handlers, shutdown, signalled>>

ReadsSome ==
  \E raw \in RawValues(NextVariable, environment) \cap Raw(NextVariable) : ReadsVariable(raw)

-----------------------------------------------------------------------------
(* run. *)

BadResets(call) == call = "root"    \* when the handlers are installed

Resets(call) == call = "reset"

After(call) ==
  CASE call = "reset" -> "SIGINT"
    [] call = "SIGINT" -> "SIGTERM"
    [] call = "SIGTERM" -> "root"
    [] call = "root" -> "bind"
    [] call = "bind" -> "nonblocking"
    [] call = "nonblocking" -> "spawn"
    [] call = "spawn" -> "serve"

CallSucceeds ==
  /\ pc \in RunCalls
  /\ Proceed(pc, After(pc))
  /\ handlers' = handlers \cup ({pc} \cap Signals)
  /\ shutdown' = (shutdown /\ ~Resets(pc))
  /\ UNCHANGED <<environment, settings, error, signalled>>

\* sigaction, open, bind or set_nonblocking failed: run returns its error.
CallFails ==
  /\ pc \in Signals \cup {"root", "bind", "nonblocking"}
  /\ Exit("1")
  /\ UNCHANGED <<environment, settings, error, handlers, shutdown, signalled>>

\* thread::spawn, or logging the start, panicked.
SpawnPanics ==
  /\ pc = "spawn"
  /\ Exit("panic")
  /\ UNCHANGED <<environment, settings, error, handlers, shutdown, signalled>>

\* accept_loop sees SHUTDOWN, or fails; module Server says what run returns then.  Or
\* logging panics, which ends the process.
Stops ==
  /\ pc = "serve"
  /\ \/ shutdown /\ Exit("0")
     \/ Exit("1")
     \/ Exit("panic")
  /\ UNCHANGED <<environment, settings, error, handlers, shutdown, signalled>>

\* A signal runs shutdown_signal.  Before that is installed it ends the process,
\* or is ignored if the process is the first of its container.
Signal(s) ==
  /\ pc # "exited"
  /\ IF s \in handlers
     THEN shutdown' = TRUE /\ signalled' = TRUE /\ UNCHANGED <<pc, exit>>
     ELSE Exit("killed") /\ UNCHANGED <<shutdown, signalled>>
  /\ UNCHANGED <<environment, settings, error, handlers>>

Main ==
  \/ ReadsArguments \/ PrintsVersion
  \/ pc = "config" /\ ReadsSome
  \/ CallSucceeds \/ CallFails \/ SpawnPanics

Started == Main \/ Stops \/ \E s \in Signals : Signal(s)

-----------------------------------------------------------------------------
(* Properties. *)

\* The index and the prefix of the assets are components that can be walked and
\* compared with those of decode_target, and they are the path that was given
\* (README.md:49-50).
Joined(components) ==
  FoldLeft(LAMBDA path, c : IF path = <<>> THEN c ELSE path \o <<"/">> \o c, <<>>, components)

IsNormal(components) ==
  \A c \in ToSet(components) : c \notin {<<>>} \cup Dots /\ ToSet(c) \cap {"/", "\\"} = {}

PathsAreSafe ==
  /\ settings.INDEX # <<>> /\ IsNormal(settings.INDEX)
  /\ settings.ASSETS_PATH # <<>> /\ IsNormal(settings.ASSETS_PATH)
  /\ Joined(settings.INDEX) = Or(environment.INDEX, DefaultIndex)
  /\ LET prefix == <<"/">> \o Joined(settings.ASSETS_PATH)
     IN Or(environment.ASSETS_PATH, DefaultAssets) \in {prefix, prefix \o <<"/">>}

LongestQueue == 65536    \* README.md:52

NumbersAreSafe ==
  /\ settings.THREADS \in 1..256
  /\ settings.QUEUE_SIZE \in 1..LongestQueue
  /\ settings.REQUEST_TIMEOUT_SECS \in 1..300
  /\ settings.SHUTDOWN_TIMEOUT_SECS \in 1..300

HeadersAreSafe ==
  /\ Len(settings.EXTRA_HEADERS) <= 32
  /\ ToSet(settings.EXTRA_HEADERS)
       \cap {"content-length", "content-type", "content-encoding", "cache-control",
             "etag", "last-modified", "vary", "date", "server", "connection",
             "transfer-encoding"} = {}

\* What run and every module above it rely on: workers, room in the queue, time
\* to serve and to stop, paths that can be walked, and no header that Statika
\* writes itself (README.md:47-62).
SafeToServe ==
  pc \in RunCalls \cup {"serve"} =>
    /\ NumbersAreSafe
    /\ settings.ROOT = "absolute"
    /\ PathsAreSafe
    /\ HeadersAreSafe

\* README.md:24: a signal ends the process, at whatever moment of its start: the
\* calls that follow do not forget it.
SignalEnds == signalled ~> pc = "exited"

\* README.md:48: the server listens on the socket address it was given, and on
\* every interface only if it was given none.
ListenAddrIsMeant ==
  pc \in {"bind", "nonblocking", "spawn", "serve"} =>
    environment.LISTEN_ADDR \in {Unset, "an address"}
=============================================================================
