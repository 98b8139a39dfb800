----------------------------- MODULE Telemetry -----------------------------
(***************************************************************************)
(* Process-wide tracing set-up (telemetry/src/lib.rs): threads of one      *)
(* process call init_tracing directly (the application's main, role        *)
(* "app") or init_test_tracing (tests, role "test"), which runs            *)
(* init_tracing("test") inside the static Once INIT_TEST_TRACING when      *)
(* ENABLE_TRACING is set.                                                  *)
(*                                                                         *)
(* Global state: the `log` logger LogTracer::init installs (at most once), *)
(* the global default subscriber (at most once), the panic hook (a chain   *)
(* of hooks ending in the default one), the APP_ENVIRONMENT variable, and  *)
(* the Once.  Each library call is one atomic step: set_logger and         *)
(* set_global_default are compare-and-swaps, take_hook and set_hook each   *)
(* hold the hook lock for the duration of the call only.                   *)
(***************************************************************************)
EXTENDS Integers, Sequences, FiniteSets

CONSTANTS
  Threads,        \* threads of the process
  Role,           \* Role[t] \in {"app", "test"}
  EnvValues,      \* initial values of APP_ENVIRONMENT
  MaxPanics       \* bound on the panics raised by other code of the process

ASSUME Role \in [Threads -> {"app", "test"}]
ASSUME EnvValues \subseteq {"unset", "dev", "prod", "invalid"}

VARIABLES
  logger,      \* LogTracer installed as the `log` logger
  subscriber,  \* the global default subscriber's writer: "none" | "file" | "stdout"
  hook,        \* the panic hook: a chain of hooks, each calling the next
  env,         \* APP_ENVIRONMENT
  once,        \* INIT_TEST_TRACING: "new" | "running" | "done" | "poisoned"
  pc,          \* per thread
  prod,        \* per thread: the `is_prod` local of init_tracing
  prev,        \* per thread: the hook returned by take_hook
  enable_tracing, \* whether ENABLE_TRACING is set (fixed for the process)
  flushing,    \* the WorkerGuard of the file writer's worker is alive
  panics       \* every panic so far: what its hooks wrote

vars == <<logger, subscriber, hook, env, once, pc, prod, prev, enable_tracing,
          flushing, panics>>

DefaultHook == <<"default">>
Terminal == {"returned", "failed", "panicked"}

Init ==
  /\ logger = FALSE
  /\ subscriber = "none"
  /\ hook = DefaultHook
  /\ env \in EnvValues
  /\ once = "new"
  /\ pc = [t \in Threads |-> IF Role[t] = "test" THEN "call_once" ELSE "log_tracer"]
  /\ prod = [t \in Threads |-> FALSE]
  /\ prev = [t \in Threads |-> <<>>]
  /\ enable_tracing \in BOOLEAN
  /\ flushing = FALSE
  /\ panics = <<>>

(***************************************************************************)
(* A panic runs the installed hook chain.  panic_hook captures the         *)
(* backtrace, picks the payload text and location, and emits one           *)
(* tracing::error! event to the global default subscriber; what is         *)
(* written is modelled by its destination only.  An event sent to the      *)
(* non-blocking file writer after its WorkerGuard was dropped never        *)
(* reaches the file.  The default hook writes the report to stderr.        *)
(***************************************************************************)
PanicHook ==
  IF subscriber = "file" /\ ~flushing THEN "none" ELSE subscriber

\* The boxed closure of set_tracing_panic_hook: panic_hook(info), then
\* prev_hook(info); the chain ends in the default hook.
RunHooks(h) == [i \in 1..Len(h) |-> IF h[i] = "tracing" THEN PanicHook ELSE "stderr"]

\* Some init_tracing call has returned Ok(log_flusher) to its caller.
Initialized ==
  \E t \in Threads : pc[t] = "returned" /\ (Role[t] = "app" \/ enable_tracing)

\* What a panic raised now leaves behind.
Raised == [report |-> RunHooks(hook)]

(***************************************************************************)
(* init_tracing returns Ok or Err to its caller.  In init_test_tracing the *)
(* result goes through `.expect(...)`: an Err panics inside the closure,   *)
(* which poisons the Once; an Ok completes it.                             *)
(***************************************************************************)
Return(t, ok) ==
  /\ IF Role[t] = "test"
       THEN /\ once' = IF ok THEN "done" ELSE "poisoned"
            /\ pc' = [pc EXCEPT ![t] = IF ok THEN "returned" ELSE "panicked"]
       ELSE /\ pc' = [pc EXCEPT ![t] = IF ok THEN "returned" ELSE "failed"]
            /\ UNCHANGED once
  /\ panics' = IF Role[t] = "test" /\ ~ok THEN Append(panics, Raised) ELSE panics

\* call_once on a poisoned Once panics in the caller.
PanicIfPoisoned ==
  panics' = IF once = "poisoned" THEN Append(panics, Raised) ELSE panics

\* Mutant: a caller arriving while the closure runs returns at once.
CallOnce_NoWait(t) ==
  /\ pc[t] = "call_once"
  /\ CASE once = "new" ->
            IF enable_tracing
              THEN /\ once' = "running"
                   /\ pc' = [pc EXCEPT ![t] = "set_env"]
              ELSE /\ once' = "done"
                   /\ pc' = [pc EXCEPT ![t] = "returned"]
       [] once \in {"running", "done"} ->
            pc' = [pc EXCEPT ![t] = "returned"] /\ UNCHANGED once
       [] once = "poisoned" -> pc' = [pc EXCEPT ![t] = "panicked"] /\ UNCHANGED once
  /\ PanicIfPoisoned
  /\ UNCHANGED <<logger, subscriber, hook, env, prod, prev, enable_tracing,
                 flushing>>

\* INIT_TEST_TRACING.call_once(|| ...): the first caller runs the closure,
\* later callers return, block while it runs, or panic once it is poisoned.
CallOnce(t) ==
  /\ pc[t] = "call_once"
  /\ CASE once = "new" ->
            IF enable_tracing
              THEN /\ once' = "running"
                   /\ pc' = [pc EXCEPT ![t] = "set_env"]
              ELSE /\ once' = "done"
                   /\ pc' = [pc EXCEPT ![t] = "returned"]
       [] once = "running" -> pc' = [pc EXCEPT ![t] = "wait_once"] /\ UNCHANGED once
       [] once = "done" -> pc' = [pc EXCEPT ![t] = "returned"] /\ UNCHANGED once
       [] once = "poisoned" -> pc' = [pc EXCEPT ![t] = "panicked"] /\ UNCHANGED once
  /\ PanicIfPoisoned
  /\ UNCHANGED <<logger, subscriber, hook, env, prod, prev, enable_tracing,
                 flushing>>

\* A caller blocked in call_once wakes when the closure completes or panics.
WaitOnce(t) ==
  /\ pc[t] = "wait_once"
  /\ once \in {"done", "poisoned"}
  /\ pc' = [pc EXCEPT ![t] = IF once = "done" THEN "returned" ELSE "panicked"]
  /\ PanicIfPoisoned
  /\ UNCHANGED <<logger, subscriber, hook, env, once, prod, prev, enable_tracing,
                 flushing>>

\* Mutant: the closure does not set the environment to Dev.
SetEnvDev_Skip(t) ==
  /\ pc[t] = "set_env"
  /\ pc' = [pc EXCEPT ![t] = "log_tracer"]
  /\ UNCHANGED <<logger, subscriber, hook, env, once, prod, prev, enable_tracing,
                 flushing, panics>>

\* Environment::Dev.set()
SetEnvDev(t) ==
  /\ pc[t] = "set_env"
  /\ env' = "dev"
  /\ pc' = [pc EXCEPT ![t] = "log_tracer"]
  /\ UNCHANGED <<logger, subscriber, hook, once, prod, prev, enable_tracing,
                 flushing, panics>>

\* LogTracer::init()?: fails with SetLoggerError once a logger is set.
LogTracerInit(t) ==
  /\ pc[t] = "log_tracer"
  /\ IF logger
       THEN Return(t, FALSE) /\ UNCHANGED logger
       ELSE /\ logger' = TRUE
            /\ pc' = [pc EXCEPT ![t] = "load_env"]
            /\ UNCHANGED <<once, panics>>
  /\ UNCHANGED <<subscriber, hook, env, prod, prev, enable_tracing,
                 flushing>>

\* let is_prod = Environment::load()?.is_prod(); unset means production.
LoadEnv(t) ==
  /\ pc[t] = "load_env"
  /\ IF env = "invalid"
       THEN Return(t, FALSE) /\ UNCHANGED prod
       ELSE /\ prod' = [prod EXCEPT ![t] = env \in {"unset", "prod"}]
            /\ pc' = [pc EXCEPT ![t] = "configure"]
            /\ UNCHANGED <<once, panics>>
  /\ UNCHANGED <<logger, subscriber, hook, env, prev, enable_tracing,
                 flushing>>

\* set_global_default(subscriber)?, the last step of both configure_*; the
\* file writer's WorkerGuard lives on in the returned LogFlusher::Flusher.
SetGlobalDefault(t, writer) ==
  IF subscriber # "none"
    THEN Return(t, FALSE) /\ UNCHANGED <<subscriber, flushing>>
    ELSE /\ subscriber' = writer
         /\ flushing' = (writer = "file")
         /\ pc' = [pc EXCEPT ![t] = "take_hook"]
         /\ UNCHANGED <<once, panics>>

\* Mutant: the panic hook is installed before the file appender is built.
ConfigureProd_HookFirst(t) ==
  /\ pc[t] = "configure" /\ prod[t]
  /\ \/ Return(t, FALSE) /\ hook' = <<"tracing">> \o hook
        /\ UNCHANGED <<subscriber, flushing>>
     \/ SetGlobalDefault(t, "file") /\ UNCHANGED hook
  /\ UNCHANGED <<logger, env, prod, prev, enable_tracing>>

\* configure_prod_tracing: building the rolling file appender may fail
\* (InitAppender); otherwise the subscriber is set.
ConfigureProd(t) ==
  /\ pc[t] = "configure" /\ prod[t]
  /\ \/ Return(t, FALSE) /\ UNCHANGED <<subscriber, flushing>>
     \/ SetGlobalDefault(t, "file")
  /\ UNCHANGED <<logger, hook, env, prod, prev, enable_tracing>>

\* configure_dev_tracing
ConfigureDev(t) ==
  /\ pc[t] = "configure" /\ ~prod[t]
  /\ SetGlobalDefault(t, "stdout")
  /\ UNCHANGED <<logger, hook, env, prod, prev, enable_tracing>>

\* set_tracing_panic_hook: let prev_hook = std::panic::take_hook();
\* take_hook leaves the default hook installed.
TakeHook(t) ==
  /\ pc[t] = "take_hook"
  /\ prev' = [prev EXCEPT ![t] = hook]
  /\ hook' = DefaultHook
  /\ pc' = [pc EXCEPT ![t] = "set_hook"]
  /\ UNCHANGED <<logger, subscriber, env, once, prod, enable_tracing,
                 flushing, panics>>

\* In init_test_tracing the Ok(log_flusher) is bound to `_log_flusher`,
\* which is dropped when the closure ends; dropping a Flusher drops its
\* WorkerGuard and stops the file writer's worker.
Dropped(t) == Role[t] = "test" /\ prod[t]

\* Mutant: the new hook does not call prev_hook.
SetHook_Replace(t) ==
  /\ pc[t] = "set_hook"
  /\ hook' = <<"tracing">>
  /\ Return(t, TRUE)
  /\ flushing' = (flushing /\ ~Dropped(t))
  /\ UNCHANGED <<logger, subscriber, env, prod, prev, enable_tracing>>

\* std::panic::set_hook(move |info| { panic_hook(info); prev_hook(info) });
\* then init_tracing returns Ok(log_flusher).
SetHook(t) ==
  /\ pc[t] = "set_hook"
  /\ hook' = <<"tracing">> \o prev[t]
  /\ Return(t, TRUE)
  /\ flushing' = (flushing /\ ~Dropped(t))
  /\ UNCHANGED <<logger, subscriber, env, prod, prev, enable_tracing>>

\* A caller blocked in call_once is parked; on each wake-up it re-reads the
\* Once state and parks again unless WaitOnce can take it out.
Park(t) == pc[t] = "wait_once" /\ UNCHANGED vars

\* Other code of the process (a test body, a task of the application)
\* panics; std runs the installed hook chain on the panicking thread.
Panic ==
  /\ Len(panics) < MaxPanics
  /\ panics' = Append(panics, Raised)
  /\ UNCHANGED <<logger, subscriber, hook, env, once, pc, prod, prev,
                 enable_tracing, flushing>>

\* Every thread has returned, failed or panicked; the process idles.
Idle == (\A t \in Threads : pc[t] \in Terminal) /\ UNCHANGED vars

Step(t) ==
  \/ CallOnce(t) \/ WaitOnce(t) \/ SetEnvDev(t)
  \/ LogTracerInit(t) \/ LoadEnv(t) \/ ConfigureProd(t) \/ ConfigureDev(t)
  \/ TakeHook(t) \/ SetHook(t)

Next == (\E t \in Threads : Step(t) \/ Park(t)) \/ Panic \/ Idle

\* Every thread that can take a step eventually does: the OS scheduler
\* runs every runnable thread, and none of these steps blocks but WaitOnce.
\* Panics of other code are not required to happen.
Spec == Init /\ [][Next]_vars /\ \A t \in Threads : WF_vars(Step(t))

-----------------------------------------------------------------------------
TypeOK ==
  /\ logger \in BOOLEAN /\ subscriber \in {"none", "file", "stdout"}
  /\ once \in {"new", "running", "done", "poisoned"}
  /\ hook \in Seq({"tracing", "default"})
  /\ panics \in Seq([report : Seq({"none", "file", "stdout", "stderr"})])

(***************************************************************************)
(* Refinement mapping onto TracingSetup.  Tracing counts as installed from *)
(* the step in which an init_tracing returns Ok: set_hook and that return  *)
(* are one step, and set_global_default is the last step that can fail.    *)
(***************************************************************************)
InstalledWriter == IF Initialized THEN subscriber ELSE "none"

Setup == INSTANCE TracingSetup WITH installed <- InstalledWriter

(***************************************************************************)
(* Refinement (spec 9, lib.rs 145-148: the tracing hook logs the panic and *)
(* then calls the original hook): seen from the panics of the process,     *)
(* any interleaving of init_tracing and init_test_tracing callers, with    *)
(* failures part-way through init_tracing, behaves as one atomic install   *)
(* of a subscriber and its hook, done at most once.  Every panic, whether  *)
(* raised by other code, by a failed expect or by a poisoned Once, and     *)
(* whether it falls before, inside or after an installer's take_hook /     *)
(* set_hook window, runs exactly the chain TracingSetup prescribes: its    *)
(* event reaches the installed subscriber's writer (and is not lost to a   *)
(* dropped file guard), and stderr exactly once and last.                  *)
(***************************************************************************)
SetupSpec == Setup!Spec

(***************************************************************************)
(* Safety (lib.rs 40-44: call init_test_tracing once at the start of a     *)
(* test and set ENABLE_TRACING "to view tracing in the terminal"): a test  *)
(* thread that returns from init_test_tracing with ENABLE_TRACING set      *)
(* finds a terminal (stdout) subscriber and the tracing panic hook         *)
(* installed, even when another thread ran the closure, and whatever       *)
(* APP_ENVIRONMENT the process started with.                               *)
(***************************************************************************)
TestTracingReadyOnReturn ==
  \A t \in Threads :
    Role[t] = "test" /\ pc[t] = "returned" /\ enable_tracing
      => subscriber = "stdout" /\ hook = <<"tracing">> \o DefaultHook

(***************************************************************************)
(* Safety (lib.rs 48-49 and 77-78: prod logs to files, and the LogFlusher  *)
(* must live until exit or logs in memory are not flushed): whenever the   *)
(* global subscriber writes to the rolling file, its worker's guard is     *)
(* alive.  init_test_tracing drops its flusher when the closure ends, so   *)
(* this rests on the closure's Environment::Dev.set() making every         *)
(* test-installed subscriber a stdout one, whatever APP_ENVIRONMENT was.   *)
(***************************************************************************)
FileWriterFlushed ==
  subscriber = "file" => flushing
=============================================================================
