------------------------------ MODULE JukeBox ------------------------------
(***************************************************************************)
(* The daemon's life: loading the plugin packages (jukebox/plugs.py), the  *)
(* RPC server and the other threads that call plugins under the module     *)
(* lock, and the shutdown on a signal (jukebox/daemon.py).                 *)
(*                                                                         *)
(* The signal handler runs on the main thread, on top of whatever that     *)
(* thread was doing, an RPC call included, and never goes back: it waits   *)
(* for a shutdown thread and exits.                                        *)
(***************************************************************************)
EXTENDS Naturals, Sequences, SequencesExt

CONSTANTS
  Order,          \* the packages, in the order of jukebox.yaml
  Publishing,     \* the package no daemon runs without
  Misc,           \* the package that reports what was loaded
  CallingExits,   \* packages whose atexit function calls a plugin (jingle)
  Main,           \* the main thread
  Callers,        \* other threads that call plugins (reader, timers, GPIO)
  Nobody,         \* the owner of a free lock
  MaxDepth,       \* bound: calls nested in each other on one thread
  Detached        \* callers that may run a call as_thread, without the lock

Packages == Range(Order)
Threads == Callers \union {Main}

ASSUME JukeBoxAssumption ==
  /\ Order \in Seq(Packages) /\ IsInjective(Order)
  /\ {Publishing, Misc} \subseteq Packages
  /\ CallingExits \subseteq Packages
  /\ Main \notin Callers
  /\ Nobody \notin Threads
  /\ Detached \subseteq Callers
  /\ MaxDepth \in Nat \ {0}

VARIABLES
  stage,      \* what the main thread is at
  next,       \* the package to load next
  plugins,    \* _PLUGINS: the packages registered by name
  failed,     \* _PLUGINS_FAILED
  live,       \* packages with callables
  exits,      \* packages with an atexit function
  lock,       \* _lock_module, a reentrant lock
  pc,         \* what each thread does with it
  frames,     \* calls on each thread's stack
  dropped,    \* what a thread gave up for a blocking call
  stolen,     \* history: a thread gave up a lock that was not its own
  signals,    \* _signal_cnt
  shutdown,   \* the step of exit_gracefully
  closed,     \* packages whose atexit function has run, in order
  saved,      \* jukebox.yaml was saved
  caught,     \* history: the signal interrupted a call under the lock
  exit        \* how the process ended

registry == <<next, plugins, failed, live, exits>>
locking == <<lock, pc, frames, dropped, stolen>>
ending == <<signals, shutdown, closed, saved, caught, exit>>
vars == <<stage, registry, locking, ending>>

Free == [owner |-> Nobody, depth |-> 0]

Init ==
  /\ stage = "load"
  /\ next = 1
  /\ plugins = {} /\ failed = {} /\ live = {} /\ exits = {}
  /\ lock = Free
  /\ pc = [t \in Threads |-> "idle"]
  /\ frames = [t \in Threads |-> 0]
  /\ dropped = [t \in Threads |-> Free]
  /\ stolen = FALSE
  /\ signals = 0
  /\ shutdown = "none"
  /\ closed = <<>>
  /\ saved = FALSE
  /\ caught = FALSE
  /\ exit = "none"

-----------------------------------------------------------------------------
(* Start-up *)

LoadOutcomes == {"ok", "import", "schema", "hook", "initializer"}

\* load: a failed import unregisters the package, any later failure leaves it
\* registered, with as much of it callable as init_plugin got to register.
Load(outcome) ==
  /\ stage = "load" /\ next <= Len(Order)
  /\ next' = next + 1
  /\ LET p == Order[next] IN
       /\ plugins' = IF outcome = "import" THEN plugins ELSE plugins \union {p}
       /\ failed' = IF outcome = "ok" THEN failed ELSE failed \union {p}
       /\ CASE outcome \in {"import", "schema"} -> UNCHANGED <<live, exits>>
            [] outcome = "hook" -> /\ live' \in {live, live \union {p}}
                                   /\ exits' = exits
            [] OTHER -> live' = live \union {p} /\ exits' = exits \union {p}
  /\ UNCHANGED <<stage, locking, ending>>

\* load_all_finalize: what a finalizer raises is logged, and not recorded.
Finalize ==
  /\ stage = "load" /\ next > Len(Order)
  /\ stage' = "report"
  /\ UNCHANGED <<registry, locking, ending>>

\* _validate_critical_plugins: publishing is not among the loaded packages.
CriticalMissing == Publishing \notin plugins

\* The rest of run() up to the RPC server.  Without misc there is no list of
\* packages to join; without publishing the daemon exits.
Report ==
  /\ stage = "report" /\ lock = Free
  /\ exit' = CASE Misc \notin live -> "crash"
               [] Misc \in live /\ CriticalMissing -> "critical"
               [] OTHER -> exit
  /\ stage' = IF exit' = "none" THEN "serve" ELSE "gone"
  /\ UNCHANGED <<registry, locking, signals, shutdown, closed, saved, caught>>

\* A request the server cannot answer: no JSON, a time stamp, a result that
\* does not serialise.  The exception leaves run() and ends the process.
BadRequest ==
  /\ stage = "serve" /\ pc[Main] = "idle"
  /\ stage' = "gone"
  /\ exit' = "crash"
  /\ UNCHANGED <<registry, locking, signals, shutdown, closed, saved, caught>>

-----------------------------------------------------------------------------
(* Calls *)

Running(t) == stage # "gone" /\ (t = Main => stage = "serve")

Call(t) ==
  /\ Running(t) /\ pc[t] = "idle"
  /\ pc' = [pc EXCEPT ![t] = "wait"]
  /\ UNCHANGED <<stage, registry, lock, frames, dropped, stolen, ending>>

\* A function called as_thread runs on a thread of its own, without the lock.  What
\* it calls through plugs is a Call of that thread.
Detach(t) ==
  /\ Running(t) /\ t \in Detached /\ pc[t] = "idle"
  /\ pc' = [pc EXCEPT ![t] = "run"]
  /\ UNCHANGED <<stage, registry, lock, frames, dropped, stolen, ending>>

\* Bounded like the calls: a thread that was handed a lock it had lost counts from it.
Acquire(t) ==
  /\ lock.owner \in {Nobody, t} /\ lock.depth < MaxDepth
  /\ lock' = [owner |-> t, depth |-> lock.depth + 1]

\* The lock is had, the plugin looked up; one that is not live raises.
Enter(t) ==
  /\ Running(t) /\ pc[t] = "wait"
  /\ Acquire(t)
  /\ pc' = [pc EXCEPT ![t] = "run"]
  /\ frames' = [frames EXCEPT ![t] = @ + 1]
  /\ UNCHANGED <<stage, registry, dropped, stolen, ending>>

\* The plugin calls another one.
Nest(t) ==
  /\ Running(t) /\ pc[t] = "run" /\ frames[t] \in 1..(MaxDepth - 1)
  /\ Acquire(t)
  /\ frames' = [frames EXCEPT ![t] = @ + 1]
  /\ UNCHANGED <<stage, registry, pc, dropped, stolen, ending>>

\* One call returns or raises.  A thread that does not own the lock cannot
\* release it (RuntimeError).
Return(t) ==
  /\ Running(t) /\ pc[t] = "run"
  /\ frames' = [frames EXCEPT ![t] = IF @ = 0 THEN 0 ELSE @ - 1]
  /\ lock' = IF frames[t] = 0 \/ lock.owner # t THEN lock
             ELSE IF lock.depth = 1 THEN Free
             ELSE [lock EXCEPT !.depth = @ - 1]
  /\ pc' = [pc EXCEPT ![t] = IF frames[t] <= 1 THEN "idle" ELSE "run"]
  /\ UNCHANGED <<stage, registry, dropped, stolen, ending>>

\* _DropLockForBlockingCall.__enter__: _release_save asks whether the lock is
\* held, not by whom.  If nobody holds it this raises, in the calls on the stack.
Drop(t) ==
  /\ Running(t) /\ pc[t] = "run"
  /\ IF lock.depth = 0
       THEN /\ pc' = [pc EXCEPT ![t] = IF frames[t] = 0 THEN "idle" ELSE "run"]
            /\ UNCHANGED <<lock, dropped, stolen>>
       ELSE /\ pc' = [pc EXCEPT ![t] = "blocking"]
            /\ dropped' = [dropped EXCEPT ![t] = lock]
            /\ lock' = Free
            /\ stolen' = (stolen \/ lock.owner # t)
  /\ UNCHANGED <<stage, registry, frames, ending>>

\* Variant: take the lock back as a first acquisition.
RegainFlat(t) ==
  /\ Running(t) /\ pc[t] = "blocking" /\ lock = Free
  /\ lock' = [owner |-> t, depth |-> 1]
  /\ pc' = [pc EXCEPT ![t] = "run"]
  /\ UNCHANGED <<stage, registry, frames, dropped, stolen, ending>>

\* __exit__: _acquire_restore.
Regain(t) ==
  /\ Running(t) /\ pc[t] = "blocking" /\ lock = Free
  /\ lock' = dropped[t]
  /\ dropped' = [dropped EXCEPT ![t] = Free]
  /\ pc' = [pc EXCEPT ![t] = "run"]
  /\ UNCHANGED <<stage, registry, frames, stolen, ending>>

-----------------------------------------------------------------------------
(* Shutdown *)

FirstSignal ==
  /\ stage # "gone" /\ signals = 0
  /\ signals' = 1
  /\ stage' = "join"
  /\ shutdown' = "stop"
  /\ caught' = (lock.owner = Main)
  /\ UNCHANGED <<registry, locking, closed, saved, exit>>

\* The second is only counted, the third exits at once.
LaterSignal ==
  /\ stage # "gone" /\ signals \in 1..2
  /\ signals' = signals + 1
  /\ IF signals = 2 THEN stage' = "gone" /\ exit' = "forced"
                    ELSE UNCHANGED <<stage, exit>>
  /\ UNCHANGED <<registry, locking, shutdown, closed, saved, caught>>

Alive == stage # "gone"

\* exit_gracefully (2): stop the player, under the lock like any other call.
StopPlayer ==
  /\ Alive /\ shutdown = "stop" /\ lock = Free
  /\ shutdown' = "close"
  /\ UNCHANGED <<stage, registry, locking, signals, closed, saved, caught, exit>>

LoadedBefore(p, q) ==
  \E i, j \in DOMAIN Order : i < j /\ Order[i] = p /\ Order[j] = q

\* Packages whose atexit function has not run yet.
ToClose == (plugins \intersect exits) \ Range(closed)

\* Variant: close in the order of loading.
ClosesFirst(p) == \A q \in ToClose : ~LoadedBefore(q, p)

\* The package loaded last is closed first.
ClosesNext(p) == \A q \in ToClose : ~LoadedBefore(p, q)

\* (3) close_down: the atexit functions.  Errors are logged.  A function that
\* calls plugins needs the lock.
CloseNext ==
  /\ Alive /\ shutdown = "close"
  /\ \E p \in ToClose :
       /\ ClosesNext(p)
       /\ p \in CallingExits => lock = Free
       /\ closed' = Append(closed, p)
  /\ UNCHANGED <<stage, registry, locking, signals, shutdown, saved, caught, exit>>

\* (4) save the configuration.
SaveConfig ==
  /\ Alive /\ shutdown = "close" /\ ToClose = {}
  /\ shutdown' = "wait"
  /\ saved' = TRUE
  /\ UNCHANGED <<stage, registry, locking, signals, closed, caught, exit>>

\* (5) the threads the atexit functions returned have ended, or one of them
\* cannot be joined (never started) and the shutdown thread dies of that.
ThreadsEnd ==
  /\ Alive /\ shutdown = "wait"
  /\ shutdown' = "done"
  /\ UNCHANGED <<stage, registry, locking, signals, closed, saved, caught, exit>>

\* Variant: the handler waits as long as it takes.
JoinWithoutTimeout ==
  /\ stage = "join" /\ shutdown = "done"
  /\ stage' = "gone"
  /\ exit' = "orderly"
  /\ UNCHANGED <<registry, locking, signals, shutdown, closed, saved, caught>>

\* The join of the shutdown thread returns or times out.
JoinEnds ==
  /\ stage = "join"
  /\ stage' = "gone"
  /\ exit' = IF shutdown = "done" THEN "orderly" ELSE "forced"
  /\ UNCHANGED <<registry, locking, signals, shutdown, closed, saved, caught>>

ThreadStep(t) ==
  \/ Call(t) \/ Detach(t) \/ Enter(t) \/ Nest(t) \/ Return(t)
  \/ Drop(t) \/ Regain(t)

Next ==
  \/ \E o \in LoadOutcomes : Load(o)
  \/ Finalize \/ Report \/ BadRequest
  \/ \E t \in Threads : ThreadStep(t)
  \/ FirstSignal \/ LaterSignal
  \/ StopPlayer \/ CloseNext \/ SaveConfig \/ ThreadsEnd \/ JoinEnds

\* The handler's join ends, by its time-out at the latest.
Spec == Init /\ [][Next]_vars /\ WF_vars(JoinEnds)

-----------------------------------------------------------------------------

LockState == [owner : Threads \union {Nobody}, depth : 0..MaxDepth]

TypeOK ==
  /\ stage \in {"load", "report", "serve", "join", "gone"}
  /\ next \in 1..(Len(Order) + 1)
  /\ exits \subseteq live
  /\ live \subseteq plugins
  /\ plugins \subseteq Packages
  /\ failed \subseteq Packages
  /\ lock \in LockState
  /\ lock.owner = Nobody <=> lock.depth = 0
  /\ pc \in [Threads -> {"idle", "wait", "run", "blocking"}]
  /\ frames \in [Threads -> 0..MaxDepth]
  /\ dropped \in [Threads -> LockState]
  /\ stolen \in BOOLEAN
  /\ signals \in 0..3
  /\ shutdown \in {"none", "stop", "close", "wait", "done"}
  /\ Range(closed) \subseteq exits
  /\ saved \in BOOLEAN
  /\ caught \in BOOLEAN
  /\ exit \in {"none", "orderly", "forced", "critical", "crash"}

\* The lock counts exactly the calls on its owner's stack, also after a nested
\* call gave it up for a blocking section and took it back; whoever is in a
\* call, not in such a section, owns it (_DropLockForBlockingCall).
LockMatchesCalls ==
  \A t \in Threads :
    IF frames[t] > 0 /\ pc[t] = "run"
      THEN lock = [owner |-> t, depth |-> frames[t]]
      ELSE lock.owner # t

\* That is so as long as no call that runs as_thread has met a blocking section
\* while another thread was in a call: such calls alone, and calls without the
\* lock beside others, do not disturb it.
LockCountsFrames == ~stolen => LockMatchesCalls

\* An exit the daemon calls orderly has run the atexit function of every package
\* that registered one, each once, and saved the configuration (exit_gracefully),
\* however many signals came; and publishing, which is loaded first, is there
\* until the last: no package is closed before one that was loaded after it.
OrderlyExitIsComplete ==
  /\ exit = "orderly" => saved /\ Range(closed) = exits
  /\ \A i, j \in DOMAIN Order, k, m \in DOMAIN closed :
       closed[k] = Order[i] /\ closed[m] = Order[j] /\ k < m => i > j

\* A signal that interrupts an RPC call under the lock never leads to an orderly
\* exit: the shutdown thread's first step waits for the lock of the frame the
\* handler sits on, so nothing is closed and nothing saved (signal_handler) - unless
\* a call that runs as_thread gives that lock up.
InterruptedCallIsLost ==
  caught /\ ~stolen => exit # "orderly" /\ closed = <<>> /\ ~saved

\* Requests are served only when publishing and misc were loaded: the daemon
\* does not run with a dark user interface (_validate_critical_plugins).
ServesOnlyWithPublishing ==
  stage = "serve" => Publishing \in plugins /\ Misc \in live

\* The daemon from its start to its end: an orderly exit is complete, there is none
\* from within a call, requests are served by a complete daemon, and the types hold.
DaemonInv ==
  /\ TypeOK
  /\ OrderlyExitIsComplete
  /\ InterruptedCallIsLost
  /\ ServesOnlyWithPublishing

\* After a signal the process ends, whoever holds the lock and whatever thread
\* does not (signal_handler).
SignalEndsDaemon == signals > 0 ~> stage = "gone"
=============================================================================
