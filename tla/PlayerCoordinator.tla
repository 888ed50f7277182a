------------------------- MODULE PlayerCoordinator -------------------------
(***************************************************************************)
(* The hand-off between the player backends:                               *)
(* src/jukebox/components/player/coordinator.py, together with the two     *)
(* things its correctness depends on: the lock that serialises the callers *)
(* (jukebox/plugs.py, call) and the device each backend plays through.     *)
(*                                                                         *)
(* A caller (an RPC, an RFID swipe, a timer) runs a player method, which   *)
(* activates its backend and then gives its first playback command.        *)
(* activate() snapshots the outgoing backend under the coordinator's lock, *)
(* releases it, pauses the outgoing backend in the calling thread, stops   *)
(* it on a worker thread that is joined for at most five seconds,          *)
(* publishes its clean-up status, and swaps the slot.  A worker that       *)
(* misses the five seconds goes on running: its stop lands later.          *)
(***************************************************************************)
EXTENDS Naturals

CONSTANTS
  Names,          \* backend names
  NoBackend,      \* the slot's None
  Threads,        \* threads that call player methods
  NoThread,       \* nobody holds the plugs lock
  Devices,        \* MPD's wire, the Spotify Connect device
  Device,         \* Device[n] is what backend n plays through
  ThroughPlugs,   \* backends whose pause_fn and stop_fn use plugs.call (podcast)
  DeafPause,      \* backends whose callbacks may raise before they silence
  Wedges,         \* backends whose stop_fn may take longer than the timeout
  Passive,        \* backends whose next, prev or toggle may start to play without
                  \* activate() (the "passive controls" of MPD and Spotify)
  Unlocked,       \* callers started with as_thread: they hold no plugs lock
  MaxOverrun      \* bound: no call starts while this many stops are overdue

ASSUME NamesAssumption ==
  /\ NoBackend \notin Names
  /\ NoThread \notin Threads
  /\ Device \in [Names -> Devices]
  /\ Unlocked \subseteq Threads
  /\ ThroughPlugs \subseteq Names
  /\ DeafPause \subseteq Names
  /\ Wedges \subseteq Names
  /\ Passive \subseteq Names
  /\ MaxOverrun \in Nat \ {0}

VARIABLES
  backends,   \* the names registered so far
  current,    \* _current, the active backend
  callLock,   \* who holds plugs._lock_module on behalf of a player call
  step,       \* where each caller is
  target,     \* the backend each caller activates
  outgoing,   \* the backend each caller's hand-off takes over from
  worker,     \* the stop worker each caller is joining
  overrun,    \* for each backend, its stop workers that missed the timeout
  sounding,   \* for each device, the backend whose content is audible on it
  strays      \* history: the devices a passive control of an inactive backend
              \* started last

vars == <<backends, current, callLock, step, target, outgoing, worker,
          overrun, sounding, strays>>

audio == <<sounding, strays>>

Steps == {"idle", "snapshot", "pause", "stop", "join", "cleanup", "swap", "body"}

Goto(t, s) == step' = [step EXCEPT ![t] = s]

\* Device d falls silent.
Hush(d) ==
  /\ sounding' = [sounding EXCEPT ![d] = NoBackend]
  /\ strays' = strays \ {d}

\* A thread of its own can run a callback of n: one that goes through
\* plugs.call waits until no other thread holds the plugs lock.
LockFreeFor(n, t) == n \in ThroughPlugs => callLock \in {NoThread, t}

\* What pause_fn or stop_fn of n does; its exceptions are caught and logged.
CallbackEffect(n) ==
  \/ Hush(Device[n])
  \/ n \in DeafPause /\ UNCHANGED audio

-----------------------------------------------------------------------------

Init ==
  /\ backends = {}
  /\ current = NoBackend
  /\ callLock = NoThread
  /\ step = [t \in Threads |-> "idle"]
  /\ target = [t \in Threads |-> NoBackend]
  /\ outgoing = [t \in Threads |-> NoBackend]
  /\ worker = [t \in Threads |-> "none"]
  /\ overrun = [n \in Names |-> 0]
  /\ sounding = [d \in Devices |-> NoBackend]
  /\ strays = {}

\* register(): the first backend becomes the active one.
Register(n) ==
  /\ backends' = backends \union {n}
  /\ current' = IF current = NoBackend THEN n ELSE current
  /\ UNCHANGED <<callLock, step, target, outgoing, worker, overrun, audio>>

\* Variant: the caller does not take the plugs lock.
CallUnlocked(t, n) ==
  /\ step[t] = "idle"
  /\ \A m \in Names : overrun[m] < MaxOverrun
  /\ target' = [target EXCEPT ![t] = n]
  /\ Goto(t, "snapshot")
  /\ UNCHANGED <<backends, current, callLock, outgoing, worker, overrun, audio>>

\* Variant: a playback method that starts to play without activate().
CallPassive(t, n) ==
  /\ step[t] = "idle"
  /\ callLock = NoThread
  /\ callLock' = t
  /\ target' = [target EXCEPT ![t] = n]
  /\ Goto(t, "body")
  /\ UNCHANGED <<backends, current, outgoing, worker, overrun, audio>>

\* plugs.call of a playback method of backend n.
Call(t, n) ==
  /\ step[t] = "idle"
  /\ \A m \in Names : overrun[m] < MaxOverrun
  /\ \/ t \in Unlocked /\ UNCHANGED callLock
     \/ t \notin Unlocked /\ callLock = NoThread /\ callLock' = t
  /\ target' = [target EXCEPT ![t] = n]
  /\ Goto(t, "snapshot")
  /\ UNCHANGED <<backends, current, outgoing, worker, overrun, audio>>

\* activate(), first critical section: nothing to do when the backend is
\* already active; no callbacks when the outgoing name never registered.
Snapshot(t) ==
  /\ step[t] = "snapshot"
  /\ \/ /\ current = target[t]
        /\ Goto(t, "body")
        /\ UNCHANGED outgoing
     \/ /\ current # target[t]
        /\ current \in backends
        /\ outgoing' = [outgoing EXCEPT ![t] = current]
        /\ Goto(t, "pause")
     \/ /\ current # target[t]
        /\ current \notin backends
        /\ outgoing' = [outgoing EXCEPT ![t] = NoBackend]
        /\ Goto(t, "swap")
  /\ UNCHANGED <<backends, current, callLock, target, worker, overrun, audio>>

\* Variant: the hand-off relies on the stop alone.
PauseSkipped(t) ==
  /\ step[t] = "pause"
  /\ Goto(t, "stop")
  /\ UNCHANGED <<backends, current, callLock, target, outgoing, worker, overrun,
                 audio>>

\* _call_pause, in the calling thread.
Pause(t) ==
  /\ step[t] = "pause"
  /\ LockFreeFor(outgoing[t], t)
  /\ CallbackEffect(outgoing[t])
  /\ Goto(t, "stop")
  /\ UNCHANGED <<backends, current, callLock, target, outgoing, worker, overrun>>

\* _call_stop_with_timeout: start the worker, then join it.
StartStop(t) ==
  /\ step[t] = "stop"
  /\ worker' = [worker EXCEPT ![t] = "running"]
  /\ Goto(t, "join")
  /\ UNCHANGED <<backends, current, callLock, target, outgoing, overrun, audio>>

\* The worker runs stop_fn; being another thread it does not share the
\* caller's hold on the plugs lock.
WorkerStop(t) ==
  /\ worker[t] = "running"
  /\ LockFreeFor(outgoing[t], NoThread)
  /\ CallbackEffect(outgoing[t])
  /\ worker' = [worker EXCEPT ![t] = "done"]
  /\ UNCHANGED <<backends, current, callLock, step, target, outgoing, overrun>>

Joined(t) ==
  /\ step[t] = "join"
  /\ worker[t] = "done"
  /\ worker' = [worker EXCEPT ![t] = "none"]
  /\ Goto(t, "cleanup")
  /\ UNCHANGED <<backends, current, callLock, target, outgoing, overrun, audio>>

\* Variant: join() without a timeout for a wedged stop_fn.
JoinForever(t) ==
  /\ step[t] = "join"
  /\ worker[t] = "running"
  /\ ~LockFreeFor(outgoing[t], NoThread)
  /\ worker' = [worker EXCEPT ![t] = "none"]
  /\ overrun' = [overrun EXCEPT ![outgoing[t]] = @ + 1]
  /\ Goto(t, "cleanup")
  /\ UNCHANGED <<backends, current, callLock, target, outgoing, audio>>

\* The join times out: stop_fn wedged, or waited for the plugs lock.
JoinTimeout(t) ==
  /\ step[t] = "join"
  /\ worker[t] = "running"
  /\ \/ outgoing[t] \in Wedges
     \/ ~LockFreeFor(outgoing[t], NoThread)
  /\ worker' = [worker EXCEPT ![t] = "none"]
  /\ overrun' = [overrun EXCEPT ![outgoing[t]] = @ + 1]
  /\ Goto(t, "cleanup")
  /\ UNCHANGED <<backends, current, callLock, target, outgoing, audio>>

\* An overdue stop_fn of n runs after all.
LateStop(n) ==
  /\ overrun[n] > 0
  /\ LockFreeFor(n, NoThread)
  /\ CallbackEffect(n)
  /\ overrun' = [overrun EXCEPT ![n] = @ - 1]
  /\ UNCHANGED <<backends, current, callLock, step, target, outgoing, worker>>

\* _call_publish_cleanup: the outgoing backend's last status goes out.
Cleanup(t) ==
  /\ step[t] = "cleanup"
  /\ Goto(t, "swap")
  /\ UNCHANGED <<backends, current, callLock, target, outgoing, worker, overrun,
                 audio>>

\* activate(), second critical section.
Swap(t) ==
  /\ step[t] = "swap"
  /\ current' = target[t]
  /\ Goto(t, "body")
  /\ UNCHANGED <<backends, callLock, target, outgoing, worker, overrun, audio>>

\* The caller's playback command, or its failure; then the call returns.
\* Only a backend that has registered has a player that can sound.
Finish(t) ==
  /\ step[t] = "body"
  /\ \/ /\ target[t] \in backends
        /\ sounding' = [sounding EXCEPT ![Device[target[t]]] = target[t]]
        /\ strays' = strays \ {Device[target[t]]}
     \/ UNCHANGED audio
  /\ callLock' = IF callLock = t THEN NoThread ELSE callLock
  /\ Goto(t, "idle")
  /\ UNCHANGED <<backends, current, target, outgoing, worker, overrun>>

\* A pause or stop command, or the end of the queue.
Silence(d) ==
  /\ sounding[d] # NoBackend
  /\ Hush(d)
  /\ UNCHANGED <<backends, current, callLock, step, target, outgoing, worker,
                 overrun>>

\* A passive control of backend n starts what its device has loaded, which may
\* be content of any backend m on that device.  The slot stays where it is.
PassiveControl(t, n, m) ==
  /\ step[t] = "idle"
  /\ t \in Unlocked \/ callLock = NoThread
  /\ {n, m} \subseteq backends
  /\ n \in Passive /\ Device[m] = Device[n]
  /\ sounding' = [sounding EXCEPT ![Device[m]] = m]
  /\ strays' = IF m = current THEN strays \ {Device[m]} ELSE strays \union {Device[m]}
  /\ UNCHANGED <<backends, current, callLock, step, target, outgoing, worker, overrun>>

CallerStep(t) ==
  \/ Snapshot(t) \/ Pause(t) \/ StartStop(t) \/ Joined(t) \/ JoinTimeout(t)
  \/ Cleanup(t) \/ Swap(t) \/ Finish(t)

Next ==
  \/ \E n \in Names : Register(n) \/ LateStop(n)
  \/ \E t \in Threads : CallerStep(t) \/ WorkerStop(t)
  \/ \E t \in Threads, n \in Names : Call(t, n)
  \/ \E t \in Threads, n \in Names, m \in Names : PassiveControl(t, n, m)
  \/ \E d \in Devices : Silence(d)

Spec == Init /\ [][Next]_vars

\* A running thread keeps running, join() returns after its timeout at the
\* latest, and a stop_fn that does not wedge finishes.  Nothing makes a wedged
\* or an overdue stop_fn finish, and nobody has to make a call.
Fairness ==
  \A t \in Threads :
    /\ WF_vars(CallerStep(t))
    /\ WF_vars(outgoing[t] \notin Wedges /\ WorkerStop(t))

FairSpec == Spec /\ Fairness

-----------------------------------------------------------------------------

TypeOK ==
  /\ backends \subseteq Names
  /\ current \in Names \union {NoBackend}
  /\ callLock \in Threads \union {NoThread}
  /\ step \in [Threads -> Steps]
  /\ target \in [Threads -> Names \union {NoBackend}]
  /\ outgoing \in [Threads -> Names \union {NoBackend}]
  /\ worker \in [Threads -> {"none", "running", "done"}]
  /\ overrun \in [Names -> Nat]
  /\ sounding \in [Devices -> Names \union {NoBackend}]
  /\ strays \subseteq Devices

\* A backend whose pause works is audible only while it is the active one:
\* a hand-off silences the outgoing backend before the incoming one starts,
\* whatever order registrations, hand-offs and overdue stops come in.  The one
\* exception is a device that a passive control started again since, which the
\* coordinator's header describes as its edge case.
ExclusivePlayback ==
  \A d \in Devices \ strays : sounding[d] \in {NoBackend, current} \union DeafPause

\* The clean-up status is sent while its backend still owns the slot, or the
\* gate on current() would drop it (coordinator.py, the ordering note).
CleanupWhileActive ==
  \A t \in Threads : step[t] = "cleanup" => current = outgoing[t]

\* A stop is late only if its backend may wedge or goes through the plugs lock, and
\* one that waited for that lock lands when no call that takes it is under way: it
\* cannot fall between the steps of another hand-off, nor between a hand-off and the
\* playback command it was made for (plugs.py, the lock held over a call).
LateStopsFallBetweenCalls ==
  [][\A n \in Names :
       /\ overrun'[n] > overrun[n] => n \in ThroughPlugs \union Wedges
       /\ overrun'[n] < overrun[n] /\ n \in ThroughPlugs =>
            \A t \in Threads \ Unlocked : step[t] = "idle"]_vars

\* What makes ExclusivePlayback and CleanupWhileActive inductive while callers
\* hold the plugs lock: the one caller inside activate() owns the lock, the
\* slot still names the backend it is taking over from, and from the pause to
\* the swap no backend with a working pause is audible.
HandoffInv ==
  /\ TypeOK
  /\ \A t \in Threads :
       /\ step[t] # "idle" => callLock = t /\ target[t] \in Names
       /\ step[t] = "idle" => callLock # t
       /\ worker[t] # "none" => step[t] = "join"
       /\ step[t] \in {"pause", "stop", "join", "cleanup"} =>
            outgoing[t] = current /\ current \in backends
       /\ step[t] = "body" => current = target[t]
       /\ step[t] \in {"stop", "join", "cleanup", "swap"} =>
            \A d \in Devices \ strays : sounding[d] \in {NoBackend} \union DeafPause
  /\ \A d \in Devices : sounding[d] # NoBackend =>
       sounding[d] \in backends /\ Device[sounding[d]] = d
  /\ ExclusivePlayback

\* "The handoff must not hang": every player call returns, also when the
\* outgoing backend's stop_fn never does.
CallReturns ==
  \A t \in Threads : (step[t] # "idle") ~> (step[t] = "idle")

-----------------------------------------------------------------------------

AS == INSTANCE ActiveSlot WITH slot <- current

\* With working pauses and callers that hold the plugs lock, a hand-off is
\* indistinguishable from the atomic one.
ImplementsActiveSlot == AS!Spec
=============================================================================
