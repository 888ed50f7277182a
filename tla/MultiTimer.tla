----------------------------- MODULE MultiTimer -----------------------------
(***************************************************************************)
(* One timer of jukebox/multitimer.py: a GenericTimerClass object and the  *)
(* MultiTimer threads it starts, one after the other.                      *)
(*                                                                         *)
(* The thread waits on an event with a time-out, looks at the event, then  *)
(* at the cancel flag, clears the event and calls its function; a caller   *)
(* may be anywhere in start, cancel, trigger, set_timeout or publish       *)
(* meanwhile.  Callers come through plugs.call, whose lock keeps them      *)
(* apart from each other but not from the thread.                          *)
(***************************************************************************)
EXTENDS Naturals

CONSTANTS
  Iterations,    \* calls of the function in one run
  Modes,         \* timers to consider: endless (iterations < 0), or limited
  Intervals,     \* wait times
  MaxRuns        \* bound on the threads started

ASSUME TimerAssumption ==
  /\ Iterations \in Nat \ {0}
  /\ Modes \subseteq BOOLEAN
  /\ Intervals # {}
  /\ MaxRuns \in Nat \ {0}

VARIABLES
  endless,      \* the timer's mode
  thread,       \* where timer_thread is
  event,        \* its Event
  cmdCancel,    \* its _cmd_cancel
  left,         \* iterations it has still to do
  interval,     \* its interval
  waitSeconds,  \* the object's _wait_seconds
  caller,       \* where the caller in progress is
  restart,      \* set_timeout: cancel() is to be followed by start()
  reading,      \* publish: the enabled state it has read
  shown,        \* the enabled state published last
  runs,         \* threads started so far
  calls,        \* history: calls of the function in this run, up to Iterations + 1
  late          \* history: NotCancelled, Cancelling, Lost, or the calls begun since
                \* cancel() returned, up to 2

vars == <<endless, thread, event, cmdCancel, left, interval, waitSeconds, caller, restart,
          reading, shown, runs, calls, late>>

callVars == <<endless, caller, restart, reading, runs, interval, waitSeconds>>

NotCancelled == 3

Cancelling == 4

\* cancel() came between the thread's look at the flag and its clearing of the
\* event, which takes what cancel() set with it.
Lost == 5

Cap(n, max) == IF n > max THEN max ELSE n

Alive == thread # "dead"

Init ==
  /\ endless \in Modes
  /\ thread = "dead"
  /\ event = FALSE
  /\ cmdCancel = FALSE
  /\ left = 0
  /\ interval \in Intervals
  /\ waitSeconds = interval
  /\ caller = "idle"
  /\ restart = FALSE
  /\ reading = FALSE
  /\ shown = FALSE
  /\ runs = 0
  /\ calls = 0
  /\ late = NotCancelled

-----------------------------------------------------------------------------
(* The thread: run, run_endless, run_limited *)

Begin ==
  /\ thread = "begin"
  /\ thread' = "wait"
  /\ shown' = TRUE
  /\ UNCHANGED <<event, cmdCancel, left, callVars, calls, late>>

\* event.wait(interval) returns: the event was set, or the time is up.
Wait ==
  /\ thread = "wait"
  /\ thread' = "look"
  /\ UNCHANGED <<event, cmdCancel, left, callVars, shown, calls, late>>

Look ==
  /\ thread = "look"
  /\ thread' = IF event THEN "woken" ELSE "call"
  /\ UNCHANGED <<event, cmdCancel, left, callVars, shown, calls, late>>

\* Variant: the cancel flag is not looked at.
WokenAlways ==
  /\ thread = "woken"
  /\ thread' = "clear"
  /\ UNCHANGED <<event, cmdCancel, left, callVars, shown, calls, late>>

Woken ==
  /\ thread = "woken"
  /\ thread' = IF cmdCancel THEN "end" ELSE "clear"
  /\ UNCHANGED <<event, cmdCancel, left, callVars, shown, calls, late>>

Clear ==
  /\ thread = "clear"
  /\ event' = FALSE
  /\ thread' = "call"
  /\ UNCHANGED <<cmdCancel, left, callVars, shown, calls, late>>

CallFunction ==
  /\ thread = "call"
  /\ thread' = "busy"
  /\ calls' = Cap(calls + 1, Iterations + 1)
  /\ late' = IF late >= NotCancelled THEN late ELSE Cap(late + 1, 2)
  /\ UNCHANGED <<event, cmdCancel, left, callVars, shown>>

\* Variant: the last iteration is dropped.
ReturnShort ==
  /\ thread = "busy"
  /\ left' = IF endless THEN left ELSE left - 1
  /\ thread' = IF endless \/ left > 2 THEN "wait" ELSE "end"
  /\ UNCHANGED <<event, cmdCancel, callVars, shown, calls, late>>

Return ==
  /\ thread = "busy"
  /\ left' = IF endless THEN left ELSE left - 1
  /\ thread' = IF endless \/ left > 1 THEN "wait" ELSE "end"
  /\ UNCHANGED <<event, cmdCancel, callVars, shown, calls, late>>

\* The loop is over; the thread publishes that and is alive until it returns.
End ==
  /\ thread = "end"
  /\ cmdCancel' = TRUE
  /\ event' = TRUE
  /\ shown' = FALSE
  /\ thread' = "leave"
  /\ UNCHANGED <<left, callVars, calls, late>>

Leave ==
  /\ thread = "leave"
  /\ thread' = "dead"
  /\ UNCHANGED <<event, cmdCancel, left, callVars, shown, calls, late>>

ThreadStep ==
  Begin \/ Wait \/ Look \/ Woken \/ Clear \/ CallFunction \/ Return \/ End \/ Leave

-----------------------------------------------------------------------------
(* The callers *)

\* start(w): ignored while the thread is alive.
NewThread(w) ==
  IF Alive
    THEN UNCHANGED <<thread, event, cmdCancel, left, interval, waitSeconds, runs,
                     calls, late>>
    ELSE /\ thread' = "begin"
         /\ event' = FALSE
         /\ cmdCancel' = FALSE
         /\ left' = Iterations
         /\ waitSeconds' = w
         /\ interval' = w
         /\ runs' = runs + 1
         /\ calls' = 0
         /\ late' = NotCancelled

\* Variant: start() while another call is about to publish what it read.
StartUnserialised(w) ==
  /\ caller \in {"idle", "send"}
  /\ runs < MaxRuns
  /\ NewThread(w)
  /\ UNCHANGED <<endless, caller, restart, reading, shown>>

Start(w) ==
  /\ caller = "idle"
  /\ runs < MaxRuns
  /\ NewThread(w)
  /\ UNCHANGED <<endless, caller, restart, reading, shown>>

\* cancel(): set the flag, then the event, of the thread it found alive.
Cancel ==
  /\ caller = "idle"
  /\ Alive
  /\ caller' = "flag"
  /\ restart' = FALSE
  /\ UNCHANGED <<endless, thread, event, cmdCancel, left, interval, waitSeconds,
                 reading, shown, runs, calls, late>>

SetFlag ==
  /\ caller = "flag"
  /\ cmdCancel' = TRUE
  /\ caller' = "wake"
  /\ late' = IF late \in {NotCancelled, Lost} THEN Cancelling ELSE late
  /\ UNCHANGED <<endless, thread, event, left, interval, waitSeconds, restart,
                 reading, shown, runs, calls>>

\* Variant: only the flag is set.
WakeNobody ==
  /\ caller = "wake"
  /\ late' = IF late >= NotCancelled THEN 0 ELSE late
  /\ caller' = IF restart THEN "restart" ELSE "idle"
  /\ UNCHANGED <<endless, thread, event, cmdCancel, left, interval, waitSeconds,
                 restart, reading, shown, runs, calls>>

Wake ==
  /\ caller = "wake"
  /\ event' = TRUE
  /\ late' = IF late < NotCancelled THEN late ELSE IF thread = "clear" THEN Lost ELSE 0
  /\ caller' = IF restart THEN "restart" ELSE "idle"
  /\ UNCHANGED <<endless, thread, cmdCancel, left, interval, waitSeconds,
                 restart, reading, shown, runs, calls>>

\* trigger()
Trigger ==
  /\ caller = "idle"
  /\ Alive
  /\ event' = TRUE
  /\ UNCHANGED <<thread, cmdCancel, left, callVars, shown, calls, late>>

\* set_timeout(w): cancel() and start() when running, else publish.
SetTimeout(w) ==
  /\ caller = "idle"
  /\ runs < MaxRuns
  /\ waitSeconds' = w
  /\ caller' = IF Alive THEN "flag" ELSE "send"
  /\ restart' = Alive
  /\ reading' = FALSE
  /\ UNCHANGED <<endless, thread, event, cmdCancel, left, interval, shown, runs,
                 calls, late>>

Restart ==
  /\ caller = "restart"
  /\ NewThread(waitSeconds)
  /\ caller' = "idle"
  /\ restart' = FALSE
  /\ UNCHANGED <<endless, reading, shown>>

\* publish(): get_state, then send.
Publish ==
  /\ caller = "idle"
  /\ reading' = Alive
  /\ caller' = "send"
  /\ UNCHANGED <<endless, thread, event, cmdCancel, left, interval, waitSeconds,
                 restart, shown, runs, calls, late>>

Send ==
  /\ caller = "send"
  /\ shown' = reading
  /\ caller' = "idle"
  /\ UNCHANGED <<endless, thread, event, cmdCancel, left, interval, waitSeconds,
                 restart, reading, runs, calls, late>>

CallerStep == SetFlag \/ Wake \/ Restart \/ Send

Next ==
  \/ ThreadStep
  \/ CallerStep
  \/ \E w \in Intervals : Start(w) \/ SetTimeout(w)
  \/ Cancel
  \/ Trigger
  \/ Publish

Spec == Init /\ [][Next]_vars

\* Threads are scheduled: the timer's, and that of a call once it has begun.
FairSpec == Spec /\ WF_vars(ThreadStep) /\ WF_vars(CallerStep)

-----------------------------------------------------------------------------

TypeOK ==
  /\ endless \in Modes
  /\ thread \in {"dead", "begin", "wait", "look", "woken", "clear", "call", "busy",
                 "end", "leave"}
  /\ event \in BOOLEAN
  /\ cmdCancel \in BOOLEAN
  /\ restart \in BOOLEAN
  /\ reading \in BOOLEAN
  /\ shown \in BOOLEAN
  /\ left \in 0..Iterations
  /\ interval \in Intervals
  /\ waitSeconds \in Intervals
  /\ caller \in {"idle", "flag", "wake", "restart", "send"}
  /\ runs \in 0..MaxRuns
  /\ calls \in 0..(Iterations + 1)
  /\ late \in 0..Lost

\* Once cancel() has returned, at most the call the thread was already on its
\* way to still begins, unless the cancel was lost.
AtMostOneCallAfterCancel == late # 2

\* "until cancelled": the thread of a cancelled timer ends, whatever was
\* triggered before or after the cancel, unless the cancel was lost.
CancelEnds == (late = 0 /\ thread # "clear") ~> (thread = "dead")

\* A run that nobody cancels makes all its calls, and no more, whatever is
\* triggered or asked of the timer in the meantime.
UncancelledRunIsComplete ==
  ~endless /\ thread = "dead" /\ runs > 0 /\ late = NotCancelled => calls = Iterations

\* A timer that is under way is never shown as stopped, whoever asks it to
\* publish and however often it is restarted.
RunningIsShown ==
  thread \in {"wait", "look", "woken", "clear", "call", "busy"} => shown

=============================================================================
