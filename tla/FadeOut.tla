------------------------------- MODULE FadeOut -------------------------------
(* VolumeFadoutAndShutdown: a shutdown timer, a timer that starts the fade, and *)
(* the fade itself, started by that timer's thread.  A new start makes new      *)
(* timers, whose threads may run next to the last ones'.                        *)
(*                                                                              *)
(* Of a timer (MultiTimer) there is left where its thread is: waiting, calling  *)
(* its function, or ended; one that is cancelled while it waits ends.  start    *)
(* and cancel hold the plugs lock, and every function needs it.                 *)
EXTENDS Naturals, FiniteSets

CONSTANTS
  MaxStarts,    \* bound: the starts of the whole system
  Steps,        \* iterations of the fade
  Loud          \* the volume the box is used at

ASSUME FadeAssumption == MaxStarts \in Nat \ {0} /\ Steps \in Nat \ {0, 1} /\ Loud \in Nat \ {0}

Starts == 1..MaxStarts
Off == [pc |-> "off", cancelled |-> FALSE]

VARIABLES
  started,      \* how many starts there were; shutdown_timer and
                \* fadeout_start_timer are the last one's
  shutdown,     \* the thread of each start's shutdown_timer
  lead,         \* the thread of each start's fadeout_start_timer
  fade,         \* the thread of the fade each of these has started
  faded,        \* the steps each fade has made
  fadeTimer,    \* whose fade fadeout_timer is, 0 for none
  currentVolume,  \* current_volume; Loud + 1 stands for None
  loudness,     \* the box's volume
  client,       \* where the call of start or cancel is
  restarting,   \* it is a start
  calm,         \* history: the last start was Settled when the cancel began
  quiet         \* history: the starts that a cancel has silenced

fadeVars == <<started, shutdown, lead, fade, faded, fadeTimer, currentVolume, loudness,
              client, restarting, calm, quiet>>

clientVars == <<client, restarting, calm, quiet>>
volumes == <<currentVolume, loudness>>
fades == <<fade, faded, fadeTimer>>

None == Loud + 1
IsAlive(thread) == thread.pc # "off"
CancelOne(threads, g) ==
  [h \in Starts |-> IF h = g /\ IsAlive(threads[h]) THEN [threads[h] EXCEPT !.cancelled = TRUE]
                   ELSE threads[h]]
Waiting == [pc |-> "wait", cancelled |-> FALSE]

FadeInit ==
  /\ started = 0 /\ fadeTimer = 0
  /\ shutdown = [g \in Starts |-> Off] /\ lead = shutdown /\ fade = shutdown
  /\ faded = [g \in Starts |-> 0]
  /\ currentVolume = None /\ loudness = Loud
  /\ client = "none" /\ restarting = FALSE /\ calm = FALSE /\ quiet = {}

\* Nothing of the last start is in the middle of its function, and no earlier
\* start's late fade has taken its fade's place in fadeout_timer.
Settled ==
  /\ started > 0
  /\ \A thread \in {shutdown[started], lead[started], fade[started]} : thread.pc \in {"off", "wait"}
  /\ IsAlive(fade[started]) => fadeTimer = started

----------------------------------------------------------------------------
(* start and cancel, call by call.                                            *)

CallTimers(start) ==
  /\ client = "none" /\ (start => started < MaxStarts)
  /\ client' = "shutdown" /\ restarting' = start /\ calm' = Settled
  /\ UNCHANGED <<started, shutdown, lead, quiet, volumes, fades>>

CancelShutdown ==
  /\ client = "shutdown"
  /\ shutdown' = CancelOne(shutdown, started)
  /\ client' = "lead"
  /\ UNCHANGED <<started, lead, restarting, calm, quiet, volumes, fades>>

CancelLead ==
  /\ client = "lead"
  /\ lead' = CancelOne(lead, started)
  /\ client' = "fade"
  /\ UNCHANGED <<started, shutdown, restarting, calm, quiet, volumes, fades>>

\* Variant: the fade is left alone.
CancelFadeNot ==
  /\ client = "fade" /\ client' = "reset"
  /\ UNCHANGED <<started, shutdown, lead, restarting, calm, quiet, volumes, fades>>

CancelFade ==
  /\ client = "fade"
  /\ fade' = CancelOne(fade, fadeTimer)
  /\ client' = "reset"
  /\ UNCHANGED <<started, shutdown, lead, faded, fadeTimer, restarting, calm, quiet, volumes>>

\* _reset_state.
ResetState ==
  /\ client = "reset"
  /\ currentVolume' = None
  /\ quiet' = IF Settled /\ calm THEN quiet \cup {started} ELSE quiet
  /\ client' = IF restarting THEN "create" ELSE "none"
  /\ UNCHANGED <<started, shutdown, lead, loudness, restarting, calm, fades>>

\* A duration below the minimum raises after the cancel.
RefuseStart ==
  /\ client = "create" /\ client' = "none"
  /\ UNCHANGED <<started, shutdown, lead, restarting, calm, quiet, volumes, fades>>

StartTimers ==
  /\ client = "create" /\ client' = "none"
  /\ started' = started + 1
  /\ shutdown' = [shutdown EXCEPT ![started + 1] = Waiting]
  /\ lead' = [lead EXCEPT ![started + 1] = Waiting]
  /\ UNCHANGED <<restarting, calm, quiet, volumes, fades>>

----------------------------------------------------------------------------
(* The threads.                                                               *)

\* The end of the wait: a cancelled thread ends, any other calls its function.
WakeUp(thread) == IF thread.cancelled THEN Off ELSE [thread EXCEPT !.pc = "call"]

WakeShutdown(g) ==
  /\ shutdown[g].pc = "wait" /\ shutdown' = [shutdown EXCEPT ![g] = WakeUp(@)]
  /\ UNCHANGED <<started, lead, clientVars, volumes, fades>>

WakeLead(g) ==
  /\ lead[g].pc = "wait" /\ lead' = [lead EXCEPT ![g] = WakeUp(@)]
  /\ UNCHANGED <<started, shutdown, clientVars, volumes, fades>>

WakeFade(g) ==
  /\ fade[g].pc = "wait" /\ fade' = [fade EXCEPT ![g] = WakeUp(@)]
  /\ UNCHANGED <<started, shutdown, lead, faded, fadeTimer, clientVars, volumes>>

\* _shutdown: the host is told, the timer is done.
Shutdown(g) ==
  /\ shutdown[g].pc = "call" /\ client = "none"
  /\ shutdown' = [shutdown EXCEPT ![g] = Off]
  /\ UNCHANGED <<started, lead, clientVars, volumes, fades>>

\* _start_fadeout: the volume is asked for; at zero nothing is left to do.
AskVolume(g) ==
  /\ lead[g].pc = "call" /\ client = "none"
  /\ currentVolume' = loudness
  /\ lead' = [lead EXCEPT ![g] = IF loudness = 0 THEN Off ELSE [@ EXCEPT !.pc = "asked"]]
  /\ UNCHANGED <<started, shutdown, loudness, clientVars, fades>>

\* Its second half takes no lock, and looks at no cancel; a current_volume that
\* was reset meanwhile raises in VolumeFadeoutAction.
StartFade(g) ==
  /\ lead[g].pc = "asked"
  /\ fadeTimer' = g
  /\ fade' = IF currentVolume = None THEN fade ELSE [fade EXCEPT ![g] = Waiting]
  /\ lead' = [lead EXCEPT ![g] = Off]
  /\ UNCHANGED <<started, shutdown, faded, clientVars, volumes>>

\* What a step sets, from current_volume as it was when the fade was made.
Target(steps) == (Loud * (Steps - 1 - steps)) \div (Steps - 1)

FadeStep(g) ==
  /\ fade[g].pc = "call" /\ client = "none"
  /\ loudness' = Target(faded[g])
  /\ faded' = [faded EXCEPT ![g] = @ + 1]
  /\ fade' = [fade EXCEPT ![g] = IF faded[g] + 1 = Steps THEN Off ELSE [@ EXCEPT !.pc = "wait"]]
  /\ UNCHANGED <<started, shutdown, lead, fadeTimer, currentVolume, clientVars>>

\* Somebody turns the volume all the way down, or up again.
TurnVolume ==
  /\ client = "none" /\ loudness' \in {0, Loud} \ {loudness}
  /\ UNCHANGED <<started, shutdown, lead, currentVolume, clientVars, fades>>

FadeNext ==
  \/ \E start \in BOOLEAN : CallTimers(start)
  \/ CancelShutdown \/ CancelLead \/ CancelFade \/ ResetState \/ RefuseStart \/ StartTimers
  \/ \E g \in Starts : WakeShutdown(g) \/ WakeLead(g) \/ WakeFade(g) \/ Shutdown(g)
                        \/ AskVolume(g) \/ StartFade(g) \/ FadeStep(g)
  \/ TurnVolume

----------------------------------------------------------------------------
(* Properties.                                                                *)

\* A start that a cancel (or a later start) has silenced neither shuts the box
\* down nor turns the volume any more, however its three threads and those of
\* other starts lie; only what was in the middle of its function when the cancel
\* came is not among them (cancel, _start_fadeout, GenericTimerClass.cancel).
CancelSilences ==
  [][\A g \in quiet : faded'[g] = faded[g] /\ shutdown'[g].pc # "call"]_fadeVars

=============================================================================
