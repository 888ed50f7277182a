---------------------------- MODULE PulseVolume ----------------------------
(***************************************************************************)
(* components/volume: the PulseAudio monitor thread, the handshake by      *)
(* which other threads take the PulseAudio connection from it, and what    *)
(* the volume commands and the sound card events do to the sinks.          *)
(*                                                                         *)
(* A level stands for a volume in percent of the sink's volume_limit, and  *)
(* Full for 100 percent; more than Full is what others may have set.       *)
(***************************************************************************)
EXTENDS Integers, FiniteSets

CONSTANTS
  Callers,        \* threads that use the volume control
  Nobody,         \* the owner of a free lock
  Full,           \* 100 percent
  Limiters        \* those that set the soft maximum, or stop the monitor

ASSUME VolumeAssumption ==
  /\ Nobody \notin Callers
  /\ Limiters \subseteq Callers
  /\ Full \in Nat \ {0}

Primary == 0
Secondary == 1
Commands ==
  [kind : {"set"}, arg : 0..Full] \union [kind : {"change"}, arg : {-1, 1}] \union
  [kind : {"mute", "output"}, arg : {0, 1}] \union
  {[kind |-> "toggle", arg |-> 0], [kind |-> "get", arg |-> 0]}
Limits == [kind : {"limit"}, arg : 0..Full]

Sinks == {Primary, Secondary}
TooLoud == Full + 1
Levels == 0..TooLoud

VARIABLES
  monitor,        \* the monitor thread
  running,        \* _keep_running
  listenDone,     \* the event: the monitor has left the connection
  actionDone,     \* the event: the caller is through with it
  moduleLock,     \* _lock_module
  pc,             \* each caller's step
  op,             \* what it wants the connection for
  events,         \* events the connection has for the monitor, in order
  volume, muted,  \* of each sink
  present,        \* the secondary sink is there
  active,         \* the default sink
  softMax,        \* _soft_max_volume
  toggle,         \* toggle_on_connect
  shown,          \* volume.level as published last
  missed,         \* history: an event fell into a command and was dropped
  excused         \* history: sinks whose level escaped the soft maximum

handshake == <<monitor, running, listenDone, actionDone, moduleLock, pc, op>>
sinks == <<volume, muted, present, active, softMax, toggle>>
audit == <<shown, missed, excused>>
vars == <<handshake, events, sinks, audit>>

NoOp == [kind |-> "any", arg |-> 0]
Stop == [kind |-> "stop", arg |-> 0]

Clamp(v, lo, hi) == IF v < lo THEN lo ELSE IF v > hi THEN hi ELSE v
Lesser(a, b) == IF a < b THEN a ELSE b

\* _get_volume_and_mute
Heard(s) == IF muted[s] THEN 0 ELSE volume[s]
Current == Heard(active)

\* initialize, parse_config and finalize: the primary output is selected and
\* the startup volume set.
Init ==
  /\ monitor = "listen" /\ running = TRUE
  /\ listenDone = FALSE /\ actionDone = FALSE
  /\ moduleLock = Nobody
  /\ pc = [t \in Callers |-> "idle"]
  /\ op = [t \in Callers |-> NoOp]
  /\ events = <<>>
  /\ volume = [s \in Sinks |-> Full]
  /\ muted = [s \in Sinks |-> FALSE]
  /\ present \in BOOLEAN
  /\ active = Primary
  /\ softMax = Full
  /\ toggle \in BOOLEAN
  /\ shown = Current
  /\ missed = FALSE /\ excused = {}

-----------------------------------------------------------------------------
(* What is done with the connection *)

\* _publish_volume
Publish == shown' = Current' /\ missed' = FALSE

\* Variant: the soft maximum is not applied.
SetVolumeUnlimited(s, v) ==
  /\ muted' = [muted EXCEPT ![s] = (v = 0)]
  /\ volume' = [volume EXCEPT ![s] = v]
  /\ excused' = excused \ {s}

\* _set_volume
SetVolume(s, v) ==
  LET level == Lesser(v, softMax) IN
  /\ muted' = [muted EXCEPT ![s] = (level = 0)]
  /\ volume' = [volume EXCEPT ![s] = level]
  /\ excused' = excused \ {s}

\* _set_output: a sink that is configured and there becomes the default, capped
\* if it is heard to be too loud.
SetOutput(s) ==
  IF s = Secondary /\ ~present
    THEN UNCHANGED <<volume, muted, active, excused>>
    ELSE /\ IF Heard(s) > softMax
              THEN SetVolume(s, softMax)
              ELSE /\ excused' = IF muted[s] /\ volume[s] > softMax
                                   THEN excused \union {s} ELSE excused
                   /\ UNCHANGED <<volume, muted>>
         /\ active' = s

\* The body of a command.
Execute(o) ==
  CASE o.kind = "set" ->
         UNCHANGED active /\ SetVolume(active, Clamp(o.arg, 0, Full)) /\ Publish
    [] o.kind = "change" ->
         /\ UNCHANGED active
         /\ SetVolume(active, Clamp(IF muted[active] THEN o.arg
                                    ELSE Heard(active) + o.arg, 0, Full))
         /\ Publish
    [] o.kind = "mute" ->
         /\ muted' = [muted EXCEPT ![active] = (o.arg = 1)]
         /\ UNCHANGED <<volume, active, excused>>
         /\ Publish
    [] o.kind = "output" -> SetOutput(o.arg) /\ Publish
    [] o.kind = "toggle" -> SetOutput(1 - active) /\ Publish
    [] o.kind = "limit" ->
         IF o.arg < Heard(active)
           THEN UNCHANGED active /\ SetVolume(active, o.arg) /\ Publish
           ELSE /\ excused' = IF muted[active] /\ volume[active] > o.arg
                                THEN excused \union {active} ELSE excused
                /\ UNCHANGED <<volume, muted, active, shown, missed>>
    [] OTHER -> UNCHANGED <<volume, muted, active, audit>>

-----------------------------------------------------------------------------
(* The callers: with pulse_monitor as pulse *)

\* A thread calls for the connection; which command it is for shows when it has
\* it, except that set_soft_max_volume stores the limit before it asks.
Request(t, o) ==
  /\ pc[t] = "idle"
  /\ pc' = [pc EXCEPT ![t] = "lock"]
  /\ op' = [op EXCEPT ![t] = o]
  /\ softMax' = IF o.kind = "limit" THEN o.arg ELSE softMax
  /\ UNCHANGED <<monitor, running, listenDone, actionDone, moduleLock, events,
                 volume, muted, present, active, toggle, audit>>

Lock(t) ==
  /\ pc[t] = "lock" /\ moduleLock = Nobody
  /\ moduleLock' = t
  /\ pc' = [pc EXCEPT ![t] = "enter"]
  /\ running' = (running /\ op[t] # Stop)
  /\ UNCHANGED <<monitor, listenDone, actionDone, op, events, sinks, audit>>

\* event_listen_stop is repeated until the monitor has left the connection.
Enter(t) ==
  /\ pc[t] = "enter" /\ listenDone
  /\ listenDone' = FALSE
  /\ pc' = [pc EXCEPT ![t] = "use"]
  /\ UNCHANGED <<monitor, running, actionDone, moduleLock, op, events, sinks, audit>>

Use(t) ==
  /\ pc[t] = "use"
  /\ \E o \in IF op[t] = NoOp THEN Commands ELSE {op[t]} : Execute(o)
  /\ pc' = [pc EXCEPT ![t] = "leave"]
  /\ UNCHANGED <<monitor, running, listenDone, actionDone, moduleLock, op, events,
                 present, softMax, toggle>>

\* Variant: the monitor is not told that the action is done.
LeaveSilently(t) ==
  /\ pc[t] = "leave"
  /\ moduleLock' = Nobody
  /\ pc' = [pc EXCEPT ![t] = "idle"]
  /\ op' = [op EXCEPT ![t] = NoOp]
  /\ UNCHANGED <<monitor, running, listenDone, actionDone, events, sinks, audit>>

Leave(t) ==
  /\ pc[t] = "leave"
  /\ actionDone' = TRUE
  /\ moduleLock' = Nobody
  /\ pc' = [pc EXCEPT ![t] = "idle"]
  /\ op' = [op EXCEPT ![t] = NoOp]
  /\ UNCHANGED <<monitor, running, listenDone, events, sinks, audit>>

-----------------------------------------------------------------------------
(* The monitor thread *)

\* event_listen ends because a caller asked it to, and brought no event.
Park ==
  /\ monitor = "listen" /\ events = <<>>
  /\ \E t \in Callers : pc[t] = "enter"
  /\ monitor' = "parked"
  /\ listenDone' = TRUE
  /\ UNCHANGED <<running, actionDone, moduleLock, pc, op, events, sinks, audit>>

\* Variant: the event of the last action is not cleared.
UnparkKeepsEvent ==
  /\ monitor = "parked" /\ actionDone
  /\ monitor' = IF running THEN "listen" ELSE "gone"
  /\ UNCHANGED <<running, listenDone, actionDone, moduleLock, pc, op, events, sinks,
                 audit>>

\* action_done: back to the connection, or to the end of run().
Unpark ==
  /\ monitor = "parked" /\ actionDone
  /\ actionDone' = FALSE
  /\ monitor' = IF running THEN "listen" ELSE "gone"
  /\ UNCHANGED <<running, listenDone, moduleLock, pc, op, events, sinks, audit>>

\* event_listen ends with an event, which the monitor takes up at once.
Notice ==
  /\ monitor = "listen" /\ events # <<>>
  /\ monitor' = "handle"
  /\ UNCHANGED <<running, listenDone, actionDone, moduleLock, pc, op, events, sinks,
                 audit>>

\* Variant: a card that is removed leaves the output alone.
HandleKeepsOutput ==
  /\ monitor = "handle"
  /\ \/ events = <<"new">> /\ toggle /\ SetOutput(Secondary) /\ Publish
     \/ /\ ~(events = <<"new">> /\ toggle)
        /\ UNCHANGED <<volume, muted, active, audit>>
  /\ events' = <<>>
  /\ monitor' = IF running THEN "listen" ELSE "gone"
  /\ UNCHANGED <<running, listenDone, actionDone, moduleLock, pc, op, present,
                 softMax, toggle>>

\* _handle_event
Handle ==
  /\ monitor = "handle"
  /\ CASE events = <<"new">> -> \/ toggle /\ SetOutput(Secondary) /\ Publish
                                \/ ~toggle /\ UNCHANGED <<volume, muted, active, audit>>
       [] events = <<"remove">> -> SetOutput(Primary) /\ Publish
       [] OTHER -> UNCHANGED <<volume, muted, active, excused>> /\ Publish
  /\ events' = <<>>
  /\ monitor' = IF running THEN "listen" ELSE "gone"
  /\ UNCHANGED <<running, listenDone, actionDone, moduleLock, pc, op, present,
                 softMax, toggle>>

\* PulseAudio goes away: PulseDisconnected leaves run().
Disconnect ==
  /\ monitor = "listen"
  /\ monitor' = "gone"
  /\ UNCHANGED <<running, listenDone, actionDone, moduleLock, pc, op, events, sinks,
                 audit>>

-----------------------------------------------------------------------------
(* The sound system.  While a caller uses the connection there is no event   *)
(* callback, and an event is lost.                                           *)

Notify(e) ==
  /\ events = <<>> /\ monitor # "gone"
  /\ IF monitor = "parked" THEN missed' = TRUE /\ UNCHANGED events
                           ELSE events' = <<e>> /\ UNCHANGED missed

CardComes ==
  /\ ~present /\ Notify("new")
  /\ present' = TRUE
  /\ UNCHANGED <<handshake, volume, muted, active, softMax, toggle, shown, excused>>

\* The default sink falls back to the one that is left.
CardGoes ==
  /\ present /\ Notify("remove")
  /\ present' = FALSE
  /\ active' = Primary
  /\ excused' = excused \union {Primary}
  /\ UNCHANGED <<handshake, volume, muted, softMax, toggle, shown>>

\* Another application, or the card itself, sets the active sink's volume.
OthersSet(v, m) ==
  /\ Notify("change")
  /\ volume' = [volume EXCEPT ![active] = v]
  /\ muted' = [muted EXCEPT ![active] = m]
  /\ excused' = excused \union {active}
  /\ UNCHANGED <<handshake, present, active, softMax, toggle, shown>>

CallerStep(t) == Lock(t) \/ Enter(t) \/ Use(t) \/ Leave(t)
MonitorStep == Park \/ Unpark \/ Notice \/ Handle

Next ==
  \/ \E t \in Callers :
       \/ Request(t, NoOp)
       \/ t \in Limiters /\ \E o \in Limits \union {Stop} : Request(t, o)
       \/ CallerStep(t)
  \/ MonitorStep
  \/ Disconnect
  \/ CardComes \/ CardGoes
  \/ \E v \in {1, TooLoud}, m \in BOOLEAN : OthersSet(v, m)

\* Threads run; a thread waiting for the lock gets it now and then, and the
\* repeated event_listen_stop meets the monitor in a moment without an event.
Spec == /\ Init /\ [][Next]_vars
        /\ WF_vars(MonitorStep) /\ SF_vars(Park)
        /\ \A t \in Callers : WF_vars(Enter(t) \/ Use(t) \/ Leave(t)) /\ SF_vars(Lock(t))

-----------------------------------------------------------------------------

TypeOK ==
  /\ monitor \in {"listen", "parked", "handle", "gone"}
  /\ {running, listenDone, actionDone, present, toggle, missed} \subseteq BOOLEAN
  /\ moduleLock \in Callers \union {Nobody}
  /\ pc \in [Callers -> {"idle", "lock", "enter", "use", "leave"}]
  /\ volume \in [Sinks -> Levels]
  /\ muted \in [Sinks -> BOOLEAN]
  /\ active \in Sinks
  /\ softMax \in 0..Full
  /\ excused \subseteq Sinks

\* Only one thread works with the PulseAudio connection: while a caller does, the
\* monitor is parked and neither event of the handshake is left over from an
\* earlier round to wake anybody up (__enter__, __exit__, run).
PulseIsExclusive ==
  \A t \in Callers : pc[t] \in {"use", "leave"} =>
    /\ monitor = "parked" /\ ~listenDone /\ ~actionDone
    /\ \A u \in Callers \ {t} : pc[u] \notin {"enter", "use", "leave"}

\* With it, the types of the variables.
VolumeInv == TypeOK /\ PulseIsExclusive

Quiet == monitor = "listen" /\ events = <<>> /\ \A t \in Callers : pc[t] = "idle"

\* The soft maximum holds on the active output, whichever way it became active,
\* for every level the daemon had a say in.  What escapes it: a sink that is muted
\* while the limit comes down or while it is selected counts as silent, and is
\* as loud as before when it is unmuted.
SoftMaxHolds ==
  Quiet /\ active \notin excused => Heard(active) <= softMax

\* The published volume is that of the active sink whenever nothing is under way,
\* unless an event was dropped because a command had the connection.
ShownVolumeIsCurrent == Quiet /\ ~missed => shown = Current

\* A volume command returns, as long as the monitor is there to hand over.
CommandReturns ==
  \A t \in Callers : pc[t] # "idle" ~> pc[t] = "idle" \/ monitor = "gone"
=============================================================================
