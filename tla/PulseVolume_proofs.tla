------------------------- MODULE PulseVolume_proofs -------------------------
(***************************************************************************)
(* Proofs about the volume for any number of callers: the connection has   *)
(* one user, the soft maximum holds, and the volume shown is the true one. *)
(*                                                                         *)
(* The handshake is two events that carry no name: what makes it safe is   *)
(* that each is up only in its own phase of a round, and that rounds do    *)
(* not overlap because the lock has one owner.                             *)
(***************************************************************************)
EXTENDS PulseVolume, TLAPS

USE DEF Sinks, Primary, Secondary, Levels, TooLoud, Heard

Limiting == Limits \union {Stop}

\* The levels, which a command or an event of a card may set.
SinkTypes ==
  /\ volume \in [Sinks -> Levels]
  /\ muted \in [Sinks -> BOOLEAN]
  /\ active \in Sinks
  /\ excused \subseteq Sinks

OpTypes == op \in [Callers -> Limiting \union {NoOp}]

\* Who is past the lock has it.
OneRound ==
  \A t \in Callers : pc[t] \in {"enter", "use", "leave"} <=> moduleLock = t

\* "The monitor has left" is up only while a caller waits for it, "the action is
\* done" only when no caller has the connection.
Phases ==
  /\ listenDone => monitor = "parked" /\ ~actionDone
  /\ actionDone => monitor = "parked"
  /\ \A t \in Callers :
       pc[t] \in {"use", "leave"} => monitor = "parked" /\ ~listenDone /\ ~actionDone

PulseInv == TypeOK /\ OpTypes /\ OneRound /\ Phases

-----------------------------------------------------------------------------
(* The levels *)

\* _set_volume leaves a level in range.
LEMMA SetVolumeTypes ==
  ASSUME SinkTypes, softMax \in 0..Full, NEW s \in Sinks, NEW v \in Levels,
         SetVolume(s, v)
  PROVE  volume' \in [Sinks -> Levels] /\ muted' \in [Sinks -> BOOLEAN]
         /\ excused' \subseteq Sinks
  BY VolumeAssumption DEF SinkTypes, SetVolume, Lesser

\* _set_output leaves the levels in range and a sink active.
LEMMA SetOutputTypes ==
  ASSUME SinkTypes, softMax \in 0..Full, NEW s \in Sinks, SetOutput(s)
  PROVE  SinkTypes'
<1>1. CASE s = Secondary /\ ~present
  BY <1>1 DEF SetOutput, SinkTypes
<1>2. CASE ~(s = Secondary /\ ~present) /\ Heard(s) > softMax
  <2>1. SetVolume(s, softMax) /\ active' = s
    BY <1>2 DEF SetOutput
  <2>2. softMax \in Levels
    BY VolumeAssumption
  <2> QED
    BY <2>1, <2>2, SetVolumeTypes DEF SinkTypes
<1>3. CASE ~(s = Secondary /\ ~present) /\ ~(Heard(s) > softMax)
  BY <1>3 DEF SetOutput, SinkTypes
<1> QED
  BY <1>1, <1>2, <1>3

\* So does every command.
LEMMA ExecuteTypes ==
  ASSUME SinkTypes, softMax \in 0..Full, missed \in BOOLEAN,
         NEW o \in Commands \union Limiting, Execute(o)
  PROVE  SinkTypes' /\ missed' \in BOOLEAN
<1> USE VolumeAssumption
<1>1. CASE o.kind = "set"
  <2>1. o.arg \in 0..Full
    BY <1>1 DEF Commands, Limiting, Limits, Stop
  <2>2. Clamp(o.arg, 0, Full) \in Levels
    BY <2>1 DEF Clamp
  <2>3. SetVolume(active, Clamp(o.arg, 0, Full)) /\ UNCHANGED active /\ Publish
    BY <1>1 DEF Execute
  <2> QED
    BY <2>2, <2>3, SetVolumeTypes DEF SinkTypes, Publish
<1>2. CASE o.kind = "change"
  <2> DEFINE level == Clamp(IF muted[active] THEN o.arg ELSE Heard(active) + o.arg, 0, Full)
  <2>1. o.arg \in {-1, 1}
    BY <1>2 DEF Commands, Limiting, Limits, Stop
  <2>2. level \in Levels
    BY <2>1 DEF Clamp, SinkTypes
  <2>3. SetVolume(active, level) /\ UNCHANGED active /\ Publish
    BY <1>2 DEF Execute
  <2> QED
    BY <2>2, <2>3, SetVolumeTypes DEF SinkTypes, Publish
<1>3. CASE o.kind = "mute"
  BY <1>3 DEF Execute, SinkTypes, Publish
<1>4. CASE o.kind = "output"
  <2>1. o.arg \in Sinks
    BY <1>4 DEF Commands, Limiting, Limits, Stop
  <2>2. SetOutput(o.arg) /\ Publish
    BY <1>4 DEF Execute
  <2> QED
    BY <2>1, <2>2, SetOutputTypes DEF Publish
<1>5. CASE o.kind = "toggle"
  <2>1. 1 - active \in Sinks
    BY DEF SinkTypes
  <2>2. SetOutput(1 - active) /\ Publish
    BY <1>5 DEF Execute
  <2> QED
    BY <2>1, <2>2, SetOutputTypes DEF Publish
<1>6. CASE o.kind = "limit"
  <2>1. o.arg \in Levels
    BY <1>6 DEF Commands, Limiting, Limits, Stop
  <2>2. CASE o.arg < Heard(active)
    <3>1. SetVolume(active, o.arg) /\ UNCHANGED active /\ Publish
      BY <1>6, <2>2 DEF Execute
    <3> QED
      BY <2>1, <3>1, SetVolumeTypes DEF SinkTypes, Publish
  <2>3. CASE ~(o.arg < Heard(active))
    BY <1>6, <2>3 DEF Execute, SinkTypes
  <2> QED
    BY <2>2, <2>3
<1>7. CASE o.kind \notin {"set", "change", "mute", "output", "toggle", "limit"}
  BY <1>7 DEF Execute, SinkTypes, audit
<1> QED
  BY <1>1, <1>2, <1>3, <1>4, <1>5, <1>6, <1>7

-----------------------------------------------------------------------------
(* The handshake *)

\* The monitor is parked whenever a caller works with the server.
LEMMA PulseInvariant == Spec => []PulseInv
<1> USE VolumeAssumption
<1>1. Init => PulseInv
  <2> SUFFICES ASSUME Init PROVE PulseInv
    OBVIOUS
  <2>1. /\ {running, listenDone, actionDone, present, toggle, missed} \subseteq BOOLEAN
        /\ muted \in [Sinks -> BOOLEAN]
    BY DEF Init
  <2>2. volume \in [Sinks -> Levels] /\ active \in Sinks /\ softMax \in 0..Full
    BY DEF Init
  <2>3. OpTypes /\ OneRound /\ Phases
    BY DEF Init, OpTypes, OneRound, Phases
  <2> QED
    BY <2>1, <2>2, <2>3 DEF Init, PulseInv, TypeOK
<1>2. PulseInv /\ [Next]_vars => PulseInv'
  <2> SUFFICES ASSUME PulseInv, [Next]_vars PROVE PulseInv'
    OBVIOUS
  <2> USE DEF PulseInv, TypeOK, OpTypes, OneRound, Phases
  <2>sinks. SinkTypes /\ softMax \in 0..Full
    BY DEF SinkTypes
  <2>request. ASSUME NEW t \in Callers, NEW o \in Limiting \union {NoOp}, Request(t, o)
              PROVE  PulseInv'
    <3>1. softMax' \in 0..Full
      BY <2>request DEF Request, Limiting, Limits, Stop, NoOp
    <3>2. op' \in [Callers -> Limiting \union {NoOp}]
      BY <2>request DEF Request
    <3> QED
      BY <2>request, <3>1, <3>2 DEF Request, audit
  <2>1. ASSUME NEW t \in Callers, Lock(t) PROVE PulseInv'
    BY <2>1 DEF Lock, sinks, audit
  <2>2. ASSUME NEW t \in Callers, Enter(t) PROVE PulseInv'
    BY <2>2 DEF Enter, sinks, audit
  <2>3. ASSUME NEW t \in Callers, Use(t) PROVE PulseInv'
    <3>1. PICK o \in IF op[t] = NoOp THEN Commands ELSE {op[t]} : Execute(o)
      BY <2>3 DEF Use
    <3>2. o \in Commands \union Limiting
      OBVIOUS
    <3>3. SinkTypes' /\ missed' \in BOOLEAN
      BY <2>sinks, <3>1, <3>2, ExecuteTypes
    <3> QED
      BY <2>3, <3>3 DEF Use, SinkTypes
  <2>4. ASSUME NEW t \in Callers, Leave(t) PROVE PulseInv'
    BY <2>4 DEF Leave, sinks, audit, NoOp
  <2>5. CASE Park
    BY <2>5 DEF Park, sinks, audit
  <2>6. CASE Unpark
    BY <2>6 DEF Unpark, sinks, audit
  <2>7. CASE Notice
    BY <2>7 DEF Notice, sinks, audit
  <2>8. CASE Handle
    <3>1. SinkTypes' /\ missed' \in BOOLEAN
      <4>1. CASE SetOutput(Secondary) /\ Publish
        BY <2>sinks, <4>1, SetOutputTypes DEF Publish
      <4>2. CASE SetOutput(Primary) /\ Publish
        BY <2>sinks, <4>2, SetOutputTypes DEF Publish
      <4>3. CASE UNCHANGED <<volume, muted, active, excused>> /\ missed' \in BOOLEAN
        BY <2>sinks, <4>3 DEF SinkTypes
      <4> QED
        BY <2>8, <4>1, <4>2, <4>3 DEF Handle, Publish, audit
    <3> QED
      BY <2>8, <3>1 DEF Handle, SinkTypes
  <2>9. CASE Disconnect
    BY <2>9 DEF Disconnect, sinks, audit
  <2>10. CASE CardComes \/ CardGoes
    <3>1. UNCHANGED <<monitor, running, listenDone, actionDone, moduleLock, pc, op,
                      volume, muted, softMax, toggle>>
      BY <2>10 DEF CardComes, CardGoes, handshake
    <3>2. present' \in BOOLEAN /\ missed' \in BOOLEAN
      BY <2>10 DEF CardComes, CardGoes, Notify
    <3>3. active' \in Sinks /\ excused' \subseteq Sinks
      BY <2>10 DEF CardComes, CardGoes
    <3> QED
      BY <3>1, <3>2, <3>3
  <2>11. ASSUME NEW v \in {1, TooLoud}, NEW m \in BOOLEAN, OthersSet(v, m)
         PROVE  PulseInv'
    <3>1. UNCHANGED <<monitor, running, listenDone, actionDone, moduleLock, pc, op,
                      present, active, softMax, toggle>>
      BY <2>11 DEF OthersSet, handshake
    <3>2. volume' \in [Sinks -> Levels] /\ excused' \subseteq Sinks
      BY <2>11 DEF OthersSet
    <3>3. muted' \in [Sinks -> BOOLEAN]
      BY <2>11 DEF OthersSet
    <3>4. missed' \in BOOLEAN
      BY <2>11 DEF OthersSet, Notify
    <3> QED
      BY <3>1, <3>2, <3>3, <3>4
  <2>12. CASE UNCHANGED vars
    BY <2>12 DEF vars, handshake, sinks, audit
  <2> QED
    <3>1. NoOp \in Limiting \union {NoOp} /\ Limits \union {Stop} \subseteq Limiting \union {NoOp}
      BY DEF Limiting
    <3> QED
      BY <2>request, <2>1, <2>2, <2>3, <2>4, <2>5, <2>6, <2>7, <2>8, <2>9, <2>10,
         <2>11, <2>12, <3>1 DEF Next, CallerStep, MonitorStep
<1> QED
  BY <1>1, <1>2, PTL DEF Spec

\* At any time one thread works with the PulseAudio connection, and the levels,
\* the default sink and the limit stay in range, for any number of callers.
THEOREM OneUserOfPulse == Spec => []VolumeInv
<1>1. PulseInv => VolumeInv
  BY VolumeAssumption DEF PulseInv, OneRound, Phases, VolumeInv, PulseIsExclusive, TypeOK
<1> QED
  BY <1>1, PulseInvariant, PTL

-----------------------------------------------------------------------------
(* The soft maximum *)

\* A thread that has set the limit in force and will still apply it.
LimitUnderway ==
  \E t \in Callers :
    pc[t] \in {"lock", "enter", "use"} /\ op[t] = [kind |-> "limit", arg |-> softMax]

\* Muted or not, a sink that is selected is within the limit, or will be, or is one
\* of those that escape.
WithinLimit == volume[active] <= softMax \/ active \in excused

SoftMaxInv == WithinLimit \/ LimitUnderway

\* Setting a volume brings the sink within the limit.
LEMMA SetVolumeLimits ==
  ASSUME SinkTypes, softMax \in 0..Full, NEW s \in Sinks, NEW v \in Levels,
         SetVolume(s, v)
  PROVE  volume'[s] <= softMax
  BY VolumeAssumption DEF SinkTypes, SetVolume, Lesser

\* So does selecting it, or the sink escapes.
LEMMA SetOutputLimits ==
  ASSUME SinkTypes, softMax \in 0..Full, softMax' = softMax, WithinLimit,
         NEW s \in Sinks, SetOutput(s)
  PROVE  WithinLimit'
<1>1. CASE s = Secondary /\ ~present
  BY <1>1 DEF SetOutput, WithinLimit
<1>2. CASE ~(s = Secondary /\ ~present) /\ Heard(s) > softMax
  <2>1. SetVolume(s, softMax) /\ active' = s /\ softMax \in Levels
    BY <1>2, VolumeAssumption DEF SetOutput
  <2> QED
    BY <2>1, SetVolumeLimits DEF WithinLimit
<1>3. CASE ~(s = Secondary /\ ~present) /\ ~(Heard(s) > softMax)
  BY <1>3 DEF SetOutput, WithinLimit, SinkTypes
<1> QED
  BY <1>1, <1>2, <1>3

\* Every command that sets a volume stays within the limit.
LEMMA ExecuteLimits ==
  ASSUME SinkTypes, softMax \in 0..Full, softMax' = softMax, WithinLimit,
         NEW o \in Commands \union Limiting, Execute(o)
  PROVE  WithinLimit'
<1> USE VolumeAssumption
<1>0. active \in Sinks
  BY DEF SinkTypes
<1>1. ASSUME NEW v \in Levels, SetVolume(active, v), UNCHANGED active PROVE WithinLimit'
  BY <1>0, <1>1, SetVolumeLimits DEF WithinLimit
<1>2. CASE o.kind = "set"
  <2>1. o.arg \in 0..Full
    BY <1>2 DEF Commands, Limiting, Limits, Stop
  <2>2. Clamp(o.arg, 0, Full) \in Levels
    BY <2>1 DEF Clamp
  <2> QED
    BY <1>1, <1>2, <2>2 DEF Execute
<1>3. CASE o.kind = "change"
  <2> DEFINE level == Clamp(IF muted[active] THEN o.arg ELSE Heard(active) + o.arg, 0, Full)
  <2>1. o.arg \in {-1, 1}
    BY <1>3 DEF Commands, Limiting, Limits, Stop
  <2>2. level \in Levels
    BY <2>1 DEF Clamp, SinkTypes
  <2>3. SetVolume(active, level) /\ UNCHANGED active
    BY <1>3 DEF Execute
  <2> QED
    BY <1>1, <2>2, <2>3
<1>4. CASE o.kind = "mute"
  BY <1>4 DEF Execute, WithinLimit
<1>5. CASE o.kind = "output"
  <2>1. o.arg \in Sinks /\ SetOutput(o.arg)
    BY <1>5 DEF Commands, Limiting, Limits, Stop, Execute
  <2> QED
    BY <2>1, SetOutputLimits
<1>6. CASE o.kind = "toggle"
  <2>1. 1 - active \in Sinks /\ SetOutput(1 - active)
    BY <1>0, <1>6 DEF Execute
  <2> QED
    BY <2>1, SetOutputLimits
<1>7. CASE o.kind = "limit"
  <2>1. o.arg \in Levels
    BY <1>7 DEF Commands, Limiting, Limits, Stop
  <2>2. CASE o.arg < Heard(active)
    BY <1>1, <1>7, <2>1, <2>2 DEF Execute
  <2>3. CASE ~(o.arg < Heard(active))
    <3>1. UNCHANGED <<volume, active>> /\ excused \subseteq excused'
      BY <1>7, <2>3 DEF Execute
    <3> QED
      BY <3>1 DEF WithinLimit
  <2> QED
    BY <2>2, <2>3
<1>8. CASE o.kind \notin {"set", "change", "mute", "output", "toggle", "limit"}
  BY <1>8 DEF Execute, WithinLimit, audit
<1> QED
  BY <1>2, <1>3, <1>4, <1>5, <1>6, <1>7, <1>8

\* Whatever the level was, the limit in force brings it down or lets it escape.
LEMMA LimitApplies ==
  ASSUME SinkTypes, softMax \in 0..Full, softMax' = softMax,
         Execute([kind |-> "limit", arg |-> softMax])
  PROVE  WithinLimit'
<1> USE VolumeAssumption
<1>1. CASE softMax < Heard(active)
  <2>1. SetVolume(active, softMax) /\ UNCHANGED active /\ softMax \in Levels
        /\ active \in Sinks
    BY <1>1 DEF Execute, SinkTypes
  <2> QED
    BY <2>1, SetVolumeLimits DEF WithinLimit
<1>2. CASE ~(softMax < Heard(active))
  <2>1. /\ UNCHANGED <<volume, muted, active>>
        /\ excused' = IF muted[active] /\ volume[active] > softMax
                        THEN excused \union {active} ELSE excused
    BY <1>2 DEF Execute
  <2> QED
    BY <1>2, <2>1 DEF WithinLimit, SinkTypes
<1> QED
  BY <1>1, <1>2

\* The output in use is within the limit, unless the caller that lowered it is still
\* to apply it.
LEMMA SoftMaxInvariant == Spec => []SoftMaxInv
<1> USE VolumeAssumption
<1>1. Init => SoftMaxInv
  BY DEF Init, SoftMaxInv, WithinLimit
<1>2. PulseInv /\ SoftMaxInv /\ [Next]_vars => SoftMaxInv'
  <2> SUFFICES ASSUME PulseInv, SoftMaxInv, [Next]_vars PROVE SoftMaxInv'
    OBVIOUS
  <2>types. SinkTypes /\ softMax \in 0..Full /\ OpTypes
            /\ pc \in [Callers -> {"idle", "lock", "enter", "use", "leave"}]
    BY DEF PulseInv, TypeOK, SinkTypes
  <2> USE DEF OpTypes
  <2>1. ASSUME NEW t \in Callers, NEW o \in Limiting \union {NoOp}, Request(t, o)
        PROVE  SoftMaxInv'
    <3>1. /\ UNCHANGED <<volume, muted, active, excused>>
          /\ pc[t] = "idle" /\ pc' = [pc EXCEPT ![t] = "lock"] /\ op' = [op EXCEPT ![t] = o]
          /\ softMax' = IF o.kind = "limit" THEN o.arg ELSE softMax
      BY <2>1 DEF Request, audit
    <3>2. CASE o.kind = "limit"
      <4>1. o = [kind |-> "limit", arg |-> softMax']
        BY <3>1, <3>2 DEF Limiting, Limits, Stop, NoOp
      <4> QED
        BY <2>types, <3>1, <4>1 DEF SoftMaxInv, LimitUnderway
    <3>3. CASE o.kind # "limit"
      BY <2>types, <3>1, <3>3 DEF SoftMaxInv, WithinLimit, LimitUnderway
    <3> QED
      BY <3>2, <3>3
  <2>2. ASSUME NEW t \in Callers, Lock(t) \/ Enter(t) PROVE SoftMaxInv'
    BY <2>types, <2>2 DEF Lock, Enter, sinks, audit, SoftMaxInv, WithinLimit, LimitUnderway
  <2>3. ASSUME NEW t \in Callers, Use(t) PROVE SoftMaxInv'
    <3>1. PICK o \in IF op[t] = NoOp THEN Commands ELSE {op[t]} : Execute(o)
      BY <2>3 DEF Use
    <3>2. o \in Commands \union Limiting
      BY <2>types
    <3>3. softMax' = softMax /\ op' = op /\ pc' = [pc EXCEPT ![t] = "leave"]
      BY <2>3 DEF Use
    <3>4. CASE WithinLimit
      BY <2>types, <3>1, <3>2, <3>3, <3>4, ExecuteLimits DEF SoftMaxInv
    <3>5. CASE LimitUnderway
      <4>1. PICK u \in Callers : /\ pc[u] \in {"lock", "enter", "use"}
                                 /\ op[u] = [kind |-> "limit", arg |-> softMax]
        BY <3>5 DEF LimitUnderway
      <4>2. CASE u = t
        <5>1. o = [kind |-> "limit", arg |-> softMax]
          BY <3>1, <4>1, <4>2 DEF NoOp
        <5> QED
          BY <2>types, <3>1, <3>3, <5>1, LimitApplies DEF SoftMaxInv
      <4>3. CASE u # t
        BY <2>types, <3>3, <4>1, <4>3 DEF SoftMaxInv, LimitUnderway
      <4> QED
        BY <4>2, <4>3
    <3> QED
      BY <3>4, <3>5 DEF SoftMaxInv
  <2>4. ASSUME NEW t \in Callers, Leave(t) PROVE SoftMaxInv'
    BY <2>types, <2>4 DEF Leave, sinks, audit, SoftMaxInv, WithinLimit, LimitUnderway
  <2>5. CASE Park \/ Unpark \/ Notice \/ Disconnect
    BY <2>5 DEF Park, Unpark, Notice, Disconnect, sinks, audit, SoftMaxInv, WithinLimit,
                LimitUnderway
  <2>6. CASE Handle
    <3>1. UNCHANGED <<pc, op, softMax>>
      BY <2>6 DEF Handle
    <3>2. \/ SetOutput(Secondary) \/ SetOutput(Primary)
          \/ UNCHANGED <<volume, muted, active, excused>>
      BY <2>6 DEF Handle, audit
    <3>3. CASE WithinLimit
      BY <2>types, <3>1, <3>2, <3>3, SetOutputLimits DEF SoftMaxInv, WithinLimit
    <3>4. CASE LimitUnderway
      BY <3>1, <3>4 DEF SoftMaxInv, LimitUnderway
    <3> QED
      BY <3>3, <3>4 DEF SoftMaxInv
  <2>7. CASE CardComes
    BY <2>7 DEF CardComes, handshake, SoftMaxInv, WithinLimit, LimitUnderway
  <2>8. CASE CardGoes
    BY <2>8 DEF CardGoes, handshake, SoftMaxInv, WithinLimit
  <2>9. ASSUME NEW v \in {1, TooLoud}, NEW m \in BOOLEAN, OthersSet(v, m)
        PROVE  SoftMaxInv'
    BY <2>9 DEF OthersSet, handshake, SoftMaxInv, WithinLimit
  <2>10. CASE UNCHANGED vars
    BY <2>10 DEF vars, handshake, sinks, audit, SoftMaxInv, WithinLimit, LimitUnderway
  <2>11. NoOp \in Limiting \union {NoOp} /\ Limits \union {Stop} \subseteq Limiting \union {NoOp}
    BY DEF Limiting
  <2> QED
    BY <2>1, <2>2, <2>3, <2>4, <2>5, <2>6, <2>7, <2>8, <2>9, <2>10, <2>11
       DEF Next, CallerStep, MonitorStep
<1> QED
  BY <1>1, <1>2, PulseInvariant, PTL DEF Spec

\* For any number of callers, with limits coming down one upon the other: the soft
\* maximum holds on the active output when nothing is under way.
THEOREM NothingIsTooLoud == Spec => []SoftMaxHolds
<1>1. PulseInv /\ SoftMaxInv => SoftMaxHolds
  BY VolumeAssumption DEF PulseInv, TypeOK, SoftMaxInv, WithinLimit, LimitUnderway,
     SoftMaxHolds, Quiet
<1> QED
  BY <1>1, PulseInvariant, SoftMaxInvariant, PTL

-----------------------------------------------------------------------------
(* The published volume *)

\* It is that of the active sink, unless an event that says otherwise is on its
\* way to the monitor or was dropped.
ShownInv ==
  shown = Current \/ missed \/ events \in {<<"remove">>, <<"change">>}

\* A command publishes, or leaves what is heard as it is.
LEMMA ExecuteShows ==
  ASSUME ShownInv, events' = events, NEW o, Execute(o)
  PROVE  ShownInv'
<1>1. Publish \/ UNCHANGED <<volume, muted, active, shown, missed>>
  BY DEF Execute, audit
<1> QED
  BY <1>1 DEF ShownInv, Publish, Current

\* What is shown is current, or an event or a caller that will publish it is under
\* way.
LEMMA ShownInvariant == Spec => []ShownInv
<1>1. Init => ShownInv
  BY DEF Init, ShownInv
<1>2. ShownInv /\ [Next]_vars => ShownInv'
  <2> SUFFICES ASSUME ShownInv, [Next]_vars PROVE ShownInv'
    OBVIOUS
  <2>1. CASE UNCHANGED <<volume, muted, active, shown, missed, events>>
    BY <2>1 DEF ShownInv, Current
  <2>2. ASSUME NEW t \in Callers, Use(t) PROVE ShownInv'
    BY <2>2, ExecuteShows DEF Use
  <2>3. CASE Handle
    <3>1. Publish \/ (events = <<"new">> /\ UNCHANGED <<volume, muted, active, shown, missed>>)
      BY <2>3 DEF Handle, audit
    <3> QED
      BY <3>1 DEF ShownInv, Publish, Current
  <2>4. CASE CardComes
    BY <2>4 DEF CardComes, Notify, ShownInv, Current
  <2>5. CASE CardGoes
    BY <2>5 DEF CardGoes, Notify, ShownInv
  <2>6. ASSUME NEW v \in {1, TooLoud}, NEW m \in BOOLEAN, OthersSet(v, m)
        PROVE  ShownInv'
    BY <2>6 DEF OthersSet, Notify, ShownInv
  <2> QED
    BY <2>1, <2>2, <2>3, <2>4, <2>5, <2>6
       DEF Next, CallerStep, MonitorStep, Request, Lock, Enter, Leave, Park, Unpark,
           Notice, Disconnect, sinks, audit, vars
<1> QED
  BY <1>1, <1>2, PTL DEF Spec

\* The published volume is the active sink's whenever nothing is under way, unless
\* an event was dropped, for any number of callers.
THEOREM ShownVolumeIsTrue == Spec => []ShownVolumeIsCurrent
<1>1. ShownInv => ShownVolumeIsCurrent
  BY DEF ShownInv, ShownVolumeIsCurrent, Quiet
<1> QED
  BY <1>1, ShownInvariant, PTL
=============================================================================
