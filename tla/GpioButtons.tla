---------------------------- MODULE GpioButtons ----------------------------
(***************************************************************************)
(* The buttons of components/gpio/gpioz/core/input_devices.py: a           *)
(* TwinButton on two pins, or one of the single buttons on a third.        *)
(*                                                                         *)
(* gpiozero delivers the edges of all pins in order on one thread, and     *)
(* each pin's hold on a thread of its own.  An action that takes long (it  *)
(* waits for the plugs lock) keeps edges waiting while the pins move on,   *)
(* and the twin button reads the pins, not the edges, to see whether both  *)
(* buttons are up.                                                         *)
(***************************************************************************)
EXTENDS Naturals, Sequences, FiniteSets

CONSTANTS
  MaxLag        \* bound: edges not delivered yet

ASSUME ButtonsAssumption == MaxLag \in Nat \ {0}

Twin == {"a", "b"}
Single == "c"
Pins == Twin \union {Single}
OtherPin(p) == IF p = "a" THEN "b" ELSE "a"
Kinds == {"twin", "button", "longPress", "shortLong"}

VARIABLES
  config,       \* the kind of button, the twin's long actions, hold_repeat
  down,         \* pins that are pressed
  edges,        \* edges not delivered yet
  hold,         \* the hold thread of each pin
  twin,         \* _state
  isLong,       \* _is_long_press of the single button
  first,        \* history: the pin that was pressed first in this input
  pressed,      \* history: the pins pressed in this input
  late,         \* history: a pin moved before its last event was delivered
  calls         \* history: the actions run in this input

input == <<first, pressed, late>>
buttonVars == <<config, down, edges, hold, twin, isLong, input, calls>>

At(s, p) == [at |-> s, pin |-> p]
IdlePair == At("idle", "none")
Wait == At("wait4release", "none")
None == <<"none", "none">>

ButtonsInit ==
  /\ config \in [kind : Kinds, long : SUBSET {"a", "b", "ab"}, repeat : BOOLEAN]
  /\ config.kind # "twin" => config.long = {}
  /\ down = {} /\ edges = <<>>
  /\ hold = [p \in Pins |-> "off"]
  /\ twin = IdlePair
  /\ isLong = FALSE
  /\ first = "none" /\ pressed = {} /\ late = FALSE
  /\ calls = {}

-----------------------------------------------------------------------------
(* TwinButton._change_state: the state it goes to and the action it runs, for *)
(* an event that is an edge of a pin, the hold of a pin, or a release.        *)

TwinUp == down \intersect Twin = {}

FromIdle(e) == <<IF e[1] = "edge" THEN At("hold", e[2]) ELSE IdlePair, None>>

\* Variant: the combined press falls back to the single one.
FromHoldAlone(p, e) ==
  CASE e = <<"hold", p>> ->
         IF p \in config.long THEN <<At("cont", p), <<"long", p>>>>
                              ELSE <<Wait, <<"short", p>>>>
    [] e = <<"edge", p>> -> <<At("hold", p), None>>
    [] OTHER -> <<IdlePair, <<"short", p>>>>

FromHold(p, e) ==
  CASE e = <<"hold", p>> ->
         IF p \in config.long THEN <<At("cont", p), <<"long", p>>>>
                              ELSE <<Wait, <<"short", p>>>>
    [] e = <<"edge", OtherPin(p)>> ->
         IF "ab" \in config.long THEN <<At("contAB", OtherPin(p)), None>>
                                 ELSE <<Wait, <<"short", "ab">>>>
    [] e = <<"edge", p>> -> <<At("hold", p), None>>
    [] OTHER -> <<IdlePair, <<"short", p>>>>

FromCont(p, e) ==
  CASE e = <<"hold", p>> -> <<At("cont", p), <<"long", p>>>>
    [] e # <<"hold", p>> /\ TwinUp -> <<IdlePair, None>>
    [] OTHER -> <<Wait, None>>

\* p is the button pressed last, whose hold decides.
FromContAB(p, e) ==
  CASE e = <<"hold", p>> -> <<Wait, <<"long", "ab">>>>
    [] e = <<"hold", OtherPin(p)>> -> <<At("contAB", p), None>>
    [] OTHER -> <<Wait, <<"short", "ab">>>>

FromWait(e) == <<IF TwinUp THEN IdlePair ELSE Wait, None>>

ChangeState(e) ==
  CASE twin.at = "idle" -> FromIdle(e)
    [] twin.at = "hold" -> FromHold(twin.pin, e)
    [] twin.at = "cont" -> FromCont(twin.pin, e)
    [] twin.at = "contAB" -> FromContAB(twin.pin, e)
    [] OTHER -> FromWait(e)

Run(call) == calls' = IF call = None THEN calls ELSE calls \union {call}

TwinEvent(e) ==
  LET next == ChangeState(e) IN
  /\ twin' = next[1] /\ Run(next[2])
  /\ UNCHANGED isLong

\* Button, LongPressButton and ShortLongPressButton.
SingleEvent(e) ==
  /\ isLong' = CASE e[1] = "edge" -> FALSE [] e[1] = "hold" -> TRUE [] OTHER -> isLong
  /\ CASE config.kind = "button" ->
            Run(IF e[1] = "edge" \/ (e[1] = "hold" /\ config.repeat)
                  THEN <<"short", Single>> ELSE None)
       [] config.kind = "longPress" ->
            Run(IF e[1] = "hold" THEN <<"long", Single>> ELSE None)
       [] OTHER -> Run(CASE e[1] = "hold" -> <<"long", Single>>
                         [] e[1] = "up" /\ ~isLong -> <<"short", Single>>
                         [] OTHER -> None)
  /\ UNCHANGED twin

-----------------------------------------------------------------------------
(* gpiozero *)

Installed == IF config.kind = "twin" THEN Twin ELSE {Single}
Pending == edges # <<>> \/ \E p \in Pins : hold[p] = "due"
AtRest == down = {} /\ ~Pending

\* A pin changes.  At rest a new input begins.
Edge(p) ==
  /\ Len(edges) < MaxLag
  /\ down' = IF p \in down THEN down \ {p} ELSE down \union {p}
  /\ edges' = Append(edges, <<IF p \in down THEN "up" ELSE "edge", p>>)
  /\ IF AtRest
       THEN late' = FALSE /\ pressed' = {p} /\ first' = p /\ calls' = {}
       ELSE /\ late' = (late \/ Pending)
            /\ pressed' = pressed \union {p}
            /\ UNCHANGED <<first, calls>>
  /\ UNCHANGED <<config, hold, twin, isLong>>

\* The edge's callback, then the hold thread is told.  A hold that is due is no
\* longer called back.
Deliver ==
  /\ edges # <<>>
  /\ LET e == Head(edges) IN
       /\ IF e[2] = Single THEN SingleEvent(e) ELSE TwinEvent(e)
       /\ hold' = [hold EXCEPT ![e[2]] =
                     IF @ = "due" THEN "due"
                     ELSE IF e[1] = "edge" THEN "running" ELSE "off"]
  /\ edges' = Tail(edges)
  /\ UNCHANGED <<config, down, input>>

HoldTimePasses(p) ==
  /\ hold[p] = "running"
  /\ hold' = [hold EXCEPT ![p] = "due"]
  /\ late' = (late \/ edges # <<>>)
  /\ UNCHANGED <<config, down, edges, twin, isLong, first, pressed, calls>>

Held(p) ==
  /\ hold[p] = "due"
  /\ IF p = Single THEN SingleEvent(<<"hold", p>>) ELSE TwinEvent(<<"hold", p>>)
  /\ hold' = [hold EXCEPT ![p] = IF config.repeat /\ p \in down THEN "running" ELSE "off"]
  /\ UNCHANGED <<config, down, edges, input>>

ButtonsNext ==
  \/ Deliver
  \/ \E p \in Installed : Edge(p) \/ HoldTimePasses(p) \/ Held(p)

-----------------------------------------------------------------------------

ButtonsTypeOK ==
  /\ down \subseteq Pins
  /\ edges \in Seq({"edge", "up"} \X Pins) /\ Len(edges) <= MaxLag
  /\ hold \in [Pins -> {"off", "running", "due"}]
  /\ twin \in {IdlePair, Wait} \union [at : {"hold", "cont", "contAB"}, pin : Twin]
  /\ isLong \in BOOLEAN
  /\ calls \subseteq {"short", "long"} \X {"a", "b", "ab", "c"}

\* However late the edges come, and whatever the pins did meanwhile, a twin button
\* both of whose buttons are up is back in its idle state once everything has been
\* delivered: it is never stuck waiting for a release that has passed
\* (TwinButton._change_state).
ReleasedTwinIsIdle ==
  AtRest => twin = IdlePair

\* "Per user press input of the TwinButton, only a single callback is executed":
\* when events are delivered in time, all of one input's calls are of one kind, for
\* the button pressed first or for both if both were pressed; and a press of the
\* short-long button is a short or a long one, never both.
OneActionPerInput ==
  ~late =>
    /\ Cardinality(calls) <= 1
    /\ calls \subseteq {"short", "long"} \X
         ({first} \union IF Twin \subseteq pressed THEN {"ab"} ELSE {})
    /\ pressed # {} /\ AtRest /\ config.kind = "shortLong" => calls # {}
=============================================================================
