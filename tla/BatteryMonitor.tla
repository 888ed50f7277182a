--------------------------- MODULE BatteryMonitor ---------------------------
(***************************************************************************)
(* components/battery_monitor/BatteryMonitorBase.py: the two fixed-point   *)
(* filters over the sampled battery voltage and what publish_status does   *)
(* at its thresholds.                                                      *)
(*                                                                         *)
(* Voltages are in steps of 100 mV, and the filters keep Unit fractions of *)
(* a step (the code: 1 mV and 2^16), with the code's coefficients 0.5 and  *)
(* 0.01, the latter rounded up to a fraction of Unit.                      *)
(***************************************************************************)
EXTENDS Integers

CONSTANTS
  Samples,      \* voltages the converter may report
  Unit          \* fractions per step

ASSUME BatteryAssumption == Samples \subseteq Int /\ Unit \in Nat \ {0}

Ok == 34
Warning == 33
Shutdown == 30

VARIABLES
  fast, slow,   \* store of the filters f1 and fs
  charging,     \* batt_status['charging']
  actions,      \* which of warning_action and all_clear_action are configured
  called,       \* what the last publish_status called
  warned,       \* history: a publish_status before that one has called the warning,
                \* and none the all-clear since
  sudden        \* history: "start" when the first reading is below the warning's
                \* threshold; then whether the last sample was the first after such
                \* a reading, or lay too low to go by

batteryVars == <<fast, slow, charging, actions, called, warned, sudden>>

\* Variant: no filter.
FilterNot(store, coeff, input) == input * Unit

\* pt1_frac.iter: coeff of the way from the integer part to the input, added to
\* the stored value with its fraction.
Filter(store, coeff, input) == store + (input - store \div Unit) * coeff

Half == Unit \div 2
Hundredth == 1

\* So far below Shutdown as Warning is above it.
TooLow(v) == v < 2 * Shutdown - Warning

\* The filters begin with whatever is read first.
BatteryInit ==
  \E v \in Samples :
    /\ fast = v * Unit /\ slow = v * Unit
    /\ charging = 0
    /\ actions \in SUBSET {"warning", "clear"}
    /\ called = {} /\ warned = FALSE
    /\ sudden = IF v < Warning THEN "start" ELSE "no"

\* What is called at a voltage, the shutdown first.
CallsAt(voltage) ==
  {call \in {"shutdown"} : voltage < Shutdown}
    \union {call \in actions : IF call = "warning" THEN voltage < Warning ELSE voltage > Ok}

\* publish_status, on the endless timer.
PublishStatus(v) ==
  /\ fast' = Filter(fast, Half, v)
  /\ slow' = Filter(slow, Hundredth, v)
  /\ LET voltage == fast' \div Unit IN
       /\ charging' = IF voltage < slow' \div Unit THEN 0 ELSE 1
       /\ called' = CallsAt(voltage)
       /\ warned' = (voltage <= Ok /\ (warned \/ "warning" \in called))
  /\ sudden' = IF TooLow(v) \/ sudden = "start" THEN "yes" ELSE "no"
  /\ UNCHANGED actions

BatteryNext == \E v \in Samples : PublishStatus(v)

-----------------------------------------------------------------------------

BatteryTypeOK ==
  /\ fast \in Int /\ slow \in Int
  /\ charging \in {0, 1}
  /\ called \subseteq actions \union {"shutdown"}
  /\ sudden \in {"start", "no", "yes"}

\* The fixed-point filters never leave the range of what was sampled, rounding
\* included; and where a warning is configured, the box is warned of a low battery
\* by an earlier reading than the one that shuts it down, whatever went before -
\* unless that one reading lies further below the shutdown's threshold than the
\* warning's lies above it, or it is the first after a start with a low battery.
WarnedBeforeShutdown ==
  /\ \A f \in {fast, slow} : \E lo, hi \in Samples : lo <= f \div Unit /\ f \div Unit <= hi
  /\ "shutdown" \in called /\ "warning" \in actions /\ sudden = "no" => warned
=============================================================================
