------------------------------ MODULE MCTimers -------------------------------
(* One timer, and the timers of the fade-out: a behaviour is one part's        *)
(* behaviour, the other part at rest.  The fade-out builds on what the other   *)
(* part shows of a single timer: an uncancelled one calls its function, one    *)
(* cancelled while it waits does not.                                          *)
EXTENDS MultiTimer, FadeOut

VARIABLE part

ShortAndLong == {"short", "long"}

SumInit == part \in {"timer", "fadeout"} /\ Init /\ FadeInit

SumNext ==
  /\ UNCHANGED part
  /\ \/ part = "timer" /\ Next /\ UNCHANGED fadeVars
     \/ part = "fadeout" /\ FadeNext /\ UNCHANGED vars

\* The timer's fairness, as in FairSpec: none of its steps is enabled at its start.
SumSpec ==
  /\ SumInit /\ [][SumNext]_<<part, vars, fadeVars>>
  /\ WF_vars(ThreadStep) /\ WF_vars(CallerStep)
=============================================================================
