----------------------------- MODULE IdleShutdown -----------------------------
(* The idle shutdown: a timer that looks at the player's status every ten        *)
(* seconds, and starts or cancels another that is to shut the box down when the  *)
(* player has been idle for long enough.  Its calls go through plugs.call, which *)
(* logs what they raise (call_ignore_errors).  What a timer does by itself is    *)
(* MultiTimer's matter.                                                          *)

CONSTANTS Statuses   \* of the player, with the position of what it plays

VARIABLES
  player,     \* playerstatus
  lastStatus, \* last_player_status of the IdleCheck
  checking,   \* private_timer_idle_check runs
  counting,   \* private_timer_idle_shutdown runs
  ssh,        \* somebody is logged in
  down        \* host.shutdown was called

idleVars == <<player, lastStatus, checking, counting, ssh, down>>

\* What the classes that a GenericMultiTimerClass is given can be built from.
ParametersOf == [VolumeFadeoutAction |-> {"iterations"}, IdleShutdown |-> {}]

\* init_idle_shutdown, init_idle_check: checking, if a timeout is configured.
IdleInit ==
  /\ player \in Statuses /\ lastStatus = player
  /\ checking \in BOOLEAN /\ counting = FALSE
  /\ ssh = FALSE /\ down = FALSE

\* GenericMultiTimerClass.start: the callee is built first, from the iterations,
\* and what that raises is logged.
StartCounting == counting' = IF "iterations" \in ParametersOf.IdleShutdown THEN TRUE ELSE counting

\* IdleCheck.__call__.
CheckPlayer ==
  /\ checking
  /\ IF lastStatus = player THEN StartCounting ELSE counting' = FALSE
  /\ lastStatus' = player
  /\ UNCHANGED <<player, checking, ssh, down>>

\* IdleShutdown.__call__, at the end of the timeout: a minute more while somebody
\* is logged in.
LastChecks ==
  /\ counting
  /\ IF ssh
       THEN UNCHANGED <<checking, counting, down>>
       ELSE checking' = FALSE /\ counting' = FALSE /\ down' = TRUE
  /\ UNCHANGED <<player, lastStatus, ssh>>

\* start, from the user interface.
StartIdle ==
  /\ checking' = TRUE
  /\ UNCHANGED <<player, lastStatus, counting, ssh, down>>

CancelIdle ==
  /\ checking' = FALSE /\ counting' = FALSE
  /\ UNCHANGED <<player, lastStatus, ssh, down>>

PlayerChanges(s) ==
  /\ player' = s /\ UNCHANGED <<lastStatus, checking, counting, ssh, down>>

LoginOrOut ==
  /\ ssh' = ~ssh /\ UNCHANGED <<player, lastStatus, checking, counting, down>>

IdleNext ==
  \/ CheckPlayer \/ LastChecks \/ StartIdle \/ CancelIdle \/ LoginOrOut
  \/ \E s \in Statuses : PlayerChanges(s)

\* Both timers go on.
IdleSpec ==
  IdleInit /\ [][IdleNext]_idleVars /\ WF_idleVars(CheckPlayer) /\ WF_idleVars(LastChecks)

-----------------------------------------------------------------------------

\* "Regularly check if player has activity, if not private_timer_idle_check will
\* start/cancel private_timer_idle_shutdown" (init_idle_check): a box whose idle
\* shutdown is on and whose player stays as it is, with nobody logged in, is shut
\* down at last.
IdleBoxIsShutDown ==
  \A s \in Statuses : <>[](checking /\ player = s /\ ~ssh) => <>down
=============================================================================
