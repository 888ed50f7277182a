--------------------------- MODULE HandoffStatus ---------------------------
(***************************************************************************)
(* The status the Web UI is shown while backends hand over: the publisher  *)
(* loops of MPD and Spotify, gated on coordinator.current(), and the       *)
(* clean-up status a hand-off publishes for the outgoing backend           *)
(* (components/playermpd/__init__.py _mpd_status_poll,                     *)
(* components/playerspotify/__init__.py _poll_status_once,                 *)
(* _publish_status, _publish_cleanup_status).                              *)
(*                                                                         *)
(* A publisher reads the state of its device, then looks at the gate, then *)
(* sends: three moments between which the hand-off may move.               *)
(***************************************************************************)
EXTENDS PlayerCoordinator

CONSTANTS
  Publishers,   \* backends with a status loop (mpd, spotify, not the podcast player)
  HasCleanup    \* backends that registered a publish_cleanup_fn (spotify)

VARIABLES
  poll,         \* where each publisher is: "wait", "gate" or "send"
  playing,      \* what it read: is something audible on its device?
  shown         \* the last playerstatus: its backend, and whether it plays

statusVars == <<poll, playing, shown>>

allVars == <<vars, statusVars>>

StatusInit ==
  /\ Init
  /\ poll = [b \in Publishers |-> "wait"]
  /\ playing = [b \in Publishers |-> FALSE]
  /\ shown = [from |-> NoBackend, playing |-> FALSE]

\* _fetch_status, or MPD's status and currentsong.
ReadStatus(b) ==
  /\ poll[b] = "wait"
  /\ playing' = [playing EXCEPT ![b] = sounding[Device[b]] # NoBackend]
  /\ poll' = [poll EXCEPT ![b] = "gate"]
  /\ UNCHANGED <<vars, shown>>

\* The device does not answer: what was read before is good enough.
ReadFails(b) ==
  /\ poll[b] = "wait"
  /\ poll' = [poll EXCEPT ![b] = "gate"]
  /\ UNCHANGED <<vars, playing, shown>>

\* Variant: the publisher does not look at the slot.
GateAlwaysOpen(b) ==
  /\ poll[b] = "gate"
  /\ poll' = [poll EXCEPT ![b] = "send"]
  /\ UNCHANGED <<vars, playing, shown>>

\* if coordinator.current() == my name ...
CheckGate(b) ==
  /\ poll[b] = "gate"
  /\ poll' = [poll EXCEPT ![b] = IF current = b THEN "send" ELSE "wait"]
  /\ UNCHANGED <<vars, playing, shown>>

\* ... send('playerstatus', what was read)
SendStatus(b) ==
  /\ poll[b] = "send"
  /\ shown' = [from |-> b, playing |-> playing[b]]
  /\ poll' = [poll EXCEPT ![b] = "wait"]
  /\ UNCHANGED <<vars, playing>>

\* The hand-off's clean-up step with what it sends.
PublishCleanup(t) ==
  /\ Cleanup(t)
  /\ shown' = IF outgoing[t] \in HasCleanup
                THEN [from |-> outgoing[t], playing |-> FALSE]
                ELSE shown
  /\ UNCHANGED <<poll, playing>>

StatusNext ==
  \/ \E b \in Publishers :
       ReadStatus(b) \/ ReadFails(b) \/ CheckGate(b) \/ SendStatus(b)
  \/ \E t \in Threads : PublishCleanup(t)
  \/ Next /\ ~(\E t \in Threads : Cleanup(t)) /\ UNCHANGED statusVars

\* The publisher loops run for ever, and a device that fails to answer is not
\* gone for good.
StatusFairness ==
  \A b \in Publishers :
    /\ SF_allVars(ReadStatus(b))
    /\ WF_allVars(CheckGate(b) \/ SendStatus(b))

-----------------------------------------------------------------------------

\* When a backend with a status loop keeps the slot and goes on playing, the Web UI
\* ends up showing that backend as playing: neither the other publisher loop, nor a
\* status read before the hand-off, nor the clean-up keeps taking the display back.
\* While a backend without one keeps the slot nobody's gate is open: the display
\* comes to rest, on whatever was sent last.
ActiveBackendIsShown ==
  /\ \A b \in Publishers :
       <>[](current = b /\ sounding[Device[b]] = b)
         => <>[](shown = [from |-> b, playing |-> TRUE])
  /\ <>[](current \notin Publishers) => <>[][UNCHANGED shown]_shown
=============================================================================
