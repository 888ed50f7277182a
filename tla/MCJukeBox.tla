------------------------------ MODULE MCJukeBox -------------------------------
(* The daemon with three packages: publishing first and misc, as in             *)
(* jukebox.yaml, and the jingles, whose atexit function plays a sound.  Beside   *)
(* it what its card reader does: the reader with five cards (two that play       *)
(* something and are paused when taken away, a command card, a volume card and   *)
(* an unknown one), and the database of two cards.  A behaviour is one part's    *)
(* behaviour, the others at rest.  To the daemon the reader is one of the        *)
(* callers; the reader looks a card up each time it reads one, and only that the *)
(* kind of a card does not change while it lies there relates it to the database.*)
EXTENDS JukeBox, RfidReader, CardsDatabase

VARIABLE part

LoadOrder == <<"publishing", "misc", "jingle">>
Jingle == {"jingle"}

FiveCards == {"musicA", "musicB", "command", "volume", "stranger"}
KindOf ==
  [c \in Cards |->
     CASE c = "command" -> "ignoreRemoval"
       [] c = "volume" -> "fast"
       [] c = "stranger" -> "unknown"
       [] OTHER -> "plain"]

SumInit ==
  /\ part \in {"daemon", "reader", "database"}
  /\ Init /\ ReaderInit /\ CardsInit
  /\ part # "database" => remote = Empty

SumNext ==
  /\ UNCHANGED part
  /\ \/ part = "daemon" /\ Next /\ UNCHANGED <<rfidVars, cardsVars>>
     \/ part = "reader" /\ ReaderNext /\ UNCHANGED <<vars, cardsVars>>
     \/ part = "database" /\ CardsNext /\ UNCHANGED <<vars, rfidVars>>

\* The fairness of each part; JoinEnds is not enabled while the daemon is at rest.
SumSpec ==
  /\ SumInit /\ [][SumNext]_<<part, vars, rfidVars, cardsVars>>
  /\ WF_vars(JoinEnds)
  /\ WF_rfidVars(part = "reader" /\ ReaderStep) /\ WF_rfidVars(part = "reader" /\ WatchdogStep)
=============================================================================
