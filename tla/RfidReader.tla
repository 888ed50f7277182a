----------------------------- MODULE RfidReader -----------------------------
(***************************************************************************)
(* A place-not-swipe RFID reader and its card-removal watchdog             *)
(* (components/rfid/reader/__init__.py, ReaderRunner.run and               *)
(* CardRemovalTimerClass.run).                                             *)
(*                                                                         *)
(* The reader thread reads the card that lies on it about five times a     *)
(* second, decides whether the read counts, runs the card's action and     *)
(* keeps the watchdog's event set for the while of a read.  The watchdog   *)
(* runs the removal action when a second has passed without the event.     *)
(* Both actions go through plugs.call and so never overlap.                *)
(*                                                                         *)
(* Time is left out but for two facts: a card that lies on the reader is   *)
(* read again before either the watchdog's second or same_id_delay is      *)
(* over, and same_id_delay (one second) is over when the watchdog's is.    *)
(***************************************************************************)
EXTENDS Naturals

CONSTANTS
  Cards,
  NoCard,    \* nothing on the reader; the '' of previous_id
  Kind       \* what cards.yaml says of a card

Kinds == {"plain", "ignoreRemoval", "fast", "unknown"}

ASSUME CardsAssumption ==
  /\ NoCard \notin Cards
  /\ Kind \in [Cards -> Kinds]

VARIABLES
  lying,      \* the card on the reader
  reader,     \* where the reader thread is: "read", "act" or "rest"
  card,       \* card_id, the card it has read
  previous,   \* previous_id
  valid,      \* valid_for_removal_action
  delayOver,  \* time.time() - previous_time >= same_id_delay
  trigger,    \* the watchdog's event
  watch,      \* where the watchdog is: "sleep", "wait", "look" or "call"
  silent,     \* the card was away at some time of this wait
  timedOut,   \* has_timed_out
  armedBy,    \* history: the card that set the event last since the watchdog last
              \* decided to call its action
  actions     \* history: actions the lying card has had since it was placed, up to 2

rfidVars == <<lying, reader, card, previous, valid, delayOver, trigger, watch, silent,
              timedOut, armedBy, actions>>

readerVars == <<reader, card, previous, valid>>

\* The card lies there and every read of it sets the event.
Rereading == valid /\ lying = previous

\* trigger.set() wakes a watchdog that waits.
SetTrigger(c) ==
  /\ trigger' = TRUE
  /\ watch' = IF watch = "wait" THEN "look" ELSE watch
  /\ armedBy' = c

ReaderInit ==
  /\ lying = NoCard
  /\ reader = "read"
  /\ card = NoCard
  /\ previous = NoCard
  /\ valid = FALSE
  /\ delayOver = FALSE
  /\ trigger = FALSE
  /\ watch = "sleep"
  /\ silent = FALSE
  /\ timedOut = TRUE
  /\ armedBy = NoCard
  /\ actions = 0

-----------------------------------------------------------------------------
(* The reader thread *)

\* A read that comes back empty.
ReadNothing ==
  /\ reader = "read"
  /\ lying = NoCard
  /\ reader' = "rest"
  /\ UNCHANGED <<lying, card, previous, valid, delayOver, trigger, watch, silent,
                 timedOut, armedBy, actions>>

\* The same card within same_id_delay only keeps the watchdog off.
ReadSame ==
  /\ reader = "read"
  /\ lying # NoCard
  /\ lying = previous
  /\ ~delayOver
  /\ IF valid THEN SetTrigger(lying) ELSE UNCHANGED <<trigger, watch, armedBy>>
  /\ reader' = "rest"
  /\ UNCHANGED <<lying, card, previous, valid, delayOver, silent, timedOut, actions>>

\* Variant: every card counts as the one read before, once it was acted upon.
ReadNewForgets ==
  /\ reader = "read"
  /\ lying # NoCard
  /\ lying # previous \/ delayOver
  /\ card' = lying
  /\ previous' = NoCard
  /\ valid' = (Kind[lying] = "plain")
  /\ IF Kind[lying] = "plain"
       THEN SetTrigger(lying)
       ELSE UNCHANGED <<trigger, watch, armedBy>>
  /\ delayOver' = FALSE
  /\ reader' = IF Kind[lying] = "unknown" THEN "rest" ELSE "act"
  /\ UNCHANGED <<lying, silent, timedOut, actions>>

\* Variant: valid_for_removal_action is not reset for a new card.
ReadNewStaysValid ==
  /\ reader = "read"
  /\ lying # NoCard
  /\ lying # previous \/ delayOver
  /\ card' = lying
  /\ previous' = IF Kind[lying] = "fast" THEN NoCard ELSE lying
  /\ valid' = (valid \/ Kind[lying] = "plain")
  /\ IF Kind[lying] = "plain"
       THEN SetTrigger(lying)
       ELSE UNCHANGED <<trigger, watch, armedBy>>
  /\ delayOver' = FALSE
  /\ reader' = IF Kind[lying] = "unknown" THEN "rest" ELSE "act"
  /\ UNCHANGED <<lying, silent, timedOut, actions>>

\* Another card, or the same one after same_id_delay: look it up, set the event
\* if its removal counts, and go on to its action.
ReadNew ==
  /\ reader = "read"
  /\ lying # NoCard
  /\ lying # previous \/ delayOver
  /\ card' = lying
  /\ previous' = IF Kind[lying] = "fast" THEN NoCard ELSE lying
  /\ valid' = (Kind[lying] = "plain")
  /\ IF Kind[lying] = "plain" \/ Rereading
       THEN SetTrigger(lying)
       ELSE UNCHANGED <<trigger, watch, armedBy>>
  /\ delayOver' = FALSE
  /\ reader' = IF Kind[lying] = "unknown" THEN "rest" ELSE "act"
  /\ UNCHANGED <<lying, silent, timedOut, actions>>

\* The card's action, after waiting for the plugs lock.
Act ==
  /\ reader = "act"
  /\ actions' = IF lying = card /\ actions < 2 THEN actions + 1 ELSE actions
  /\ reader' = "rest"
  /\ UNCHANGED <<lying, card, previous, valid, delayOver, trigger, watch, silent,
                 timedOut, armedBy>>

\* Variant: the event is only ever set.
RestKeepsEvent ==
  /\ reader = "rest"
  /\ reader' = "read"
  /\ UNCHANGED <<lying, card, previous, valid, delayOver, trigger, watch, silent,
                 timedOut, armedBy, actions>>

\* _cancel.wait(0.2), then trigger.clear()
Rest ==
  /\ reader = "rest"
  /\ trigger' = FALSE
  /\ reader' = "read"
  /\ UNCHANGED <<lying, card, previous, valid, delayOver, watch, silent, timedOut,
                 armedBy, actions>>

ReaderStep == ReadNothing \/ ReadSame \/ ReadNew \/ Act \/ Rest

-----------------------------------------------------------------------------
(* The watchdog *)

\* sleep(0.2), then wait(1), which returns at once when the event is set.
Sleep ==
  /\ watch = "sleep"
  /\ watch' = IF trigger THEN "look" ELSE "wait"
  /\ silent' = ~Rereading
  /\ UNCHANGED <<lying, readerVars, delayOver, trigger, timedOut, armedBy, actions>>

\* The second is over: the card had been away, and same_id_delay is over, too.
WaitTimesOut ==
  /\ watch = "wait"
  /\ silent
  /\ watch' = "look"
  /\ UNCHANGED <<lying, readerVars, delayOver, trigger, silent, timedOut, armedBy,
                 actions>>

Look ==
  /\ watch = "look"
  /\ \/ /\ trigger \/ timedOut
        /\ timedOut' = ~trigger
        /\ watch' = "sleep"
        /\ UNCHANGED armedBy
     \/ /\ ~trigger /\ ~timedOut
        /\ watch' = "call"
        /\ armedBy' = NoCard
        /\ UNCHANGED timedOut
  /\ UNCHANGED <<lying, readerVars, delayOver, trigger, silent, actions>>

\* timeout_action(), the configured card_removal_action.
CallRemoval ==
  /\ watch = "call"
  /\ timedOut' = TRUE
  /\ watch' = "sleep"
  /\ UNCHANGED <<lying, readerVars, delayOver, trigger, silent, armedBy, actions>>

WatchdogStep == Sleep \/ WaitTimesOut \/ Look \/ CallRemoval

-----------------------------------------------------------------------------
(* Who places and takes cards, and the clock *)

Place(c) ==
  /\ lying = NoCard
  /\ lying' = c
  /\ actions' = 0
  /\ UNCHANGED <<readerVars, delayOver, trigger, watch, silent, timedOut, armedBy>>

Take ==
  /\ lying # NoCard
  /\ lying' = NoCard
  /\ silent' = TRUE
  /\ UNCHANGED <<readerVars, delayOver, trigger, watch, timedOut, armedBy, actions>>

\* Nobody has read the previous card for same_id_delay.
DelayPasses ==
  /\ reader = "read"
  /\ lying # previous
  /\ ~delayOver
  /\ delayOver' = TRUE
  /\ UNCHANGED <<lying, readerVars, trigger, watch, silent, timedOut, armedBy, actions>>

ReaderNext ==
  \/ ReaderStep
  \/ WatchdogStep
  \/ \E c \in Cards : Place(c)
  \/ Take
  \/ DelayPasses

\* Both threads run for ever; a wait for a card that is gone is over at last.
ReaderSpec == ReaderInit /\ [][ReaderNext]_rfidVars /\ WF_rfidVars(ReaderStep) /\ WF_rfidVars(WatchdogStep)

-----------------------------------------------------------------------------

ReaderTypeOK ==
  /\ lying \in Cards \union {NoCard}
  /\ card \in Cards \union {NoCard}
  /\ previous \in Cards \union {NoCard}
  /\ armedBy \in Cards \union {NoCard}
  /\ reader \in {"read", "act", "rest"}
  /\ valid \in BOOLEAN
  /\ delayOver \in BOOLEAN
  /\ trigger \in BOOLEAN
  /\ silent \in BOOLEAN
  /\ timedOut \in BOOLEAN
  /\ watch \in {"sleep", "wait", "look", "call"}
  /\ actions \in 0..2
  /\ valid => previous # NoCard

\* The removal action runs only for a card that neither ignores it nor repeats,
\* and not twice for one: since the last time it was decided upon, such a card
\* has set the event.
EveryRemovalIsEarned ==
  [][ watch # "call" /\ watch' = "call"
        => armedBy # NoCard /\ Kind[armedBy] = "plain" ]_rfidVars

\* "The daemon suppresses repeats using same_id_delay" (SPEC.md 3.2): a card
\* acts once while it lies on the reader, however long its action takes, unless
\* it asks to repeat.
LyingCardActsOnce ==
  lying # NoCard /\ actions = 2 => Kind[lying] = "fast"

\* "The daemon runs a card removal action when the card leaves the field"
\* (SPEC.md 3.3): when the reader stays empty, no card that the watchdog has
\* seen is left without its removal action.
RemovalFollows ==
  <>[](lying = NoCard) => <>[](timedOut /\ watch # "call")
=============================================================================
