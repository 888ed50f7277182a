---------------------------- MODULE PublishServer ----------------------------
(* The publishing of the box's state: every thread of the box has a publisher,  *)
(* whose messages reach the server's thread in the order they were sent; the    *)
(* server keeps the last value of each topic, forwards what it receives and, to *)
(* a new subscription, sends what it keeps, to all subscribers.                 *)
(* A topic is published by one thread; the remote calls' thread asks for all of *)
(* it to be sent again.                                                         *)
EXTENDS Sequences, SequencesExt

CONSTANTS
  Topics, Revocable,   \* Revocable: the CPU's temperature, once it cannot be read
  Contents,            \* what a message on a topic may say
  Nothing,             \* no message, an empty one
  Subscribers,
  MaxWaiting, MaxInbox \* bounds: messages on their way to the server, to a subscriber

ASSUME PublishAssumption ==
  /\ Revocable \subseteq Topics /\ Nothing \notin Contents
  /\ IsFiniteSet(Topics) /\ Topics \intersect {"all", "close", "rpc"} = {}
  /\ MaxWaiting \in Nat /\ MaxInbox \in Nat

VARIABLES
  state,       \* what the publishing plugin knows, per topic
  waiting,     \* per thread: its messages on their way to the server
  kept,        \* the last value cache
  noticed,     \* subscribers whose subscription the server has not looked at yet
  joined,      \* subscribers that are connected and subscribed
  inbox,       \* per subscriber: messages on their way to it
  seen,        \* per subscriber: what it shows, kept when it drops off
  serving      \* close_server has not been handled yet

publishVars == <<state, waiting, kept, noticed, joined, inbox, seen, serving>>

Message(t, v) == [topic |-> t, content |-> v]
Resend == Message("all", Nothing)
CloseServer == Message("close", Nothing)

PublishInit ==
  /\ state = [t \in Topics |-> Nothing] /\ kept = state
  /\ waiting = [s \in Topics \cup {"rpc"} |-> <<>>]
  /\ noticed = {} /\ joined = {}
  /\ inbox = [s \in Subscribers |-> <<>>]
  /\ seen = [s \in Subscribers |-> state]
  /\ serving = TRUE

Post(thread, m) ==
  /\ Len(waiting[thread]) < MaxWaiting
  /\ waiting' = [waiting EXCEPT ![thread] = Append(@, m)]

\* Publisher.send and Publisher.revoke.
Publish(t, v) ==
  /\ v = Nothing => t \in Revocable
  /\ Post(t, Message(t, v))
  /\ state' = [state EXCEPT ![t] = v]
  /\ UNCHANGED <<kept, noticed, joined, inbox, seen, serving>>

\* republish, and at the end closing's close_server.
Command(m) ==
  /\ Post("rpc", m)
  /\ UNCHANGED <<state, kept, noticed, joined, inbox, seen, serving>>

----------------------------------------------------------------------------
(* The server's thread.                                                       *)

\* What the XPUB socket sends reaches those that have subscribed.
SendAll(messages) ==
  /\ \A s \in joined : Len(inbox[s]) + Len(messages) <= MaxInbox
  /\ inbox' = [s \in Subscribers |-> inbox[s] \o (IF s \in joined THEN messages ELSE <<>>)]

\* LastValueCache.send: all it keeps, in some order.
KeptMessages == SetToSeq({Message(t, kept[t]) : t \in {u \in Topics : kept[u] # Nothing}})

\* The revocation of what is not kept raises and is not forwarded.
Forward(m) ==
  /\ kept' = [kept EXCEPT ![m.topic] = m.content]
  /\ SendAll(IF m.content = Nothing /\ kept[m.topic] = Nothing THEN <<>> ELSE <<m>>)
  /\ UNCHANGED serving

HandleMessage(thread) ==
  /\ serving /\ waiting[thread] # <<>>
  /\ LET m == Head(waiting[thread]) IN
       CASE m = Resend -> SendAll(KeptMessages) /\ UNCHANGED <<kept, serving>>
         [] m = CloseServer -> serving' = FALSE /\ UNCHANGED <<kept, inbox>>
         [] OTHER -> Forward(m)
  /\ waiting' = [waiting EXCEPT ![thread] = Tail(@)]
  /\ UNCHANGED <<state, noticed, joined, seen>>

HandleSubscription(s) ==
  /\ serving /\ s \in noticed
  /\ noticed' = noticed \ {s}
  /\ SendAll(KeptMessages)
  /\ UNCHANGED <<state, waiting, kept, joined, seen, serving>>

----------------------------------------------------------------------------
(* The subscribers.                                                           *)

\* Variant: without XPUB_VERBOSE the socket keeps quiet about a topic that
\* somebody has subscribed to already.
JoinQuietly(s) ==
  /\ s \notin joined
  /\ noticed' = IF joined = {} THEN noticed \cup {s} ELSE noticed
  /\ joined' = joined \cup {s} /\ inbox' = [inbox EXCEPT ![s] = <<>>]
  /\ UNCHANGED <<state, waiting, kept, seen, serving>>

\* It connects, or comes back, and subscribes to everything; the socket tells the
\* server of each subscription, XPUB_VERBOSE.
Join(s) ==
  /\ s \notin joined
  /\ noticed' = noticed \cup {s}
  /\ joined' = joined \cup {s} /\ inbox' = [inbox EXCEPT ![s] = <<>>]
  /\ UNCHANGED <<state, waiting, kept, seen, serving>>

\* The connection breaks, with what was under way.
DropOff(s) ==
  /\ s \in joined
  /\ joined' = joined \ {s} /\ noticed' = noticed \ {s}
  /\ inbox' = [inbox EXCEPT ![s] = <<>>]
  /\ UNCHANGED <<state, waiting, kept, seen, serving>>

Receive(s) ==
  /\ inbox[s] # <<>>
  /\ LET m == Head(inbox[s]) IN seen' = [seen EXCEPT ![s][m.topic] = m.content]
  /\ inbox' = [inbox EXCEPT ![s] = Tail(@)]
  /\ UNCHANGED <<state, waiting, kept, noticed, joined, serving>>

PublishNext ==
  \/ \E t \in Topics, v \in Contents \cup {Nothing} : Publish(t, v)
  \/ Command(Resend) \/ Command(CloseServer)
  \/ \E thread \in DOMAIN waiting : HandleMessage(thread)
  \/ \E s \in Subscribers : HandleSubscription(s) \/ Join(s) \/ DropOff(s) \/ Receive(s)

PublishSpec == PublishInit /\ [][PublishNext]_publishVars

----------------------------------------------------------------------------

About(messages, t) == {i \in DOMAIN messages : messages[i].topic = t}

\* What a subscriber shows once it has received what is on its way to it.
WillShow(s, t) ==
  IF About(inbox[s], t) = {} THEN seen[s][t]
  ELSE inbox[s][Max(About(inbox[s], t))].content

\* "Late joining client (or drop-off and re-join): get full state update"
\* (publishing/server.py): whoever is subscribed, whenever it came or came back,
\* ends up with the last value of every topic that has one, and that is what the
\* plugin last knew when nothing is on its way to the server.
JoinedIsCurrent ==
  \A t \in Topics :
    /\ waiting[t] = <<>> => kept[t] = state[t]
    /\ \A s \in joined \ noticed : kept[t] # Nothing => WillShow(s, t) = kept[t]
=============================================================================
