------------------------------- MODULE MCMpd --------------------------------
(* The wire, the store and the cover cache of MPD's player: a behaviour is one *)
(* part's behaviour, the others at rest.  They share no state: the store's and *)
(* the cache's methods take no wire lock, the wire's none of their locks.      *)
EXTENDS MpdWire, MpdStore, CoverCache

VARIABLE part

vars == <<part, wireVars, storeVars, coverVars>>

Init == part \in {"wire", "store", "covers"} /\ WireInit /\ StoreInit /\ CoverInit

Next ==
  /\ UNCHANGED part
  /\ \/ part = "wire" /\ WireNext /\ UNCHANGED <<storeVars, coverVars>>
     \/ part = "store" /\ StoreNext /\ UNCHANGED <<wireVars, coverVars>>
     \/ part = "covers" /\ CoverNext /\ UNCHANGED <<wireVars, storeVars>>

\* A thread that may go on does, and one that waits for a lock gets it when it is
\* free again and again.  (None of these is
\* enabled in a part that is at rest.)
Fairness ==
  /\ \A t \in Threads : SF_wireVars(EnterLock(t)) /\ WF_wireVars(Go(t))
  /\ \A c \in Callers : WF_wireVars(Decide(c)) /\ WF_wireVars(Join(c))
  /\ WF_coverVars(WriterNext)

Spec == Init /\ [][Next]_vars /\ Fairness
=============================================================================
