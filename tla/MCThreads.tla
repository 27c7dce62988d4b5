------------------------------ MODULE MCThreads ------------------------------
(* What must go on: the turns the main thread gives to two actors, under the  *)
(* rules of Baldur's Gate 2, and the log's thread; and beside them the ring of *)
(* the music stream and the cache of sounds. They share no state with each     *)
(* other, and a behaviour is one of one of them.                               *)
EXTENDS MCActionQueue, Logger, RingBuffer, LRUCache

VARIABLE part

allVars == <<vars, logVars, ringVars, cacheVars, part>>

MCInit ==
  /\ Init /\ LogInit /\ RingInit /\ CacheInit
  /\ part \in {"duel", "log", "ring", "cache"}
  /\ part # "duel" => who = a1

MCNext ==
  \/ part = "duel" /\ Next /\ UNCHANGED <<logVars, ringVars, cacheVars, part>>
  \/ part = "log" /\ LogNext /\ UNCHANGED <<vars, ringVars, cacheVars, part>>
  \/ part = "ring" /\ RingNext /\ UNCHANGED <<vars, logVars, cacheVars, part>>
  \/ part = "cache" /\ CacheNext /\ UNCHANGED <<vars, logVars, ringVars, part>>

MCSpec == MCInit /\ [][MCNext]_allVars

\* The fairness of the log and of the script engine's turns.
MCFairSpec ==
  /\ MCSpec
  /\ WF_logVars(part = "log" /\ ThreadStep)
  /\ WF_logVars(part = "log" /\ NotifyEnd)
  /\ WF_logVars(part = "log" /\ Join)
  /\ WF_vars(part = "duel" /\ Proceed)
  /\ \A s \in Scriptables : SF_vars(part = "duel" /\ Begin(s))
=============================================================================
