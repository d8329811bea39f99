------------------------------ MODULE CacheHistory ------------------------------
(***************************************************************************)
(* The memory system with a history variable: the addresses in the order   *)
(* in which the cache was asked for them.                                  *)
(***************************************************************************)
EXTENDS MemorySystem

VARIABLE asked

AskedInit == SystemInit /\ asked = <<>>

(* SystemNext, with a note of what goes to the cache.                      *)
AskedNext ==
    \/ \E e \in DOMAIN events :
          /\ IssueRequest(e)
          /\ asked' = IF ServedByCache(e.address) THEN Append(asked, e.address)
                      ELSE asked
    \/ OtherStep /\ UNCHANGED <<memoryVars, asked>>

AskedSpec ==
    AskedInit /\ [][AskedNext]_<<allVars, asked>> /\ WF_allVars(SystemNext)

LastUse(a) == Max({k \in DOMAIN asked : asked[k] = a})

(* The cache holds exactly the cacheSize addresses that were used last,    *)
(* in the order of their last use, and the list and the map agree: what    *)
(* the cache is for, whatever the interleaving of the cores.               *)
LruExact ==
    LET used == ToSet(asked)
        more(a) == Cardinality({b \in used : LastUse(b) > LastUse(a)})
        kept == {a \in used : more(a) < config.cacheSize}
    IN  /\ cache.cachedLines = kept
        /\ Len(cache.lruList) = Cardinality(kept)
        /\ \A a \in kept : cache.lruList[more(a) + 1] = a
=============================================================================
