------------------------------ MODULE LruInclusion ------------------------------
(***************************************************************************)
(* Two caches of different size that are asked for the same addresses.     *)
(* Whoever compares two configurations expects the larger cache to hit     *)
(* whenever the smaller one does; with LRU replacement it does (with FIFO  *)
(* replacement it would not: Belady's anomaly).                            *)
(***************************************************************************)
EXTENDS Cache

CONSTANTS
    Lines,       \* the addresses
    SmallSize,   \* the two values of cacheSize
    LargeSize

ASSUME SizesAssumption ==
    /\ SmallSize \in Nat \ {0}
    /\ LargeSize \in Nat
    /\ SmallSize <= LargeSize

VARIABLES small, large
caches == <<small, large>>

Init == small = EmptyCache /\ large = EmptyCache

Ask(a) ==
    /\ small' = CacheAfter(small, a, SmallSize)
    /\ large' = CacheAfter(large, a, LargeSize)

Next == \E a \in Lines : Ask(a)

Spec == Init /\ [][Next]_caches
-----------------------------------------------------------------------------
(* The list has no address twice, the map has the addresses of the list,   *)
(* and they are never more than the size: the iterators of the map stay    *)
(* valid.                                                                  *)
WellFormed(cache, size) ==
    /\ cache \in [lruList : Seq(Lines), cachedLines : SUBSET Lines]
    /\ \A j, k \in DOMAIN cache.lruList :
          cache.lruList[j] = cache.lruList[k] => j = k
    /\ cache.cachedLines = {cache.lruList[k] : k \in DOMAIN cache.lruList}
    /\ Len(cache.lruList) <= size

ListAndMapAgree == WellFormed(small, SmallSize) /\ WellFormed(large, LargeSize)

(* The smaller cache is the front of the larger one: what hits in the      *)
(* smaller cache hits in the larger one.                                   *)
Inclusion ==
    small.lruList =
        SubSeq(large.lruList, 1,
               IF Len(large.lruList) < SmallSize THEN Len(large.lruList)
               ELSE SmallSize)
=============================================================================
