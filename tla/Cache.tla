--------------------------------- MODULE Cache ---------------------------------
(***************************************************************************)
(* The cache (Cache.cpp): a list of addresses, the most recently used one  *)
(* first, and a map from an address to its place in the list.  Only the    *)
(* keys of the map are kept here, beside the list, because the code asks   *)
(* the map whether an address is cached and how many there are.            *)
(*                                                                         *)
(* The ports and the port queue belong to member functions nothing calls.  *)
(***************************************************************************)
EXTENDS Integers, Sequences, SequencesExt, FiniteSets

EmptyCache == [lruList |-> <<>>, cachedLines |-> {}]

Hit(cache, a) == a \in cache.cachedLines

(* Where the iterator the map holds for a points.                          *)
Place(list, a) == CHOOSE k \in DOMAIN list : list[k] = a

(* Mutant of Touch: a hit does not count as a use.                         *)
LeaveInPlace(cache, a) == cache

(* lookup() of a cached address moves it to the front.                     *)
Touch(cache, a) ==
    [cache EXCEPT !.lruList = <<a>> \o RemoveAt(@, Place(@, a))]

(* Mutant of Evict: the line stays in the map.                             *)
EvictFromList(cache) ==
    [cache EXCEPT !.lruList = SubSeq(@, 1, Len(@) - 1)]

(* The last address of the list leaves the list and the map.               *)
Evict(cache) ==
    LET list == cache.lruList
    IN  [lruList |-> SubSeq(list, 1, Len(list) - 1),
         cachedLines |-> cache.cachedLines \ {list[Len(list)]}]

Full(cache, size) == Cardinality(cache.cachedLines) >= size

(* insert() of an address that is not cached.                              *)
Insert(cache, a, size) ==
    LET room == IF Full(cache, size) THEN Evict(cache) ELSE cache
    IN  [lruList |-> <<a>> \o room.lruList,
         cachedLines |-> room.cachedLines \cup {a}]

(* What handleCacheAccess() leaves of the cache.                           *)
CacheAfter(cache, a, size) ==
    IF Hit(cache, a) THEN Touch(cache, a) ELSE Insert(cache, a, size)
=============================================================================
