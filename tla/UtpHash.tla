-------------------------------- MODULE UtpHash --------------------------------
(***************************************************************************)
(* The chained hash table of the context's sockets, as it lies in memory:  *)
(* buckets that start chains of links through an array of elements, and a  *)
(* free list through the elements that were deleted.                       *)
(***************************************************************************)
EXTENDS Integers, Sequences, FiniteSets

CONSTANTS
    BUCKETS,        \* UTP_SOCKET_BUCKETS
    INITIAL,        \* UTP_SOCKET_INIT
    HashOf(_)       \* compute_hash of a key

ASSUME HashAssumption == BUCKETS % 2 = 1 /\ INITIAL \in Nat \ {0}

UNUSED == -1

\* elems are the elements used so far: their key, their value and their link.
Create ==
    [inits |-> [b \in 0 .. BUCKETS - 1 |-> UNUSED], elems |-> << >>, allocated |-> INITIAL,
     free |-> UNUSED, count |-> 0]

mkidx(key) == HashOf(key) % BUCKETS

\* The elements that the links lead to from cur, cut off where they go round.
RECURSIVE Chain(_, _, _)
Chain(h, cur, n) ==
    IF cur = UNUSED \/ n = 0 THEN << >> ELSE <<cur>> \o Chain(h, h.elems[cur + 1].link, n - 1)
ChainAt(h, b) == Chain(h, h.inits[b], Len(h.elems) + 1)

\* The first element of a chain that has the key, as a place in the chain, or 0.
FirstWith(h, chain, key) ==
    LET found == {i \in DOMAIN chain : h.elems[chain[i] + 1].key = key}
    IN  IF found = {} THEN 0 ELSE CHOOSE i \in found : \A j \in found : i <= j

\* The value that has the key, or none.
Lookup(h, key, none) ==
    LET chain == ChainAt(h, mkidx(key))
        i == FirstWith(h, chain, key)
    IN  IF i = 0 THEN none ELSE h.elems[chain[i] + 1].value

\* A new element goes in front of its chain.  It is the first of the free list
\* or the next of the array, which doubles when it is full (it never comes near
\* the 2^32 elements that would stop it).
Linked(h, e, key, value) ==
    [h EXCEPT !.elems[e + 1] = [key |-> key, value |-> value, link |-> h.inits[mkidx(key)]],
              !.inits[mkidx(key)] = e, !.count = @ + 1]
Add(h, key, value) ==
    IF h.free # UNUSED
    THEN Linked([h EXCEPT !.free = h.elems[h.free + 1].link], h.free, key, value)
    ELSE Linked([h EXCEPT !.elems = Append(@, [key |-> key, value |-> value, link |-> UNUSED]),
                          !.allocated = IF Len(h.elems) = @ THEN 2 * @ ELSE @],
                Len(h.elems), key, value)

\* An element is taken out of its chain and put on the free list; nobody reads
\* what else it holds.
Unlinked(h, chain, i, b) ==
    LET next == h.elems[chain[i] + 1].link
    IN  IF i = 1 THEN [h EXCEPT !.inits[b] = next] ELSE [h EXCEPT !.elems[chain[i - 1] + 1].link = next]
Freed(h, e) ==
    [h EXCEPT !.elems[e + 1] = [key |-> UNUSED, value |-> UNUSED, link |-> h.free],
              !.free = e, !.count = @ - 1]

Delete(h, key) ==
    LET chain == ChainAt(h, mkidx(key))
        i == FirstWith(h, chain, key)
    IN  IF i = 0 THEN h ELSE Freed(Unlinked(h, chain, i, mkidx(key)), chain[i])

\* One step of an iterator: the element it is at, after it has moved on to the
\* next one; at the end there is none.
Start == [bucket |-> -1, elem |-> UNUSED]
Buckets(h, it) == {b \in it.bucket + 1 .. BUCKETS - 1 : h.inits[b] # UNUSED}
NextBucket(h, it) == CHOOSE b \in Buckets(h, it) : \A d \in Buckets(h, it) : b <= d
AtEnd(h, it) == it.elem = UNUSED /\ Buckets(h, it) = {}
Current(h, it) == IF it.elem # UNUSED THEN it.elem ELSE h.inits[NextBucket(h, it)]

\* Mutant of Iterate: the iterator stays where it is.
IterateLate(h, it) ==
    [bucket |-> IF it.elem # UNUSED THEN it.bucket ELSE NextBucket(h, it), elem |-> Current(h, it)]

Iterate(h, it) ==
    [bucket |-> IF it.elem # UNUSED THEN it.bucket ELSE NextBucket(h, it),
     elem |-> h.elems[Current(h, it) + 1].link]

-------------------------------------------------------------------------------
\* The chains and the free list share out the elements: each is in one of them,
\* once, in the chain of its own key; count is the number of those in chains.
Partition(h) ==
    LET free == Chain(h, h.free, Len(h.elems) + 1)
        lists == {<<b, i>> : b \in 0 .. BUCKETS - 1, i \in 1 .. Len(h.elems) + 1}
        chained == {x \in lists : x[2] <= Len(ChainAt(h, x[1]))}
        at(x) == ChainAt(h, x[1])[x[2]]
        all == {at(x) : x \in chained}
        freed == {free[i] : i \in DOMAIN free}
    IN  /\ Cardinality(all) = Cardinality(chained) /\ h.count = Cardinality(chained)
        /\ Cardinality(freed) = Len(free)
        /\ all \cap freed = {} /\ all \cup freed = 0 .. Len(h.elems) - 1
        /\ \A x \in chained : mkidx(h.elems[at(x) + 1].key) = x[1]

Values(h) ==
    {h.elems[e + 1].value : e \in UNION {{ChainAt(h, b)[i] : i \in DOMAIN ChainAt(h, b)} : b \in 0 .. BUCKETS - 1}}
===============================================================================
