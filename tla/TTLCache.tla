------------------------------ MODULE TTLCache ------------------------------
(***************************************************************************)
(* The cache of the archived program (archive-ts/src/utils/ttlCache.ts):   *)
(* a Map kept in the order of last use, with an optional lifetime.  The    *)
(* pool caches have a bound and no lifetime, the TVL cache has both.       *)
(***************************************************************************)
EXTENDS Integers, Sequences, FiniteSets

CONSTANTS
    Key,
    Value,
    CacheMax,   \* the option max
    Ttl,        \* the option ttl, 0 for none
    MaxNow      \* bound: the clock

ASSUME TTLCacheAssumption ==
    /\ IsFiniteSet(Key)
    /\ CacheMax \in Nat \ {0}
    /\ Ttl \in Nat
    /\ MaxNow \in Nat \ {0}

VARIABLES
    map,     \* the entries, least recently used first
    now,
    latest,  \* history: key -> the value last set and the time of it, or {}
    uses     \* history: the keys in the order of their last set or hit

cacheVars == <<map, now, latest, uses>>

Never == 0

Entries == {map[i] : i \in 1..Len(map)}
Keys == {map[i].key : i \in 1..Len(map)}
EntryOf(k) == CHOOSE e \in Entries : e.key = k
Expired(e) == e.expireAt # Never /\ e.expireAt <= now

\* What is left of s when all but the members in keep are deleted, in the old order.
Kept(s, keep) ==
    LET kept[n \in 0..Len(s)] ==
            IF n = 0 THEN <<>>
            ELSE IF s[n] \in keep THEN Append(kept[n-1], s[n]) ELSE kept[n-1]
    IN  kept[Len(s)]

Without(k) == Kept(map, {e \in Entries : e.key # k})
Used(k) == Append(Kept(uses, Key \ {k}), k)

CacheInit ==
    /\ map = <<>>
    /\ now = 1
    /\ latest = [k \in Key |-> {}]
    /\ uses = <<>>

\* get: a hit moves the entry to the end, an expired entry is deleted.
Get(k) ==
    /\ k \in Keys
    /\ IF Expired(EntryOf(k))
         THEN map' = Without(k) /\ UNCHANGED uses
         ELSE map' = Append(Without(k), EntryOf(k)) /\ uses' = Used(k)
    /\ UNCHANGED <<now, latest>>

\* has deletes an expired entry and, unlike get, does not count as a use.
Has(k) ==
    /\ k \in Keys
    /\ map' = IF Expired(EntryOf(k)) THEN Without(k) ELSE map
    /\ UNCHANGED <<now, latest, uses>>

\* enforceMax: delete from the front while there are more than max entries.
EnforceMax(m) ==
    SubSeq(m, 1 + (IF Len(m) > CacheMax THEN Len(m) - CacheMax ELSE 0), Len(m))

Entry(k, v) == [key |-> k, value |-> v, expireAt |-> IF Ttl > 0 THEN now + Ttl ELSE Never]

\* Mutant: a value set again keeps its place in the Map.
SetInPlace(k, v) ==
    /\ map' = IF k \in Keys
                THEN [i \in 1..Len(map) |-> IF map[i].key = k THEN Entry(k, v) ELSE map[i]]
                ELSE EnforceMax(Append(map, Entry(k, v)))
    /\ latest' = [latest EXCEPT ![k] = {[value |-> v, at |-> now]}]
    /\ uses' = Used(k)
    /\ UNCHANGED now

Set(k, v) ==
    /\ map' = EnforceMax(Append(Without(k), Entry(k, v)))
    /\ latest' = [latest EXCEPT ![k] = {[value |-> v, at |-> now]}]
    /\ uses' = Used(k)
    /\ UNCHANGED now

Sweep ==
    /\ map' = Kept(map, {e \in Entries : ~Expired(e)})
    /\ UNCHANGED <<now, latest, uses>>

CacheTick == now < MaxNow /\ now' = now + 1 /\ UNCHANGED <<map, latest, uses>>

CacheNext ==
    \/ \E k \in Key : Get(k) \/ Has(k) \/ (\E v \in Value : Set(k, v))
    \/ Sweep
    \/ CacheTick

CacheSpec == CacheInit /\ [][CacheNext]_cacheVars

CacheTypeOK ==
    /\ map \in Seq([key : Key, value : Value, expireAt : Nat])
    /\ now \in 1..MaxNow
    /\ \A k \in Key : Cardinality(latest[k]) <= 1
    /\ \A i \in 1..Len(uses) : uses[i] \in Key

-----------------------------------------------------------------------------
\* The value last set for k would still be served by a cache without a bound.
Fresh(k) == latest[k] # {} /\ \A s \in latest[k] : Ttl = 0 \/ now < s.at + Ttl

UsedAfter(k) ==
    {uses[j] : j \in {n \in 1..Len(uses) : \E i \in 1..n-1 : uses[i] = k}}

\* A hit is the value last set, at most the bound is kept, and a value that is missing
\* before its time was pushed out by as many other keys, each used after it
\* (utils/ttlCache.ts get, set, enforceMax).
CacheKeepsLatest ==
    /\ Len(map) <= CacheMax
    /\ \A i, j \in 1..Len(map) : map[i].key = map[j].key => i = j
    /\ \A k \in Keys : ~Expired(EntryOf(k)) =>
         Fresh(k) /\ \A s \in latest[k] : EntryOf(k).value = s.value
    /\ \A k \in Key \ Keys : Fresh(k) => Cardinality(UsedAfter(k)) >= CacheMax
=============================================================================
