---------------------------- MODULE PartialCache -----------------------------
(***************************************************************************)
(* The cache of partial signatures the aggregator of a node keeps          *)
(* (chain/beacon/cache.go).  Partials are grouped by round identifier, the *)
(* pair of the round and the previous signature they sign.  The cache also *)
(* lists, per signer index, the identifiers it got a partial for, and when *)
(* a signer that has reached MaxPartialsPerNode opens one more group, its  *)
(* oldest partial is evicted.                                              *)
(*                                                                         *)
(* A partial that reaches the cache has been verified, so it is determined *)
(* by its signer, its round and its previous signature: a round cache is   *)
(* the set of the indices it holds a signature of.                         *)
(***************************************************************************)
EXTENDS Integers, Sequences, FiniteSets, Functions

CONSTANTS
    Index,               \* indices of the signers
    Rounds,              \* round numbers of the partials
    Prev,                \* previous signatures they may sign
    MaxPartialsPerNode,  \* 100 in the code
    MaxListed            \* bound: length of a signer's list of identifiers

ASSUME CacheAssumption ==
    /\ Rounds \subseteq Nat
    /\ MaxPartialsPerNode \in Nat \ {0}
    /\ MaxListed \in Nat

VARIABLE cache  \* [rounds: identifier -> set of indices, rcvd: index -> identifiers]

Packet == [round : Rounds, prev : Prev, idx : Index]

roundID(p) == <<p.round, p.prev>>

RoundID == Rounds \X Prev
-----------------------------------------------------------------------------
newPartialCache == [rounds |-> << >>, rcvd |-> [idx \in Index |-> << >>]]

(* Mutant of AppendToRound: the signature is not listed.                   *)
AppendUncounted(c, id, idx) ==
    IF idx \in c.rounds[id]
    THEN c
    ELSE [rounds |-> [c.rounds EXCEPT ![id] = @ \cup {idx}], rcvd |-> c.rcvd]

(* roundCache.append and the counting of the partial: nothing changes when *)
(* the index is already there.                                             *)
AppendToRound(c, id, idx) ==
    IF idx \in c.rounds[id]
    THEN c
    ELSE [rounds |-> [c.rounds EXCEPT ![id] = @ \cup {idx}],
          rcvd   |-> [c.rcvd EXCEPT ![idx] = Append(@, id)]]

(* Mutant of Evict: the whole round is dropped.                            *)
EvictRound(c, id, idx) ==
    LET old == Head(c.rcvd[idx])
    IN  [rounds |-> Restrict(c.rounds, DOMAIN c.rounds \ {old}),
         rcvd   |-> [c.rcvd EXCEPT ![idx] = Append(Tail(@), id)]]

(* The oldest partial of the index is dropped from its round, and the      *)
(* round with it when it was the last one there.  The new identifier is    *)
(* listed here, and once more by AppendToRound.                            *)
Evict(c, id, idx) ==
    LET old  == Head(c.rcvd[idx])
        left == c.rounds[old] \ {idx}
    IN  [rounds |-> IF left = {}
                    THEN Restrict(c.rounds, DOMAIN c.rounds \ {old})
                    ELSE [c.rounds EXCEPT ![old] = left],
         rcvd   |-> [c.rcvd EXCEPT ![idx] = Append(Tail(@), id)]]

(* getCache: the round cache of the identifier, created when it is not     *)
(* there.  A signer at its limit whose oldest entry is not cached any more *)
(* gets none ("cache miss").                                               *)
AtLimit(c, idx) == Len(c.rcvd[idx]) >= MaxPartialsPerNode

CacheMiss(c, idx) == AtLimit(c, idx) /\ Head(c.rcvd[idx]) \notin DOMAIN c.rounds

OpenRound(c, id, idx) ==
    LET e == IF AtLimit(c, idx) THEN Evict(c, id, idx) ELSE c
    IN  [rounds |-> [i \in DOMAIN e.rounds \cup {id} |->
                        IF i = id THEN {} ELSE e.rounds[i]],
         rcvd   |-> e.rcvd]

(* partialCache.Append                                                     *)
CacheAppend(c, p) ==
    LET id == roundID(p)
    IN  IF id \in DOMAIN c.rounds THEN AppendToRound(c, id, p.idx)
        ELSE IF CacheMiss(c, p.idx) THEN c
        ELSE AppendToRound(OpenRound(c, id, p.idx), id, p.idx)

(* The list of an index without its partials of the given rounds.          *)
Unlisted(c, gone, idx) ==
    SelectSeq(c.rcvd[idx], LAMBDA id : ~(id \in gone /\ idx \in c.rounds[id]))

(* Mutant of FlushRounds: the round itself stays.                          *)
FlushBelow(c, round) ==
    LET gone == {id \in DOMAIN c.rounds : id[1] < round}
    IN  [rounds |-> Restrict(c.rounds, DOMAIN c.rounds \ gone),
         rcvd   |-> [idx \in Index |-> Unlisted(c, gone, idx)]]

(* All rounds up to the given one are dropped and their partials unlisted. *)
FlushRounds(c, round) ==
    LET gone == {id \in DOMAIN c.rounds : id[1] <= round}
    IN  [rounds |-> Restrict(c.rounds, DOMAIN c.rounds \ gone),
         rcvd   |-> [idx \in Index |-> Unlisted(c, gone, idx)]]
-----------------------------------------------------------------------------
CacheInit == cache = newPartialCache

(* The aggregator appends a partial of any signer.                         *)
AppendPartial(p) ==
    /\ Len(cache.rcvd[p.idx]) < MaxListed
    /\ cache' = CacheAppend(cache, p)

(* The aggregator has a beacon for the round.                              *)
Flush(round) == cache' = FlushRounds(cache, round)

CacheNext ==
    \/ \E p \in Packet : AppendPartial(p)
    \/ \E round \in Rounds : Flush(round)

CacheSpec == CacheInit /\ [][CacheNext]_cache
-----------------------------------------------------------------------------
(* The type of the cache.                                                  *)
CacheTypeOK ==
    /\ cache.rcvd \in [Index -> Seq(RoundID)]
    /\ DOMAIN cache.rounds \subseteq RoundID
    /\ \A id \in DOMAIN cache.rounds : cache.rounds[id] \subseteq Index

(* Every cached signature is listed under its signer.  FlushRounds finds   *)
(* the list entries to delete, and getCache the partial to evict, only     *)
(* through these lists: a signature that is not listed would stay.         *)
CachedIsListed ==
    \A id \in DOMAIN cache.rounds : \A idx \in cache.rounds[id] :
        id \in Range(cache.rcvd[idx])

(* No round cache is ever left empty, after evictions and flushes in any   *)
(* order: getCache and FlushRounds delete what nobody's list leads to.     *)
NoEmptyRound == \A id \in DOMAIN cache.rounds : cache.rounds[id] # {}

(* A signer at its limit only pays with its own partials: whatever one     *)
(* signer sends, the partials of the others stay in the cache.             *)
OthersUndisturbed ==
    [][ cache' # cache => \A p \in Packet : AppendPartial(p) =>
          \A id \in DOMAIN cache.rounds :
             \A idx \in cache.rounds[id] \ {p.idx} :
                /\ id \in DOMAIN cache'.rounds
                /\ idx \in cache'.rounds[id] ]_cache

Evicts(p) ==
    /\ roundID(p) \notin DOMAIN cache.rounds
    /\ AtLimit(cache, p.idx)

\* The partials that are cached, as the abstract set.
PS == INSTANCE PartialSet WITH
        held <- {p \in Packet : /\ roundID(p) \in DOMAIN cache.rounds
                                /\ p.idx \in cache.rounds[roundID(p)]}

(***************************************************************************)
(* Unless an append has to evict, the cache behaves as the set of the      *)
(* partials appended and not flushed yet: the append adds its partial and  *)
(* keeps all others, and a flush forgets the partials up to its round,     *)
(* those of the round too.  The network model uses this set for the cache. *)
(***************************************************************************)
ImplementsPartialSet ==
    /\ PS!Init
    /\ [][ cache' # cache =>
              /\ \A p \in Packet : AppendPartial(p) /\ ~Evicts(p) => PS!Add(p)
              /\ \A round \in Rounds : Flush(round) => PS!Forget(round) ]_cache

(* cache_test.go: after each Append of a partial for a new identifier, the *)
(* identifier is listed under its signer.  Evictions list an identifier    *)
(* twice, and once the first copy is evicted the second one makes getCache *)
(* miss: the next partial is refused.                                      *)
NewestIsListed ==
    \A p \in Packet : roundID(p) \in Range(CacheAppend(cache, p).rcvd[p.idx])

(***************************************************************************)
(* The two maps of the cache stay consistent, through appends, evictions   *)
(* and flushes in any order (getCache, append, FlushRounds).               *)
(***************************************************************************)
ListsMatchRounds ==
    /\ CacheTypeOK
    /\ CachedIsListed
    /\ NoEmptyRound
=============================================================================
