--------------------------- MODULE VerifyingClient ---------------------------
(***************************************************************************)
(* The client that checks what others return (client/verify.go) with the   *)
(* cache above it (client/cache.go), for concurrent calls.  In strict mode *)
(* the previous signature of a round is not taken from the result but      *)
(* walked to from a point of trust, by fetching and checking the rounds in *)
(* between.  A signature is a model value; Signs says which previous       *)
(* signature and round it is the group's signature of, so a compromised    *)
(* chain is one whose signatures do not descend from Genesis.              *)
(***************************************************************************)
EXTENDS Integers, FiniteSets

CONSTANTS
    Reader,        \* concurrent calls
    LastRound,     \* the rounds are 1 .. LastRound
    Sigs,          \* the signatures
    Signs(_),      \* <<previous signature, round>> it signs
    OnChain,       \* OnChain[n]: the chain's signature of round n
    Genesis,       \* info.GroupHash, which is OnChain[0]
    NoPrev,        \* a result without previous signature
    Trusted,       \* the initial points of trust, records [round, sig]
    NoTrust,       \* no point of trust
    StrictModes,   \* values of strict to explore
    CacheSize      \* size of the cache (0: none)

Rounds == 1 .. LastRound
Results == [round : Rounds, sig : Sigs]

ASSUME ChainAssumption ==
    /\ OnChain[0] = Genesis
    /\ \A n \in Rounds : OnChain[n] \in Sigs /\ \A s \in Sigs : Signs(s) = <<OnChain[n - 1], n>> <=> s = OnChain[n]

(* A checkpoint is on the chain.  The group signs the genesis seed only as  *)
(* the previous signature of round 1.                                      *)
ASSUME TrustAssumption ==
    /\ StrictModes \subseteq BOOLEAN /\ LastRound \in Nat \ {0}
    /\ \A t \in Trusted : t = NoTrust \/ (t \in Results /\ t.sig = OnChain[t.round])
    /\ \A s \in Sigs : Signs(s)[1] = Genesis => Signs(s)[2] = 1

VARIABLES
    strict,    \* v.strict
    pot,       \* v.pointOfTrust
    reader,    \* reader[c]: "idle", "trust", "walk", "check", "accepted", "rejected", "failed"
    wants,     \* wants[c]: the result to verify
    trustRound, trustPrevSig, initialTrust,  \* locals of getTrustedPreviousSignature
    slow,      \* slow[c]: the walk started without a point of trust
    genuine,   \* genuine[c]: every answer the call got is of the chain
    cache      \* the results in the cache

verVars == <<strict, pot, reader, wants, trustRound, trustPrevSig, initialTrust, slow, genuine, cache>>

VerInit ==
    /\ strict \in StrictModes
    /\ pot \in Trusted
    /\ reader = [c \in Reader |-> "idle"]
    /\ wants = [c \in Reader |-> [round |-> 1, sig |-> OnChain[1]]]
    /\ trustRound = [c \in Reader |-> 0]
    /\ trustPrevSig = [c \in Reader |-> Genesis]
    /\ initialTrust = [c \in Reader |-> 0]
    /\ slow = [c \in Reader |-> FALSE]
    /\ genuine = [c \in Reader |-> TRUE]
    /\ cache = {}

\* Mutant: the previous signature is not part of the message.
VerifyRoundOnly(prev, round, sig) == Signs(sig)[2] = round

VerifyBeacon(prev, round, sig) == Signs(sig) = <<prev, round>>

\* cachingClient.Get: a cached round is returned as it is.
GetCached(c, n) ==
    /\ reader[c] = "idle"
    /\ \E r \in cache : r.round = n /\ wants' = [wants EXCEPT ![c] = r]
    /\ reader' = [reader EXCEPT ![c] = "accepted"]
    /\ UNCHANGED <<strict, pot, trustRound, trustPrevSig, initialTrust, slow, genuine, cache>>

\* Get, or one result of Watch: what the source returns, with or without the
\* previous signature.
Receive(c, r, prev) ==
    /\ reader[c] = "idle"
    /\ \A d \in cache : d.round # r.round
    /\ wants' = [wants EXCEPT ![c] = r]
    /\ genuine' = [genuine EXCEPT ![c] = r.sig = OnChain[r.round] /\ prev \in {NoPrev, OnChain[r.round - 1]}]
    /\ \/ /\ strict \/ prev = NoPrev
          /\ reader' = [reader EXCEPT ![c] = "trust"]
          /\ UNCHANGED trustPrevSig
       \/ /\ ~strict /\ prev # NoPrev
          /\ reader' = [reader EXCEPT ![c] = "check"]
          /\ trustPrevSig' = [trustPrevSig EXCEPT ![c] = prev]
    /\ UNCHANGED <<strict, pot, trustRound, initialTrust, slow, cache>>

\* getTrustedPreviousSignature up to the loop: where the walk starts.
StartTrust(c) ==
    /\ reader[c] = "trust"
    /\ LET round == wants[c].round
           path == pot = NoTrust \/ pot.round > round
           from == IF path THEN 1 ELSE pot.round
       IN \/ /\ round = 1
             /\ reader' = [reader EXCEPT ![c] = "check"]
             /\ trustPrevSig' = [trustPrevSig EXCEPT ![c] = Genesis]
             /\ UNCHANGED <<trustRound, initialTrust, slow>>
          \/ /\ round # 1
             /\ reader' = [reader EXCEPT ![c] = "walk"]
             /\ trustRound' = [trustRound EXCEPT ![c] = from]
             /\ slow' = [slow EXCEPT ![c] = path]
             /\ initialTrust' = [initialTrust EXCEPT ![c] = from]
             /\ trustPrevSig' = [trustPrevSig EXCEPT ![c] = IF path THEN Genesis ELSE pot.sig]
    /\ UNCHANGED <<strict, pot, wants, genuine, cache>>

\* One turn of the loop: the next round is fetched and checked.
WalkOn(c) ==
    /\ reader[c] = "walk" /\ trustRound[c] < wants[c].round - 1
    /\ trustRound' = [trustRound EXCEPT ![c] = @ + 1]
    /\ \E s \in {s \in Sigs : Signs(s)[2] = trustRound'[c]} :
          /\ genuine' = [genuine EXCEPT ![c] = @ /\ s = OnChain[trustRound'[c]]]
          /\ \/ /\ VerifyBeacon(trustPrevSig[c], trustRound'[c], s)
                /\ trustPrevSig' = [trustPrevSig EXCEPT ![c] = s]
                /\ UNCHANGED reader
             \/ /\ ~VerifyBeacon(trustPrevSig[c], trustRound'[c], s)
                /\ reader' = [reader EXCEPT ![c] = "rejected"]
                /\ UNCHANGED trustPrevSig
    /\ UNCHANGED <<strict, pot, wants, initialTrust, slow, cache>>

WalkFails(c) ==
    /\ reader[c] = "walk" /\ trustRound[c] < wants[c].round - 1
    /\ reader' = [reader EXCEPT ![c] = "failed"]
    /\ UNCHANGED <<strict, pot, wants, trustRound, trustPrevSig, initialTrust, slow, genuine, cache>>

\* After the loop: the point of trust moves to where the walk ended.
WalkEnds(c) ==
    /\ reader[c] = "walk" /\ trustRound[c] >= wants[c].round - 1
    /\ pot' = IF trustRound[c] = wants[c].round - 1 /\ trustRound[c] > initialTrust[c]
              THEN [round |-> trustRound[c], sig |-> trustPrevSig[c]] ELSE pot
    /\ reader' = [reader EXCEPT ![c] = IF trustRound[c] = wants[c].round - 1 THEN "check" ELSE "rejected"]
    /\ UNCHANGED <<strict, wants, trustRound, trustPrevSig, initialTrust, slow, genuine, cache>>

\* The end of verify, and cachingClient's Add of what passed (an ARC cache keeps
\* some of its content).
Check(c) ==
    /\ reader[c] = "check"
    /\ LET w == wants[c]
           r == [round |-> w.round, sig |-> w.sig]
           all == {d \in cache : d.round # r.round} \cup {r}
       IN \/ /\ VerifyBeacon(trustPrevSig[c], w.round, w.sig)
             /\ reader' = [reader EXCEPT ![c] = "accepted"]
             /\ cache' \in {kept \in SUBSET all : Cardinality(kept) <= CacheSize /\ (kept = all \/ Cardinality(all) > CacheSize)}
          \/ /\ ~VerifyBeacon(trustPrevSig[c], w.round, w.sig)
             /\ reader' = [reader EXCEPT ![c] = "rejected"]
             /\ UNCHANGED cache
    /\ UNCHANGED <<strict, pot, wants, trustRound, trustPrevSig, initialTrust, slow, genuine>>

NextCall(c) ==
    /\ reader[c] \in {"accepted", "rejected", "failed"}
    /\ reader' = [reader EXCEPT ![c] = "idle"]
    /\ wants' = [wants EXCEPT ![c] = [round |-> 1, sig |-> OnChain[1]]]
    /\ trustRound' = [trustRound EXCEPT ![c] = 0]
    /\ trustPrevSig' = [trustPrevSig EXCEPT ![c] = Genesis]
    /\ initialTrust' = [initialTrust EXCEPT ![c] = 0]
    /\ slow' = [slow EXCEPT ![c] = FALSE]
    /\ genuine' = [genuine EXCEPT ![c] = TRUE]
    /\ UNCHANGED <<strict, pot, cache>>

VerNext ==
    \E c \in Reader :
        \/ \E r \in Results, prev \in Sigs \cup {Genesis, NoPrev} :
              Signs(r.sig)[2] = r.round /\ prev \in {Signs(r.sig)[1], NoPrev, OnChain[r.round - 1]} /\ Receive(c, r, prev)
        \/ \E n \in Rounds : GetCached(c, n)
        \/ StartTrust(c) \/ WalkOn(c) \/ WalkFails(c) \/ WalkEnds(c) \/ Check(c) \/ NextCall(c)

VerSpec == VerInit /\ [][VerNext]_verVars
------------------------------------------------------------------------------
\* In strict mode, from a checkpoint on the chain, whatever the sources answer
\* and however calls overlap, only the chain's own signatures are returned and
\* cached, and the point of trust stays on the chain (verify, getTrusted-
\* PreviousSignature).
StrictMeansChain ==
    strict =>
        /\ \A c \in Reader : reader[c] = "accepted" => wants[c].sig = OnChain[wants[c].round]
        /\ \A r \in cache : r.sig = OnChain[r.round]
        /\ pot # NoTrust => pot.sig = OnChain[pot.round]

\* A genuine round beyond the point of trust that the call read is not refused
\* when the rounds in between are genuine too.
AcceptsAhead ==
    \A c \in Reader : reader[c] = "rejected" /\ genuine[c] =>
        slow[c] \/ initialTrust[c] >= wants[c].round

\* The comment on fullVerify: the chain is verified back to the first round, so a
\* genuine round is not refused.
AcceptsGenuine ==
    \A c \in Reader : ~(reader[c] = "rejected" /\ genuine[c])

(***************************************************************************)
(* The strict mode takes the chain beyond the point of trust, and nothing  *)
(* but the chain (verify, getTrustedPreviousSignature).                    *)
(***************************************************************************)
StrictVerification ==
    /\ StrictMeansChain
    /\ AcceptsAhead
==============================================================================
