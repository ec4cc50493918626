----------------------------- MODULE ClientProofs -----------------------------
(***************************************************************************)
(* What a client is made of. Two layers of the client library: the         *)
(* verifying client with its cache, and the making of a client from its    *)
(* options, for any chain, number of concurrent calls, point of trust,     *)
(* contacts and options. The gRPC client keeps exactly the connections     *)
(* that are open, for any peers and callers and any number of dials, and   *)
(* the client ends of the streaming calls lose and reorder nothing, for    *)
(* any kind of stream, any backlog and any number of messages.             *)
(***************************************************************************)
EXTENDS VerifyingClient, ClientConfig, Connections, Streams, TLAPS
-----------------------------------------------------------------------------
(* The verifying client (module VerifyingClient).                          *)

\* The types of what the argument is about.
VerTypes ==
    /\ strict \in BOOLEAN
    /\ reader \in [Reader -> {"idle", "trust", "walk", "check", "accepted", "rejected", "failed"}]
    /\ wants \in [Reader -> Results]
    /\ trustRound \in [Reader -> Nat] /\ initialTrust \in [Reader -> Nat]
    /\ trustPrevSig \in [Reader -> Sigs \cup {Genesis}]
    /\ slow \in [Reader -> BOOLEAN] /\ genuine \in [Reader -> BOOLEAN]
    /\ cache \subseteq Results
    /\ pot = NoTrust \/ pot \in Results

\* The point of trust is on the chain.
PotSound == pot = NoTrust \/ (pot \in Results /\ pot.sig = OnChain[pot.round])

\* In strict mode so is what is cached.
CacheSound == strict => \A r \in cache : r.sig = OnChain[r.round]

\* What a call checks its round against: the chain's signature of the round before,
\* or the seed after the slow way from the genesis.
LinkSound(c) ==
    \/ trustPrevSig[c] = OnChain[wants[c].round - 1]
    \/ slow[c] /\ trustPrevSig[c] = Genesis /\ wants[c].round # 1

\* Where a walk from the point of trust is.
WalkSound(c) ==
    /\ trustRound[c] \in Rounds /\ wants[c].round # 1
    /\ trustRound[c] = initialTrust[c] \/ trustRound[c] <= wants[c].round - 1
    /\ \/ slow[c] /\ trustRound[c] = 1 /\ initialTrust[c] = 1 /\ trustPrevSig[c] = Genesis
       \/ ~slow[c] /\ trustPrevSig[c] = OnChain[trustRound[c]]

\* What holds of a call, at each stage of verify.
ReaderSound(c) ==
    /\ reader[c] \in {"trust", "walk", "check"} /\ genuine[c] => wants[c].sig = OnChain[wants[c].round]
    /\ reader[c] = "walk" => WalkSound(c)
    /\ reader[c] = "check" /\ (strict \/ genuine[c]) => LinkSound(c)
    /\ reader[c] = "accepted" /\ strict => wants[c].sig = OnChain[wants[c].round]
    /\ reader[c] = "rejected" /\ genuine[c] => slow[c] \/ initialTrust[c] >= wants[c].round

\* The inductive invariant.
VerInv == VerTypes /\ PotSound /\ CacheSound /\ \A c \in Reader : ReaderSound(c)

\* No call has begun.
LEMMA VerInitInv == VerInit => VerInv
<1> SUFFICES ASSUME VerInit PROVE VerInv
  OBVIOUS
<1>1. 1 \in Rounds /\ OnChain[1] \in Sigs
  BY ChainAssumption, TrustAssumption DEF Rounds
<1>2. [round |-> 1, sig |-> OnChain[1]] \in Results
  BY <1>1 DEF Results
<1>3. strict \in BOOLEAN /\ PotSound
  BY TrustAssumption, Zenon DEF VerInit, PotSound
<1>4. VerTypes
  <2>1. pot = NoTrust \/ pot \in Results
    BY <1>3, Zenon DEF PotSound
  <2>2. /\ reader \in [Reader -> {"idle", "trust", "walk", "check", "accepted", "rejected", "failed"}]
        /\ trustRound \in [Reader -> Nat] /\ initialTrust \in [Reader -> Nat]
    BY DEF VerInit
  <2>3. /\ wants \in [Reader -> Results]
        /\ trustPrevSig \in [Reader -> Sigs \cup {Genesis}]
        /\ slow \in [Reader -> BOOLEAN] /\ genuine \in [Reader -> BOOLEAN]
        /\ cache \subseteq Results
    BY <1>2, Zenon DEF VerInit
  <2> QED
    BY <1>3, <2>1, <2>2, <2>3, Zenon DEF VerTypes
<1>5. CacheSound
  BY DEF VerInit, CacheSound
<1>6. \A c \in Reader : ReaderSound(c)
  <2> SUFFICES ASSUME NEW c \in Reader PROVE ReaderSound(c)
    OBVIOUS
  <2>1. reader[c] = "idle"
    BY DEF VerInit
  <2> QED
    BY <2>1 DEF ReaderSound
<1> QED
  BY <1>3, <1>4, <1>5, <1>6, Zenon DEF VerInv

(* A step of one call leaves the others as they are.                       *)
LEMMA OneCallMoves ==
    ASSUME VerInv, NEW c \in Reader, VerTypes', strict' = strict, PotSound', CacheSound',
           ReaderSound(c)',
           \A d \in Reader \ {c} :
              /\ reader'[d] = reader[d] /\ wants'[d] = wants[d] /\ trustRound'[d] = trustRound[d]
              /\ trustPrevSig'[d] = trustPrevSig[d] /\ initialTrust'[d] = initialTrust[d]
              /\ slow'[d] = slow[d] /\ genuine'[d] = genuine[d]
    PROVE  VerInv'
<1> SUFFICES ASSUME NEW d \in Reader PROVE ReaderSound(d)'
  BY Zenon DEF VerInv
<1>1. CASE d = c
  BY <1>1, Zenon
<1>2. CASE d # c
  <2>1. ReaderSound(d)
    BY Zenon DEF VerInv
  <2>2. /\ reader'[d] = reader[d] /\ wants'[d] = wants[d] /\ trustRound'[d] = trustRound[d]
        /\ trustPrevSig'[d] = trustPrevSig[d] /\ initialTrust'[d] = initialTrust[d]
        /\ slow'[d] = slow[d] /\ genuine'[d] = genuine[d] /\ strict' = strict
    BY <1>2, Zenon
  <2>3. WalkSound(d) => WalkSound(d)'
    BY <2>2 DEF WalkSound
  <2>4. LinkSound(d) => LinkSound(d)'
    BY <2>2 DEF LinkSound
  <2> QED
    BY <2>1, <2>2, <2>3, <2>4 DEF ReaderSound
<1> QED
  BY <1>1, <1>2

(* Where a call can be, for the step that moves it.                        *)
LEMMA CallTypes ==
    ASSUME VerInv, NEW c \in Reader
    PROVE  /\ ReaderSound(c)
           /\ wants[c] \in Results /\ wants[c].round \in Rounds /\ wants[c].sig \in Sigs
           /\ trustRound[c] \in Nat /\ initialTrust[c] \in Nat
           /\ trustPrevSig[c] \in Sigs \cup {Genesis}
           /\ slow[c] \in BOOLEAN /\ genuine[c] \in BOOLEAN /\ strict \in BOOLEAN
<1>1. VerTypes /\ ReaderSound(c)
  BY Zenon DEF VerInv
<1>2. /\ wants[c] \in Results /\ trustRound[c] \in Nat /\ initialTrust[c] \in Nat
      /\ trustPrevSig[c] \in Sigs \cup {Genesis}
      /\ slow[c] \in BOOLEAN /\ genuine[c] \in BOOLEAN /\ strict \in BOOLEAN
  BY <1>1, Zenon DEF VerTypes
<1>3. wants[c].round \in Rounds /\ wants[c].sig \in Sigs
  BY <1>2 DEF Results
<1> QED
  BY <1>1, <1>2, <1>3, Zenon

(* What verifies against the chain's signature of the round before is the   *)
(* chain's signature; what verifies against the seed is of round 1.         *)
LEMMA VerifiedOnChain ==
    ASSUME NEW n \in Rounds, NEW s \in Sigs
    PROVE  /\ VerifyBeacon(OnChain[n - 1], n, s) <=> s = OnChain[n]
           /\ VerifyBeacon(Genesis, n, s) => n = 1
<1>1. Signs(s) = <<OnChain[n - 1], n>> <=> s = OnChain[n]
  BY ChainAssumption, Zenon
<1>2. Signs(s) = <<Genesis, n>> => n = 1
  <2> SUFFICES ASSUME Signs(s) = <<Genesis, n>> PROVE n = 1
    OBVIOUS
  <2>1. Signs(s)[1] = Genesis => Signs(s)[2] = 1
    BY TrustAssumption, Zenon
  <2>2. <<Genesis, n>>[1] = Genesis /\ <<Genesis, n>>[2] = n
    OBVIOUS
  <2> QED
    BY <2>1, <2>2, Zenon
<1> QED
  BY <1>1, <1>2, Zenon DEF VerifyBeacon

\* Every step of a call keeps the invariant.
LEMMA VerStep == VerInv /\ [VerNext]_verVars => VerInv'
<1> SUFFICES ASSUME VerInv, [VerNext]_verVars PROVE VerInv'
  OBVIOUS
<1>0. VerTypes /\ PotSound /\ CacheSound
  BY Zenon DEF VerInv
<1>1. CASE UNCHANGED verVars
  BY <1>1 DEF VerInv, VerTypes, PotSound, CacheSound, ReaderSound, WalkSound, LinkSound, verVars
<1>2. ASSUME NEW c \in Reader, NEW r \in Results, NEW prev \in Sigs \cup {Genesis, NoPrev},
             Receive(c, r, prev)
      PROVE  VerInv'
  <2>1. /\ wants' = [wants EXCEPT ![c] = r]
        /\ genuine' = [genuine EXCEPT ![c] = r.sig = OnChain[r.round] /\ prev \in {NoPrev, OnChain[r.round - 1]}]
        /\ UNCHANGED <<strict, pot, trustRound, initialTrust, slow, cache>>
    BY <1>2, Zenon DEF Receive
  <2>2. \/ reader' = [reader EXCEPT ![c] = "trust"] /\ trustPrevSig' = trustPrevSig
        \/ /\ ~strict /\ prev # NoPrev
           /\ reader' = [reader EXCEPT ![c] = "check"]
           /\ trustPrevSig' = [trustPrevSig EXCEPT ![c] = prev]
    BY <1>2, Zenon DEF Receive
  <2>3. VerTypes'
    <3>1. wants' \in [Reader -> Results] /\ genuine' \in [Reader -> BOOLEAN]
      BY <1>0, <2>1, Zenon DEF VerTypes
    <3>2. reader' \in [Reader -> {"idle", "trust", "walk", "check", "accepted", "rejected", "failed"}]
      BY <1>0, <2>2, Zenon DEF VerTypes
    <3>3. trustPrevSig' \in [Reader -> Sigs \cup {Genesis}]
      BY <1>0, <2>2, Zenon DEF VerTypes
    <3> QED
      BY <1>0, <2>1, <3>1, <3>2, <3>3, Zenon DEF VerTypes
  <2>4. /\ wants'[c] = r
        /\ genuine'[c] = (r.sig = OnChain[r.round] /\ prev \in {NoPrev, OnChain[r.round - 1]})
    BY <1>0, <2>1, Zenon DEF VerTypes
  <2>5. \/ reader'[c] = "trust"
        \/ ~strict /\ prev # NoPrev /\ reader'[c] = "check" /\ trustPrevSig'[c] = prev
    BY <1>0, <2>2, Zenon DEF VerTypes
  <2>6. ReaderSound(c)'
    <3>1. genuine'[c] => wants'[c].sig = OnChain[wants'[c].round]
      BY <2>4, Zenon
    <3>2. reader'[c] = "check" /\ (strict' \/ genuine'[c]) => LinkSound(c)'
      BY <2>1, <2>4, <2>5, Zenon DEF LinkSound
    <3>3. reader'[c] \in {"trust", "check"}
      BY <2>5
    <3> QED
      BY <3>1, <3>2, <3>3, Zenon DEF ReaderSound
  <2>7. \A d \in Reader \ {c} :
              /\ reader'[d] = reader[d] /\ wants'[d] = wants[d] /\ trustRound'[d] = trustRound[d]
              /\ trustPrevSig'[d] = trustPrevSig[d] /\ initialTrust'[d] = initialTrust[d]
              /\ slow'[d] = slow[d] /\ genuine'[d] = genuine[d]
    <3>1. \A d \in Reader \ {c} : wants'[d] = wants[d] /\ genuine'[d] = genuine[d]
      BY <1>0, <2>1, Zenon DEF VerTypes
    <3>2. \A d \in Reader \ {c} : reader'[d] = reader[d] /\ trustPrevSig'[d] = trustPrevSig[d]
      BY <1>0, <2>2, Zenon DEF VerTypes
    <3> QED
      BY <2>1, <3>1, <3>2, Zenon
  <2>8. PotSound' /\ CacheSound' /\ strict' = strict
    BY <1>0, <2>1, Zenon DEF PotSound, CacheSound
  <2> QED
    BY <2>3, <2>6, <2>7, <2>8, OneCallMoves, Zenon
<1>3. ASSUME NEW c \in Reader, NEW n \in Rounds, GetCached(c, n)
      PROVE  VerInv'
  <2>1. PICK r \in cache : wants' = [wants EXCEPT ![c] = r]
    BY <1>3, Zenon DEF GetCached
  <2>2. /\ reader' = [reader EXCEPT ![c] = "accepted"]
        /\ UNCHANGED <<strict, pot, trustRound, trustPrevSig, initialTrust, slow, genuine, cache>>
    BY <1>3, Zenon DEF GetCached
  <2>3. r \in Results
    BY <1>0, Zenon DEF VerTypes
  <2>4. VerTypes'
    <3>1. wants' \in [Reader -> Results]
      BY <1>0, <2>1, <2>3, Zenon DEF VerTypes
    <3>2. reader' \in [Reader -> {"idle", "trust", "walk", "check", "accepted", "rejected", "failed"}]
      BY <1>0, <2>2, Zenon DEF VerTypes
    <3> QED
      BY <1>0, <2>2, <3>1, <3>2, Zenon DEF VerTypes
  <2>5. reader'[c] = "accepted" /\ wants'[c] = r
    BY <1>0, <2>1, <2>2, Zenon DEF VerTypes
  <2>6. ReaderSound(c)'
    <3>1. strict' => wants'[c].sig = OnChain[wants'[c].round]
      BY <1>0, <2>2, <2>5, Zenon DEF CacheSound
    <3> QED
      BY <2>5, <3>1 DEF ReaderSound
  <2>7. \A d \in Reader \ {c} : reader'[d] = reader[d] /\ wants'[d] = wants[d]
    BY <1>0, <2>1, <2>2, Zenon DEF VerTypes
  <2>8. PotSound' /\ CacheSound' /\ strict' = strict
    BY <1>0, <2>2, Zenon DEF PotSound, CacheSound
  <2> QED
    BY <2>2, <2>4, <2>6, <2>7, <2>8, OneCallMoves, Zenon
<1>4. ASSUME NEW c \in Reader, StartTrust(c)
      PROVE  VerInv'
  <2> DEFINE path == pot = NoTrust \/ pot.round > wants[c].round
             start == IF path THEN 1 ELSE pot.round
  <2>0. /\ reader[c] = "trust"
        /\ UNCHANGED <<strict, pot, wants, genuine, cache>>
    BY <1>4, Zenon DEF StartTrust
  <2>1. \/ /\ wants[c].round = 1
           /\ reader' = [reader EXCEPT ![c] = "check"]
           /\ trustPrevSig' = [trustPrevSig EXCEPT ![c] = Genesis]
           /\ UNCHANGED <<trustRound, initialTrust, slow>>
        \/ /\ wants[c].round # 1
           /\ reader' = [reader EXCEPT ![c] = "walk"]
           /\ trustRound' = [trustRound EXCEPT ![c] = start]
           /\ slow' = [slow EXCEPT ![c] = path]
           /\ initialTrust' = [initialTrust EXCEPT ![c] = start]
           /\ trustPrevSig' = [trustPrevSig EXCEPT ![c] = IF path THEN Genesis ELSE pot.sig]
    BY <1>4, Zenon DEF StartTrust
  <2>2. /\ path => start = 1
        /\ ~path => start = pot.round /\ pot.sig = OnChain[start] /\ pot.sig \in Sigs
        /\ start \in Rounds
    <3>1. 1 \in Rounds
      BY TrustAssumption DEF Rounds
    <3>2. ~path => pot \in Results /\ pot.sig = OnChain[pot.round]
      BY <1>0, Zenon DEF PotSound
    <3>3. ~path => pot.round \in Rounds /\ pot.sig \in Sigs
      BY <3>2 DEF Results
    <3> QED
      BY <3>1, <3>2, <3>3, Zenon
  <2>3. start \in Nat
    BY <2>2 DEF Rounds
  <2>4. path \in BOOLEAN
    BY Zenon
  <2> HIDE DEF start, path
  <2>5. (IF path THEN Genesis ELSE pot.sig) \in Sigs \cup {Genesis}
    BY <2>2, Zenon
  <2>6. VerTypes'
    <3>0. trustRound' \in [Reader -> Nat]
      BY <1>0, <2>1, <2>3, Zenon DEF VerTypes
    <3>1. initialTrust' \in [Reader -> Nat]
      BY <1>0, <2>1, <2>3, Zenon DEF VerTypes
    <3>2. reader' \in [Reader -> {"idle", "trust", "walk", "check", "accepted", "rejected", "failed"}]
      BY <1>0, <2>1, Zenon DEF VerTypes
    <3>3. trustPrevSig' \in [Reader -> Sigs \cup {Genesis}]
      BY <1>0, <2>1, <2>5, Zenon DEF VerTypes
    <3>4. slow' \in [Reader -> BOOLEAN]
      BY <1>0, <2>1, <2>4, Zenon DEF VerTypes
    <3> QED
      BY <1>0, <2>0, <3>0, <3>1, <3>2, <3>3, <3>4, Zenon DEF VerTypes
  <2>7. \/ wants[c].round = 1 /\ reader'[c] = "check" /\ trustPrevSig'[c] = Genesis
        \/ /\ wants[c].round # 1 /\ reader'[c] = "walk"
           /\ trustRound'[c] = start /\ slow'[c] = path /\ initialTrust'[c] = start
           /\ trustPrevSig'[c] = IF path THEN Genesis ELSE pot.sig
    <3>1. CASE wants[c].round = 1
      BY <1>0, <2>1, <3>1, Zenon DEF VerTypes
    <3>2. CASE wants[c].round # 1
      <4>1. reader'[c] = "walk" /\ trustRound'[c] = start
        BY <1>0, <2>1, <3>2, Zenon DEF VerTypes
      <4>2. slow'[c] = path /\ initialTrust'[c] = start
        BY <1>0, <2>1, <3>2, Zenon DEF VerTypes
      <4>3. trustPrevSig'[c] = IF path THEN Genesis ELSE pot.sig
        BY <1>0, <2>1, <3>2, Zenon DEF VerTypes
      <4> QED
        BY <3>2, <4>1, <4>2, <4>3, Zenon
    <3> QED
      BY <3>1, <3>2
  <2>8. ReaderSound(c)'
    <3>1. genuine'[c] => wants'[c].sig = OnChain[wants'[c].round]
      BY <2>0, CallTypes DEF ReaderSound
    <3>2. reader'[c] = "walk" => WalkSound(c)'
      <4> SUFFICES ASSUME reader'[c] = "walk" PROVE WalkSound(c)'
        OBVIOUS
      <4>1. /\ wants[c].round # 1 /\ trustRound'[c] = start /\ slow'[c] = path
            /\ initialTrust'[c] = start
            /\ trustPrevSig'[c] = IF path THEN Genesis ELSE pot.sig
        BY <2>7
      <4> QED
        BY <2>0, <2>2, <2>4, <4>1, Zenon DEF WalkSound
    <3>3. reader'[c] = "check" => LinkSound(c)'
      <4> SUFFICES ASSUME reader'[c] = "check" PROVE LinkSound(c)'
        OBVIOUS
      <4>1. wants[c].round = 1 /\ trustPrevSig'[c] = Genesis
        BY <2>7
      <4>2. OnChain[wants[c].round - 1] = Genesis
        BY <4>1, ChainAssumption
      <4> QED
        BY <2>0, <4>1, <4>2, Zenon DEF LinkSound
    <3>4. reader'[c] \in {"walk", "check"}
      BY <2>7, Zenon
    <3> QED
      BY <3>1, <3>2, <3>3, <3>4, Zenon DEF ReaderSound
  <2>9. \A d \in Reader \ {c} :
           /\ reader'[d] = reader[d] /\ trustRound'[d] = trustRound[d]
           /\ trustPrevSig'[d] = trustPrevSig[d] /\ initialTrust'[d] = initialTrust[d]
           /\ slow'[d] = slow[d]
    BY <1>0, <2>1, Zenon DEF VerTypes
  <2>10. PotSound' /\ CacheSound' /\ strict' = strict
    BY <1>0, <2>0, Zenon DEF PotSound, CacheSound
  <2> QED
    BY <2>0, <2>6, <2>8, <2>9, <2>10, OneCallMoves, Zenon
<1>5. ASSUME NEW c \in Reader, WalkOn(c)
      PROVE  VerInv'
  <2> DEFINE n == trustRound[c] + 1
  <2>0. /\ reader[c] = "walk" /\ trustRound[c] < wants[c].round - 1
        /\ trustRound' = [trustRound EXCEPT ![c] = trustRound[c] + 1]
        /\ UNCHANGED <<strict, pot, wants, initialTrust, slow, cache>>
    BY <1>5, Zenon DEF WalkOn
  <2>1. trustRound'[c] = n
    BY <1>0, <2>0, Zenon DEF VerTypes
  <2>2. PICK s \in Sigs :
           /\ genuine' = [genuine EXCEPT ![c] = genuine[c] /\ s = OnChain[n]]
           /\ \/ /\ VerifyBeacon(trustPrevSig[c], n, s)
                 /\ trustPrevSig' = [trustPrevSig EXCEPT ![c] = s]
                 /\ UNCHANGED reader
              \/ /\ ~VerifyBeacon(trustPrevSig[c], n, s)
                 /\ reader' = [reader EXCEPT ![c] = "rejected"]
                 /\ UNCHANGED trustPrevSig
    BY <1>5, <2>1, Zenon DEF WalkOn
  <2>3. /\ WalkSound(c) /\ trustRound[c] \in Nat /\ wants[c].round \in Rounds
        /\ slow[c] \in BOOLEAN /\ genuine[c] \in BOOLEAN
        /\ genuine[c] => wants[c].sig = OnChain[wants[c].round]
    BY <2>0, CallTypes DEF ReaderSound
  <2>4. n \in Rounds /\ n # 1 /\ n - 1 = trustRound[c] /\ n <= wants[c].round - 1 /\ n \in Nat
    BY <2>0, <2>3, TrustAssumption DEF WalkSound, Rounds
  <2> HIDE DEF n
  <2>5. VerTypes'
    <3>1. trustRound' \in [Reader -> Nat]
      BY <1>0, <2>0, <2>4, Zenon DEF VerTypes, n
    <3>2. reader' \in [Reader -> {"idle", "trust", "walk", "check", "accepted", "rejected", "failed"}]
      BY <1>0, <2>2, Zenon DEF VerTypes
    <3>3. trustPrevSig' \in [Reader -> Sigs \cup {Genesis}]
      BY <1>0, <2>2, Zenon DEF VerTypes
    <3>4. genuine' \in [Reader -> BOOLEAN]
      BY <1>0, <2>2, Zenon DEF VerTypes
    <3> QED
      BY <1>0, <2>0, <3>1, <3>2, <3>3, <3>4, Zenon DEF VerTypes
  <2>6. /\ genuine'[c] = (genuine[c] /\ s = OnChain[n])
        /\ \/ /\ VerifyBeacon(trustPrevSig[c], n, s)
              /\ trustPrevSig'[c] = s /\ reader'[c] = "walk"
           \/ /\ ~VerifyBeacon(trustPrevSig[c], n, s)
              /\ reader'[c] = "rejected"
    BY <1>0, <2>0, <2>2, Zenon DEF VerTypes
  <2>7. ReaderSound(c)'
    <3>1. CASE slow[c]
      <4>1. trustPrevSig[c] = Genesis
        BY <2>3, <3>1, Zenon DEF WalkSound
      <4>2. ~VerifyBeacon(trustPrevSig[c], n, s)
        BY <2>4, <4>1, VerifiedOnChain, Zenon
      <4>3. reader'[c] = "rejected" /\ slow'[c]
        BY <2>0, <2>6, <3>1, <4>2, Zenon
      <4> QED
        BY <4>3 DEF ReaderSound
    <3>2. CASE ~slow[c]
      <4>1. trustPrevSig[c] = OnChain[n - 1]
        BY <2>3, <2>4, <3>2, Zenon DEF WalkSound
      <4>2. VerifyBeacon(trustPrevSig[c], n, s) <=> s = OnChain[n]
        BY <2>4, <4>1, VerifiedOnChain, Zenon
      <4>3. CASE s = OnChain[n]
        <5>1. trustPrevSig'[c] = OnChain[n] /\ reader'[c] = "walk"
          BY <2>6, <4>2, <4>3, Zenon
        <5>2. WalkSound(c)'
          BY <2>0, <2>1, <2>3, <2>4, <3>2, <5>1, Zenon DEF WalkSound
        <5>3. genuine'[c] => wants'[c].sig = OnChain[wants'[c].round]
          BY <2>0, <2>3, <2>6, Zenon
        <5> QED
          BY <5>1, <5>2, <5>3 DEF ReaderSound
      <4>4. CASE s # OnChain[n]
        <5>1. ~genuine'[c] /\ reader'[c] = "rejected"
          BY <2>6, <4>2, <4>4, Zenon
        <5> QED
          BY <5>1 DEF ReaderSound
      <4> QED
        BY <4>3, <4>4
    <3> QED
      BY <3>1, <3>2
  <2>8. \A d \in Reader \ {c} :
           /\ reader'[d] = reader[d] /\ trustRound'[d] = trustRound[d]
           /\ trustPrevSig'[d] = trustPrevSig[d] /\ genuine'[d] = genuine[d]
    BY <1>0, <2>0, <2>2, Zenon DEF VerTypes
  <2>9. PotSound' /\ CacheSound' /\ strict' = strict
    BY <1>0, <2>0, Zenon DEF PotSound, CacheSound
  <2> QED
    BY <2>0, <2>5, <2>7, <2>8, <2>9, OneCallMoves, Zenon
<1>6. ASSUME NEW c \in Reader, WalkFails(c)
      PROVE  VerInv'
  <2>1. /\ reader' = [reader EXCEPT ![c] = "failed"]
        /\ UNCHANGED <<strict, pot, wants, trustRound, trustPrevSig, initialTrust, slow, genuine, cache>>
    BY <1>6, Zenon DEF WalkFails
  <2>2. reader'[c] = "failed" /\ \A d \in Reader \ {c} : reader'[d] = reader[d]
    BY <1>0, <2>1, Zenon DEF VerTypes
  <2>3. VerTypes'
    <3>1. reader' \in [Reader -> {"idle", "trust", "walk", "check", "accepted", "rejected", "failed"}]
      BY <1>0, <2>1, Zenon DEF VerTypes
    <3> QED
      BY <1>0, <2>1, <3>1, Zenon DEF VerTypes
  <2>4. ReaderSound(c)'
    BY <2>2 DEF ReaderSound
  <2>5. PotSound' /\ CacheSound' /\ strict' = strict
    BY <1>0, <2>1, Zenon DEF PotSound, CacheSound
  <2> QED
    BY <2>1, <2>2, <2>3, <2>4, <2>5, OneCallMoves, Zenon
<1>7. ASSUME NEW c \in Reader, WalkEnds(c)
      PROVE  VerInv'
  <2> DEFINE n == trustRound[c]
             found == [round |-> n, sig |-> trustPrevSig[c]]
  <2>1. /\ reader[c] = "walk" /\ n >= wants[c].round - 1
        /\ pot' = IF n = wants[c].round - 1 /\ n > initialTrust[c] THEN found ELSE pot
        /\ reader' = [reader EXCEPT ![c] = IF n = wants[c].round - 1 THEN "check" ELSE "rejected"]
        /\ UNCHANGED <<strict, wants, trustRound, trustPrevSig, initialTrust, slow, genuine, cache>>
    BY <1>7, Zenon DEF WalkEnds
  <2>2. /\ WalkSound(c) /\ n \in Nat /\ initialTrust[c] \in Nat /\ wants[c].round \in Rounds
        /\ slow[c] \in BOOLEAN /\ trustPrevSig[c] \in Sigs \cup {Genesis}
        /\ genuine[c] => wants[c].sig = OnChain[wants[c].round]
    BY <2>1, CallTypes DEF ReaderSound
  <2>3. reader'[c] = IF n = wants[c].round - 1 THEN "check" ELSE "rejected"
    BY <1>0, <2>1, Zenon DEF VerTypes
  <2>4. \A d \in Reader \ {c} : reader'[d] = reader[d]
    BY <1>0, <2>1, Zenon DEF VerTypes
  <2>5. n \in Rounds /\ wants[c].round # 1 /\ wants[c].round \in Nat
    BY <2>2 DEF WalkSound, Rounds
  <2>6. /\ n = initialTrust[c] \/ n <= wants[c].round - 1
        /\ \/ slow[c] /\ n = 1 /\ initialTrust[c] = 1 /\ trustPrevSig[c] = Genesis
           \/ ~slow[c] /\ trustPrevSig[c] = OnChain[n]
    BY <2>2, Zenon DEF WalkSound
  <2>7. OnChain[n] \in Sigs
    BY <2>5, ChainAssumption, Zenon
  <2>8. PotSound' /\ (pot' = NoTrust \/ pot' \in Results)
    <3>1. CASE n = wants[c].round - 1 /\ n > initialTrust[c]
      <4>1. trustPrevSig[c] = OnChain[n]
        BY <2>2, <2>6, <3>1
      <4>2. pot' = [round |-> n, sig |-> OnChain[n]]
        BY <2>1, <3>1, <4>1, Zenon
      <4> HIDE DEF n
      <4>3. pot' \in Results /\ pot'.sig = OnChain[pot'.round]
        BY <2>5, <2>7, <4>2 DEF Results
      <4> QED
        BY <4>3, Zenon DEF PotSound
    <3>2. CASE ~(n = wants[c].round - 1 /\ n > initialTrust[c])
      BY <1>0, <2>1, <3>2, Zenon DEF PotSound
    <3> QED
      BY <3>1, <3>2
  <2> HIDE DEF n
  <2>9. ReaderSound(c)'
    <3>1. CASE n = wants[c].round - 1
      <4>1. reader'[c] = "check"
        BY <2>3, <3>1, Zenon
      <4>2. LinkSound(c)'
        BY <2>1, <2>5, <2>6, <3>1, Zenon DEF LinkSound
      <4>3. genuine'[c] => wants'[c].sig = OnChain[wants'[c].round]
        BY <2>1, <2>2, Zenon
      <4> QED
        BY <4>1, <4>2, <4>3 DEF ReaderSound
    <3>2. CASE n # wants[c].round - 1
      <4>1. reader'[c] = "rejected"
        BY <2>3, <3>2, Zenon
      <4>2. initialTrust[c] >= wants[c].round
        BY <2>1, <2>2, <2>5, <2>6, <3>2
      <4>3. initialTrust'[c] >= wants'[c].round
        BY <2>1, <4>2, Zenon
      <4> QED
        BY <4>1, <4>3 DEF ReaderSound
    <3> QED
      BY <3>1, <3>2
  <2>10. VerTypes'
    <3>1. (IF n = wants[c].round - 1 THEN "check" ELSE "rejected")
             \in {"idle", "trust", "walk", "check", "accepted", "rejected", "failed"}
      OBVIOUS
    <3>2. reader' \in [Reader -> {"idle", "trust", "walk", "check", "accepted", "rejected", "failed"}]
      BY <1>0, <2>1, <3>1, Zenon DEF VerTypes
    <3> QED
      BY <1>0, <2>1, <2>8, <3>2, Zenon DEF VerTypes
  <2>11. CacheSound' /\ strict' = strict
    BY <1>0, <2>1, Zenon DEF CacheSound
  <2> QED
    BY <2>1, <2>4, <2>8, <2>9, <2>10, <2>11, OneCallMoves, Zenon
<1>8. ASSUME NEW c \in Reader, Check(c)
      PROVE  VerInv'
  <2> DEFINE w == wants[c]
             r == [round |-> w.round, sig |-> w.sig]
             all == {d \in cache : d.round # r.round} \cup {r}
             passes == VerifyBeacon(trustPrevSig[c], w.round, w.sig)
  <2>1. /\ reader[c] = "check"
        /\ UNCHANGED <<strict, pot, wants, trustRound, trustPrevSig, initialTrust, slow, genuine>>
    BY <1>8, Zenon DEF Check
  <2>2. \/ passes /\ reader' = [reader EXCEPT ![c] = "accepted"] /\ cache' \subseteq all
        \/ ~passes /\ reader' = [reader EXCEPT ![c] = "rejected"] /\ cache' = cache
    BY <1>8, Zenon DEF Check
  <2>3. /\ w \in Results /\ w.round \in Rounds /\ w.sig \in Sigs /\ genuine[c] \in BOOLEAN
        /\ genuine[c] => w.sig = OnChain[w.round]
        /\ strict \/ genuine[c] => LinkSound(c)
    BY <2>1, CallTypes DEF ReaderSound
  <2>4. r \in Results /\ r.round = w.round /\ r.sig = w.sig
    BY <2>3 DEF Results
  <2>5. LinkSound(c) /\ passes => w.sig = OnChain[w.round]
    <3>1. CASE trustPrevSig[c] = OnChain[w.round - 1]
      BY <2>3, <3>1, VerifiedOnChain, Zenon
    <3>2. CASE trustPrevSig[c] = Genesis /\ w.round # 1
      BY <2>3, <3>2, VerifiedOnChain, Zenon
    <3> QED
      BY <3>1, <3>2, Zenon DEF LinkSound
  <2>6. LinkSound(c) /\ genuine[c] /\ ~passes => slow[c]
    <3>1. CASE trustPrevSig[c] = OnChain[w.round - 1]
      BY <2>3, <3>1, VerifiedOnChain, Zenon
    <3> QED
      BY <3>1, Zenon DEF LinkSound
  <2> HIDE DEF passes, r
  <2>7. /\ \/ passes /\ reader'[c] = "accepted"
           \/ ~passes /\ reader'[c] = "rejected"
        /\ \A d \in Reader \ {c} : reader'[d] = reader[d]
    BY <1>0, <2>2, Zenon DEF VerTypes
  <2>8. cache' \subseteq cache \cup {r} /\ (~passes => cache' = cache)
    BY <2>2, Zenon
  <2>9. VerTypes'
    <3>1. reader' \in [Reader -> {"idle", "trust", "walk", "check", "accepted", "rejected", "failed"}]
      BY <1>0, <2>2, Zenon DEF VerTypes
    <3>2. cache' \subseteq Results
      BY <1>0, <2>4, <2>8, Zenon DEF VerTypes
    <3> QED
      BY <1>0, <2>1, <3>1, <3>2, Zenon DEF VerTypes
  <2>10. PotSound' /\ strict' = strict
    BY <1>0, <2>1, Zenon DEF PotSound
  <2>11. CacheSound'
    <3> SUFFICES ASSUME strict, NEW d \in cache' PROVE d.sig = OnChain[d.round]
      BY <2>1, Zenon DEF CacheSound
    <3>1. CASE d \in cache
      BY <1>0, <3>1, Zenon DEF CacheSound
    <3>2. CASE d \notin cache
      <4>1. d = r /\ passes
        BY <2>8, <3>2, Zenon
      <4> QED
        BY <2>3, <2>4, <2>5, <4>1, Zenon
    <3> QED
      BY <3>1, <3>2
  <2>12. ReaderSound(c)'
    <3>1. CASE passes
      <4>1. strict' => wants'[c].sig = OnChain[wants'[c].round]
        BY <2>1, <2>3, <2>5, <3>1, Zenon
      <4>2. reader'[c] = "accepted"
        BY <2>7, <3>1, Zenon
      <4> QED
        BY <4>1, <4>2 DEF ReaderSound
    <3>2. CASE ~passes
      <4>1. genuine'[c] => slow'[c]
        BY <2>1, <2>3, <2>6, <3>2, Zenon
      <4>2. reader'[c] = "rejected"
        BY <2>7, <3>2, Zenon
      <4> QED
        BY <4>1, <4>2 DEF ReaderSound
    <3> QED
      BY <3>1, <3>2
  <2> QED
    BY <2>1, <2>7, <2>9, <2>10, <2>11, <2>12, OneCallMoves, Zenon
<1>9. ASSUME NEW c \in Reader, NextCall(c)
      PROVE  VerInv'
  <2>1. /\ reader' = [reader EXCEPT ![c] = "idle"]
        /\ wants' = [wants EXCEPT ![c] = [round |-> 1, sig |-> OnChain[1]]]
        /\ trustRound' = [trustRound EXCEPT ![c] = 0]
        /\ trustPrevSig' = [trustPrevSig EXCEPT ![c] = Genesis]
        /\ initialTrust' = [initialTrust EXCEPT ![c] = 0]
        /\ slow' = [slow EXCEPT ![c] = FALSE]
        /\ genuine' = [genuine EXCEPT ![c] = TRUE]
        /\ UNCHANGED <<strict, pot, cache>>
    BY <1>9, Zenon DEF NextCall
  <2>2. [round |-> 1, sig |-> OnChain[1]] \in Results
    BY ChainAssumption, TrustAssumption DEF Rounds, Results
  <2>3. VerTypes'
    <3>1. reader' \in [Reader -> {"idle", "trust", "walk", "check", "accepted", "rejected", "failed"}]
      BY <1>0, <2>1, Zenon DEF VerTypes
    <3>2. wants' \in [Reader -> Results] /\ trustPrevSig' \in [Reader -> Sigs \cup {Genesis}]
      BY <1>0, <2>1, <2>2, Zenon DEF VerTypes
    <3>3. trustRound' \in [Reader -> Nat] /\ initialTrust' \in [Reader -> Nat]
      BY <1>0, <2>1 DEF VerTypes
    <3>4. slow' \in [Reader -> BOOLEAN] /\ genuine' \in [Reader -> BOOLEAN]
      BY <1>0, <2>1, Zenon DEF VerTypes
    <3> QED
      BY <1>0, <2>1, <3>1, <3>2, <3>3, <3>4, Zenon DEF VerTypes
  <2>4. ReaderSound(c)'
    <3>1. reader'[c] = "idle"
      BY <1>0, <2>1, Zenon DEF VerTypes
    <3> QED
      BY <3>1 DEF ReaderSound
  <2>5. \A d \in Reader \ {c} :
              /\ reader'[d] = reader[d] /\ wants'[d] = wants[d] /\ trustRound'[d] = trustRound[d]
              /\ trustPrevSig'[d] = trustPrevSig[d] /\ initialTrust'[d] = initialTrust[d]
              /\ slow'[d] = slow[d] /\ genuine'[d] = genuine[d]
    BY <1>0, <2>1, Zenon DEF VerTypes
  <2>6. PotSound' /\ CacheSound' /\ strict' = strict
    BY <1>0, <2>1, Zenon DEF PotSound, CacheSound
  <2> QED
    BY <2>3, <2>4, <2>5, <2>6, OneCallMoves, Zenon
<1> QED
  BY <1>1, <1>2, <1>3, <1>4, <1>5, <1>6, <1>7, <1>8, <1>9, Zenon DEF VerNext

\* The invariant holds in every state.
LEMMA VerInvariant == VerSpec => []VerInv
<1> QED
  BY VerInitInv, VerStep, PTL DEF VerSpec

(* Strict verification, for every number of concurrent calls, chain, point  *)
(* of trust and cache size: only the chain's signatures are returned and    *)
(* cached, and a genuine round beyond the point of trust is not refused     *)
(* when the rounds in between are genuine (verify,                          *)
(* getTrustedPreviousSignature, cachingClient).                             *)
THEOREM StrictVerifies == VerSpec => []StrictVerification
<1>1. VerInv => StrictVerification
  <2> SUFFICES ASSUME VerInv PROVE StrictVerification
    OBVIOUS
  <2>1. PotSound /\ CacheSound /\ \A c \in Reader : ReaderSound(c)
    BY Zenon DEF VerInv
  <2>2. StrictMeansChain
    BY <2>1, Zenon DEF StrictMeansChain, PotSound, CacheSound, ReaderSound
  <2>3. AcceptsAhead
    BY <2>1, Zenon DEF AcceptsAhead, ReaderSound
  <2> QED
    BY <2>2, <2>3 DEF StrictVerification
<1> QED
  BY <1>1, VerInvariant, PTL

-----------------------------------------------------------------------------
(* The configuration of a client (module ClientConfig).                    *)

\* The cache sizes: those given, and the default.
Sizes == CacheSizes \cup {32}

\* The clientConfig.
Configs == [clients : SUBSET Contact, watcher : BOOLEAN, chainHash : Chain \cup {Nil},
            chainInfo : Chain \cup {Nil}, previous : Nat, insecure : BOOLEAN,
            cacheSize : Sizes, prometheus : BOOLEAN]

\* A configured hash and configured parameters agree.
Consistent(c) == c.chainHash = Nil \/ c.chainInfo = Nil \/ c.chainHash = c.chainInfo

\* There is a root of trust, or none is wanted.
Rooted(c) == c.insecure \/ c.chainHash # Nil \/ c.chainInfo # Nil

\* What holds at each stage of makeClient.
CfgInv ==
    /\ cfg \in Configs
    /\ told \in [Contact -> Chain \cup {Nil}]
    /\ DOMAIN stack = {"verifiers", "from", "passive", "cached", "metrics"}
    /\ building = "options" => Consistent(cfg)
    /\ building \in {"watcher", "stack", "metrics", "made"} => Rooted(cfg)
    /\ building \in {"metrics", "made"} => stack.from = cfg.previous
    /\ WatcherKnowsChain

\* The empty configuration is consistent.
LEMMA CfgInitInv == CfgInit => CfgInv
<1> SUFFICES ASSUME CfgInit PROVE CfgInv
  OBVIOUS
<1>1. /\ cfg = [clients |-> {}, watcher |-> FALSE, chainHash |-> Nil, chainInfo |-> Nil,
                previous |-> 0, insecure |-> FALSE, cacheSize |-> 32, prometheus |-> FALSE]
      /\ building = "options" /\ told \in [Contact -> Chain \cup {Nil}] /\ stack = NoStack
  BY Zenon DEF CfgInit
<1>2. cfg \in Configs /\ cfg.chainHash = Nil
  BY <1>1 DEF Configs, Sizes
<1>3. DOMAIN stack = {"verifiers", "from", "passive", "cached", "metrics"}
  BY <1>1 DEF NoStack
<1> QED
  BY <1>1, <1>2, <1>3 DEF CfgInv, Consistent, WatcherKnowsChain

\* An option that keeps the configuration consistent, and the checkpoint.
LEMMA OptionStep ==
  ASSUME CfgInv, NEW ok \in BOOLEAN, NEW next, Option(ok, next),
         ok => next \in Configs /\ Consistent(next) /\ next.previous >= cfg.previous
  PROVE  /\ CfgInv'
         /\ cfg'.previous >= cfg.previous
         /\ building' # "made"
<1>1. /\ building = "options" /\ cfg' = IF ok THEN next ELSE cfg
      /\ building' = IF ok THEN "options" ELSE "error"
      /\ told' = told /\ stack' = stack
  BY Zenon DEF Option
<1>2. cfg \in Configs /\ Consistent(cfg)
  BY <1>1, Zenon DEF CfgInv
<1>3. cfg.previous \in Nat
  BY <1>2 DEF Configs
<1>4. cfg' \in Configs /\ Consistent(cfg') /\ cfg'.previous >= cfg.previous
  BY <1>1, <1>2, <1>3
<1>5. building' \in {"options", "error"}
  BY <1>1, Zenon
<1>6. /\ building' # "made" /\ building' \notin {"watcher", "stack", "metrics", "made"}
      /\ building' \notin {"metrics", "made"} /\ building' \notin {"stack", "metrics", "made"}
  BY <1>5
<1>7. Consistent(cfg)' <=> Consistent(cfg')
  BY Zenon DEF Consistent
<1>8. CfgInv'
  BY <1>1, <1>4, <1>6, <1>7, Zenon DEF CfgInv, WatcherKnowsChain, Configs, Sizes
<1> QED
  BY <1>4, <1>6, <1>8, Zenon

\* What a step keeps, and what it never does to the checkpoint.
CfgKept ==
    /\ CfgInv'
    /\ cfg'.previous >= cfg.previous
    /\ building' = "made" => stack'.from = cfg'.previous

\* Every option and every stage of makeClient keeps the invariant and the
\* checkpoint.
LEMMA CfgStep ==
  ASSUME CfgInv, [CfgNext]_cfgVars
  PROVE  CfgKept
<1>0. /\ cfg \in Configs /\ told \in [Contact -> Chain \cup {Nil}]
      /\ DOMAIN stack = {"verifiers", "from", "passive", "cached", "metrics"}
  BY Zenon DEF CfgInv
<1>p. cfg.previous \in Nat /\ cfg.previous >= cfg.previous
  BY <1>0 DEF Configs
<1>1. ASSUME NEW cs \in SUBSET Contact, From(cs) PROVE CfgKept
  <2> DEFINE next == [cfg EXCEPT !.clients = cs]
  <2>1. building = "options" /\ Consistent(cfg)
    BY <1>1, Zenon DEF From, Option, CfgInv
  <2>2. next \in Configs
    BY <1>0 DEF Configs, Sizes
  <2>3. /\ next.chainHash = cfg.chainHash /\ next.chainInfo = cfg.chainInfo
        /\ next.previous = cfg.previous
    BY <1>0 DEF Configs
  <2>4. Consistent(next)
    <3> HIDE DEF next
    <3> QED
      BY <2>1, <2>3, Zenon DEF Consistent
  <2>5. Option(TRUE, next)
    BY <1>1, Zenon DEF From
  <2>6. (TRUE) \in BOOLEAN
    OBVIOUS
  <2> HIDE DEF next
  <2>7. TRUE => next \in Configs /\ Consistent(next) /\ next.previous >= cfg.previous
    BY <1>p, <2>2, <2>3, <2>4, Zenon
  <2> QED
    BY <2>5, <2>6, <2>7, OptionStep, Zenon DEF CfgKept
<1>2. ASSUME Insecurely PROVE CfgKept
  <2> DEFINE next == [cfg EXCEPT !.insecure = TRUE]
  <2>1. building = "options" /\ Consistent(cfg)
    BY <1>2, Zenon DEF Insecurely, Option, CfgInv
  <2>2. next \in Configs
    BY <1>0, Zenon DEF Configs, Sizes
  <2>3. /\ next.chainHash = cfg.chainHash /\ next.chainInfo = cfg.chainInfo
        /\ next.previous = cfg.previous
    BY <1>0 DEF Configs
  <2>4. Consistent(next)
    <3> HIDE DEF next
    <3> QED
      BY <2>1, <2>3, Zenon DEF Consistent
  <2>5. Option(TRUE, next)
    BY <1>2, Zenon DEF Insecurely
  <2>6. (TRUE) \in BOOLEAN
    OBVIOUS
  <2> HIDE DEF next
  <2>7. TRUE => next \in Configs /\ Consistent(next) /\ next.previous >= cfg.previous
    BY <1>p, <2>2, <2>3, <2>4, Zenon
  <2> QED
    BY <2>5, <2>6, <2>7, OptionStep, Zenon DEF CfgKept
<1>3. ASSUME WithWatcher PROVE CfgKept
  <2> DEFINE next == [cfg EXCEPT !.watcher = TRUE]
  <2>1. building = "options" /\ Consistent(cfg)
    BY <1>3, Zenon DEF WithWatcher, Option, CfgInv
  <2>2. next \in Configs
    BY <1>0, Zenon DEF Configs, Sizes
  <2>3. /\ next.chainHash = cfg.chainHash /\ next.chainInfo = cfg.chainInfo
        /\ next.previous = cfg.previous
    BY <1>0 DEF Configs
  <2>4. Consistent(next)
    <3> HIDE DEF next
    <3> QED
      BY <2>1, <2>3, Zenon DEF Consistent
  <2>5. Option(TRUE, next)
    BY <1>3, Zenon DEF WithWatcher
  <2>6. (TRUE) \in BOOLEAN
    OBVIOUS
  <2> HIDE DEF next
  <2>7. TRUE => next \in Configs /\ Consistent(next) /\ next.previous >= cfg.previous
    BY <1>p, <2>2, <2>3, <2>4, Zenon
  <2> QED
    BY <2>5, <2>6, <2>7, OptionStep, Zenon DEF CfgKept
<1>4. ASSUME WithPrometheus PROVE CfgKept
  <2> DEFINE next == [cfg EXCEPT !.prometheus = TRUE]
  <2>1. building = "options" /\ Consistent(cfg)
    BY <1>4, Zenon DEF WithPrometheus, Option, CfgInv
  <2>2. next \in Configs
    BY <1>0, Zenon DEF Configs, Sizes
  <2>3. /\ next.chainHash = cfg.chainHash /\ next.chainInfo = cfg.chainInfo
        /\ next.previous = cfg.previous
    BY <1>0 DEF Configs
  <2>4. Consistent(next)
    <3> HIDE DEF next
    <3> QED
      BY <2>1, <2>3, Zenon DEF Consistent
  <2>5. Option(TRUE, next)
    BY <1>4, Zenon DEF WithPrometheus
  <2>6. (TRUE) \in BOOLEAN
    OBVIOUS
  <2> HIDE DEF next
  <2>7. TRUE => next \in Configs /\ Consistent(next) /\ next.previous >= cfg.previous
    BY <1>p, <2>2, <2>3, <2>4, Zenon
  <2> QED
    BY <2>5, <2>6, <2>7, OptionStep, Zenon DEF CfgKept
<1>5. ASSUME NEW n \in CacheSizes, WithCacheSize(n) PROVE CfgKept
  <2> DEFINE next == [cfg EXCEPT !.cacheSize = n]
  <2>1. building = "options" /\ Consistent(cfg)
    BY <1>5, Zenon DEF WithCacheSize, Option, CfgInv
  <2>2. next \in Configs
    BY <1>0 DEF Configs, Sizes
  <2>3. /\ next.chainHash = cfg.chainHash /\ next.chainInfo = cfg.chainInfo
        /\ next.previous = cfg.previous
    BY <1>0 DEF Configs
  <2>4. Consistent(next)
    <3> HIDE DEF next
    <3> QED
      BY <2>1, <2>3, Zenon DEF Consistent
  <2>5. Option(TRUE, next)
    BY <1>5, Zenon DEF WithCacheSize
  <2>6. (TRUE) \in BOOLEAN
    OBVIOUS
  <2> HIDE DEF next
  <2>7. TRUE => next \in Configs /\ Consistent(next) /\ next.previous >= cfg.previous
    BY <1>p, <2>2, <2>3, <2>4, Zenon
  <2> QED
    BY <2>5, <2>6, <2>7, OptionStep, Zenon DEF CfgKept
<1>6. ASSUME NEW h \in Chain, WithChainHash(h) PROVE CfgKept
  <2> DEFINE next == [cfg EXCEPT !.chainHash = h]
  <2>1. building = "options" /\ Consistent(cfg)
    BY <1>6, Zenon DEF WithChainHash, Option, CfgInv
  <2>2. next \in Configs /\ next.chainInfo = cfg.chainInfo /\ next.previous = cfg.previous
    BY <1>0 DEF Configs
  <2>3. cfg.chainInfo \in {Nil, h} => Consistent(next)
    <3>1. next.chainHash = h
      BY <1>0 DEF Configs
    <3> HIDE DEF next
    <3> QED
      BY <2>2, <3>1 DEF Consistent
  <2>5. Option(cfg.chainInfo \in {Nil, h}, next)
    BY <1>6, Zenon DEF WithChainHash
  <2>6. (cfg.chainInfo \in {Nil, h}) \in BOOLEAN
    OBVIOUS
  <2> HIDE DEF next
  <2>7. cfg.chainInfo \in {Nil, h} => next \in Configs /\ Consistent(next) /\ next.previous >= cfg.previous
    BY <1>p, <2>2, <2>3, Zenon
  <2> QED
    BY <2>5, <2>6, <2>7, OptionStep, Zenon DEF CfgKept
<1>7. ASSUME NEW h \in Chain, WithChainInfo(h) PROVE CfgKept
  <2> DEFINE next == [cfg EXCEPT !.chainInfo = h]
  <2>1. building = "options" /\ Consistent(cfg)
    BY <1>7, Zenon DEF WithChainInfo, Option, CfgInv
  <2>2. next \in Configs /\ next.chainHash = cfg.chainHash /\ next.previous = cfg.previous
    BY <1>0 DEF Configs
  <2>3. cfg.chainHash \in {Nil, h} => Consistent(next)
    <3>1. next.chainInfo = h
      BY <1>0 DEF Configs
    <3> HIDE DEF next
    <3> QED
      BY <2>2, <3>1 DEF Consistent
  <2>5. Option(cfg.chainHash \in {Nil, h}, next)
    BY <1>7, Zenon DEF WithChainInfo
  <2>6. (cfg.chainHash \in {Nil, h}) \in BOOLEAN
    OBVIOUS
  <2> HIDE DEF next
  <2>7. cfg.chainHash \in {Nil, h} => next \in Configs /\ Consistent(next) /\ next.previous >= cfg.previous
    BY <1>p, <2>2, <2>3, Zenon
  <2> QED
    BY <2>5, <2>6, <2>7, OptionStep, Zenon DEF CfgKept
<1>8. ASSUME NEW r \in 1 .. 2, WithVerifiedResult(r) PROVE CfgKept
  <2> DEFINE next == [cfg EXCEPT !.previous = r]
  <2>1. building = "options" /\ Consistent(cfg)
    BY <1>8, Zenon DEF WithVerifiedResult, Option, CfgInv
  <2>2. next \in Configs /\ next.chainHash = cfg.chainHash /\ next.chainInfo = cfg.chainInfo
    BY <1>0 DEF Configs
  <2>3. next.previous = r
    BY <1>0 DEF Configs
  <2>4. cfg.previous <= r => Consistent(next) /\ next.previous >= cfg.previous
    <3> HIDE DEF next
    <3> QED
      BY <1>p, <2>1, <2>2, <2>3 DEF Consistent
  <2>5. Option(cfg.previous <= r, next)
    BY <1>8, Zenon DEF WithVerifiedResult
  <2>6. (cfg.previous <= r) \in BOOLEAN
    OBVIOUS
  <2> HIDE DEF next
  <2>7. cfg.previous <= r => next \in Configs /\ Consistent(next) /\ next.previous >= cfg.previous
    BY <1>p, <2>2, <2>3, <2>4, Zenon
  <2> QED
    BY <2>5, <2>6, <2>7, OptionStep, Zenon DEF CfgKept
<1>9. CASE CheckConfig
  <2>1. /\ building = "options" /\ cfg' = cfg /\ told' = told /\ stack' = stack
    BY <1>9, Zenon DEF CheckConfig
  <2>2. building' = IF \/ ~cfg.insecure /\ cfg.chainHash = Nil /\ cfg.chainInfo = Nil
                       \/ cfg.clients = {} /\ ~cfg.watcher
                       \/ cfg.cacheSize < 0
                    THEN "error" ELSE IF cfg.watcher THEN "watcher" ELSE "stack"
    BY <1>9, Zenon DEF CheckConfig
  <2>3. /\ building' = "error" \/ (building' = "watcher" /\ Rooted(cfg))
           \/ (building' = "stack" /\ Rooted(cfg) /\ ~cfg.watcher)
    BY <2>2, Zenon DEF Rooted
  <2>4. building' # "options" /\ building' \notin {"metrics", "made"} /\ building' # "made"
    BY <2>3
  <2>5. Rooted(cfg)' <=> Rooted(cfg)
    BY <2>1, Zenon DEF Rooted
  <2>6. building' \in {"watcher", "stack", "metrics", "made"} => Rooted(cfg)
    BY <2>3
  <2>7. building' \in {"stack", "metrics", "made"} => ~cfg.watcher
    BY <2>3
  <2>8. CfgInv'
    BY <1>0, <2>1, <2>4, <2>5, <2>6, <2>7, Zenon DEF CfgInv, WatcherKnowsChain, Configs, Sizes
  <2> QED
    BY <1>p, <2>1, <2>4, <2>8, Zenon DEF CfgKept
<1>10. ASSUME NEW then, TryPopulateInfo(cfg.clients, then)
       PROVE  /\ cfg' \in Configs /\ building' \in {then, "error"}
              /\ cfg'.previous = cfg.previous /\ cfg'.clients = cfg.clients
              /\ cfg'.watcher = cfg.watcher /\ (Rooted(cfg) => Rooted(cfg'))
              /\ cfg.chainInfo # Nil => cfg'.chainInfo # Nil
              /\ building' = then /\ cfg.clients # {} => cfg'.chainInfo # Nil \/ building' = "error"
  <2>1. CASE cfg' = cfg /\ building' \in {then, "error"}
              /\ (cfg.chainInfo # Nil \/ cfg.clients = {} \/ building' = "error")
    BY <1>0, <2>1, Zenon
  <2>2. ASSUME NEW c \in cfg.clients, told[c] # Nil, cfg' = [cfg EXCEPT !.chainInfo = told[c]],
               building' = then
        PROVE  /\ cfg' \in Configs /\ cfg'.chainInfo # Nil
               /\ cfg'.previous = cfg.previous /\ cfg'.clients = cfg.clients
               /\ cfg'.watcher = cfg.watcher
    <3>1. c \in Contact
      BY <1>0 DEF Configs
    <3>2. told[c] \in Chain \cup {Nil}
      BY <1>0, <3>1, Zenon
    <3> QED
      BY <1>0, <2>2, <3>2 DEF Configs
  <2>3. \/ cfg' = cfg /\ building' \in {then, "error"}
              /\ (cfg.chainInfo # Nil \/ cfg.clients = {} \/ building' = "error")
        \/ \E c \in cfg.clients : /\ told[c] # Nil /\ cfg' = [cfg EXCEPT !.chainInfo = told[c]]
                                  /\ building' = then
    BY <1>10, Zenon DEF TryPopulateInfo
  <2>4. cfg'.chainInfo # Nil => Rooted(cfg')
    BY Zenon DEF Rooted
  <2> QED
    BY <2>1, <2>2, <2>3, <2>4, Zenon
<1>11. CASE MakeWatcher
  <2>1. /\ building = "watcher" /\ TryPopulateInfo(cfg.clients, "stack")
        /\ told' = told /\ stack' = stack
    BY <1>11, Zenon DEF MakeWatcher
  <2>2. /\ cfg' \in Configs /\ building' \in {"stack", "error"}
        /\ cfg'.previous = cfg.previous /\ cfg'.clients = cfg.clients
        /\ (Rooted(cfg) => Rooted(cfg'))
        /\ building' = "stack" /\ cfg.clients # {} => cfg'.chainInfo # Nil \/ building' = "error"
    BY <1>10, <2>1, Zenon
  <2>3. Rooted(cfg)
    BY <2>1, Zenon DEF CfgInv
  <2>4. /\ building' # "options" /\ building' \notin {"metrics", "made"} /\ building' # "made"
        /\ building' \in {"stack", "metrics", "made"} => building' = "stack" /\ building' # "error"
    BY <2>2
  <2>5. CfgInv'
    BY <1>0, <2>1, <2>2, <2>3, <2>4, Zenon DEF CfgInv, WatcherKnowsChain, Configs, Sizes, Rooted
  <2> QED
    BY <1>p, <2>2, <2>4, <2>5, Zenon DEF CfgKept
<1>12. CASE MakeStack
  <2>1. /\ building = "stack" /\ cfg' = cfg /\ told' = told
        /\ stack' = [verifiers |-> cfg.clients \cup IF cfg.watcher THEN {"watcher"} ELSE {},
                     from |-> cfg.previous, passive |-> cfg.watcher,
                     cached |-> cfg.cacheSize > 0, metrics |-> FALSE]
        /\ building' \in {"metrics", "made"}
    BY <1>12, Zenon DEF MakeStack
  <2>2. /\ DOMAIN stack' = {"verifiers", "from", "passive", "cached", "metrics"}
        /\ stack'.from = cfg.previous
    BY <2>1
  <2>3. Rooted(cfg) /\ (cfg.watcher /\ cfg.clients # {} => cfg.chainInfo # Nil)
    BY <2>1, Zenon DEF CfgInv, WatcherKnowsChain
  <2>4. building' # "options"
    BY <2>1
  <2>5. Rooted(cfg)' <=> Rooted(cfg)
    BY <2>1, Zenon DEF Rooted
  <2>6. CfgInv'
    BY <1>0, <2>1, <2>2, <2>3, <2>4, <2>5, Zenon DEF CfgInv, WatcherKnowsChain, Configs, Sizes
  <2> QED
    BY <1>p, <2>1, <2>2, <2>6, Zenon DEF CfgKept
<1>13. CASE AttachMetrics
  <2>1. /\ building = "metrics" /\ TryPopulateInfo(cfg.clients, "made")
        /\ told' = told /\ stack' = [stack EXCEPT !.metrics = building' = "made"]
    BY <1>13, Zenon DEF AttachMetrics
  <2>2. /\ cfg' \in Configs /\ building' \in {"made", "error"}
        /\ cfg'.previous = cfg.previous /\ cfg'.clients = cfg.clients
        /\ cfg'.watcher = cfg.watcher /\ (Rooted(cfg) => Rooted(cfg'))
        /\ cfg.chainInfo # Nil => cfg'.chainInfo # Nil
    BY <1>10, <2>1, Zenon
  <2>3. /\ Rooted(cfg) /\ stack.from = cfg.previous
        /\ (cfg.watcher /\ cfg.clients # {} => cfg.chainInfo # Nil)
    BY <2>1, Zenon DEF CfgInv, WatcherKnowsChain
  <2>4. /\ DOMAIN stack' = {"verifiers", "from", "passive", "cached", "metrics"}
        /\ stack'.from = stack.from
    BY <1>0, <2>1
  <2>5. building' # "options"
    BY <2>2
  <2>6. CfgInv'
    BY <1>0, <2>1, <2>2, <2>3, <2>4, <2>5, Zenon
    DEF CfgInv, WatcherKnowsChain, Configs, Sizes, Rooted
  <2> QED
    BY <1>p, <2>2, <2>3, <2>4, <2>6, Zenon DEF CfgKept
<1>14. CASE UNCHANGED cfgVars
  <2>1. cfg' = cfg /\ building' = building /\ told' = told /\ stack' = stack
    BY <1>14, Zenon DEF cfgVars
  <2>2. CfgInv'
    BY <2>1, Zenon DEF CfgInv, Configs, Sizes, Rooted, Consistent, WatcherKnowsChain
  <2> QED
    BY <1>p, <2>1, <2>2, Zenon DEF CfgKept, CfgInv
<1> QED
  BY <1>1, <1>2, <1>3, <1>4, <1>5, <1>6, <1>7, <1>8, <1>9, <1>11, <1>12, <1>13, <1>14, Zenon
  DEF CfgNext

(* A client that could be made is made for one chain: whatever the order   *)
(* of the options, hash and parameters agree, a root of trust is there     *)
(* unless it was declined, and a watcher knows the chain when there is     *)
(* another client to ask (New, makeClient, tryPopulateInfo), for any       *)
(* chains, contacts and number of options.                                 *)
THEOREM ConfigsAreSound == CfgSpec => []ConfigIsSound
<1>1. CfgInv => ConfigIsSound
  BY Zenon DEF CfgInv, ConfigIsSound, TrustIsConsistent, Consistent, Rooted
<1>2. CfgInv /\ [CfgNext]_cfgVars => CfgInv'
  BY CfgStep, Zenon DEF CfgKept
<1> QED
  BY CfgInitInv, <1>1, <1>2, PTL DEF CfgSpec

(* No sequence of options moves the checkpoint back, and the verifiers of  *)
(* a finished client start from the last one given (WithVerifiedResult,    *)
(* makeClient).                                                            *)
THEOREM CheckpointNeverBack == CfgSpec => CheckpointKept
<1>1. CfgInv /\ [CfgNext]_cfgVars => CfgInv'
  BY CfgStep, Zenon DEF CfgKept
<1>2. CfgInv /\ [CfgNext]_cfgVars
      => [cfg'.previous >= cfg.previous
          /\ (building' = "made" => stack'.from = cfg'.previous)]_cfgVars
  BY CfgStep, Zenon DEF CfgKept
<1> QED
  BY CfgInitInv, <1>1, <1>2, PTL DEF CfgSpec, CheckpointKept
-----------------------------------------------------------------------------
(* The connections of the gRPC client (module Connections).                *)

\* What is kept of a connection, and of a call.
Connection == [id : Nat, tls : BOOLEAN]
Call == [at : {"idle", "has", "sent"}, addr : Addr \cup {"none"}, method : Methods \cup {"none"},
         tls : BOOLEAN, conn : Connection]

\* The types of what the argument is about.
ConnTypes ==
    /\ conns \in [Addr -> SUBSET Connection] /\ dials \in Nat /\ open \subseteq Nat
    /\ rpc \in [Caller -> Call] /\ badDial \subseteq Addr /\ dead \in BOOLEAN

\* The map has one connection per address, none newer than the last dial, and
\* a nil one only after a dial that failed.
MapSound ==
    \A a \in Addr : \A c \in conns[a] :
        /\ c.id <= dials
        /\ c.id = 0 => a \in badDial
        /\ c.id # 0 => c.id \in open
        /\ \A b \in Addr : \A d \in conns[b] : (a = b \/ (c.id = d.id /\ c.id # 0)) => a = b /\ c = d

\* Every open connection is in the map.
OpenInMap == \A i \in open : i # 0 /\ \E a \in Addr : \E c \in conns[a] : c.id = i

\* What a call holds: a connection of the map as long as it is open.  Without
\* the bound on the id, a later dial could bring back a closed connection.
CallSound(r) ==
    /\ r.at \in {"has", "sent"} => r.addr \in Addr /\ r.conn.id <= dials
    /\ r.at = "has" => /\ r.conn.id = 0 => r.addr \in badDial
                       /\ r.conn.id \in open => r.conn \in conns[r.addr]
    /\ r.at = "sent" => r.conn \in conns[r.addr]

\* All calls are, and only a dial that failed explains a panic.
CallsSound == \A k \in Caller : CallSound(rpc[k])
PanicExplained == dead => badDial # {}

\* The inductive invariant.
ConnInv == ConnTypes /\ MapSound /\ OpenInMap /\ CallsSound /\ PanicExplained

\* A caller without a call is sound.
LEMMA NoCallSound == NoCall \in Call /\ CallSound(NoCall) /\ CallSound(NoCall)'
<1>1. NoCall.at = "idle" /\ NoCall \in Call
  BY DEF NoCall, Call, Connection
<1> QED
  BY <1>1 DEF CallSound

\* There are no connections yet.
LEMMA ConnInitInv == ConnInit => ConnInv
<1> SUFFICES ASSUME ConnInit
             PROVE  ConnInv
  OBVIOUS
<1>1. ConnTypes
  BY NoCallSound, Zenon DEF ConnInit, ConnTypes
<1>2. MapSound /\ OpenInMap /\ PanicExplained
  BY DEF ConnInit, MapSound, OpenInMap, PanicExplained
<1>3. CallsSound
  BY NoCallSound DEF ConnInit, CallsSound
<1> QED
  BY <1>1, <1>2, <1>3 DEF ConnInv

(* Steps that leave the map alone and move one call only.                  *)
LEMMA CallMoves ==
    ASSUME ConnInv, UNCHANGED <<conns, dials, open, badDial>>, dead' \in BOOLEAN,
           PanicExplained', NEW k \in Caller, NEW r \in Call, CallSound(r),
           rpc' = [rpc EXCEPT ![k] = r]
    PROVE  ConnInv'
<1>1. ConnTypes'
  BY DEF ConnInv, ConnTypes
<1>2. MapSound' /\ OpenInMap'
  BY DEF ConnInv, MapSound, OpenInMap
<1>3. \A j \in Caller : rpc'[j] = rpc[j] \/ rpc'[j] = r
  BY DEF ConnInv, ConnTypes
<1>4. CallsSound'
  <2> SUFFICES ASSUME NEW j \in Caller
               PROVE  CallSound(rpc[j])'
    BY DEF CallsSound
  <2>1. CallSound(rpc[j]) /\ CallSound(r)
    BY DEF ConnInv, CallsSound
  <2>2. CASE rpc'[j] = rpc[j]
    BY <2>1, <2>2 DEF CallSound
  <2>3. CASE rpc'[j] = r
    BY <2>1, <2>3 DEF CallSound
  <2> QED
    BY <1>3, <2>2, <2>3
<1> QED
  BY <1>1, <1>2, <1>4 DEF ConnInv

(* A dial leaves every call sound: the address had no connection, and the  *)
(* new one is newer than whatever a call holds.                            *)
LEMMA DialKeepsCalls ==
    ASSUME ConnInv, NEW a \in Addr, conns[a] = {}, NEW c \in Connection,
           conns' = [conns EXCEPT ![a] = {c}], dials' = dials + 1,
           open' \subseteq open \cup {dials + 1}, badDial \subseteq badDial',
           NEW j \in Caller
    PROVE  CallSound(rpc[j])' \/ rpc'[j] # rpc[j]
<1> SUFFICES ASSUME rpc'[j] = rpc[j]
             PROVE  CallSound(rpc[j])'
  OBVIOUS
<1> DEFINE r == rpc[j]
<1>1. r \in Call /\ CallSound(r) /\ dials \in Nat /\ conns \in [Addr -> SUBSET Connection]
  BY DEF ConnInv, ConnTypes, CallsSound
<1>2. r.conn.id \in Nat
  BY <1>1 DEF Call, Connection
<1>3. \A b \in Addr \ {a} : conns'[b] = conns[b]
  BY <1>1
<1>4. r.at \in {"has", "sent"} => r.conn.id <= dials /\ r.conn.id # dials + 1
  BY <1>1, <1>2 DEF CallSound
<1>5. r.addr \in Addr /\ r.conn \in conns[r.addr] => r.conn \in conns'[r.addr]
  BY <1>3
<1> HIDE DEF r
<1>6. r.at \in {"has", "sent"} => r.addr \in Addr /\ r.conn.id <= dials'
  BY <1>1, <1>2, <1>4 DEF CallSound
<1>7. r.at = "has" => /\ r.conn.id = 0 => r.addr \in badDial'
                      /\ r.conn.id \in open' => r.conn \in conns'[r.addr]
  BY <1>1, <1>4, <1>5 DEF CallSound
<1>8. r.at = "sent" => r.conn \in conns'[r.addr]
  BY <1>1, <1>5 DEF CallSound
<1> QED
  BY <1>6, <1>7, <1>8 DEF CallSound, r

\* conn finds the connection of an address, or dials.
LEMMA ConnKeepsInv ==
    ASSUME ConnInv, NEW k \in Caller, NEW a \in Addr, NEW t \in BOOLEAN, NEW m \in Methods,
           Conn(k, a, t, m)
    PROVE  ConnInv'
<1>0. /\ ConnTypes /\ MapSound /\ OpenInMap /\ CallsSound /\ PanicExplained
      /\ conns \in [Addr -> SUBSET Connection] /\ dials \in Nat /\ rpc \in [Caller -> Call]
      /\ dead \in BOOLEAN /\ open \subseteq Nat /\ badDial \subseteq Addr
  BY DEF ConnInv, ConnTypes
<1>m. MapSound
  BY <1>0, Zenon
<1>p. PanicExplained
  BY <1>0, Zenon
<1>1. dead' = dead
  BY DEF Conn
<1>2. CASE conns[a] # {}
  <2>1. PICK c \in conns[a] :
           rpc' = [rpc EXCEPT ![k] = [at |-> "has", addr |-> a, method |-> m,
                                      tls |-> t, conn |-> c]]
    BY <1>2 DEF Conn
  <2> DEFINE r == [at |-> "has", addr |-> a, method |-> m, tls |-> t, conn |-> c]
  <2>2. UNCHANGED <<conns, dials, open, badDial>>
    BY <1>2 DEF Conn
  <2>3. c \in Connection
    BY <1>0
  <2>4. r \in Call
    BY <2>3 DEF Call
  <2>5. c.id <= dials /\ (c.id = 0 => a \in badDial)
    BY <1>m, Zenon DEF MapSound
  <2>6. CallSound(r)
    BY <2>5 DEF CallSound
  <2>7. PanicExplained'
    BY <1>p, <1>1, <2>2, Zenon DEF PanicExplained
  <2> HIDE DEF r
  <2>8. rpc' = [rpc EXCEPT ![k] = r]
    BY <2>1 DEF r
  <2>9. dead' \in BOOLEAN
    BY <1>0, <1>1
  <2> QED
    BY <2>2, <2>4, <2>6, <2>7, <2>8, <2>9, CallMoves, Zenon
<1>3. CASE conns[a] = {} /\ ~ UNCHANGED open
  <2> DEFINE c == [id |-> dials + 1, tls |-> t]
             r == [at |-> "has", addr |-> a, tls |-> t, method |-> m, conn |-> c]
  <2>1. /\ dials' = dials + 1 /\ conns' = [conns EXCEPT ![a] = {c}]
        /\ open' = open \cup {c.id} /\ rpc' = [rpc EXCEPT ![k] = r] /\ badDial' = badDial
    BY <1>3 DEF Conn
  <2>2. c \in Connection /\ c.id = dials + 1 /\ dials + 1 # 0
    BY <1>0 DEF Connection
  <2>3. r \in Call
    BY <2>2 DEF Call
  <2>4. /\ r.at = "has" /\ r.addr = a /\ r.conn = c
    OBVIOUS
  <2> HIDE DEF c, r
  <2>5. ConnTypes'
    BY <1>0, <1>1, <2>1, <2>2, <2>3 DEF ConnTypes
  <2>6. conns'[a] = {c} /\ \A b \in Addr \ {a} : conns'[b] = conns[b]
    BY <1>0, <2>1
  <2>7. \A b \in Addr : \A d \in conns[b] : d \in Connection /\ d.id \in Nat /\ d.id <= dials
                                           /\ d.id # dials + 1
    BY <1>0 DEF MapSound, Connection
  <2>8. MapSound'
    <3> SUFFICES ASSUME NEW b \in Addr, NEW d \in conns'[b]
                 PROVE  /\ d.id <= dials' /\ (d.id = 0 => b \in badDial') /\ (d.id # 0 => d.id \in open')
                        /\ \A b2 \in Addr : \A d2 \in conns'[b2] :
                              (b = b2 \/ (d.id = d2.id /\ d.id # 0)) => b = b2 /\ d = d2
      BY DEF MapSound
    <3>1. CASE b = a
      <4>1. d = c
        BY <2>6, <3>1
      <4>2. d.id <= dials' /\ (d.id = 0 => b \in badDial') /\ (d.id # 0 => d.id \in open')
        BY <1>0, <2>1, <2>2, <4>1
      <4>3. ASSUME NEW b2 \in Addr, NEW d2 \in conns'[b2], b = b2 \/ (d.id = d2.id /\ d.id # 0)
            PROVE  b = b2 /\ d = d2
        BY <2>2, <2>6, <2>7, <3>1, <4>1, <4>3
      <4> QED
        BY <4>2, <4>3
    <3>2. CASE b # a
      <4>1. d \in conns[b] /\ d.id <= dials /\ d.id \in Nat /\ d.id # dials + 1
        BY <2>6, <2>7, <3>2
      <4>2. d.id <= dials' /\ (d.id = 0 => b \in badDial') /\ (d.id # 0 => d.id \in open')
        BY <1>0, <1>m, <2>1, <4>1 DEF MapSound
      <4>3. ASSUME NEW b2 \in Addr, NEW d2 \in conns'[b2], b = b2 \/ (d.id = d2.id /\ d.id # 0)
            PROVE  b = b2 /\ d = d2
        <5>1. b2 # a
          BY <2>2, <2>6, <3>2, <4>1, <4>3, Zenon
        <5>2. d2 \in conns[b2]
          BY <2>6, <5>1
        <5> QED
          BY <1>m, <4>1, <4>3, <5>2, Zenon DEF MapSound
      <4> QED
        BY <4>2, <4>3
    <3> QED
      BY <3>1, <3>2
  <2>9. OpenInMap'
    <3> SUFFICES ASSUME NEW i \in open'
                 PROVE  i # 0 /\ \E b \in Addr : \E d \in conns'[b] : d.id = i
      BY DEF OpenInMap
    <3>1. CASE i = c.id
      BY <2>2, <2>6, <3>1
    <3>2. CASE i \in open
      BY <1>0, <1>3, <2>6, <3>2 DEF OpenInMap
    <3> QED
      BY <2>1, <3>1, <3>2
  <2>10. r.conn.id <= dials' /\ r.conn.id # 0 /\ r.conn \in conns'[a]
    BY <1>0, <2>1, <2>2, <2>4, <2>6
  <2>11. CallsSound'
    <3> SUFFICES ASSUME NEW j \in Caller
                 PROVE  CallSound(rpc[j])'
      BY DEF CallsSound
    <3>1. rpc'[j] = rpc[j] \/ rpc'[j] = r
      BY <1>0, <2>1
    <3>2. CASE rpc'[j] = r
      BY <2>4, <2>10, <3>2 DEF CallSound
    <3>3. CASE rpc'[j] = rpc[j]
      <4>1. open' \subseteq open \cup {dials + 1} /\ badDial \subseteq badDial'
        BY <2>1, <2>2
      <4>2. CallSound(rpc[j])' \/ rpc'[j] # rpc[j]
        BY <1>3, <2>1, <2>2, <4>1, DialKeepsCalls, Zenon
      <4> QED
        BY <3>3, <4>2
    <3> QED
      BY <3>1, <3>2, <3>3
  <2>12. PanicExplained'
    BY <1>0, <1>1, <2>1 DEF PanicExplained
  <2> QED
    BY <2>5, <2>8, <2>9, <2>11, <2>12 DEF ConnInv
<1>4. CASE conns[a] = {} /\ UNCHANGED open
  <2> DEFINE c == [id |-> 0, tls |-> t]
  <2>1. /\ dials' = dials + 1 /\ conns' = [conns EXCEPT ![a] = {c}]
        /\ open' = open /\ rpc' = rpc /\ badDial' = badDial \cup {a}
    <3>1. dials + 1 \notin open
      BY <1>0 DEF OpenInMap, MapSound
    <3> QED
      BY <1>4, <3>1 DEF Conn
  <2>2. c \in Connection /\ c.id = 0
    BY DEF Connection
  <2> HIDE DEF c
  <2>3. ConnTypes'
    BY <1>0, <1>1, <2>1, <2>2 DEF ConnTypes
  <2>4. conns'[a] = {c} /\ \A b \in Addr \ {a} : conns'[b] = conns[b]
    BY <1>0, <2>1
  <2>5. \A b \in Addr : \A d \in conns[b] : d \in Connection /\ d.id \in Nat /\ d.id <= dials
    BY <1>0 DEF MapSound, Connection
  <2>6. MapSound'
    <3> SUFFICES ASSUME NEW b \in Addr, NEW d \in conns'[b]
                 PROVE  /\ d.id <= dials' /\ (d.id = 0 => b \in badDial') /\ (d.id # 0 => d.id \in open')
                        /\ \A b2 \in Addr : \A d2 \in conns'[b2] :
                              (b = b2 \/ (d.id = d2.id /\ d.id # 0)) => b = b2 /\ d = d2
      BY DEF MapSound
    <3>1. CASE b = a
      <4>1. d = c
        BY <2>4, <3>1
      <4> QED
        BY <1>0, <2>1, <2>2, <2>4, <3>1, <4>1
    <3>2. CASE b # a
      <4>1. d \in conns[b] /\ d.id <= dials /\ d.id \in Nat
        BY <2>4, <2>5, <3>2
      <4>2. d.id <= dials' /\ (d.id = 0 => b \in badDial') /\ (d.id # 0 => d.id \in open')
        BY <1>0, <1>m, <2>1, <4>1 DEF MapSound
      <4>3. ASSUME NEW b2 \in Addr, NEW d2 \in conns'[b2], b = b2 \/ (d.id = d2.id /\ d.id # 0)
            PROVE  b = b2 /\ d = d2
        <5>1. b2 # a
          BY <2>2, <2>4, <3>2, <4>3, Zenon
        <5>2. d2 \in conns[b2]
          BY <2>4, <5>1
        <5> QED
          BY <1>m, <4>1, <4>3, <5>2, Zenon DEF MapSound
      <4> QED
        BY <4>2, <4>3
    <3> QED
      BY <3>1, <3>2
  <2>7. OpenInMap'
    BY <1>0, <1>4, <2>1, <2>4, Zenon DEF OpenInMap
  <2>8. CallsSound'
    <3> SUFFICES ASSUME NEW j \in Caller
                 PROVE  CallSound(rpc[j])'
      BY DEF CallsSound
    <3>1. open' \subseteq open \cup {dials + 1} /\ badDial \subseteq badDial' /\ rpc'[j] = rpc[j]
      BY <2>1
    <3>2. CallSound(rpc[j])' \/ rpc'[j] # rpc[j]
      BY <1>4, <2>1, <2>2, <3>1, DialKeepsCalls, Zenon
    <3> QED
      BY <3>1, <3>2
  <2>9. PanicExplained'
    BY <1>0, <1>1, <2>1 DEF PanicExplained
  <2> QED
    BY <2>3, <2>6, <2>7, <2>8, <2>9 DEF ConnInv
<1> QED
  BY <1>2, <1>3, <1>4

\* A call is sent on the connection it was given.
LEMMA InvokeKeepsInv ==
    ASSUME ConnInv, NEW k \in Caller, Invoke(k)
    PROVE  ConnInv'
<1> DEFINE r == [rpc[k] EXCEPT !.at = "sent"]
<1>0. /\ ConnTypes /\ CallsSound /\ rpc \in [Caller -> Call] /\ rpc[k] \in Call
      /\ CallSound(rpc[k]) /\ rpc[k].at = "has"
  BY DEF ConnInv, ConnTypes, CallsSound, Invoke
<1>1. UNCHANGED <<conns, dials, open, badDial>> /\ dead' = (rpc[k].conn.id = 0)
  BY DEF Invoke
<1>2. PanicExplained' /\ dead' \in BOOLEAN
  BY <1>0, <1>1, Zenon DEF CallSound, PanicExplained
<1>3. CASE rpc[k].conn.id \in open
  <2>1. rpc' = [rpc EXCEPT ![k] = r]
    BY <1>3, <1>0 DEF Invoke
  <2>2. r \in Call /\ r.at = "sent" /\ r.addr = rpc[k].addr /\ r.conn = rpc[k].conn
    BY <1>0 DEF Call
  <2> HIDE DEF r
  <2>3. CallSound(r)
    BY <1>0, <1>3, <2>2 DEF CallSound
  <2> QED
    BY <1>1, <1>2, <2>1, <2>2, <2>3, CallMoves, Zenon
<1>4. CASE rpc[k].conn.id \notin open
  <2>1. rpc' = [rpc EXCEPT ![k] = NoCall]
    BY <1>4 DEF Invoke
  <2> QED
    BY <1>1, <1>2, <2>1, NoCallSound, CallMoves, Zenon
<1> QED
  BY <1>3, <1>4

\* Stop closes every connection.
LEMMA StopKeepsInv == ASSUME ConnInv, StopClient PROVE ConnInv'
<1>0. /\ ConnTypes /\ MapSound /\ OpenInMap /\ CallsSound /\ PanicExplained
      /\ conns \in [Addr -> SUBSET Connection] /\ dials \in Nat /\ rpc \in [Caller -> Call]
      /\ open \subseteq Nat /\ dials' = dials /\ badDial' = badDial
  BY DEF ConnInv, ConnTypes, StopClient
<1>1. CASE \E c \in Kept : c.id = 0
  <2>1. UNCHANGED <<open, conns, rpc>> /\ dead' = TRUE
    BY <1>1 DEF StopClient
  <2>2. badDial' # {}
    BY <1>0, <1>1 DEF Kept, MapSound
  <2>3. ConnTypes' /\ MapSound' /\ OpenInMap'
    BY <1>0, <2>1 DEF ConnTypes, MapSound, OpenInMap
  <2>4. CallsSound' /\ PanicExplained'
    BY <1>0, <2>1, <2>2 DEF CallsSound, CallSound, PanicExplained
  <2> QED
    BY <2>3, <2>4 DEF ConnInv
<1>2. CASE ~ \E c \in Kept : c.id = 0
  <2>1. /\ conns' = [a \in Addr |-> {}] /\ dead' = dead
        /\ open' = open \ {c.id : c \in Kept}
        /\ rpc' = [k \in Caller |-> IF rpc[k].at = "sent" THEN NoCall ELSE rpc[k]]
    BY <1>2 DEF StopClient
  <2>2. open' = {}
    BY <1>0, <2>1, Zenon DEF OpenInMap, Kept
  <2>3. ConnTypes'
    BY <1>0, <2>1, <2>2, NoCallSound, Zenon DEF ConnTypes
  <2>4. MapSound' /\ OpenInMap'
    BY <2>1, <2>2 DEF MapSound, OpenInMap
  <2>5. CallsSound'
    <3> SUFFICES ASSUME NEW k \in Caller
                 PROVE  CallSound(rpc[k])'
      BY DEF CallsSound
    <3>1. CASE rpc[k].at = "sent"
      <4>1. rpc'[k].at = "idle"
        BY <2>1, <3>1 DEF NoCall
      <4> QED
        BY <4>1 DEF CallSound
    <3>2. CASE rpc[k].at # "sent"
      <4>1. rpc'[k] = rpc[k] /\ CallSound(rpc[k])
        BY <1>0, <2>1, <3>2 DEF CallsSound
      <4> QED
        BY <1>0, <2>2, <3>2, <4>1, Zenon DEF CallSound
    <3> QED
      BY <3>1, <3>2
  <2>6. PanicExplained'
    BY <1>0, <2>1 DEF PanicExplained
  <2> QED
    BY <2>3, <2>4, <2>5, <2>6 DEF ConnInv
<1> QED
  BY <1>1, <1>2

\* Every step keeps the invariant.
LEMMA ConnStepInv == ConnInv /\ [ConnNext]_connVars => ConnInv'
<1> SUFFICES ASSUME ConnInv, [ConnNext]_connVars
             PROVE  ConnInv'
  OBVIOUS
<1>1. ASSUME NEW k \in Caller, CallAnswered(k) \/ CallTimesOut(k)
      PROVE  ConnInv'
  <2>1. /\ rpc' = [rpc EXCEPT ![k] = NoCall] /\ dead' = dead
        /\ UNCHANGED <<conns, dials, open, badDial>>
    BY <1>1 DEF CallAnswered, CallTimesOut
  <2>2. PanicExplained' /\ dead' \in BOOLEAN
    BY <2>1 DEF ConnInv, ConnTypes, PanicExplained
  <2> QED
    BY <2>1, <2>2, NoCallSound, CallMoves, Zenon
<1>2. CASE UNCHANGED connVars
  <2>1. ConnTypes' /\ MapSound' /\ OpenInMap'
    BY <1>2 DEF connVars, ConnInv, ConnTypes, MapSound, OpenInMap
  <2>2. CallsSound' /\ PanicExplained'
    BY <1>2 DEF connVars, ConnInv, CallsSound, CallSound, PanicExplained
  <2> QED
    BY <2>1, <2>2 DEF ConnInv
<1> QED
  BY <1>1, <1>2, ConnKeepsInv, InvokeKeepsInv, StopKeepsInv DEF ConnNext

(* The open connections are those the map of the client keeps, each for    *)
(* one address: conn never leaks one, and Stop closes them all.            *)
THEOREM NoConnectionLeaks == ConnSpec => []OpenIsKept
<1>1. ConnInv => OpenIsKept
  <2> SUFFICES ASSUME ConnInv
               PROVE  OpenIsKept
    OBVIOUS
  <2>0. MapSound /\ OpenInMap /\ conns \in [Addr -> SUBSET Connection]
    BY DEF ConnInv, ConnTypes
  <2>1. open = {c.id : c \in Kept} \ {0}
    BY <2>0 DEF MapSound, OpenInMap, Kept
  <2>2. ASSUME NEW a \in Addr, NEW b \in Addr, a # b, NEW c \in conns[a] \cap conns[b]
        PROVE  c \in {[id |-> 0, tls |-> t] : t \in BOOLEAN}
    <3>1. c.id = 0
      BY <2>0, <2>2 DEF MapSound
    <3>2. c \in Connection
      BY <2>0
    <3> QED
      BY <3>1, <3>2 DEF Connection
  <2> QED
    BY <2>1, <2>2 DEF OpenIsKept
<1> QED
  BY ConnInitInv, ConnStepInv, <1>1, PTL DEF ConnSpec

(* A call that was sent runs on the connection kept for its address, also  *)
(* when Stop comes between conn and the call of the stub.                  *)
THEOREM CallsOnKeptConnection == ConnSpec => []SentOnKept
<1>1. ConnInv => SentOnKept
  BY DEF ConnInv, CallsSound, CallSound, SentOnKept
<1> QED
  BY ConnInitInv, ConnStepInv, <1>1, PTL DEF ConnSpec

(* Only the nil connection that a failed dial left in the map can make the *)
(* client panic.                                                           *)
THEOREM PanicNeedsBadDial == ConnSpec => []PanicAfterBadDial
<1>1. ConnInv => PanicAfterBadDial
  BY DEF ConnInv, CallsSound, CallSound, PanicExplained, PanicAfterBadDial
<1> QED
  BY ConnInitInv, ConnStepInv, <1>1, PTL DEF ConnSpec

-----------------------------------------------------------------------------
(* The streaming calls (module Streams).                                   *)

\* A sequence is a function on the positions up to its length.
LEMMA SeqIsFunction ==
    ASSUME NEW S, NEW s \in Seq(S)
    PROVE  Len(s) \in Nat /\ s \in [1 .. Len(s) -> S] /\ DOMAIN s = 1 .. Len(s)
OBVIOUS

\* Only the empty sequence has length 0.
LEMMA SeqEmpty ==
    ASSUME NEW S
    PROVE  /\ << >> \in Seq(S) /\ Len(<< >>) = 0
           /\ \A s \in Seq(S) : s # << >> => Len(s) \in Nat \ {0}
OBVIOUS

\* What is at the head, and what is left without it.
LEMMA SeqHeadTail ==
    ASSUME NEW S, NEW s \in Seq(S), s # << >>
    PROVE  /\ Head(s) \in S /\ Tail(s) \in Seq(S) /\ Len(Tail(s)) = Len(s) - 1
           /\ \A i \in 1 .. Len(Tail(s)) : Tail(s)[i] = s[i + 1]
OBVIOUS

\* What is appended comes last.
LEMMA SeqAppend ==
    ASSUME NEW S, NEW s \in Seq(S), NEW e \in S
    PROVE  /\ Append(s, e) \in Seq(S) /\ Append(s, e) # << >>
           /\ Len(Append(s, e)) = Len(s) + 1
           /\ \A i \in 1 .. Len(s) : Append(s, e)[i] = s[i]
           /\ Append(s, e)[Len(s) + 1] = e
OBVIOUS

\* The types of what the argument is about.
StreamTypes ==
    /\ served \in Nat /\ taken \in Nat /\ read \in Nat
    /\ channel \in Seq(Nat)
    /\ cancelled \in BOOLEAN /\ closed \in BOOLEAN

\* What the consumer, the channel and the forwarder have is what was taken, as
\* long as the forwarder lives or nobody has cancelled the call.
AllAccounted ==
    fwd # "gone" \/ ~cancelled
        => taken = read + Len(channel) + (IF fwd = "put" THEN 1 ELSE 0)

\* The channel holds the messages after those read, in order.
InOrder == \A i \in 1 .. Len(channel) : channel[i] = read + i

\* The channel is closed by the forwarder's end, which without a cancelled call
\* comes from a broken stream or after the last message.
ClosedAtEnd ==
    /\ closed <=> fwd = "gone"
    /\ closed /\ ~cancelled => server = "broken" \/ (server = "eof" /\ taken = served)
    /\ consumer = "ended" /\ kind # "follow" => closed /\ channel = <<>>

\* The inductive invariant.
StreamInv == StreamTypes /\ AllAccounted /\ InOrder /\ ClosedAtEnd

\* Nothing has been sent.
LEMMA StreamInitInv == StreamInit => StreamInv
<1> SUFFICES ASSUME StreamInit
             PROVE  StreamInv
  OBVIOUS
<1>1. channel = <<>> /\ Len(channel) = 0 /\ channel \in Seq(Nat)
  BY DEF StreamInit
<1>2. StreamTypes
  BY <1>1, Zenon DEF StreamInit, StreamTypes
<1>3. AllAccounted /\ InOrder
  BY <1>1 DEF StreamInit, AllAccounted, InOrder
<1>4. ClosedAtEnd
  BY DEF StreamInit, ClosedAtEnd
<1> QED
  BY <1>2, <1>3, <1>4 DEF StreamInv

(* Steps that move no message.                                             *)
LEMMA NoMessageMoves ==
    ASSUME StreamInv, UNCHANGED <<taken, channel, read>>,
           UNCHANGED fwd \/ (fwd = "recv" /\ fwd' = "gone") \/ (cancelled /\ fwd' = "gone"),
           cancelled => cancelled', served' \in Nat, cancelled' \in BOOLEAN, closed' \in BOOLEAN,
           ClosedAtEnd'
    PROVE  StreamInv'
<1>1. StreamTypes' /\ InOrder'
  BY DEF StreamInv, StreamTypes, InOrder
<1>2. AllAccounted'
  BY DEF StreamInv, StreamTypes, AllAccounted
<1> QED
  BY <1>1, <1>2 DEF StreamInv

\* Every step keeps the invariant.
LEMMA StreamStepInv == StreamInv /\ [StreamNext]_streamVars => StreamInv'
<1> SUFFICES ASSUME StreamInv, [StreamNext]_streamVars
             PROVE  StreamInv'
  OBVIOUS
<1>0. StreamTypes /\ ClosedAtEnd
  BY DEF StreamInv
<1>1. CASE ServerSends
  <2>1. ClosedAtEnd'
    BY <1>0, <1>1 DEF ServerSends, ClosedAtEnd
  <2> QED
    BY <1>0, <1>1, <2>1, NoMessageMoves DEF ServerSends, StreamTypes
<1>2. ASSUME NEW how \in {"eof", "broken"}, ServerEnds(how)
      PROVE  StreamInv'
  <2>1. ClosedAtEnd'
    BY <1>0, <1>2 DEF ServerEnds, ClosedAtEnd
  <2> QED
    BY <1>0, <1>2, <2>1, NoMessageMoves DEF ServerEnds, StreamTypes
<1>3. CASE CancelCall \/ ReaderLeaves
  <2>1. ClosedAtEnd'
    BY <1>0, <1>3 DEF CancelCall, ReaderLeaves, ClosedAtEnd
  <2> QED
    BY <1>0, <1>3, <2>1, NoMessageMoves, Zenon DEF CancelCall, ReaderLeaves, StreamTypes
<1>4. CASE Recv
  <2>1. /\ fwd = "recv" /\ taken' = taken + 1 /\ UNCHANGED <<channel, read, cancelled, served>>
        /\ fwd' = "put" \/ (cancelled /\ fwd' = "gone")
    BY <1>4 DEF Recv
  <2>2. closed' \in BOOLEAN /\ ClosedAtEnd'
    BY <1>0, <1>4, Zenon DEF Recv, ClosedAtEnd, StreamTypes
  <2>3. StreamTypes' /\ InOrder'
    BY <1>0, <2>1, <2>2 DEF StreamInv, StreamTypes, InOrder
  <2>4. AllAccounted'
    BY <1>0, <2>1 DEF StreamInv, StreamTypes, AllAccounted
  <2> QED
    BY <2>2, <2>3, <2>4 DEF StreamInv
<1>5. CASE RecvFails
  <2>1. ClosedAtEnd'
    BY <1>0, <1>5 DEF RecvFails, ClosedAtEnd
  <2> QED
    BY <1>0, <1>5, <2>1, NoMessageMoves DEF RecvFails, StreamTypes
<1>6. CASE GiveUp
  <2>1. ClosedAtEnd'
    BY <1>0, <1>6 DEF GiveUp, ClosedAtEnd
  <2> QED
    BY <1>0, <1>6, <2>1, NoMessageMoves DEF GiveUp, StreamTypes
<1>7. CASE Put
  <2>1. /\ fwd = "put" /\ fwd' = "recv" /\ channel' = Append(channel, taken)
        /\ UNCHANGED <<kind, taken, read, cancelled, served, closed, consumer, server>>
    BY <1>7 DEF Put
  <2>2. channel' \in Seq(Nat) /\ Len(channel') = Len(channel) + 1
        /\ \A i \in 1 .. Len(channel') : channel'[i] = IF i = Len(channel) + 1 THEN taken ELSE channel[i]
    BY <1>0, <2>1, SeqAppend DEF StreamTypes
  <2>3. Len(channel) \in Nat
    BY <1>0, SeqIsFunction DEF StreamTypes
  <2>4. taken = read + Len(channel) + 1
    BY <2>1 DEF StreamInv, AllAccounted
  <2>5. InOrder'
    <3>1. /\ \A i \in 1 .. Len(channel) : channel[i] = read + i
          /\ read \in Nat /\ taken \in Nat /\ read' = read
      BY <1>0, <2>1, Zenon DEF StreamInv, InOrder, StreamTypes
    <3>2. ASSUME NEW i \in 1 .. Len(channel') PROVE channel'[i] = read + i
      <4>1. CASE i = Len(channel) + 1
        BY <2>2, <2>3, <2>4, <3>1, <4>1
      <4>2. CASE i # Len(channel) + 1
        <5>1. i \in 1 .. Len(channel)
          BY <2>2, <2>3, <4>2
        <5> QED
          BY <2>2, <3>1, <4>2, <5>1, Zenon
      <4> QED
        BY <4>1, <4>2
    <3> QED
      BY <3>1, <3>2 DEF InOrder
  <2>6. AllAccounted'
    BY <1>0, <2>1, <2>2, <2>3, <2>4 DEF AllAccounted, StreamTypes
  <2>7. ClosedAtEnd'
    BY <1>0, <2>1 DEF ClosedAtEnd, StreamTypes
  <2>8. StreamTypes'
    BY <1>0, <2>1, <2>2 DEF StreamTypes
  <2> QED
    BY <2>5, <2>6, <2>7, <2>8 DEF StreamInv
<1>8. CASE ReadOne
  <2>1. /\ consumer = "reads" /\ channel # <<>> /\ read' = Head(channel) /\ channel' = Tail(channel)
        /\ UNCHANGED <<kind, taken, fwd, cancelled, served, closed, consumer, server>>
    BY <1>8 DEF ReadOne
  <2>2. /\ channel' \in Seq(Nat) /\ Len(channel') = Len(channel) - 1
        /\ \A i \in 1 .. Len(channel') : channel'[i] = channel[i + 1]
    BY <1>0, <2>1, SeqHeadTail DEF StreamTypes
  <2>3. Len(channel) \in Nat /\ Len(channel) >= 1
    BY <1>0, <2>1, SeqIsFunction, SeqEmpty DEF StreamTypes
  <2>4. read' = read + 1
    <3>1. Head(channel) = channel[1]
      BY <1>0, <2>1, SeqHeadTail DEF StreamTypes
    <3> QED
      BY <1>0, <2>1, <2>3, <3>1 DEF StreamInv, InOrder, StreamTypes
  <2>5. InOrder'
    <3>1. (\A i \in 1 .. Len(channel) : channel[i] = read + i) /\ read \in Nat
      BY <1>0, Zenon DEF StreamInv, InOrder, StreamTypes
    <3>2. ASSUME NEW i \in 1 .. Len(channel') PROVE channel'[i] = read' + i
      BY <2>2, <2>3, <2>4, <3>1
    <3> QED
      BY <3>2 DEF InOrder
  <2>6. AllAccounted'
    <3> DEFINE held == IF fwd = "put" THEN 1 ELSE 0
    <3>1. AllAccounted /\ read \in Nat /\ taken \in Nat
      BY <1>0, Zenon DEF StreamInv, StreamTypes
    <3>2. fwd' = fwd /\ cancelled' = cancelled /\ taken' = taken
      BY <2>1, Zenon
    <3>3. held \in Nat
      OBVIOUS
    <3> HIDE DEF held
    <3>4. taken = read + Len(channel) + held => taken = read' + Len(channel') + held
      BY <2>2, <2>3, <2>4, <3>1, <3>3
    <3> QED
      BY <3>1, <3>2, <3>4, Zenon DEF AllAccounted, held
  <2>7. ClosedAtEnd'
    BY <1>0, <2>1 DEF ClosedAtEnd
  <2>8. StreamTypes'
    BY <1>0, <2>1, <2>2, <2>4 DEF StreamTypes
  <2> QED
    BY <2>5, <2>6, <2>7, <2>8 DEF StreamInv
<1>9. CASE ReadClosed
  <2>1. ClosedAtEnd'
    BY <1>0, <1>9 DEF ReadClosed, ClosedAtEnd
  <2> QED
    BY <1>0, <1>9, <2>1, NoMessageMoves DEF ReadClosed, StreamTypes
<1>10. CASE ReadError
  <2>1. ClosedAtEnd'
    BY <1>0, <1>10 DEF ReadError, ClosedAtEnd
  <2> QED
    BY <1>0, <1>10, <2>1, NoMessageMoves DEF ReadError, StreamTypes
<1>11. CASE UNCHANGED streamVars
  <2>1. ClosedAtEnd'
    BY <1>0, <1>11 DEF streamVars, ClosedAtEnd
  <2> QED
    BY <1>0, <1>11, <2>1, NoMessageMoves DEF streamVars, StreamTypes
<1> QED
  BY <1>1, <1>2, <1>3, <1>4, <1>5, <1>6, <1>7, <1>8, <1>9, <1>10, <1>11 DEF StreamNext

(* What the consumer has read, what is in the channel and what the         *)
(* forwarder holds are the messages taken from the stream, in order, until *)
(* the call is cancelled (PublicRandStream, SyncChain, translate,          *)
(* StartFollowChain).                                                      *)
THEOREM NothingReordered == StreamSpec => []ForwardedInOrder
<1>1. StreamInv => ForwardedInOrder
  BY DEF StreamInv, InOrder, AllAccounted, ForwardedInOrder
<1> QED
  BY <1>1, StreamInitInv, StreamStepInv, PTL DEF StreamSpec

(* A consumer that sees the end of a call that neither broke nor was       *)
(* cancelled has read all messages of the server.                          *)
THEOREM NothingMissing == StreamSpec => []EndMeansAll
<1>1. StreamInv => EndMeansAll
  <2> SUFFICES ASSUME StreamInv, consumer = "ended", ~cancelled, server = "eof", kind # "follow"
               PROVE  read = served
    BY DEF EndMeansAll
  <2>1. closed /\ channel = <<>> /\ fwd = "gone" /\ taken = served
    BY DEF StreamInv, ClosedAtEnd
  <2>2. Len(channel) = 0
    BY <2>1
  <2> QED
    BY <2>1, <2>2 DEF StreamInv, AllAccounted, StreamTypes
<1> QED
  BY <1>1, StreamInitInv, StreamStepInv, PTL DEF StreamSpec
=============================================================================
