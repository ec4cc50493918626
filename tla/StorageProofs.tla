---------------------------- MODULE StorageProofs -----------------------------
(***************************************************************************)
(* What a node keeps: the files of its long-term key pair, its partial     *)
(* cache and its database. For any number of pairs, any signers, rounds    *)
(* and limits.                                                             *)
(***************************************************************************)
EXTENDS KeyFiles, PartialCache, BoltStore, NaturalsInduction, WellFoundedInduction,
        TLAPS
-----------------------------------------------------------------------------
(* The files of the long-term key pair (module KeyFiles).                  *)

\* The files and the command as numbers.
KeyTypes ==
    /\ privF \in Int /\ pubF \in Int /\ signed \in Int
    /\ pair \in [priv : Int, pub : Int, sig : Int]
    /\ step \in 0 .. 4 /\ keysMade \in Nat /\ keyCrash \in Nat
    /\ writer = "none" <=> step = 0
    /\ loaded = <<>> \/ \E p \in [priv : Int, pub : Int, sig : Int] : loaded = <<p>>

\* Before the second crash the files are a pair, or one does not load, or the
\* command that is to make them a pair is on its way.
KeysPaired ==
    keyCrash < 2 =>
        /\ step # 0 => pair.priv = pair.pub
        /\ step \in {0, 1} => (KeyLoads => privF = pubF)
        /\ step = 2 => privF = TornKey
        /\ step \in {3, 4} => privF = pair.priv
        /\ step = 4 => pubF = TornKey

\* Before the first crash SaveKeyPair starts from no files or from the same key.
KeysUntorn ==
    keyCrash = 0 =>
        /\ step \in {0, 1} => privF = pubF
        /\ step = 0 => privF >= 0
        /\ step # 0 => pair.priv >= 0
        /\ step \in {1, 2, 3} => pubF \in {0, pair.priv}

\* The inductive invariant.
KeyInv == KeyTypes /\ KeysPaired /\ KeysUntorn /\ PairBelongsTogether

\* There are no files yet.
LEMMA KeyInitInv == KeyInit => KeyInv
BY DEF KeyInit, KeyInv, KeyTypes, KeysPaired, KeysUntorn, PairBelongsTogether, KeyLoads, NoKey, TornKey

\* Every step of a command, and a crash in it, keeps the invariant.
LEMMA KeyStep == KeyInv /\ [KeyNext]_keyVars => KeyInv'
<1> SUFFICES ASSUME KeyInv, [KeyNext]_keyVars PROVE KeyInv'
  OBVIOUS
<1>0. KeyTypes /\ KeysPaired /\ KeysUntorn /\ PairBelongsTogether
  BY Zenon DEF KeyInv
<1>t. /\ privF \in Int /\ pubF \in Int /\ signed \in Int
      /\ step \in 0 .. 4 /\ keysMade \in Nat /\ keyCrash \in Nat
      /\ writer = "none" <=> step = 0
  BY <1>0, Zenon DEF KeyTypes
<1>p. pair \in [priv : Int, pub : Int, sig : Int]
  BY <1>0, Zenon DEF KeyTypes
<1>l. loaded = <<>> \/ \E p \in [priv : Int, pub : Int, sig : Int] : loaded = <<p>>
  BY <1>0, Zenon DEF KeyTypes
<1>1. ASSUME NEW signs \in BOOLEAN, Keygen(signs) PROVE KeyInv'
  <2>1. /\ writer = "none" /\ keysMade' = keysMade + 1
        /\ privF' = privF /\ pubF' = pubF /\ signed' = signed /\ keyCrash' = keyCrash
        /\ loaded' = loaded
    BY <1>1, Zenon DEF Keygen
  <2>2. step = 0 /\ keysMade' \in Nat
    BY <2>1, <1>t
  <2>3. CASE KeyLoads
    <3>1. writer' = writer /\ step' = step /\ pair' = pair
      BY <1>1, <2>3, Zenon DEF Keygen
    <3>2. KeyTypes'
      BY <1>0, <2>1, <2>2, <3>1, Zenon DEF KeyTypes
    <3> QED
      BY <1>0, <2>1, <3>1, <3>2, Zenon
      DEF KeyInv, KeysPaired, KeysUntorn, PairBelongsTogether, KeyLoads
  <2>4. CASE ~KeyLoads
    <3> DEFINE k == keysMade'
               s == IF signs THEN k ELSE NoKey
    <3>1. writer' = "keygen" /\ step' = 1 /\ pair' = [priv |-> k, pub |-> k, sig |-> s]
      BY <1>1, <2>4, Zenon DEF Keygen, Saving
    <3>2. k \in Int /\ s \in Int /\ k >= 0
      BY <2>2 DEF NoKey
    <3> HIDE DEF k, s
    <3>3. /\ pair' \in [priv : Int, pub : Int, sig : Int] /\ pair'.priv = pair'.pub
          /\ pair'.priv >= 0
      BY <3>1, <3>2
    <3>4. "keygen" # "none"
      OBVIOUS
    <3>5. KeyTypes'
      BY <1>t, <1>l, <2>1, <2>2, <3>1, <3>3, <3>4 DEF KeyTypes
    <3>6. KeysPaired'
      BY <2>1, <2>4, <3>1, <3>3 DEF KeysPaired, KeyLoads
    <3>7. KeysUntorn'
      BY <1>0, <1>t, <2>1, <2>2, <2>4, <3>1, <3>3 DEF KeysUntorn, KeyLoads
    <3>8. PairBelongsTogether'
      BY <1>0, <2>1, Zenon DEF PairBelongsTogether
    <3> QED
      BY <3>5, <3>6, <3>7, <3>8, Zenon DEF KeyInv
  <2> QED
    BY <2>3, <2>4, Zenon
<1>2. CASE SelfSign
  <2>1. /\ writer = "none" /\ KeyLoads /\ privF' = privF /\ pubF' = pubF /\ signed' = signed
        /\ keysMade' = keysMade /\ keyCrash' = keyCrash /\ loaded' = loaded
    BY <1>2, Zenon DEF SelfSign
  <2>2. writer' = "sign" /\ step' = 1 /\ pair' = [OnDisk EXCEPT !.sig = privF]
    BY <1>2, Zenon DEF SelfSign, Saving
  <2>3. /\ pair' \in [priv : Int, pub : Int, sig : Int]
        /\ pair'.priv = privF /\ pair'.pub = pubF
    BY <1>t, <2>2 DEF OnDisk
  <2>4. step = 0 /\ "sign" # "none"
    BY <1>t, <2>1
  <2>5. KeyTypes'
    BY <1>t, <1>l, <2>1, <2>2, <2>3, <2>4 DEF KeyTypes
  <2>6. KeysPaired'
    BY <1>0, <2>1, <2>2, <2>3, <2>4 DEF KeysPaired, KeyLoads
  <2>7. KeysUntorn'
    BY <1>0, <1>t, <2>1, <2>2, <2>3, <2>4 DEF KeysUntorn, KeyLoads
  <2>8. PairBelongsTogether'
    BY <1>0, <2>1, Zenon DEF PairBelongsTogether
  <2> QED
    BY <2>5, <2>6, <2>7, <2>8, Zenon DEF KeyInv
<1>3. CASE SaveKeyPair
  <2>1. /\ step \in 1 .. 4 /\ step' = (step + 1) % 5
        /\ writer' = IF step = 4 THEN "none" ELSE writer
        /\ privF' = CASE step = 1 -> TornKey [] step = 2 -> pair.priv [] OTHER -> privF
        /\ pubF' = CASE step = 3 -> TornKey [] step = 4 -> pair.pub [] OTHER -> pubF
        /\ signed' = IF step = 4 THEN pair.sig ELSE signed
    BY <1>3, Zenon DEF SaveKeyPair
  <2>2. pair' = pair /\ keysMade' = keysMade /\ keyCrash' = keyCrash /\ loaded' = loaded
    BY <1>3, Zenon DEF SaveKeyPair
  <2>3. pair.priv \in Int /\ pair.pub \in Int /\ pair.sig \in Int
    BY <1>p
  <2>4. PairBelongsTogether'
    BY <1>0, <2>2, Zenon DEF PairBelongsTogether
  <2>5. KeyTypes'
    <3>1. privF' \in Int /\ pubF' \in Int /\ signed' \in Int
      BY <1>t, <2>1, <2>3 DEF TornKey
    <3>2. step' \in 0 .. 4 /\ (writer' = "none" <=> step' = 0)
      BY <1>t, <2>1
    <3> QED
      BY <1>0, <2>2, <3>1, <3>2, Zenon DEF KeyTypes
  <2>6. CASE step = 1
    <3>1. privF' = TornKey /\ pubF' = pubF /\ step' = 2
      BY <2>1, <2>6
    <3>2. KeysPaired'
      BY <1>0, <2>2, <2>6, <3>1 DEF KeysPaired
    <3>3. KeysUntorn'
      BY <1>0, <2>2, <2>6, <3>1 DEF KeysUntorn
    <3> QED
      BY <2>4, <2>5, <3>2, <3>3, Zenon DEF KeyInv
  <2>7. CASE step = 2
    <3>1. privF' = pair.priv /\ pubF' = pubF /\ step' = 3
      BY <2>1, <2>7
    <3>2. KeysPaired'
      BY <1>0, <2>2, <2>7, <3>1 DEF KeysPaired
    <3>3. KeysUntorn'
      BY <1>0, <2>2, <2>7, <3>1 DEF KeysUntorn
    <3> QED
      BY <2>4, <2>5, <3>2, <3>3, Zenon DEF KeyInv
  <2>8. CASE step = 3
    <3>1. privF' = privF /\ pubF' = TornKey /\ step' = 4
      BY <2>1, <2>8
    <3>2. KeysPaired'
      BY <1>0, <2>2, <2>8, <3>1 DEF KeysPaired
    <3>3. KeysUntorn'
      BY <1>0, <2>2, <2>8, <3>1 DEF KeysUntorn
    <3> QED
      BY <2>4, <2>5, <3>2, <3>3, Zenon DEF KeyInv
  <2>9. CASE step = 4
    <3>1. privF' = privF /\ pubF' = pair.pub /\ step' = 0
      BY <2>1, <2>9
    <3>2. KeysPaired'
      BY <1>0, <2>2, <2>9, <3>1 DEF KeysPaired
    <3>3. KeysUntorn'
      BY <1>0, <2>2, <2>9, <3>1 DEF KeysUntorn, KeysPaired
    <3> QED
      BY <2>4, <2>5, <3>2, <3>3, Zenon DEF KeyInv
  <2> QED
    BY <2>1, <2>6, <2>7, <2>8, <2>9
<1>4. CASE KeyCrash
  <2>1. /\ writer # "none" /\ keyCrash' = keyCrash + 1 /\ writer' = "none" /\ step' = 0
        /\ privF' = privF /\ pubF' = pubF /\ signed' = signed /\ pair' = pair
        /\ keysMade' = keysMade /\ loaded' = loaded
    BY <1>4, Zenon DEF KeyCrash
  <2>2. keyCrash' \in Nat /\ (keyCrash' < 2 => keyCrash = 0) /\ keyCrash' # 0 /\ step' \in 0 .. 4
    BY <1>t, <2>1
  <2>3. KeyTypes'
    BY <1>0, <2>1, <2>2, Zenon DEF KeyTypes
  <2>4. KeysPaired'
    BY <1>0, <1>t, <2>1, <2>2 DEF KeysPaired, KeysUntorn, KeyLoads, TornKey
  <2>5. KeysUntorn'
    BY <2>2, Zenon DEF KeysUntorn
  <2>6. PairBelongsTogether'
    <3>1. keyCrash' < 2 => keyCrash < 2
      BY <1>t, <2>1
    <3> QED
      BY <1>0, <2>1, <3>1, Zenon DEF PairBelongsTogether
  <2> QED
    BY <2>3, <2>4, <2>5, <2>6, Zenon DEF KeyInv
<1>5. CASE LoadPair
  <2>1. /\ KeyLoads /\ writer = "none" /\ loaded' = <<OnDisk>>
        /\ privF' = privF /\ pubF' = pubF /\ signed' = signed /\ pair' = pair /\ writer' = writer
        /\ step' = step /\ keysMade' = keysMade /\ keyCrash' = keyCrash
    BY <1>5, Zenon DEF LoadPair
  <2>2. OnDisk \in [priv : Int, pub : Int, sig : Int] /\ OnDisk.priv = privF /\ OnDisk.pub = pubF
    BY <1>t DEF OnDisk
  <2>3. KeyTypes'
    BY <1>0, <2>1, <2>2, Zenon DEF KeyTypes
  <2>4. KeysPaired' /\ KeysUntorn'
    BY <1>0, <2>1, Zenon DEF KeysPaired, KeysUntorn, KeyLoads
  <2>5. keyCrash < 2 => privF = pubF
    BY <1>0, <1>t, <2>1 DEF KeysPaired
  <2>6. \A i \in DOMAIN <<OnDisk>> : <<OnDisk>>[i] = OnDisk
    OBVIOUS
  <2>7. PairBelongsTogether'
    BY <2>1, <2>2, <2>5, <2>6, Zenon DEF PairBelongsTogether
  <2> QED
    BY <2>3, <2>4, <2>7, Zenon DEF KeyInv
<1>6. CASE UnloadPair
  <2>1. /\ loaded' = <<>>
        /\ privF' = privF /\ pubF' = pubF /\ signed' = signed /\ pair' = pair /\ writer' = writer
        /\ step' = step /\ keysMade' = keysMade /\ keyCrash' = keyCrash
    BY <1>6, Zenon DEF UnloadPair
  <2>2. KeyTypes'
    BY <1>0, <2>1, Zenon DEF KeyTypes
  <2>3. KeysPaired' /\ KeysUntorn'
    BY <1>0, <2>1, Zenon DEF KeysPaired, KeysUntorn, KeyLoads
  <2>4. PairBelongsTogether'
    BY <2>1 DEF PairBelongsTogether
  <2> QED
    BY <2>2, <2>3, <2>4, Zenon DEF KeyInv
<1>7. CASE UNCHANGED keyVars
  BY <1>7, <1>0, Zenon
  DEF keyVars, KeyInv, KeyTypes, KeysPaired, KeysUntorn, PairBelongsTogether, KeyLoads
<1> QED
  BY <1>1, <1>2, <1>3, <1>4, <1>5, <1>6, <1>7, Zenon DEF KeyNext

(* However generate-keypair, self-sign and one crash interleave, the       *)
(* daemon never loads a private key with the public key of another pair    *)
(* (SaveKeyPair, LoadKeyPair), for any number of pairs.                    *)
THEOREM PairsBelongTogether == KeySpec => []PairBelongsTogether
<1>1. KeyInv => PairBelongsTogether
  BY Zenon DEF KeyInv
<1> QED
  BY KeyInitInv, KeyStep, <1>1, PTL DEF KeySpec

(* No command replaces a pair that loads by another one: without a crash   *)
(* generate-keypair keeps its hands off it and self-sign saves the same    *)
(* key (keygenCmd, selfSign).                                              *)
THEOREM KeysAreKept == KeySpec => KeyIsKept
<1>1. ASSUME KeyInv, [KeyNext]_keyVars
      PROVE  [KeyLoads /\ keyCrash = 0 => pair'.priv = privF \/ writer' = "none"]_keyVars
  <2> SUFFICES ASSUME KeyNext, KeyLoads, keyCrash = 0, writer' # "none" PROVE pair'.priv = privF
    BY <1>1, Zenon DEF KeyNext
  <2>0. KeyTypes /\ KeysPaired /\ KeysUntorn
    BY <1>1, Zenon DEF KeyInv
  <2>t. /\ privF \in Int /\ pubF \in Int /\ step \in 0 .. 4 /\ keyCrash < 2
        /\ writer = "none" <=> step = 0
    <3>1. /\ privF \in Int /\ pubF \in Int /\ step \in 0 .. 4
          /\ writer = "none" <=> step = 0
      BY <2>0, Zenon DEF KeyTypes
    <3> QED
      BY <3>1
  <2>1. ASSUME NEW signs \in BOOLEAN, Keygen(signs) PROVE FALSE
    BY <2>1, Zenon DEF Keygen
  <2>2. CASE SelfSign
    BY <2>2 DEF SelfSign, Saving, OnDisk
  <2>3. ASSUME step # 0 PROVE pair.priv = privF
    <3>1. privF > 0 /\ pubF > 0
      BY Zenon DEF KeyLoads
    <3>2. step \in {0, 1} => privF = pubF
      BY <2>0, Zenon DEF KeysUntorn
    <3>3. step \in {1, 2, 3} => pubF \in {0, pair.priv}
      BY <2>0, Zenon DEF KeysUntorn
    <3>4. (step = 2 => privF = TornKey) /\ (step \in {3, 4} => privF = pair.priv)
      BY <2>0, <2>t, Zenon DEF KeysPaired
    <3> QED
      BY <2>3, <2>t, <3>1, <3>2, <3>3, <3>4 DEF TornKey
  <2>4. CASE SaveKeyPair
    <3>1. step \in 1 .. 4 /\ pair' = pair
      BY <2>4, Zenon DEF SaveKeyPair
    <3>2. step # 0
      BY <3>1
    <3> QED
      BY <2>3, <3>1, <3>2, Zenon
  <2>5. CASE KeyCrash
    BY <2>5, Zenon DEF KeyCrash
  <2>6. CASE LoadPair
    BY <2>6, Zenon DEF LoadPair
  <2>7. CASE UnloadPair
    <3>1. pair' = pair /\ writer' = writer
      BY <2>7, Zenon DEF UnloadPair
    <3> QED
      BY <3>1, <2>3, <2>t, Zenon
  <2> QED
    BY <2>1, <2>2, <2>4, <2>5, <2>6, <2>7, Zenon DEF KeyNext
<1> QED
  BY KeyInitInv, KeyStep, <1>1, PTL DEF KeySpec, KeyIsKept

-----------------------------------------------------------------------------
(* The partial cache (module PartialCache).                                *)

\* A cache is its two maps.
Shaped(c) ==
    /\ c = [rounds |-> c.rounds, rcvd |-> c.rcvd]
    /\ c.rounds = [id \in DOMAIN c.rounds |-> c.rounds[id]]
    /\ c.rcvd = [idx \in Index |-> c.rcvd[idx]]

\* No round of the map is empty.
Filled(rs) == \A i \in DOMAIN rs : rs[i] # {}

\* AppendToRound adds the index to the round cache.
LEMMA AppendToRoundIs ==
  ASSUME NEW c, Shaped(c), NEW id \in DOMAIN c.rounds, NEW idx \in Index, idx \notin c.rounds[id]
  PROVE  /\ Shaped(AppendToRound(c, id, idx))
         /\ AppendToRound(c, id, idx).rounds = [c.rounds EXCEPT ![id] = c.rounds[id] \cup {idx}]
<1>r. PICK rs, rv : rs = c.rounds /\ rv = c.rcvd
  BY Zenon
<1>1. /\ c = [rounds |-> rs, rcvd |-> rv] /\ rs = [i \in DOMAIN rs |-> rs[i]]
      /\ rv = [i \in Index |-> rv[i]] /\ id \in DOMAIN rs /\ idx \notin rs[id]
  BY <1>r, Zenon DEF Shaped
<1>d. PICK a, b, d : /\ a = [rs EXCEPT ![id] = rs[id] \cup {idx}]
                     /\ b = [rv EXCEPT ![idx] = Append(rv[idx], id)]
                     /\ d = [rounds |-> a, rcvd |-> b]
  BY Zenon
<1>4. AppendToRound(c, id, idx) = d
  BY <1>r, <1>d, Zenon DEF AppendToRound
<1>5. d.rounds = a /\ d.rcvd = b
  BY <1>d
<1>6. a = [i \in DOMAIN a |-> a[i]] /\ b = [i \in Index |-> b[i]]
  BY <1>1, <1>d, Zenon
<1>7. Shaped(d)
  BY <1>d, <1>5, <1>6, Zenon DEF Shaped
<1> QED
  BY <1>r, <1>4, <1>5, <1>7, <1>d, Zenon

\* Evict takes one partial of the index and leaves those of the others; a round that
\* becomes empty goes with it.
LEMMA EvictIs ==
  ASSUME NEW c, Shaped(c), NEW id, NEW idx \in Index, Head(c.rcvd[idx]) \in DOMAIN c.rounds
  PROVE  /\ Shaped(Evict(c, id, idx))
         /\ DOMAIN Evict(c, id, idx).rounds \subseteq DOMAIN c.rounds
         /\ \A i \in DOMAIN c.rounds : \A x \in c.rounds[i] \ {idx} :
               /\ i \in DOMAIN Evict(c, id, idx).rounds
               /\ x \in Evict(c, id, idx).rounds[i]
         /\ Filled(c.rounds) => Filled(Evict(c, id, idx).rounds)
<1>r. PICK rs, rv, old, left : /\ rs = c.rounds /\ rv = c.rcvd /\ old = Head(rv[idx])
                               /\ left = rs[old] \ {idx}
  BY Zenon
<1>1. /\ rs = [i \in DOMAIN rs |-> rs[i]]
      /\ rv = [i \in Index |-> rv[i]] /\ old \in DOMAIN rs
  BY <1>r, Zenon DEF Shaped
<1>d. PICK a, b, d : /\ a = IF left = {} THEN Restrict(rs, DOMAIN rs \ {old}) ELSE [rs EXCEPT ![old] = left]
                     /\ b = [rv EXCEPT ![idx] = Append(Tail(rv[idx]), id)]
                     /\ d = [rounds |-> a, rcvd |-> b]
  BY Zenon
<1>4. Evict(c, id, idx) = d
  BY <1>r, <1>d, Zenon DEF Evict
<1>5. d.rounds = a /\ d.rcvd = b
  BY <1>d
<1>6. b = [i \in Index |-> b[i]]
  BY <1>1, <1>d, Zenon
<1>7. CASE left = {}
  <2>1. a = [i \in DOMAIN rs \ {old} |-> rs[i]]
    BY <1>7, <1>d, Zenon DEF Restrict
  <2>2. a = [i \in DOMAIN a |-> a[i]]
    BY <2>1
  <2>3. Shaped(d)
    BY <1>d, <1>5, <1>6, <2>2, Zenon DEF Shaped
  <2>4. DOMAIN a \subseteq DOMAIN rs
    BY <2>1
  <2>5. \A i \in DOMAIN rs : \A x \in rs[i] \ {idx} : i \in DOMAIN a /\ x \in a[i]
    BY <1>7, <1>r, <2>1
  <2>6. Filled(rs) => Filled(a)
    BY <2>1, Zenon DEF Filled
  <2> QED
    BY <1>r, <1>4, <1>5, <2>3, <2>4, <2>5, <2>6, Zenon
<1>8. CASE left # {}
  <2>1. a = [rs EXCEPT ![old] = left]
    BY <1>8, <1>d, Zenon
  <2>2. a = [i \in DOMAIN a |-> a[i]]
    BY <2>1, <1>1, Zenon
  <2>3. Shaped(d)
    BY <1>d, <1>5, <1>6, <2>2, Zenon DEF Shaped
  <2>4. DOMAIN a \subseteq DOMAIN rs
    BY <2>1
  <2>5. \A i \in DOMAIN rs : \A x \in rs[i] \ {idx} : i \in DOMAIN a /\ x \in a[i]
    BY <1>1, <1>r, <2>1
  <2>6. Filled(rs) => Filled(a)
    BY <1>8, <2>1 DEF Filled
  <2> QED
    BY <1>r, <1>4, <1>5, <2>3, <2>4, <2>5, <2>6, Zenon
<1> QED
  BY <1>7, <1>8, Zenon

\* An opened round is a new, empty one beside those that are left.
LEMMA OpenRoundIs ==
  ASSUME NEW c, Shaped(c), NEW id, id \notin DOMAIN c.rounds, NEW idx \in Index, ~CacheMiss(c, idx)
  PROVE  /\ Shaped(OpenRound(c, id, idx))
         /\ id \in DOMAIN OpenRound(c, id, idx).rounds
         /\ OpenRound(c, id, idx).rounds[id] = {}
         /\ \A i \in DOMAIN c.rounds : \A x \in c.rounds[i] \ {idx} :
               /\ i \in DOMAIN OpenRound(c, id, idx).rounds
               /\ x \in OpenRound(c, id, idx).rounds[i]
         /\ Filled(c.rounds) => \A i \in DOMAIN OpenRound(c, id, idx).rounds : i # id => OpenRound(c, id, idx).rounds[i] # {}
         /\ ~AtLimit(c, idx) =>
               /\ DOMAIN OpenRound(c, id, idx).rounds = DOMAIN c.rounds \cup {id}
               /\ \A i \in DOMAIN c.rounds : OpenRound(c, id, idx).rounds[i] = c.rounds[i]
<1>e. PICK e : e = IF AtLimit(c, idx) THEN Evict(c, id, idx) ELSE c
  BY Zenon
<1>1. /\ Shaped(e) /\ DOMAIN e.rounds \subseteq DOMAIN c.rounds
      /\ Filled(c.rounds) => Filled(e.rounds)
      /\ \A i \in DOMAIN c.rounds : \A x \in c.rounds[i] \ {idx} : i \in DOMAIN e.rounds /\ x \in e.rounds[i]
  <2>1. CASE AtLimit(c, idx)
    <3>1. Head(c.rcvd[idx]) \in DOMAIN c.rounds
      BY <2>1, Zenon DEF CacheMiss
    <3>2. e = Evict(c, id, idx)
      BY <2>1, <1>e, Zenon
    <3> QED
      BY <3>1, <3>2, EvictIs, Zenon
  <2>2. CASE ~AtLimit(c, idx)
    <3>1. e = c
      BY <2>2, <1>e, Zenon
    <3> QED
      BY <3>1, Zenon
  <2> QED
    BY <2>1, <2>2, Zenon
<1>2. ~AtLimit(c, idx) => e = c
  BY <1>e, Zenon
<1>r. PICK es, ev : es = e.rounds /\ ev = e.rcvd
  BY Zenon
<1>3. /\ e = [rounds |-> es, rcvd |-> ev] /\ es = [i \in DOMAIN es |-> es[i]]
      /\ ev = [i \in Index |-> ev[i]]
  BY <1>1, <1>r, Zenon DEF Shaped
<1>4. id \notin DOMAIN es
  BY <1>1, <1>r, Zenon
<1>d. PICK a, d : /\ a = [i \in DOMAIN es \cup {id} |-> IF i = id THEN {} ELSE es[i]]
                  /\ d = [rounds |-> a, rcvd |-> ev]
  BY Zenon
<1>8. OpenRound(c, id, idx) = d
  BY <1>d, <1>e, <1>r, Zenon DEF OpenRound
<1>9. d.rounds = a /\ d.rcvd = ev
  BY <1>d
<1>10. /\ a = [i \in DOMAIN a |-> a[i]] /\ DOMAIN a = DOMAIN es \cup {id} /\ a[id] = {}
       /\ \A i \in DOMAIN es : a[i] = es[i]
  BY <1>d, <1>4
<1>16. a = [i \in DOMAIN a |-> a[i]]
  BY <1>10
<1>17. ev = [i \in Index |-> ev[i]]
  BY <1>3
<1>11. Shaped(d)
  BY <1>d, <1>9, <1>16, <1>17, Zenon DEF Shaped
<1>12. \A i \in DOMAIN c.rounds : \A x \in c.rounds[i] \ {idx} : i \in DOMAIN a /\ x \in a[i]
  BY <1>1, <1>r, <1>10
<1>13. ~AtLimit(c, idx) => es = c.rounds
  BY <1>2, <1>r, Zenon
<1>14. ~AtLimit(c, idx) => DOMAIN a = DOMAIN c.rounds \cup {id} /\ \A i \in DOMAIN c.rounds : a[i] = c.rounds[i]
  BY <1>10, <1>13, Zenon
<1>18. Filled(c.rounds) => \A i \in DOMAIN a : i # id => a[i] # {}
  BY <1>1, <1>r, <1>10, Zenon DEF Filled
<1>15. id \in DOMAIN a
  BY <1>10, Zenon
<1> QED
  BY <1>8, <1>9, <1>10, <1>11, <1>12, <1>14, <1>15, <1>18, Zenon

\* FlushRounds drops exactly the rounds up to its own.
LEMMA FlushRoundsIs ==
  ASSUME NEW c, NEW round
  PROVE  /\ Shaped(FlushRounds(c, round))
         /\ \A i : i \in DOMAIN FlushRounds(c, round).rounds <=> i \in DOMAIN c.rounds /\ ~(i[1] <= round)
         /\ \A i \in DOMAIN FlushRounds(c, round).rounds : FlushRounds(c, round).rounds[i] = c.rounds[i]
         /\ Filled(c.rounds) => Filled(FlushRounds(c, round).rounds)
<1>g. PICK rs, gone, b, d :
        /\ rs = c.rounds /\ gone = {id \in DOMAIN rs : id[1] <= round}
        /\ b = [idx \in Index |-> Unlisted(c, gone, idx)]
        /\ d = [rounds |-> Restrict(rs, DOMAIN rs \ gone), rcvd |-> b]
  BY Zenon
<1>1. FlushRounds(c, round) = d
  BY <1>g, Zenon DEF FlushRounds
<1>a. PICK a : a = [i \in DOMAIN rs \ gone |-> rs[i]]
  BY Zenon
<1>2. d = [rounds |-> a, rcvd |-> b]
  BY <1>g, <1>a, Zenon DEF Restrict
<1>3. d.rounds = a /\ d.rcvd = b
  BY <1>2
<1>4. a = [i \in DOMAIN a |-> a[i]]
  BY <1>a
<1>5. b = [i \in Index |-> b[i]]
  BY <1>g
<1>6. Shaped(d)
  BY <1>2, <1>3, <1>4, <1>5, Zenon DEF Shaped
<1>7. \A i : i \in DOMAIN a <=> i \in DOMAIN rs /\ ~(i[1] <= round)
  BY <1>a, <1>g
<1>8. \A i \in DOMAIN a : a[i] = rs[i]
  BY <1>a
<1>9. Filled(rs) => Filled(a)
  BY <1>7, <1>8, Zenon DEF Filled
<1> QED
  BY <1>1, <1>3, <1>6, <1>7, <1>8, <1>9, <1>g, Zenon

\* The partials a cache holds, as the set that PS maps it to.
HeldIn(c) == {p \in Packet : roundID(p) \in DOMAIN c.rounds /\ p.idx \in c.rounds[roundID(p)]}

\* A partial is determined by its identifier and its signer.
LEMMA OnePacket ==
  ASSUME NEW p \in Packet, NEW q \in Packet, roundID(q) = roundID(p), q.idx = p.idx
  PROVE  q = p
<1>1. q.round = p.round /\ q.prev = p.prev
  BY DEF roundID
<1> QED
  BY <1>1 DEF Packet

\* What CacheAppend does: one more index in one round cache, after a round has been opened for it.
LEMMA CacheAppendIs ==
  ASSUME NEW c, Shaped(c), NEW p \in Packet, CacheAppend(c, p) # c
  PROVE  /\ Shaped(CacheAppend(c, p))
         /\ \A i \in DOMAIN c.rounds : \A x \in c.rounds[i] \ {p.idx} :
               i \in DOMAIN CacheAppend(c, p).rounds /\ x \in CacheAppend(c, p).rounds[i]
         /\ (roundID(p) \in DOMAIN c.rounds \/ ~AtLimit(c, p.idx)) =>
               HeldIn(CacheAppend(c, p)) = HeldIn(c) \cup {p}
         /\ Filled(c.rounds) => Filled(CacheAppend(c, p).rounds)
<1>i. PICK id, idx : id = roundID(p) /\ idx = p.idx
  BY Zenon
<1>x. idx \in Index
  BY <1>i DEF Packet
<1>d. PICK d, ds, cs : d = CacheAppend(c, p) /\ ds = d.rounds /\ cs = c.rounds
  BY Zenon
\* the round the index is added to
<1>o. PICK o, os : o = (IF id \in DOMAIN cs THEN c ELSE OpenRound(c, id, idx)) /\ os = o.rounds
  BY Zenon
<1>m. id \notin DOMAIN cs => ~CacheMiss(c, idx)
  BY <1>d, <1>i, Zenon DEF CacheAppend
<1>1. d = AppendToRound(o, id, idx)
  BY <1>d, <1>i, <1>o, <1>m, Zenon DEF CacheAppend
<1>2. /\ Shaped(o) /\ id \in DOMAIN os /\ idx \notin os[id]
      /\ \A i \in DOMAIN cs : \A x \in cs[i] \ {idx} : i \in DOMAIN os /\ x \in os[i]
      /\ Filled(cs) => \A i \in DOMAIN os : i # id => os[i] # {}
      /\ (id \in DOMAIN cs \/ ~AtLimit(c, idx)) =>
            /\ \A i : i \in DOMAIN os <=> i \in DOMAIN cs \/ i = id
            /\ \A i \in DOMAIN cs : os[i] = cs[i]
            /\ id \notin DOMAIN cs => os[id] = {}
  <2>1. CASE id \in DOMAIN cs
    <3>1. o = c /\ os = cs
      BY <2>1, <1>o, <1>d, Zenon
    <3>2. idx \notin os[id]
      BY <3>1, <1>1, <1>d, Zenon DEF AppendToRound
    <3>3. Filled(cs) => \A i \in DOMAIN os : i # id => os[i] # {}
      BY <3>1, Zenon DEF Filled
    <3> QED
      BY <2>1, <3>1, <3>2, <3>3, Zenon
  <2>2. CASE id \notin DOMAIN cs
    <3>1. o = OpenRound(c, id, idx)
      BY <2>2, <1>o, Zenon
    <3>2. id \notin DOMAIN c.rounds /\ ~CacheMiss(c, idx)
      BY <2>2, <1>m, <1>d, Zenon
    <3>4. os = OpenRound(c, id, idx).rounds /\ cs = c.rounds
      BY <3>1, <1>o, <1>d, Zenon
    <3>5. PICK n : n = OpenRound(c, id, idx)
      BY Zenon
    <3>6. /\ Shaped(n) /\ id \in DOMAIN n.rounds /\ n.rounds[id] = {}
          /\ \A i \in DOMAIN c.rounds : \A x \in c.rounds[i] \ {idx} : i \in DOMAIN n.rounds /\ x \in n.rounds[i]
          /\ Filled(c.rounds) => \A i \in DOMAIN n.rounds : i # id => n.rounds[i] # {}
          /\ ~AtLimit(c, idx) => DOMAIN n.rounds = DOMAIN c.rounds \cup {id} /\ \A i \in DOMAIN c.rounds : n.rounds[i] = c.rounds[i]
      BY <3>5, <3>2, <1>x, OpenRoundIs
    <3>3. /\ Shaped(o) /\ id \in DOMAIN os /\ os[id] = {}
          /\ \A i \in DOMAIN cs : \A x \in cs[i] \ {idx} : i \in DOMAIN os /\ x \in os[i]
          /\ Filled(cs) => \A i \in DOMAIN os : i # id => os[i] # {}
          /\ ~AtLimit(c, idx) => DOMAIN os = DOMAIN cs \cup {id} /\ \A i \in DOMAIN cs : os[i] = cs[i]
      BY <3>1, <3>4, <3>5, <3>6, Zenon
    <3> QED
      BY <2>2, <3>3, Zenon
  <2> QED
    BY <2>1, <2>2, Zenon
<1>3. Shaped(d) /\ ds = [os EXCEPT ![id] = os[id] \cup {idx}]
  <2>1. id \in DOMAIN o.rounds /\ idx \notin o.rounds[id] /\ Shaped(o)
    BY <1>2, <1>o, Zenon
  <2>2. /\ Shaped(AppendToRound(o, id, idx))
        /\ AppendToRound(o, id, idx).rounds = [o.rounds EXCEPT ![id] = o.rounds[id] \cup {idx}]
    BY <2>1, <1>x, AppendToRoundIs
  <2>3. ds = AppendToRound(o, id, idx).rounds /\ os = o.rounds
    BY <1>1, <1>d, <1>o, Zenon
  <2> QED
    BY <2>2, <2>3, <1>1, Zenon
<1>4. /\ DOMAIN ds = DOMAIN os /\ ds[id] = os[id] \cup {idx}
      /\ \A i \in DOMAIN os : i # id => ds[i] = os[i]
  BY <1>2, <1>3
<1>5. \A i \in DOMAIN cs : \A x \in cs[i] \ {idx} : i \in DOMAIN ds /\ x \in ds[i]
  BY <1>2, <1>4, Zenon
<1>6. ASSUME id \in DOMAIN cs \/ ~AtLimit(c, idx)
      PROVE  HeldIn(d) = HeldIn(c) \cup {p}
  <2>1. /\ \A i : i \in DOMAIN os <=> i \in DOMAIN cs \/ i = id
        /\ \A i \in DOMAIN cs : os[i] = cs[i]
        /\ id \notin DOMAIN cs => os[id] = {}
    BY <1>2, <1>6, Zenon
  <2>2. ASSUME NEW q \in Packet
        PROVE  q \in HeldIn(d) <=> q \in HeldIn(c) \/ q = p
    <3>i. PICK i, x : i = roundID(q) /\ x = q.idx
      BY Zenon
    <3>1. q \in HeldIn(d) <=> i \in DOMAIN ds /\ x \in ds[i]
      BY <3>i, <1>d, Zenon DEF HeldIn
    <3>2. q \in HeldIn(c) <=> i \in DOMAIN cs /\ x \in cs[i]
      BY <3>i, <1>d, Zenon DEF HeldIn
    <3>3. q = p <=> i = id /\ x = idx
      BY <3>i, <1>i, OnePacket, Zenon
    <3>4. i \in DOMAIN ds /\ x \in ds[i] <=> (i \in DOMAIN cs /\ x \in cs[i]) \/ (i = id /\ x = idx)
      <4>1. CASE i = id
        <5>1. x \in ds[i] <=> x \in os[i] \/ x = idx
          BY <4>1, <1>4
        <5>2. x \in os[i] <=> i \in DOMAIN cs /\ x \in cs[i]
          BY <4>1, <2>1, Zenon
        <5>3. i \in DOMAIN ds
          BY <4>1, <1>4, <1>2, Zenon
        <5> QED
          BY <4>1, <5>1, <5>2, <5>3, Zenon
      <4>2. CASE i # id
        BY <4>2, <1>4, <2>1, Zenon
      <4> QED
        BY <4>1, <4>2, Zenon
    <3> QED
      BY <3>1, <3>2, <3>3, <3>4, Zenon
  <2>3. HeldIn(d) \subseteq Packet /\ HeldIn(c) \subseteq Packet
    BY Zenon DEF HeldIn
  <2> QED
    BY <2>2, <2>3
<1>7. Filled(cs) => Filled(ds)
  <2>1. ds[id] # {}
    BY <1>4
  <2> QED
    BY <1>2, <1>4, <2>1, Zenon DEF Filled
<1> QED
  BY <1>3, <1>5, <1>6, <1>7, <1>d, <1>i, Zenon

\* A flush forgets the partials up to its round, those of the round too.
LEMMA FlushForgets ==
  ASSUME NEW c, NEW round \in Rounds
  PROVE  HeldIn(FlushRounds(c, round)) = {p \in HeldIn(c) : p.round > round}
<1>d. PICK d : d = FlushRounds(c, round)
  BY Zenon
<1>1. /\ \A i : i \in DOMAIN d.rounds <=> i \in DOMAIN c.rounds /\ ~(i[1] <= round)
      /\ \A i \in DOMAIN d.rounds : d.rounds[i] = c.rounds[i]
  BY <1>d, FlushRoundsIs, Zenon
<1>2. ASSUME NEW q \in Packet
      PROVE  q \in HeldIn(d) <=> q \in HeldIn(c) /\ q.round > round
  <2>i. PICK i : i = roundID(q)
    BY Zenon
  <2>1. i[1] = q.round
    BY <2>i DEF roundID
  <2>2. q.round \in Nat /\ round \in Nat
    BY CacheAssumption, Zenon DEF Packet
  <2>3. ~(i[1] <= round) <=> q.round > round
    BY <2>1, <2>2
  <2>4. q \in HeldIn(d) <=> i \in DOMAIN d.rounds /\ q.idx \in d.rounds[i]
    BY <2>i, Zenon DEF HeldIn
  <2>5. q \in HeldIn(c) <=> i \in DOMAIN c.rounds /\ q.idx \in c.rounds[i]
    BY <2>i, Zenon DEF HeldIn
  <2> QED
    BY <1>1, <2>3, <2>4, <2>5, Zenon
<1>3. HeldIn(d) \subseteq Packet /\ HeldIn(c) \subseteq Packet
  BY Zenon DEF HeldIn
<1> QED
  BY <1>2, <1>3, <1>d

\* The inductive invariant.
CacheShaped == Shaped(cache) /\ Filled(cache.rounds)

\* A new cache is empty.
LEMMA ShapedInit ==
  ASSUME CacheInit
  PROVE  Shaped(cache) /\ Filled(cache.rounds)
<1>b. PICK a, b : a = << >> /\ b = [idx \in Index |-> << >>]
  BY Zenon
<1>1. cache = [rounds |-> a, rcvd |-> b]
  BY <1>b, Zenon DEF CacheInit, newPartialCache
<1>2. cache.rounds = a /\ cache.rcvd = b
  BY <1>1
<1>3. a = [i \in DOMAIN a |-> a[i]]
  BY <1>b
<1>4. b = [i \in Index |-> b[i]]
  BY <1>b
<1>5. Filled(a)
  BY <1>b DEF Filled
<1> QED
  BY <1>1, <1>2, <1>3, <1>4, <1>5, Zenon DEF Shaped

\* Every append and every flush keeps the invariant.
LEMMA ShapedStep ==
  ASSUME Shaped(cache), Filled(cache.rounds), [CacheNext]_cache
  PROVE  Shaped(cache') /\ Filled(cache'.rounds)
<1>1. CASE cache' = cache
  BY <1>1, Zenon
<1>2. ASSUME NEW p \in Packet, AppendPartial(p)
      PROVE  Shaped(cache') /\ Filled(cache'.rounds)
  <2>1. cache' = CacheAppend(cache, p)
    BY <1>2, Zenon DEF AppendPartial
  <2>2. CASE CacheAppend(cache, p) # cache
    BY <2>1, <2>2, CacheAppendIs, Zenon
  <2> QED
    BY <2>1, <2>2, Zenon
<1>3. ASSUME NEW round \in Rounds, Flush(round)
      PROVE  Shaped(cache') /\ Filled(cache'.rounds)
  BY <1>3, FlushRoundsIs, Zenon DEF Flush
<1> QED
  BY <1>1, <1>2, <1>3, Zenon DEF CacheNext

(* What one signer sends leaves the partials of the others in the cache,   *)
(* evictions included (partialCache.Append and getCache).                  *)
THEOREM OthersStay == CacheSpec => OthersUndisturbed
<1>2. CacheInit => CacheShaped
  BY ShapedInit, Zenon DEF CacheShaped
<1>3. CacheShaped /\ [CacheNext]_cache => CacheShaped'
  BY ShapedStep, Zenon DEF CacheShaped
<1>1. CacheShaped /\ [CacheNext]_cache =>
        [ cache' # cache => \A p \in Packet : AppendPartial(p) =>
          \A id \in DOMAIN cache.rounds :
             \A idx \in cache.rounds[id] \ {p.idx} :
                /\ id \in DOMAIN cache'.rounds
                /\ idx \in cache'.rounds[id] ]_cache
  <2> SUFFICES ASSUME Shaped(cache), cache' # cache, NEW p \in Packet, AppendPartial(p)
               PROVE  \A id \in DOMAIN cache.rounds :
                        \A idx \in cache.rounds[id] \ {p.idx} :
                          id \in DOMAIN cache'.rounds /\ idx \in cache'.rounds[id]
    BY Zenon DEF CacheShaped
  <2>1. cache' = CacheAppend(cache, p)
    BY Zenon DEF AppendPartial
  <2>2. CacheAppend(cache, p) # cache
    BY <2>1, Zenon
  <2> QED
    BY <2>1, <2>2, CacheAppendIs, Zenon
<1> QED
  BY <1>1, <1>2, <1>3, PTL DEF CacheSpec, OthersUndisturbed

(* No round cache is left empty (getCache, FlushRounds): the part of the   *)
(* consistency of the two maps that is about the round caches alone.       *)
THEOREM NoRoundEmpty == CacheSpec => []NoEmptyRound
<1>1. CacheInit => CacheShaped
  BY ShapedInit, Zenon DEF CacheShaped
<1>2. CacheShaped /\ [CacheNext]_cache => CacheShaped'
  BY ShapedStep, Zenon DEF CacheShaped
<1>3. CacheShaped => NoEmptyRound
  BY Zenon DEF CacheShaped, Filled, NoEmptyRound
<1> QED
  BY <1>1, <1>2, <1>3, PTL DEF CacheSpec

(* Without evictions the cache is the set of the partials appended and not *)
(* flushed: partialCache.Append adds its partial and FlushRounds forgets   *)
(* the rounds up to its own.                                               *)
THEOREM CacheImplementsSet == CacheSpec => ImplementsPartialSet
<1>i. CacheInit => PS!Init
  <2> SUFFICES ASSUME CacheInit
               PROVE  HeldIn(cache) = {}
    BY Zenon DEF PS!Init, HeldIn
  <2>1. cache.rounds = << >>
    BY DEF CacheInit, newPartialCache
  <2>2. DOMAIN cache.rounds = {}
    BY <2>1
  <2> QED
    BY <2>2, Zenon DEF HeldIn
<1>2. CacheInit => CacheShaped
  BY ShapedInit, Zenon DEF CacheShaped
<1>3. CacheShaped /\ [CacheNext]_cache => CacheShaped'
  BY ShapedStep, Zenon DEF CacheShaped
<1>1. CacheShaped /\ [CacheNext]_cache =>
        [ cache' # cache =>
              /\ \A p \in Packet : AppendPartial(p) /\ ~Evicts(p) => PS!Add(p)
              /\ \A round \in Rounds : Flush(round) => PS!Forget(round) ]_cache
  <2> SUFFICES ASSUME Shaped(cache), cache' # cache
               PROVE  /\ \A p \in Packet : AppendPartial(p) /\ ~Evicts(p) => PS!Add(p)
                      /\ \A round \in Rounds : Flush(round) => PS!Forget(round)
    BY Zenon DEF CacheShaped
  <2>1. ASSUME NEW p \in Packet, AppendPartial(p), ~Evicts(p)
        PROVE  PS!Add(p)
    <3>1. cache' = CacheAppend(cache, p)
      BY <2>1, Zenon DEF AppendPartial
    <3>2. CacheAppend(cache, p) # cache
      BY <3>1, Zenon
    <3>3. roundID(p) \in DOMAIN cache.rounds \/ ~AtLimit(cache, p.idx)
      BY <2>1, Zenon DEF Evicts
    <3>4. HeldIn(CacheAppend(cache, p)) = HeldIn(cache) \cup {p}
      BY <3>2, <3>3, CacheAppendIs, Zenon
    <3>5. HeldIn(cache') = HeldIn(cache) \cup {p}
      BY <3>1, <3>4, Zenon
    <3> QED
      BY <3>5, Zenon DEF PS!Add, HeldIn
  <2>2. ASSUME NEW round \in Rounds, Flush(round)
        PROVE  PS!Forget(round)
    <3>1. HeldIn(cache') = {p \in HeldIn(cache) : p.round > round}
      BY <2>2, FlushForgets, Zenon DEF Flush
    <3> QED
      BY <3>1, Zenon DEF PS!Forget, HeldIn
  <2> QED
    BY <2>1, <2>2, Zenon
<1> QED
  BY <1>i, <1>1, <1>2, <1>3, PTL DEF CacheSpec, ImplementsPartialSet

-----------------------------------------------------------------------------
(* The database (module BoltStore).                                        *)

(* A set of natural numbers that is not empty has a least element.         *)
LEMMA LeastNumber ==
    ASSUME NEW T, T \subseteq Nat, T # {}
    PROVE  \E x \in T : \A y \in T : x <= y
<1>1. IsWellFoundedOn(OpToRel(<, Nat), Nat)
  BY NatLessThanWellFounded, Zenon
<1>2. PICK x \in T : \A y \in T : ~(<<y, x>> \in OpToRel(<, Nat))
  BY <1>1, WFMin, Zenon
<1>3. ASSUME NEW y \in T PROVE x <= y
  <2>1. x \in Nat /\ y \in Nat
    OBVIOUS
  <2>2. ~(<<y, x>> \in OpToRel(<, Nat))
    BY <1>2, Zenon
  <2>3. ~(y < x)
    BY <2>1, <2>2 DEF OpToRel
  <2> QED
    BY <2>1, <2>3
<1> QED
  BY <1>3

\* The two bytes of a round.
LEMMA TwoBytes ==
  ASSUME NEW a \in Nat, NEW b \in Nat
  PROVE  Before(RoundToBytes(a), RoundToBytes(b)) <=> a < b
<1>1. ByteBase \in Nat /\ ByteBase > 0
  BY BoltAssumption
<1> DEFINE qa == a \div ByteBase
           qb == b \div ByteBase
           ra == a % ByteBase
           rb == b % ByteBase
<1>2. qa \in Nat /\ ra \in Nat /\ a = ByteBase * qa + ra /\ ra < ByteBase
  BY <1>1
<1>3. qb \in Nat /\ rb \in Nat /\ b = ByteBase * qb + rb /\ rb < ByteBase
  BY <1>1
<1>4. Before(RoundToBytes(a), RoundToBytes(b)) <=> qa < qb \/ (qa = qb /\ ra < rb)
  BY DEF Before, RoundToBytes
<1> HIDE DEF qa, qb, ra, rb
<1>5. ASSUME NEW x \in Nat, NEW y \in Nat, x < y PROVE ByteBase * x + ByteBase <= ByteBase * y
  <2>1. y - x - 1 \in Nat
    BY <1>5
  <2>2. ByteBase * (y - x - 1) >= 0
    BY <1>1, <2>1
  <2> QED
    BY <1>1, <2>1, <2>2
<1>6. CASE qa < qb
  <2>1. ByteBase * qa + ByteBase <= ByteBase * qb /\ ByteBase * qa \in Nat /\ ByteBase * qb \in Nat
    BY <1>1, <1>2, <1>3, <1>5, <1>6
  <2>2. a < b
    BY <1>1, <1>2, <1>3, <2>1
  <2> QED
    BY <1>4, <1>6, <2>2
<1>7. CASE qb < qa
  <2>1. ByteBase * qb + ByteBase <= ByteBase * qa /\ ByteBase * qa \in Nat /\ ByteBase * qb \in Nat
    BY <1>1, <1>2, <1>3, <1>5, <1>7
  <2>2. ~(a < b)
    BY <1>1, <1>2, <1>3, <2>1
  <2> QED
    BY <1>2, <1>3, <1>4, <1>7, <2>2
<1>8. CASE qa = qb
  <2>1. ByteBase * qa \in Nat
    BY <1>1, <1>2
  <2> QED
    BY <1>2, <1>3, <1>4, <1>8, <2>1
<1> QED
  BY <1>2, <1>3, <1>6, <1>7, <1>8

\* The entries of a database: every round under its own key.
Rows(d) ==
    /\ d = [k \in DOMAIN d |-> d[k]]
    /\ \A k \in DOMAIN d : d[k] \in 0 .. MaxDbRound /\ k = RoundToBytes(d[k])

\* The byte order of the keys is the order of the rounds.
LEMMA RowsInOrder ==
  ASSUME NEW d, Rows(d), NEW k \in DOMAIN d, NEW l \in DOMAIN d
  PROVE  /\ Before(k, l) <=> d[k] < d[l]
         /\ d[k] = d[l] => k = l
         /\ d[k] \in Nat /\ d[k] <= MaxDbRound /\ k # NoEntry
<1>1. /\ d[k] \in 0 .. MaxDbRound /\ k = RoundToBytes(d[k])
      /\ d[l] \in 0 .. MaxDbRound /\ l = RoundToBytes(d[l])
  BY Zenon DEF Rows
<1>2. d[k] \in Nat /\ d[l] \in Nat /\ d[k] <= MaxDbRound /\ MaxDbRound \in Nat
  BY <1>1, BoltAssumption
<1>3. Before(k, l) <=> d[k] < d[l]
  BY <1>1, <1>2, TwoBytes, Zenon
<1>4. k # NoEntry
  <2>1. \A x : RoundToBytes(x) # NoEntry
    BY DEF RoundToBytes, NoEntry
  <2> QED
    BY <1>1, <2>1, Zenon
<1> QED
  BY <1>1, <1>2, <1>3, <1>4, Zenon

\* The first key of a set of keys, as Seek and Next find it.
LEMMA FirstKeyIs ==
  ASSUME NEW d, Rows(d), NEW K \in SUBSET (DOMAIN d), K # {}
  PROVE  FirstKey(K) \in K /\ \A l \in K : d[FirstKey(K)] <= d[l]
<1> DEFINE T == {d[k] : k \in K}
<1>1. \A k \in K : d[k] \in Nat /\ d[k] <= MaxDbRound
  BY RowsInOrder, Zenon
<1>2. T \subseteq Nat /\ T # {}
  BY <1>1, Zenon
<1>3. PICK x \in T : \A y \in T : x <= y
  BY <1>2, LeastNumber, Zenon
<1>4. PICK m \in K : d[m] = x
  BY <1>3, Zenon
<1>5. \A l \in K : d[m] <= d[l]
  BY <1>3, <1>4, Zenon
<1>6. \A l \in K \ {m} : Before(m, l)
  <2> SUFFICES ASSUME NEW l \in K, l # m PROVE Before(m, l)
    BY Zenon
  <2>1. /\ Before(m, l) <=> d[m] < d[l]
        /\ d[m] # d[l]
    BY RowsInOrder, Zenon
  <2>2. d[m] \in Nat /\ d[l] \in Nat /\ d[m] <= d[l]
    BY <1>1, <1>5, Zenon
  <2> QED
    BY <2>1, <2>2
<1>7. FirstKey(K) = CHOOSE k \in K : \A l \in K \ {k} : Before(k, l)
  BY Zenon DEF FirstKey
<1>8. FirstKey(K) \in K /\ \A l \in K \ {FirstKey(K)} : Before(FirstKey(K), l)
  BY <1>6, <1>7, Zenon
<1>9. ASSUME NEW l \in K PROVE d[FirstKey(K)] <= d[l]
  <2> DEFINE f == FirstKey(K)
  <2>0. f \in K
    BY <1>8, Zenon
  <2>1. d[f] \in Nat /\ d[l] \in Nat
    BY <1>1, <2>0, Zenon
  <2>2. l # f => d[f] < d[l]
    BY <1>8, <2>0, RowsInOrder, Zenon
  <2> HIDE DEF f
  <2>3. d[f] <= d[l]
    BY <2>1, <2>2
  <2> QED
    BY <2>3, Zenon DEF f
<1> QED
  BY <1>8, <1>9, Zenon

\* The last key, as Last finds it.
LEMMA LastKeyIs ==
  ASSUME NEW d, Rows(d), DOMAIN d # {}
  PROVE  /\ LastKey(DOMAIN d) \in DOMAIN d /\ LastRoundOf(d) \in DbRounds(d)
         /\ LastRoundOf(d) \in Nat /\ LastRoundOf(d) <= MaxDbRound
         /\ \A r \in DbRounds(d) : r \in Nat /\ r <= LastRoundOf(d)
<1> DEFINE K == DOMAIN d
           T == {MaxDbRound - d[k] : k \in K}
<1>1. \A k \in K : d[k] \in Nat /\ d[k] <= MaxDbRound
  BY RowsInOrder, Zenon
<1>2. T \subseteq Nat /\ T # {}
  <2>1. \A k \in K : MaxDbRound - d[k] \in Nat
    <3> SUFFICES ASSUME NEW k \in K PROVE MaxDbRound - d[k] \in Nat
      OBVIOUS
    <3>1. d[k] \in Nat /\ d[k] <= MaxDbRound /\ MaxDbRound \in Nat
      BY <1>1, BoltAssumption
    <3> QED
      BY <3>1
  <2> QED
    BY <2>1, Zenon
<1>3. PICK x \in T : \A y \in T : x <= y
  BY <1>2, LeastNumber, Zenon
<1>4. PICK m \in K : MaxDbRound - d[m] = x
  BY <1>3, Zenon
<1>5. ASSUME NEW l \in K PROVE d[l] <= d[m]
  <2>1. /\ d[m] \in Nat /\ d[l] \in Nat /\ MaxDbRound \in Nat
        /\ MaxDbRound - d[m] <= MaxDbRound - d[l]
    <3>1. MaxDbRound \in Nat
      BY BoltAssumption
    <3> QED
      BY <1>1, <1>3, <1>4, <3>1, Zenon
  <2> QED
    BY <2>1
<1>6. \A l \in K \ {m} : Before(l, m)
  <2> SUFFICES ASSUME NEW l \in K, l # m PROVE Before(l, m)
    BY Zenon
  <2>1. /\ Before(l, m) <=> d[l] < d[m]
        /\ d[m] # d[l]
    BY RowsInOrder, Zenon
  <2>2. d[m] \in Nat /\ d[l] \in Nat /\ d[l] <= d[m]
    BY <1>1, <1>5, Zenon
  <2> QED
    BY <2>1, <2>2
<1>7. LastKey(K) = CHOOSE k \in K : \A l \in K \ {k} : Before(l, k)
  BY Zenon DEF LastKey
<1>8. LastKey(K) \in K /\ \A l \in K \ {LastKey(K)} : Before(l, LastKey(K))
  BY <1>6, <1>7, Zenon
<1> DEFINE f == LastKey(K)
<1>9. ASSUME NEW l \in K PROVE d[l] <= d[f]
  <2>0. f \in K
    BY <1>8, Zenon
  <2>1. d[f] \in Nat /\ d[l] \in Nat
    BY <1>1, <2>0, Zenon
  <2>2. l # f => d[l] < d[f]
    BY <1>8, <2>0, RowsInOrder, Zenon
  <2> HIDE DEF f
  <2> QED
    BY <2>1, <2>2
<1> QED
  BY <1>1, <1>8, <1>9, Zenon DEF DbRounds, LastRoundOf

\* The rounds of a database, and where they are.
LEMMA RoundsOfRows ==
  ASSUME NEW d, Rows(d), NEW r
  PROVE  r \in DbRounds(d) <=> RoundToBytes(r) \in DOMAIN d /\ r \in Nat /\ d[RoundToBytes(r)] = r
<1>1. ASSUME r \in DbRounds(d) PROVE RoundToBytes(r) \in DOMAIN d /\ r \in Nat /\ d[RoundToBytes(r)] = r
  <2>1. PICK k \in DOMAIN d : d[k] = r
    BY <1>1, Zenon DEF DbRounds
  <2>2. k = RoundToBytes(r) /\ r \in Nat
    BY <2>1, RowsInOrder, Zenon DEF Rows
  <2> QED
    BY <2>1, <2>2, Zenon
<1> QED
  BY <1>1, Zenon DEF DbRounds

\* A round is in the database exactly when its key is.
LEMMA OneRoundPerKey ==
  ASSUME NEW a \in Nat, NEW b \in Nat, RoundToBytes(a) = RoundToBytes(b)
  PROVE  a = b
<1>1. Before(RoundToBytes(a), RoundToBytes(b)) <=> a < b
  BY TwoBytes, Zenon
<1>2. Before(RoundToBytes(b), RoundToBytes(a)) <=> b < a
  BY TwoBytes, Zenon
<1>3. Before(RoundToBytes(a), RoundToBytes(a)) <=> a < a
  BY TwoBytes, Zenon
<1>4. ~(a < a)
  OBVIOUS
<1>5. ~(a < b) /\ ~(b < a)
  BY <1>1, <1>2, <1>3, <1>4, Zenon
<1> QED
  BY <1>5

\* A database after a Put and after a Del of one round.
With(d, r) == [k \in DOMAIN d \cup {RoundToBytes(r)} |-> IF k = RoundToBytes(r) THEN r ELSE d[k]]
Lacking(d, r) == [k \in DOMAIN d \ {RoundToBytes(r)} |-> d[k]]

\* What a Put adds.
LEMMA AddRow ==
  ASSUME NEW d, Rows(d), NEW r \in 0 .. MaxDbRound
  PROVE  Rows(With(d, r)) /\ DbRounds(With(d, r)) = DbRounds(d) \cup {r}
<1>e. PICK e : e = With(d, r)
  BY Zenon
<1>0. r \in Nat
  BY BoltAssumption
<1>1. /\ DOMAIN e = DOMAIN d \cup {RoundToBytes(r)} /\ e[RoundToBytes(r)] = r
      /\ \A k \in DOMAIN d : k # RoundToBytes(r) => e[k] = d[k]
  BY <1>e, Zenon DEF With
<1>2. \A k \in DOMAIN d : e[k] = d[k]
  <2> SUFFICES ASSUME NEW k \in DOMAIN d, k = RoundToBytes(r) PROVE d[k] = r
    BY <1>1, Zenon
  <2>1. d[k] \in Nat /\ k = RoundToBytes(d[k])
    BY RowsInOrder, Zenon DEF Rows
  <2> QED
    BY <1>0, <2>1, OneRoundPerKey, Zenon
<1>3. e = [k \in DOMAIN e |-> e[k]]
  BY <1>e DEF With
<1>4. Rows(e)
  BY <1>1, <1>2, <1>3, Zenon DEF Rows
<1>5. DbRounds(e) = DbRounds(d) \cup {r}
  BY <1>1, <1>2, Zenon DEF DbRounds
<1> QED
  BY <1>e, <1>4, <1>5, Zenon

\* What a Del drops.
LEMMA DropRow ==
  ASSUME NEW d, Rows(d), NEW r \in Nat
  PROVE  Rows(Lacking(d, r)) /\ DbRounds(Lacking(d, r)) = DbRounds(d) \ {r}
<1>e. PICK e : e = Lacking(d, r)
  BY Zenon
<1>1. /\ DOMAIN e = DOMAIN d \ {RoundToBytes(r)} /\ \A k \in DOMAIN e : e[k] = d[k]
  BY <1>e, Zenon DEF Lacking
<1>2. e = [k \in DOMAIN e |-> e[k]]
  BY <1>e DEF Lacking
<1>3. Rows(e)
  BY <1>1, <1>2, Zenon DEF Rows
<1>4. \A k \in DOMAIN d : k = RoundToBytes(r) <=> d[k] = r
  <2> SUFFICES ASSUME NEW k \in DOMAIN d PROVE k = RoundToBytes(r) <=> d[k] = r
    OBVIOUS
  <2>1. d[k] \in Nat /\ k = RoundToBytes(d[k])
    BY RowsInOrder, Zenon DEF Rows
  <2> QED
    BY <2>1, OneRoundPerKey, Zenon
<1>5. DbRounds(e) = DbRounds(d) \ {r}
  <2>1. \A x : x \in DbRounds(e) <=> \E k \in DOMAIN d : k # RoundToBytes(r) /\ x = d[k]
    BY <1>1, Zenon DEF DbRounds
  <2>2. \A x : x \in DbRounds(d) <=> \E k \in DOMAIN d : x = d[k]
    BY Zenon DEF DbRounds
  <2>3. \A x : x \in DbRounds(e) <=> x \in DbRounds(d) /\ x # r
    BY <1>4, <2>1, <2>2, Zenon
  <2> QED
    BY <2>3, Zenon
<1> QED
  BY <1>e, <1>3, <1>5, Zenon

\* A database with the rounds up to n: n is the round that Last finds.
LEMMA LastOfChain ==
  ASSUME NEW d, Rows(d), NEW n \in Nat, DbRounds(d) = 0 .. n
  PROVE  DOMAIN d # {} /\ LastRoundOf(d) = n
<1>1. n \in DbRounds(d)
  OBVIOUS
<1>2. DOMAIN d # {}
  BY <1>1, Zenon DEF DbRounds
<1>3. LastRoundOf(d) \in DbRounds(d) /\ LastRoundOf(d) \in Nat /\ n <= LastRoundOf(d)
  BY <1>1, <1>2, LastKeyIs, Zenon
<1> QED
  BY <1>2, <1>3

\* The last round without an entry there would be none to find.
LEMMA EmptyOrNot ==
  ASSUME NEW d, Rows(d), d # [k \in {} |-> 0]
  PROVE  DOMAIN d # {}
<1> SUFFICES ASSUME DOMAIN d = {} PROVE FALSE
  BY Zenon
<1>1. d = [k \in DOMAIN d |-> d[k]]
  BY Zenon DEF Rows
<1> QED
  BY <1>1

\* The entries are rounds under their keys, and the genesis is there while the daemon is.
BoltTypes ==
    /\ Rows(db) /\ Rows(backup) /\ Rows(view)
    /\ owner \in {"daemon", "none", "del"} /\ sought \in Nat /\ cut \in BOOLEAN
    /\ owner = "daemon" => 0 \in DbRounds(db)

\* Without an interruption the rounds are those up to the last one, while del-beacon
\* works without those it has deleted, and none at all when it has deleted the genesis.
NoHole ==
    ~cut =>
        /\ owner = "daemon" => \E n \in Nat : DbRounds(db) = 0 .. n
        /\ owner = "none" => \E n \in Nat : DbRounds(db) = 0 .. n - 1
        /\ owner = "del" => /\ delFrom \in Nat /\ delTo \in Nat /\ delFrom <= delTo
                            /\ \E f \in 0 .. delFrom : DbRounds(db) = (0 .. f - 1) \cup (delFrom .. delTo)
        /\ \E n \in Nat : DbRounds(backup) = 0 .. n

\* What the cursor has returned: the rounds of its snapshot up to where it is.
Returned == {walked[i] : i \in 1 .. Len(walked)}
Walk ==
    ~NoRead =>
        /\ walked \in Seq(Nat)
        /\ \A i \in 1 .. Len(walked) - 1 : walked[i] < walked[i + 1]
        /\ cursor = NoEntry => Returned = {r \in DbRounds(view) : r >= sought}
        /\ cursor # NoEntry =>
              /\ cursor \in DOMAIN view /\ walked # <<>> /\ walked[Len(walked)] = view[cursor]
              /\ Returned = {r \in DbRounds(view) : r >= sought /\ r <= view[cursor]}

\* The inductive invariant.
BoltInv == BoltTypes /\ NoHole /\ Walk

\* A new database holds the genesis.
LEMMA BoltInitInv == BoltInit => BoltInv
<1> SUFFICES ASSUME BoltInit PROVE BoltInv
  OBVIOUS
<1> DEFINE none == [k \in {} |-> 0]
<1>0. MaxDbRound \in Nat /\ 0 \in 0 .. MaxDbRound
  BY BoltAssumption
<1>1. Rows(none) /\ DbRounds(none) = {}
  <2>1. DOMAIN none = {} /\ none = [k \in DOMAIN none |-> none[k]]
    OBVIOUS
  <2> QED
    BY <2>1, Zenon DEF Rows, DbRounds
<1>2. Genesis = With(none, 0)
  BY DEF Genesis, With
<1>3. Rows(Genesis) /\ DbRounds(Genesis) = {0}
  <2> HIDE DEF none
  <2>1. DbRounds(none) \cup {0} = {0}
    BY <1>1, Zenon
  <2> QED
    BY <1>0, <1>1, <1>2, <2>1, AddRow, Zenon
<1>4. DbRounds(Genesis) = 0 .. 0
  BY <1>3
<1>5. /\ db = Genesis /\ backup = Genesis /\ view = none /\ owner = "daemon" /\ sought = 0 /\ cut = FALSE
  BY Zenon DEF BoltInit
<1>6. "daemon" # "none" /\ "daemon" # "del" /\ 0 \in Nat
  OBVIOUS
<1>7. BoltTypes
  BY <1>1, <1>3, <1>5, <1>6, Zenon DEF BoltTypes
<1>8. NoHole
  BY <1>4, <1>5, <1>6, Zenon DEF NoHole
<1>9. Walk
  BY <1>5, Zenon DEF Walk, NoRead
<1> QED
  BY <1>7, <1>8, <1>9, Zenon DEF BoltInv

\* The invariant of the next state.
LEMMA NextTypes ==
  BoltTypes' <=> /\ Rows(db') /\ Rows(backup') /\ Rows(view')
                 /\ owner' \in {"daemon", "none", "del"} /\ sought' \in Nat /\ cut' \in BOOLEAN
                 /\ owner' = "daemon" => 0 \in DbRounds(db')
BY Zenon DEF BoltTypes, Rows, DbRounds, RoundToBytes

\* NoHole of the next state, written out.
LEMMA NextNoHole ==
  NoHole' <=>
    (~cut' =>
        /\ owner' = "daemon" => \E n \in Nat : DbRounds(db') = 0 .. n
        /\ owner' = "none" => \E n \in Nat : DbRounds(db') = 0 .. n - 1
        /\ owner' = "del" => /\ delFrom' \in Nat /\ delTo' \in Nat /\ delFrom' <= delTo'
                             /\ \E f \in 0 .. delFrom' : DbRounds(db') = (0 .. f - 1) \cup (delFrom' .. delTo')
        /\ \E n \in Nat : DbRounds(backup') = 0 .. n)
BY Zenon DEF NoHole, DbRounds

\* The reading transaction is left alone.
LEMMA ReadUndisturbed ==
  ASSUME Walk, view' = view, cursor' = cursor, walked' = walked, sought' = sought
  PROVE  Walk'
BY Zenon DEF Walk, NoRead, Returned, NoEntry

\* Walk of the next state, written out.
LEMMA NextWalk ==
  Walk' <=>
    (~NoRead' =>
        /\ walked' \in Seq(Nat)
        /\ \A i \in 1 .. Len(walked') - 1 : walked'[i] < walked'[i + 1]
        /\ cursor' = NoEntry => {walked'[i] : i \in 1 .. Len(walked')} = {r \in DbRounds(view') : r >= sought'}
        /\ cursor' # NoEntry =>
              /\ cursor' \in DOMAIN view' /\ walked' # <<>> /\ walked'[Len(walked')] = view'[cursor']
              /\ {walked'[i] : i \in 1 .. Len(walked')}
                   = {r \in DbRounds(view') : r >= sought' /\ r <= view'[cursor']})
BY Zenon DEF Walk, Returned, NoRead, DbRounds, NoEntry

\* Put of the next round.
LEMMA PutBeaconKeeps ==
  ASSUME BoltInv, PutBeacon
  PROVE  BoltInv'
<1>0. BoltTypes /\ NoHole /\ Walk
  BY Zenon DEF BoltInv
<1>1. /\ owner' = owner /\ backup' = backup /\ cut' = cut
      /\ view' = view /\ cursor' = cursor /\ walked' = walked /\ sought' = sought
  BY Zenon DEF PutBeacon
<1>2. PICK r : /\ r = LastRoundOf(db) + 1 /\ r <= MaxDbRound /\ owner = "daemon"
               /\ db' = With(db, r)
  BY Zenon DEF PutBeacon, With
<1>3. Rows(db) /\ 0 \in DbRounds(db)
  BY <1>0, <1>2, Zenon DEF BoltTypes
<1>4. DOMAIN db # {}
  BY <1>3, Zenon DEF DbRounds
<1>5. r \in 0 .. MaxDbRound
  <2>1. LastRoundOf(db) \in Nat /\ MaxDbRound \in Nat
    BY <1>3, <1>4, LastKeyIs, BoltAssumption
  <2> QED
    BY <1>2, <2>1
<1>6. Rows(db') /\ DbRounds(db') = DbRounds(db) \cup {r}
  BY <1>2, <1>3, <1>5, AddRow, Zenon
<1>7. BoltTypes'
  BY <1>0, <1>1, <1>3, <1>6, NextTypes, Zenon DEF BoltTypes
<1>8. NoHole'
  <2>1. ASSUME NEW n \in Nat, DbRounds(db) = 0 .. n PROVE n + 1 \in Nat /\ DbRounds(db') = 0 .. n + 1
    <3>1. r = n + 1
      BY <1>2, <1>3, <2>1, LastOfChain, Zenon
    <3>2. 0 .. n + 1 = (0 .. n) \cup {n + 1}
      OBVIOUS
    <3> QED
      BY <1>6, <2>1, <3>1, <3>2
  <2>2. "daemon" # "none" /\ "daemon" # "del"
    OBVIOUS
  <2> QED
    BY <1>0, <1>1, <1>2, <2>1, <2>2, NextNoHole, Zenon DEF NoHole
<1>9. Walk'
  BY <1>0, <1>1, ReadUndisturbed, Zenon
<1> QED
  BY <1>7, <1>8, <1>9, Zenon DEF BoltInv

\* A backup of the database.
LEMMA SaveToKeeps ==
  ASSUME BoltInv, SaveTo
  PROVE  BoltInv'
<1>0. BoltTypes /\ NoHole /\ Walk
  BY Zenon DEF BoltInv
<1>1. /\ owner' = owner /\ db' = db /\ cut' = cut /\ delFrom' = delFrom /\ delTo' = delTo
      /\ view' = view /\ cursor' = cursor /\ walked' = walked /\ sought' = sought
      /\ owner = "daemon" /\ backup' = db
  BY Zenon DEF SaveTo
<1>7. BoltTypes'
  BY <1>0, <1>1, NextTypes, Zenon DEF BoltTypes
<1>8. NoHole'
  BY <1>0, <1>1, NextNoHole, Zenon DEF NoHole
<1>9. Walk'
  BY <1>0, <1>1, ReadUndisturbed, Zenon
<1> QED
  BY <1>7, <1>8, <1>9, Zenon DEF BoltInv

\* The daemon closes the database.
LEMMA CloseDBKeeps ==
  ASSUME BoltInv, CloseDB
  PROVE  BoltInv'
<1>0. BoltTypes /\ NoHole /\ Walk
  BY Zenon DEF BoltInv
<1>1. /\ owner' = "none" /\ db' = db /\ cut' = cut /\ backup' = backup
      /\ view' = view /\ cursor' = cursor /\ walked' = walked /\ sought' = sought
      /\ owner = "daemon"
  BY Zenon DEF CloseDB
<1>2. "daemon" # "none" /\ "none" # "del" /\ "none" \in {"daemon", "none", "del"}
  OBVIOUS
<1>7. BoltTypes'
  BY <1>0, <1>1, <1>2, NextTypes, Zenon DEF BoltTypes
<1>8. NoHole'
  <2>1. ASSUME NEW n \in Nat, DbRounds(db) = 0 .. n PROVE n + 1 \in Nat /\ DbRounds(db) = 0 .. (n + 1) - 1
    BY <2>1
  <2> QED
    BY <1>0, <1>1, <1>2, <2>1, NextNoHole, Zenon DEF NoHole
<1>9. Walk'
  BY <1>0, <1>1, ReadUndisturbed, Zenon
<1> QED
  BY <1>7, <1>8, <1>9, Zenon DEF BoltInv

\* The daemon opens the database, and puts the genesis in an empty one.
LEMMA NewBoltStoreKeeps ==
  ASSUME BoltInv, NewBoltStore
  PROVE  BoltInv'
<1>0. BoltTypes /\ NoHole /\ Walk
  BY Zenon DEF BoltInv
<1>1. /\ backup' = backup /\ cut' = cut /\ owner = "none" /\ owner' = "daemon"
      /\ view' = view /\ cursor' = cursor /\ walked' = walked /\ sought' = sought
      /\ db' = With(db, 0)
  BY Zenon DEF NewBoltStore, With
<1>2. /\ "daemon" # "none" /\ "daemon" # "del" /\ "daemon" \in {"daemon", "none", "del"}
      /\ 0 \in 0 .. MaxDbRound
  BY BoltAssumption
<1>3. Rows(db)
  BY <1>0, Zenon DEF BoltTypes
<1>6. Rows(db') /\ DbRounds(db') = DbRounds(db) \cup {0}
  BY <1>1, <1>2, <1>3, AddRow, Zenon
<1>7. BoltTypes'
  BY <1>0, <1>1, <1>2, <1>6, NextTypes, Zenon DEF BoltTypes
<1>8. NoHole'
  <2>1. ASSUME NEW n \in Nat, DbRounds(db) = 0 .. n - 1 PROVE \E m \in Nat : DbRounds(db') = 0 .. m
    <3>1. CASE n = 0
      <4>1. (0 .. n - 1) \cup {0} = 0 .. 0
        BY <3>1
      <4> QED
        BY <1>6, <2>1, <4>1
    <3>2. CASE n # 0
      <4>1. n - 1 \in Nat /\ (0 .. n - 1) \cup {0} = 0 .. n - 1
        BY <3>2
      <4> QED
        BY <1>6, <2>1, <4>1
    <3> QED
      BY <3>1, <3>2
  <2> QED
    BY <1>0, <1>1, <1>2, <2>1, NextNoHole, Zenon DEF NoHole
<1>9. Walk'
  BY <1>0, <1>1, ReadUndisturbed, Zenon
<1> QED
  BY <1>7, <1>8, <1>9, Zenon DEF BoltInv

\* del-beacon opens the database and reads the last round.
LEMMA DelCommandKeeps ==
  ASSUME BoltInv, NEW r \in 0 .. MaxDbRound, DelCommand(r)
  PROVE  BoltInv'
<1>0. BoltTypes /\ NoHole /\ Walk
  BY Zenon DEF BoltInv
<1>1. /\ backup' = backup /\ cut' = cut /\ owner = "none" /\ owner' = "del" /\ db' = db
      /\ view' = view /\ cursor' = cursor /\ walked' = walked /\ sought' = sought
      /\ db # [k \in {} |-> 0] /\ r <= LastRoundOf(db) /\ delFrom' = r /\ delTo' = LastRoundOf(db)
  BY Zenon DEF DelCommand
<1>2. "del" # "none" /\ "daemon" # "del" /\ "del" \in {"daemon", "none", "del"} /\ r \in Nat
  BY BoltAssumption
<1>3. Rows(db)
  BY <1>0, Zenon DEF BoltTypes
<1>4. DOMAIN db # {}
  BY <1>1, <1>3, EmptyOrNot, Zenon
<1>7. BoltTypes'
  BY <1>0, <1>1, <1>2, NextTypes, Zenon DEF BoltTypes
<1>8. NoHole'
  <2>1. ASSUME NEW n \in Nat, DbRounds(db) = 0 .. n - 1
        PROVE  /\ LastRoundOf(db) \in Nat /\ r \in 0 .. r
               /\ DbRounds(db) = (0 .. r - 1) \cup (r .. LastRoundOf(db))
    <3>1. LastRoundOf(db) \in DbRounds(db)
      BY <1>3, <1>4, LastKeyIs, Zenon
    <3>2. n - 1 \in Nat /\ DbRounds(db) = 0 .. n - 1
      BY <2>1, <3>1
    <3>3. LastRoundOf(db) = n - 1
      BY <1>3, <3>2, LastOfChain, Zenon
    <3>4. r <= n - 1
      BY <1>1, <3>3, Zenon
    <3>5. 0 .. n - 1 = (0 .. r - 1) \cup (r .. n - 1) /\ r \in 0 .. r
      BY <1>2, <3>2, <3>4
    <3> QED
      BY <2>1, <3>2, <3>3, <3>5
  <2>2. ~cut => \E n \in Nat : DbRounds(db) = 0 .. n - 1
    BY <1>0, <1>1, Zenon DEF NoHole
  <2>3. ~cut => \E n \in Nat : DbRounds(backup) = 0 .. n
    BY <1>0, <1>1, Zenon DEF NoHole
  <2>4. ~cut => /\ delFrom' \in Nat /\ delTo' \in Nat /\ delFrom' <= delTo'
                /\ \E f \in 0 .. delFrom' : DbRounds(db) = (0 .. f - 1) \cup (delFrom' .. delTo')
    BY <1>1, <1>2, <2>1, <2>2, Zenon
  <2> QED
    BY <1>1, <1>2, <2>3, <2>4, NextNoHole, Zenon DEF NoHole
<1>9. Walk'
  BY <1>0, <1>1, ReadUndisturbed, Zenon
<1> QED
  BY <1>7, <1>8, <1>9, Zenon DEF BoltInv

\* del-beacon is interrupted.
LEMMA DelInterruptedKeeps ==
  ASSUME BoltInv, DelInterrupted
  PROVE  BoltInv'
<1>0. BoltTypes /\ NoHole /\ Walk
  BY Zenon DEF BoltInv
<1>1. /\ backup' = backup /\ cut' = TRUE /\ owner' = "none" /\ db' = db
      /\ view' = view /\ cursor' = cursor /\ walked' = walked /\ sought' = sought
  BY Zenon DEF DelInterrupted
<1>2. "daemon" # "none" /\ "none" \in {"daemon", "none", "del"}
  OBVIOUS
<1>7. BoltTypes'
  BY <1>0, <1>1, <1>2, NextTypes, Zenon DEF BoltTypes
<1>8. NoHole'
  BY <1>1, NextNoHole, Zenon
<1>9. Walk'
  BY <1>0, <1>1, ReadUndisturbed, Zenon
<1> QED
  BY <1>7, <1>8, <1>9, Zenon DEF BoltInv

\* del-beacon deletes one round, or is done.
LEMMA DelBeaconKeeps ==
  ASSUME BoltInv, DelBeacon
  PROVE  BoltInv'
<1>0. BoltTypes /\ NoHole /\ Walk
  BY Zenon DEF BoltInv
<1>1. /\ backup' = backup /\ cut' = cut /\ owner = "del" /\ db' = Lacking(db, delFrom)
      /\ view' = view /\ cursor' = cursor /\ walked' = walked /\ sought' = sought
      /\ \/ delFrom = delTo /\ owner' = "none"
         \/ delFrom # delTo /\ owner' = "del" /\ delFrom' = delFrom + 1 /\ delTo' = delTo
  BY Zenon DEF DelBeacon, Lacking
<1>2. /\ "daemon" # "none" /\ "daemon" # "del" /\ "none" # "del"
      /\ "none" \in {"daemon", "none", "del"} /\ "del" \in {"daemon", "none", "del"}
  OBVIOUS
<1>3. Rows(db) /\ Rows(db')
  <2>1. Rows(db)
    BY <1>0, Zenon DEF BoltTypes
  <2>2. DOMAIN Lacking(db, delFrom) \subseteq DOMAIN db /\ \A k \in DOMAIN Lacking(db, delFrom) : Lacking(db, delFrom)[k] = db[k]
    BY Zenon DEF Lacking
  <2>3. Lacking(db, delFrom) = [k \in DOMAIN Lacking(db, delFrom) |-> Lacking(db, delFrom)[k]]
    BY DEF Lacking
  <2>4. Rows(Lacking(db, delFrom))
    BY <2>1, <2>2, <2>3, Zenon DEF Rows
  <2> QED
    BY <1>1, <2>1, <2>4, Zenon
<1>7. BoltTypes'
  BY <1>0, <1>1, <1>2, <1>3, NextTypes, Zenon DEF BoltTypes
<1>8. NoHole'
  <2> SUFFICES ASSUME ~cut, delFrom \in Nat, delTo \in Nat, delFrom <= delTo,
                      NEW f \in 0 .. delFrom, DbRounds(db) = (0 .. f - 1) \cup (delFrom .. delTo),
                      NEW n \in Nat, DbRounds(backup) = 0 .. n
               PROVE  NoHole'
    BY <1>0, <1>1, NextNoHole, Zenon DEF NoHole
  <2>1. DbRounds(db') = ((0 .. f - 1) \cup (delFrom .. delTo)) \ {delFrom}
    BY <1>1, <1>3, DropRow, Zenon
  <2>2. CASE delFrom = delTo /\ owner' = "none"
    <3>1. f \in Nat /\ ((0 .. f - 1) \cup (delFrom .. delTo)) \ {delFrom} = 0 .. f - 1
      BY <2>2
    <3> QED
      BY <1>1, <1>2, <2>1, <2>2, <3>1, NextNoHole, Zenon
  <2>3. CASE delFrom # delTo /\ owner' = "del" /\ delFrom' = delFrom + 1 /\ delTo' = delTo
    <3>1. ((0 .. f - 1) \cup (delFrom .. delTo)) \ {delFrom} = (0 .. f - 1) \cup (delFrom + 1 .. delTo)
      BY <2>3
    <3>2. delFrom + 1 \in Nat /\ delFrom + 1 <= delTo /\ f \in 0 .. delFrom + 1
      BY <2>3
    <3>3. /\ delFrom' \in Nat /\ delTo' \in Nat /\ delFrom' <= delTo' /\ f \in 0 .. delFrom'
          /\ DbRounds(db') = (0 .. f - 1) \cup (delFrom' .. delTo')
      BY <2>1, <2>3, <3>1, <3>2, Zenon
    <3> QED
      BY <1>1, <1>2, <2>3, <3>3, NextNoHole, Zenon
  <2> QED
    BY <1>1, <2>2, <2>3, Zenon
<1>9. Walk'
  BY <1>0, <1>1, ReadUndisturbed, Zenon
<1> QED
  BY <1>7, <1>8, <1>9, Zenon DEF BoltInv

\* A walk with one more round.
LEMMA OneMore ==
  ASSUME NEW w \in Seq(Nat), NEW x \in Nat, w # <<>> => w[Len(w)] < x,
         \A i \in 1 .. Len(w) - 1 : w[i] < w[i + 1]
  PROVE  /\ Append(w, x) \in Seq(Nat) /\ Append(w, x) # <<>> /\ Append(w, x)[Len(Append(w, x))] = x
         /\ \A i \in 1 .. Len(Append(w, x)) - 1 : Append(w, x)[i] < Append(w, x)[i + 1]
         /\ {Append(w, x)[i] : i \in 1 .. Len(Append(w, x))} = {w[i] : i \in 1 .. Len(w)} \cup {x}
<1> DEFINE v == Append(w, x)
<1>1. v \in Seq(Nat) /\ Len(w) \in Nat /\ Len(v) = Len(w) + 1 /\ v[Len(w) + 1] = x
  OBVIOUS
<1>2. \A i \in 1 .. Len(w) : v[i] = w[i]
  OBVIOUS
<1>3. v # <<>>
  OBVIOUS
<1> HIDE DEF v
<1>4. ASSUME NEW i \in 1 .. Len(v) - 1 PROVE v[i] < v[i + 1]
  <2>1. CASE i = Len(w)
    <3>1. i \in 1 .. Len(w) /\ Len(w) # 0
      BY <1>1, <1>4, <2>1
    <3>2. w # <<>>
      BY <3>1
    <3> QED
      BY <1>1, <1>2, <2>1, <3>1, <3>2, Zenon
  <2>2. CASE i # Len(w)
    <3>1. i \in 1 .. Len(w) - 1 /\ i \in 1 .. Len(w) /\ i + 1 \in 1 .. Len(w)
      BY <1>1, <1>4, <2>2
    <3>2. w[i] < w[i + 1] /\ v[i] = w[i] /\ v[i + 1] = w[i + 1]
      BY <1>2, <3>1, Zenon
    <3> QED
      BY <3>2, Zenon
  <2> QED
    BY <2>1, <2>2, Zenon
<1>5. 1 .. Len(v) = 1 .. Len(w) \cup {Len(w) + 1}
  BY <1>1
<1>6. {v[i] : i \in 1 .. Len(v)} = {w[i] : i \in 1 .. Len(w)} \cup {x}
  <2>1. \A y : y \in {v[i] : i \in 1 .. Len(v)} <=> (\E i \in 1 .. Len(w) : y = v[i]) \/ y = v[Len(w) + 1]
    BY <1>5, Zenon
  <2>2. \A y : y \in {v[i] : i \in 1 .. Len(v)} <=> (\E i \in 1 .. Len(w) : y = w[i]) \/ y = x
    BY <1>1, <1>2, <2>1, Zenon
  <2> QED
    BY <2>2, Zenon
<1> QED
  BY <1>1, <1>3, <1>4, <1>6, Zenon DEF v

\* A reading transaction begins and seeks.
LEMMA OpenCursorKeeps ==
  ASSUME BoltInv, NEW r \in 0 .. MaxDbRound, OpenCursor(r)
  PROVE  BoltInv'
<1>0. BoltTypes /\ NoHole /\ Walk
  BY Zenon DEF BoltInv
<1>1. /\ db' = db /\ owner' = owner /\ backup' = backup /\ cut' = cut
      /\ delFrom' = delFrom /\ delTo' = delTo
  BY Zenon DEF OpenCursor
<1>2. /\ view' = db /\ sought' = r /\ cursor' = SeekKey(db, r)
      /\ walked' = IF cursor' = NoEntry THEN <<>> ELSE <<db[cursor']>>
  BY Zenon DEF OpenCursor
<1>3. Rows(db) /\ r \in Nat
  <2>1. r \in Nat
    BY BoltAssumption
  <2> QED
    BY <1>0, <2>1, Zenon DEF BoltTypes
<1>k. PICK K : K = {k \in DOMAIN db : ~Before(k, RoundToBytes(r))}
  BY Zenon
<1>4. K \in SUBSET DOMAIN db /\ \A k \in DOMAIN db : k \in K <=> db[k] >= r
  <2>1. \A k \in DOMAIN db : Before(k, RoundToBytes(r)) <=> db[k] < r
    <3> SUFFICES ASSUME NEW k \in DOMAIN db PROVE Before(k, RoundToBytes(r)) <=> db[k] < r
      OBVIOUS
    <3>1. db[k] \in Nat /\ k = RoundToBytes(db[k])
      BY <1>3, RowsInOrder, Zenon DEF Rows
    <3>2. Before(RoundToBytes(db[k]), RoundToBytes(r)) <=> db[k] < r
      BY <1>3, <3>1, TwoBytes, Zenon
    <3> QED
      BY <3>1, <3>2, Zenon
  <2>2. \A k \in DOMAIN db : ~(db[k] < r) <=> db[k] >= r
    <3>1. \A k \in DOMAIN db : db[k] \in Nat
      BY <1>3, RowsInOrder, Zenon
    <3> QED
      BY <1>3, <3>1
  <2> QED
    BY <1>k, <2>1, <2>2, Zenon
<1>5. cursor' = FirstKey(K)
  BY <1>2, <1>k, Zenon DEF SeekKey
<1>7. BoltTypes'
  BY <1>0, <1>1, <1>2, <1>3, NextTypes, Zenon DEF BoltTypes
<1>8. NoHole'
  BY <1>0, <1>1, NextNoHole, Zenon DEF NoHole
<1>9. Walk'
  <2>1. CASE K = {}
    <3>1. cursor' = NoEntry /\ walked' = <<>>
      BY <1>2, <1>5, <2>1, Zenon DEF FirstKey
    <3>2. /\ walked' \in Seq(Nat) /\ 1 .. Len(walked') = {} /\ 1 .. Len(walked') - 1 = {}
      BY <3>1
    <3>3. \A x \in DbRounds(db) : ~(x >= r)
      BY <1>4, <2>1, Zenon DEF DbRounds
    <3>4. {walked'[i] : i \in 1 .. Len(walked')} = {} /\ {x \in DbRounds(db) : x >= r} = {}
      BY <3>2, <3>3, Zenon
    <3>5. {walked'[i] : i \in 1 .. Len(walked')} = {x \in DbRounds(view') : x >= sought'}
      BY <1>2, <3>4, Zenon
    <3>6. \A i \in 1 .. Len(walked') - 1 : walked'[i] < walked'[i + 1]
      BY <3>2, Zenon
    <3> QED
      BY <3>1, <3>2, <3>5, <3>6, NextWalk, Zenon
  <2>2. CASE K # {}
    <3>c. PICK c : c = cursor'
      BY Zenon
    <3>1. c \in K /\ \A l \in K : db[c] <= db[l]
      BY <1>3, <1>4, <1>5, <2>2, <3>c, FirstKeyIs, Zenon
    <3>2. c \in DOMAIN db /\ c # NoEntry /\ db[c] \in Nat /\ db[c] >= r
      BY <1>3, <1>4, <3>1, RowsInOrder, Zenon
    <3>3. walked' = <<db[c]>>
      BY <1>2, <3>2, <3>c, Zenon
    <3>4. /\ walked' \in Seq(Nat) /\ walked' # <<>> /\ walked'[Len(walked')] = db[c]
          /\ 1 .. Len(walked') = {1} /\ 1 .. Len(walked') - 1 = {} /\ walked'[1] = db[c]
      BY <3>2, <3>3
    <3>5. {walked'[i] : i \in 1 .. Len(walked')} = {db[c]}
      BY <3>4, Zenon
    <3>6. {x \in DbRounds(db) : x >= r /\ x <= db[c]} = {db[c]}
      <4>1. \A l \in DOMAIN db : db[l] >= r /\ db[l] <= db[c] => db[l] = db[c]
        <5> SUFFICES ASSUME NEW l \in DOMAIN db, db[l] >= r, db[l] <= db[c] PROVE db[l] = db[c]
          OBVIOUS
        <5>1. db[c] <= db[l] /\ db[l] \in Nat
          BY <1>3, <1>4, <3>1, RowsInOrder, Zenon
        <5> QED
          BY <3>2, <5>1
      <4>2. db[c] <= db[c]
        BY <3>2
      <4> QED
        BY <3>2, <4>1, <4>2, Zenon DEF DbRounds
    <3>7. {walked'[i] : i \in 1 .. Len(walked')} = {x \in DbRounds(view') : x >= sought' /\ x <= view'[cursor']}
      BY <1>2, <3>c, <3>5, <3>6, Zenon
    <3>8. \A i \in 1 .. Len(walked') - 1 : walked'[i] < walked'[i + 1]
      BY <3>4, Zenon
    <3>9. cursor' # NoEntry /\ cursor' \in DOMAIN view' /\ walked'[Len(walked')] = view'[cursor']
      BY <1>2, <3>2, <3>4, <3>c, Zenon
    <3> QED
      BY <3>4, <3>7, <3>8, <3>9, NextWalk, Zenon
  <2> QED
    BY <2>1, <2>2, Zenon
<1> QED
  BY <1>7, <1>8, <1>9, Zenon DEF BoltInv

\* The cursor moves on.
LEMMA NextBeaconKeeps ==
  ASSUME BoltInv, NextBeacon
  PROVE  BoltInv'
<1>0. BoltTypes /\ NoHole /\ Walk
  BY Zenon DEF BoltInv
<1>1. /\ db' = db /\ owner' = owner /\ backup' = backup /\ cut' = cut
      /\ delFrom' = delFrom /\ delTo' = delTo /\ view' = view /\ sought' = sought
  BY Zenon DEF NextBeacon
<1>2. /\ ~NoRead /\ cursor # NoEntry /\ cursor' = NextKey(view, cursor)
      /\ walked' = IF cursor' = NoEntry THEN walked ELSE Append(walked, view[cursor'])
  BY Zenon DEF NextBeacon
<1>3. Rows(view) /\ sought \in Nat
  BY <1>0, Zenon DEF BoltTypes
<1>w. /\ walked \in Seq(Nat) /\ \A i \in 1 .. Len(walked) - 1 : walked[i] < walked[i + 1]
      /\ cursor \in DOMAIN view /\ walked # <<>> /\ walked[Len(walked)] = view[cursor]
      /\ Returned = {r \in DbRounds(view) : r >= sought /\ r <= view[cursor]}
  BY <1>0, <1>2, Zenon DEF Walk
<1>k. PICK K : K = {l \in DOMAIN view : Before(cursor, l)}
  BY Zenon
<1>4. K \in SUBSET DOMAIN view /\ \A l \in DOMAIN view : l \in K <=> view[cursor] < view[l]
  BY <1>3, <1>k, <1>w, RowsInOrder, Zenon
<1>5. cursor' = FirstKey(K)
  BY <1>2, <1>k, Zenon DEF NextKey
<1>6. /\ \A l \in DOMAIN view : view[l] \in Nat
      /\ sought <= view[cursor]
  <2>1. \A l \in DOMAIN view : view[l] \in Nat
    BY <1>3, RowsInOrder, Zenon
  <2>2. Len(walked) \in 1 .. Len(walked)
    BY <1>w
  <2>3. view[cursor] \in Returned
    BY <1>w, <2>2, Zenon DEF Returned
  <2>4. view[cursor] >= sought
    BY <1>w, <2>3, Zenon
  <2> QED
    BY <1>3, <1>w, <2>1, <2>4
<1>7. BoltTypes'
  BY <1>0, <1>1, NextTypes, Zenon DEF BoltTypes
<1>8. NoHole'
  BY <1>0, <1>1, NextNoHole, Zenon DEF NoHole
<1>9. Walk'
  <2>1. CASE K = {}
    <3>1. cursor' = NoEntry /\ walked' = walked
      BY <1>2, <1>5, <2>1, Zenon DEF FirstKey
    <3>2. \A l \in DOMAIN view : view[l] <= view[cursor]
      <4> SUFFICES ASSUME NEW l \in DOMAIN view PROVE view[l] <= view[cursor]
        OBVIOUS
      <4>1. ~(view[cursor] < view[l]) /\ view[l] \in Nat /\ view[cursor] \in Nat
        BY <1>4, <1>6, <1>w, <2>1, Zenon
      <4> QED
        BY <4>1
    <3>3. Returned = {r \in DbRounds(view) : r >= sought}
      BY <1>w, <3>2, Zenon DEF DbRounds
    <3>4. {walked'[i] : i \in 1 .. Len(walked')} = {r \in DbRounds(view') : r >= sought'}
      BY <1>1, <3>1, <3>3, Zenon DEF Returned
    <3> QED
      BY <1>w, <3>1, <3>4, NextWalk, Zenon
  <2>2. CASE K # {}
    <3>c. PICK c : c = cursor'
      BY Zenon
    <3>1. c \in K /\ \A l \in K : view[c] <= view[l]
      BY <1>3, <1>4, <1>5, <2>2, <3>c, FirstKeyIs, Zenon
    <3>2. c \in DOMAIN view /\ c # NoEntry /\ view[c] \in Nat /\ view[cursor] < view[c]
      BY <1>3, <1>4, <3>1, RowsInOrder, Zenon
    <3>3. walked' = Append(walked, view[c])
      BY <1>2, <3>2, <3>c, Zenon
    <3>4. walked # <<>> => walked[Len(walked)] < view[c]
      BY <1>w, <3>2, Zenon
    <3>5. /\ walked' \in Seq(Nat) /\ walked' # <<>> /\ walked'[Len(walked')] = view[c]
          /\ \A i \in 1 .. Len(walked') - 1 : walked'[i] < walked'[i + 1]
          /\ {walked'[i] : i \in 1 .. Len(walked')} = {walked[i] : i \in 1 .. Len(walked)} \cup {view[c]}
      <4>1. view[c] \in Nat /\ walked \in Seq(Nat) /\ \A i \in 1 .. Len(walked) - 1 : walked[i] < walked[i + 1]
        BY <1>w, <3>2, Zenon
      <4>v. PICK x : x = view[c]
        BY Zenon
      <4>2. /\ x \in Nat /\ walked \in Seq(Nat) /\ \A i \in 1 .. Len(walked) - 1 : walked[i] < walked[i + 1]
            /\ walked # <<>> => walked[Len(walked)] < x
        BY <3>4, <4>1, <4>v, Zenon
      <4>3. walked' = Append(walked, x)
        BY <3>3, <4>v, Zenon
      <4>4. /\ Append(walked, x) \in Seq(Nat) /\ Append(walked, x) # <<>> /\ Append(walked, x)[Len(Append(walked, x))] = x
            /\ \A i \in 1 .. Len(Append(walked, x)) - 1 : Append(walked, x)[i] < Append(walked, x)[i + 1]
            /\ {Append(walked, x)[i] : i \in 1 .. Len(Append(walked, x))} = {walked[i] : i \in 1 .. Len(walked)} \cup {x}
        BY <4>2, OneMore, Zenon
      <4> QED
        BY <4>v, <4>3, <4>4, Zenon
    <3>6. {r \in DbRounds(view) : r >= sought /\ r <= view[c]} = Returned \cup {view[c]}
      <4>1. ASSUME NEW l \in DOMAIN view
            PROVE  view[l] >= sought /\ view[l] <= view[c]
                     <=> (view[l] >= sought /\ view[l] <= view[cursor]) \/ view[l] = view[c]
        <5>1. view[l] \in Nat /\ view[cursor] \in Nat /\ view[c] \in Nat /\ sought \in Nat
          BY <1>3, <1>6, <1>w, <3>2, Zenon
        <5>2. view[cursor] < view[l] => view[c] <= view[l]
          BY <1>4, <3>1, Zenon
        <5>3. sought <= view[cursor] /\ view[cursor] < view[c]
          BY <1>6, <3>2, Zenon
        <5> QED
          BY <5>1, <5>2, <5>3
      <4>2. \A x : x \in DbRounds(view) <=> \E l \in DOMAIN view : x = view[l]
        BY Zenon DEF DbRounds
      <4>3. \A x \in DbRounds(view) : x >= sought /\ x <= view[c]
                     <=> (x >= sought /\ x <= view[cursor]) \/ x = view[c]
        <5> SUFFICES ASSUME NEW x \in DbRounds(view)
                     PROVE  x >= sought /\ x <= view[c]
                              <=> (x >= sought /\ x <= view[cursor]) \/ x = view[c]
          BY Zenon
        <5>1. PICK l \in DOMAIN view : x = view[l]
          BY <4>2, Zenon
        <5>2. view[l] >= sought /\ view[l] <= view[c]
                <=> (view[l] >= sought /\ view[l] <= view[cursor]) \/ view[l] = view[c]
          BY <4>1, Zenon
        <5> QED
          BY <5>1, <5>2, Zenon
      <4>4. view[c] \in DbRounds(view)
        BY <3>2, <4>2, Zenon
      <4>5. \A x : x \in Returned <=> x \in DbRounds(view) /\ x >= sought /\ x <= view[cursor]
        BY <1>w, Zenon
      <4>6. \A x : x \in DbRounds(view) /\ x >= sought /\ x <= view[c] <=> x \in Returned \/ x = view[c]
        BY <4>3, <4>4, <4>5, Zenon
      <4> QED
        BY <4>6, Zenon
    <3>7. {walked'[i] : i \in 1 .. Len(walked')} = {x \in DbRounds(view') : x >= sought' /\ x <= view'[cursor']}
      <4>1. {walked'[i] : i \in 1 .. Len(walked')} = Returned \cup {view[c]}
        BY <3>5, Zenon DEF Returned
      <4> QED
        BY <1>1, <3>c, <3>6, <4>1, Zenon
    <3>8. cursor' # NoEntry /\ cursor' \in DOMAIN view' /\ walked'[Len(walked')] = view'[cursor']
      BY <1>1, <3>2, <3>5, <3>c, Zenon
    <3> QED
      BY <3>5, <3>7, <3>8, NextWalk, Zenon
  <2> QED
    BY <2>1, <2>2, Zenon
<1> QED
  BY <1>7, <1>8, <1>9, Zenon DEF BoltInv

\* The reading transaction ends.
LEMMA CloseCursorKeeps ==
  ASSUME BoltInv, CloseCursor
  PROVE  BoltInv'
<1>0. BoltTypes /\ NoHole /\ Walk
  BY Zenon DEF BoltInv
<1> DEFINE none == [k \in {} |-> 0]
<1>1. /\ db' = db /\ owner' = owner /\ backup' = backup /\ cut' = cut
      /\ delFrom' = delFrom /\ delTo' = delTo /\ view' = none /\ sought' = 0
  BY Zenon DEF CloseCursor
<1>2. Rows(none) /\ 0 \in Nat
  <2>1. DOMAIN none = {} /\ none = [k \in DOMAIN none |-> none[k]]
    OBVIOUS
  <2> QED
    BY <2>1 DEF Rows
<1>7. BoltTypes'
  BY <1>0, <1>1, <1>2, NextTypes, Zenon DEF BoltTypes
<1>8. NoHole'
  BY <1>0, <1>1, NextNoHole, Zenon DEF NoHole
<1>9. Walk'
  BY <1>1, NextWalk, Zenon DEF NoRead
<1> QED
  BY <1>7, <1>8, <1>9, Zenon DEF BoltInv

\* Every step keeps the invariant.
LEMMA BoltStep == BoltInv /\ [BoltNext]_boltVars => BoltInv'
<1> SUFFICES ASSUME BoltInv, [BoltNext]_boltVars PROVE BoltInv'
  OBVIOUS
<1>1. CASE UNCHANGED boltVars
  <2>0. BoltTypes /\ NoHole /\ Walk
    BY Zenon DEF BoltInv
  <2>1. /\ db' = db /\ owner' = owner /\ backup' = backup /\ cut' = cut
        /\ delFrom' = delFrom /\ delTo' = delTo
        /\ view' = view /\ cursor' = cursor /\ walked' = walked /\ sought' = sought
    BY <1>1, Zenon DEF boltVars
  <2>2. BoltTypes'
    BY <2>0, <2>1, NextTypes, Zenon DEF BoltTypes
  <2>3. NoHole'
    BY <2>0, <2>1, NextNoHole, Zenon DEF NoHole
  <2>4. Walk'
    BY <2>0, <2>1, ReadUndisturbed, Zenon
  <2> QED
    BY <2>2, <2>3, <2>4, Zenon DEF BoltInv
<1>2. CASE BoltNext
  BY <1>2, PutBeaconKeeps, NextBeaconKeeps, CloseCursorKeeps, SaveToKeeps, CloseDBKeeps, NewBoltStoreKeeps,
     OpenCursorKeeps, DelCommandKeeps, DelBeaconKeeps, DelInterruptedKeeps, Zenon DEF BoltNext
<1> QED
  BY <1>1, <1>2, Zenon

\* The database the daemon works on, and every backup of it, holds exactly the rounds from
\* the genesis to the one that Last returns, for any number of rounds and any interleaving of
\* Put, Del, SaveTo, Close and readers, unless a del-beacon was interrupted; and the byte
\* order of the keys is always the order of the rounds.
THEOREM DatabaseHoldsChain == BoltSpec => []DatabaseIsChain
<1>1. BoltInv => DatabaseIsChain
  <2> SUFFICES ASSUME BoltInv PROVE DatabaseIsChain
    OBVIOUS
  <2>1. BoltTypes /\ NoHole /\ Rows(db) /\ Rows(backup)
    BY Zenon DEF BoltInv, BoltTypes
  <2>2. LastIsHighest
    <3> SUFFICES ASSUME DOMAIN db # {}
                 PROVE  /\ LastRoundOf(db) \in DbRounds(db) /\ \A r \in DbRounds(db) : r <= LastRoundOf(db)
                        /\ \A k \in DOMAIN db : k = RoundToBytes(db[k])
      BY Zenon DEF LastIsHighest
    <3>1. LastRoundOf(db) \in DbRounds(db) /\ \A r \in DbRounds(db) : r <= LastRoundOf(db)
      BY <2>1, LastKeyIs, Zenon
    <3> QED
      BY <2>1, <3>1, Zenon DEF Rows
  <2>3. \A d : Rows(d) /\ (\E n \in Nat : DbRounds(d) = 0 .. n) => DbRounds(d) = 0 .. LastRoundOf(d)
    BY LastOfChain, Zenon
  <2>4. ChainWithoutHole
    BY <2>1, <2>3, Zenon DEF ChainWithoutHole, NoHole
  <2> QED
    BY <2>2, <2>4, Zenon DEF DatabaseIsChain
<1> QED
  BY BoltInitInv, BoltStep, <1>1, PTL DEF BoltSpec

\* A cursor (Cursor, Seek and Next of boltCursor) returns the rounds of its transaction's
\* snapshot from the sought one on, all of them, in order and once each, whatever is put,
\* saved or deleted meanwhile.
THEOREM CursorsReturnTail == BoltSpec => []CursorReturnsTail
<1>1. BoltInv => CursorReturnsTail
  BY Zenon DEF BoltInv, Walk, Returned, CursorReturnsTail
<1> QED
  BY BoltInitInv, BoltStep, <1>1, PTL DEF BoltSpec
===============================================================================
