------------------------------ MODULE KeyFiles ------------------------------
(***************************************************************************)
(* The long-term key pair on disk (key/store.go): `drand generate-keypair`  *)
(* and `drand util self-sign` write the private and then the public file,  *)
(* each by truncating and then encoding it; a crash may come in between.   *)
(* The daemon loads the two files and does not compare them.               *)
(***************************************************************************)
EXTENDS Integers

CONSTANTS MaxKeys,    \* bound: key pairs generated
          MaxKeyCrash \* bound: crashes

VARIABLES
    privF,     \* private file: a key number, NoKey or TornKey
    pubF,      \* public file: the same
    signed,    \* number of the key that keysMade the signature in the public file
    writer,    \* the command that writes: "none", "keygen" or "sign"
    step,      \* how far SaveKeyPair is: 0 .. 4
    pair,      \* [priv, pub, sig]: the pair being saved
    keysMade,      \* number of key pairs generated
    keyCrash,  \* number of crashes
    loaded     \* <<pair the daemon runs with>> or <<>>

keyVars == <<privF, pubF, signed, writer, step, pair, keysMade, keyCrash, loaded>>

NoKey == 0
TornKey == -1

KeyInit ==
    /\ privF = NoKey /\ pubF = NoKey /\ signed = NoKey
    /\ writer = "none" /\ step = 0 /\ pair = [priv |-> 0, pub |-> 0, sig |-> 0]
    /\ keysMade = 0 /\ keyCrash = 0 /\ loaded = <<>>

\* LoadKeyPair: both files decode.
KeyLoads == privF > 0 /\ pubF > 0

OnDisk == [priv |-> privF, pub |-> pubF, sig |-> signed]

Saving(w, p) == writer' = w /\ step' = 1 /\ pair' = p

\* Mutant: keygenCmd does not look for a pair.
KeygenOverwrites(signs) ==
    /\ writer = "none" /\ keysMade < MaxKeys
    /\ keysMade' = keysMade + 1
    /\ Saving("keygen", [priv |-> keysMade', pub |-> keysMade',
                        sig |-> IF signs THEN keysMade' ELSE NoKey])
    /\ UNCHANGED <<privF, pubF, signed, keyCrash, loaded>>

\* NewKeyPair and NewTLSKeyPair sign the new identity; keygenCmd saves it
\* unless a pair can be loaded.  An older release did not sign.
Keygen(signs) ==
    /\ writer = "none" /\ keysMade < MaxKeys
    /\ keysMade' = keysMade + 1
    /\ IF KeyLoads THEN UNCHANGED <<writer, step, pair>>
       ELSE Saving("keygen", [priv |-> keysMade', pub |-> keysMade',
                              sig |-> IF signs THEN keysMade' ELSE NoKey])
    /\ UNCHANGED <<privF, pubF, signed, keyCrash, loaded>>

\* selfSign: nothing to do when the signature verifies under the public key.
SelfSign ==
    /\ writer = "none" /\ KeyLoads /\ signed # pubF
    /\ Saving("sign", [OnDisk EXCEPT !.sig = privF])
    /\ UNCHANGED <<privF, pubF, signed, keysMade, keyCrash, loaded>>

\* SaveKeyPair: truncate and write the private file, then the public one.
SaveKeyPair ==
    /\ step \in 1 .. 4
    /\ step' = (step + 1) % 5
    /\ writer' = IF step = 4 THEN "none" ELSE writer
    /\ privF' = CASE step = 1 -> TornKey [] step = 2 -> pair.priv [] OTHER -> privF
    /\ pubF' = CASE step = 3 -> TornKey [] step = 4 -> pair.pub [] OTHER -> pubF
    /\ signed' = IF step = 4 THEN pair.sig ELSE signed
    /\ UNCHANGED <<pair, keysMade, keyCrash, loaded>>

KeyCrash ==
    /\ writer # "none" /\ keyCrash < MaxKeyCrash
    /\ keyCrash' = keyCrash + 1 /\ writer' = "none" /\ step' = 0
    /\ UNCHANGED <<privF, pubF, signed, pair, keysMade, loaded>>

\* initDrand: an invalid self-signature is logged, and the daemon goes on.  The
\* operator starts it when no command is writing the files.
LoadPair ==
    /\ loaded = <<>> /\ KeyLoads /\ writer = "none"
    /\ loaded' = <<OnDisk>>
    /\ UNCHANGED <<privF, pubF, signed, writer, step, pair, keysMade, keyCrash>>

\* The daemon stops.
UnloadPair ==
    /\ loaded # <<>> /\ loaded' = <<>>
    /\ UNCHANGED <<privF, pubF, signed, writer, step, pair, keysMade, keyCrash>>

KeyNext ==
    \/ \E signs \in BOOLEAN : Keygen(signs)
    \/ SelfSign \/ SaveKeyPair \/ KeyCrash \/ LoadPair \/ UnloadPair

KeySpec == KeyInit /\ [][KeyNext]_keyVars

\* However the commands and one crash interleave, the daemon never runs with a
\* private key and the public key of another pair: SaveKeyPair leaves a file
\* that does not load whenever the two differ.  (It takes two crashes, one in
\* self-sign and one in the generate-keypair after it, to mix two pairs.)
PairBelongsTogether ==
    \A i \in DOMAIN loaded :
        keyCrash < 2 => loaded[i].priv = loaded[i].pub

\* No command replaces a pair that loads by another one: a key in use is only
\* ever lost to a crash inside self-sign, never to a second generate-keypair.
KeyIsKept ==
    [][KeyLoads /\ keyCrash = 0 => pair'.priv = privF \/ writer' = "none"]_keyVars
=============================================================================
