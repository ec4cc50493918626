------------------------------ MODULE BoltStore ------------------------------
(***************************************************************************)
(* The beacon database (chain/boltdb/store.go): beacons under their round  *)
(* in big-endian bytes, so that the byte order of the keys that bolt keeps *)
(* is to be the order of the rounds.  Readers work on the snapshot of      *)
(* their transaction while the daemon adds rounds; the del-beacon command  *)
(* opens the database when the daemon does not have it and removes the     *)
(* tail of the chain, one transaction per round.                           *)
(***************************************************************************)
EXTENDS Integers, Sequences, FiniteSets

CONSTANTS ByteBase,  \* values of a byte (256 in the code)
          MaxDbRound \* bound: rounds

ASSUME BoltAssumption == ByteBase \in Nat \ {0} /\ MaxDbRound \in 0 .. ByteBase * ByteBase - 1

VARIABLES
    db,       \* the entries: a function from keys to the round in the value
    owner,    \* who has the database open: "daemon", "del" or "none"
    view,     \* snapshot of the reading transaction
    cursor,   \* its position: a key, or NoEntry
    walked,   \* rounds the cursor returned so far
    sought,   \* the round it looked for
    backup,   \* the entries of the last backup, as it is written
    delFrom,  \* del-beacon: the next round to delete
    delTo,    \* del-beacon: the last round when it started
    cut       \* history: a del-beacon was interrupted

boltVars == <<db, owner, view, cursor, walked, sought, backup, delFrom, delTo, cut>>

\* Mutant: little-endian bytes.
RoundToBytesLittle(r) == <<r % ByteBase, r \div ByteBase>>

\* RoundToBytes; two bytes are enough for the bound.
RoundToBytes(r) == <<r \div ByteBase, r % ByteBase>>

\* bytes.Compare
Before(k, l) == k[1] < l[1] \/ (k[1] = l[1] /\ k[2] < l[2])

NoEntry == <<>>
FirstKey(keys) == IF keys = {} THEN NoEntry
                  ELSE CHOOSE k \in keys : \A l \in keys \ {k} : Before(k, l)
LastKey(keys) == IF keys = {} THEN NoEntry
                 ELSE CHOOSE k \in keys : \A l \in keys \ {k} : Before(l, k)

\* Mutant: Seek goes past the key.
SeekKeyAfter(d, r) == FirstKey({k \in DOMAIN d : Before(RoundToBytes(r), k)})

\* Seek stops at the key or at the next one; Next goes on from there.
SeekKey(d, r) == FirstKey({k \in DOMAIN d : ~Before(k, RoundToBytes(r))})
NextKey(d, k) == FirstKey({l \in DOMAIN d : Before(k, l)})

DbRounds(d) == {d[k] : k \in DOMAIN d}
LastRoundOf(d) == d[LastKey(DOMAIN d)]
NoRead == view = [k \in {} |-> 0]

\* The genesis beacon is always there: newBeacon and StartFollowChain put it
\* before anything else (GenesisBeacon).
Genesis == [k \in {RoundToBytes(0)} |-> 0]

BoltInit ==
    /\ db = Genesis /\ owner = "daemon"
    /\ view = [k \in {} |-> 0] /\ cursor = NoEntry /\ walked = <<>> /\ sought = 0
    /\ backup = Genesis /\ delFrom = 0 /\ delTo = 0 /\ cut = FALSE

\* The append store in front of the database lets only the next round pass.
PutBeacon ==
    /\ owner = "daemon"
    /\ LET r == LastRoundOf(db) + 1
       IN  /\ r <= MaxDbRound
           /\ db' = [k \in DOMAIN db \cup {RoundToBytes(r)} |->
                       IF k = RoundToBytes(r) THEN r ELSE db[k]]
    /\ UNCHANGED <<owner, view, cursor, walked, sought, backup, delFrom, delTo, cut>>

\* Cursor: a read transaction, positioned by Seek.
OpenCursor(r) ==
    /\ owner = "daemon" /\ NoRead
    /\ view' = db /\ sought' = r /\ cursor' = SeekKey(db, r)
    /\ walked' = IF SeekKey(db, r) = NoEntry THEN <<>> ELSE <<db[SeekKey(db, r)]>>
    /\ UNCHANGED <<db, owner, backup, delFrom, delTo, cut>>

NextBeacon ==
    /\ ~NoRead /\ cursor # NoEntry
    /\ cursor' = NextKey(view, cursor)
    /\ walked' = IF cursor' = NoEntry THEN walked ELSE Append(walked, view[cursor'])
    /\ UNCHANGED <<db, owner, view, sought, backup, delFrom, delTo, cut>>

CloseCursor ==
    /\ ~NoRead
    /\ view' = [k \in {} |-> 0] /\ cursor' = NoEntry /\ walked' = <<>> /\ sought' = 0
    /\ UNCHANGED <<db, owner, backup, delFrom, delTo, cut>>

\* SaveTo writes the snapshot of its transaction.
SaveTo ==
    /\ owner = "daemon" /\ backup' = db
    /\ UNCHANGED <<db, owner, view, cursor, walked, sought, delFrom, delTo, cut>>

\* Close waits for the open transactions; the daemon opens the file again
\* when no command has it.
CloseDB ==
    /\ owner = "daemon" /\ NoRead /\ owner' = "none"
    /\ UNCHANGED <<db, view, cursor, walked, sought, backup, delFrom, delTo, cut>>

NewBoltStore ==
    /\ owner = "none" /\ owner' = "daemon"
    /\ db' = [k \in DOMAIN db \cup {RoundToBytes(0)} |->
                IF k = RoundToBytes(0) THEN 0 ELSE db[k]]
    /\ UNCHANGED <<view, cursor, walked, sought, backup, delFrom, delTo, cut>>

\* deleteBeaconCmd: from the given round, which may not be ahead of the chain,
\* upward to the last one.
DelCommand(r) ==
    /\ owner = "none" /\ db # [k \in {} |-> 0] /\ r <= LastRoundOf(db)
    /\ owner' = "del" /\ delFrom' = r /\ delTo' = LastRoundOf(db)
    /\ UNCHANGED <<db, view, cursor, walked, sought, backup, cut>>

DelBeacon ==
    /\ owner = "del"
    /\ db' = [k \in DOMAIN db \ {RoundToBytes(delFrom)} |-> db[k]]
    /\ IF delFrom = delTo THEN owner' = "none" /\ delFrom' = 0 /\ delTo' = 0
       ELSE delFrom' = delFrom + 1 /\ UNCHANGED <<owner, delTo>>
    /\ UNCHANGED <<view, cursor, walked, sought, backup, cut>>

DelInterrupted ==
    /\ owner = "del"
    /\ owner' = "none" /\ delFrom' = 0 /\ delTo' = 0 /\ cut' = TRUE
    /\ UNCHANGED <<db, view, cursor, walked, sought, backup>>

BoltNext ==
    \/ PutBeacon \/ NextBeacon \/ CloseCursor \/ SaveTo \/ CloseDB \/ NewBoltStore
    \/ \E r \in 0 .. MaxDbRound : OpenCursor(r) \/ DelCommand(r)
    \/ DelBeacon \/ DelInterrupted

BoltSpec == BoltInit /\ [][BoltNext]_boltVars

\* LastRoundOf, and with it the round the append store expects next, is the highest
\* round of the database: the byte order of the keys is that of the rounds.
LastIsHighest ==
    DOMAIN db # {} => /\ LastRoundOf(db) \in DbRounds(db) /\ \A r \in DbRounds(db) : r <= LastRoundOf(db)
                      /\ \A k \in DOMAIN db : k = RoundToBytes(db[k])

\* A cursor that has come to its end returned exactly the rounds of its
\* snapshot from the one it sought, in order and once each, whatever was put
\* in the meantime.
CursorReturnsTail ==
    ~NoRead =>
        LET due == {r \in DbRounds(view) : r >= sought}
        IN  /\ \A i \in 1 .. Len(walked) - 1 : walked[i] < walked[i + 1]
            /\ cursor = NoEntry => {walked[i] : i \in 1 .. Len(walked)} = due

\* The database the daemon works on, and every backup of it, is a chain
\* without a hole from the genesis to its last round, also after del-beacon
\* ran to its end.  (Interrupted, del-beacon leaves one: it deletes upward.)
ChainWithoutHole ==
    ~cut => /\ owner = "daemon" => DbRounds(db) = 0 .. LastRoundOf(db)
            /\ DbRounds(backup) = 0 .. LastRoundOf(backup)

(***************************************************************************)
(* The database holds the chain up to the round that Last names (Put, Del, *)
(* Last, SaveTo).                                                          *)
(***************************************************************************)
DatabaseIsChain ==
    /\ ChainWithoutHole
    /\ LastIsHighest
=============================================================================
