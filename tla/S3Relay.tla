------------------------------ MODULE S3Relay -------------------------------
(***************************************************************************)
(* The S3 relay (cmd/relay-s3): "run" watches a client and uploads every   *)
(* result in a goroutine of its own, and reopens the watch one second      *)
(* after it closed; "sync" walks the rounds from --begin to the current    *)
(* one and uploads each.  Both write public/<round> of the same bucket.    *)
(***************************************************************************)
EXTENDS Naturals

CONSTANTS Begin,    \* --begin of the sync command
          MaxS3     \* last round that becomes due

ASSUME S3Assumption == Begin \in Nat /\ MaxS3 \in Nat

VARIABLES now3,      \* the client's RoundAt(now)
          watchAt,  \* "open" or "waiting" (the timer runs)
          seenTo,   \* the last round that the watch delivered
          uploads,  \* rounds being uploaded by goroutines of the watch
          bucket,   \* rounds in the bucket
          sync,     \* "off", "loop", "put" or "over"
          rnd,      \* the sync's round
          gap,      \* history: rounds that came while no watch was open
          dropped   \* history: rounds whose upload or Get failed

s3Vars == <<now3, watchAt, seenTo, uploads, bucket, sync, rnd, gap, dropped>>

S3Init ==
    /\ now3 = 0 /\ watchAt = "open" /\ seenTo = 0 /\ uploads = {} /\ bucket = {}
    /\ sync = "off" /\ rnd = 0 /\ gap = {} /\ dropped = {}

\* A round becomes due; the watch that is open delivers it later.
S3Due ==
    /\ now3 < MaxS3 /\ now3' = now3 + 1
    /\ gap' = IF watchAt = "open" THEN gap ELSE gap \cup {now3 + 1}
    /\ UNCHANGED <<watchAt, seenTo, uploads, bucket, sync, rnd, dropped>>

\* Mutant: a result takes the place of the one being uploaded.
S3ResultInstead(r) ==
    /\ watchAt = "open" /\ r \in (seenTo + 1)..now3
    /\ seenTo' = r /\ uploads' = {r}
    /\ gap' = gap \cup ((seenTo + 1)..(r - 1))
    /\ UNCHANGED <<now3, watchAt, bucket, sync, rnd, dropped>>

\* A result of the watch starts an upload; a watch may skip rounds.
S3Result(r) ==
    /\ watchAt = "open" /\ r \in (seenTo + 1)..now3
    /\ seenTo' = r /\ uploads' = uploads \cup {r}
    /\ gap' = gap \cup ((seenTo + 1)..(r - 1))
    /\ UNCHANGED <<now3, watchAt, bucket, sync, rnd, dropped>>

\* The channel closes; what was due and not delivered is lost to this relay.
S3Closed ==
    /\ watchAt = "open" /\ watchAt' = "waiting"
    /\ gap' = gap \cup ((seenTo + 1)..now3) /\ seenTo' = now3
    /\ UNCHANGED <<now3, uploads, bucket, sync, rnd, dropped>>

\* A new watch, which may begin with the current round.
S3Reopen ==
    /\ watchAt = "waiting" /\ watchAt' = "open"
    /\ seenTo' \in {now3, now3 - 1} \cap Nat
    /\ UNCHANGED <<now3, uploads, bucket, sync, rnd, gap, dropped>>

\* uploadRandomness of a goroutine, in any order, and without a retry.
UploadRandomness(r) ==
    /\ r \in uploads /\ uploads' = uploads \ {r}
    /\ \/ bucket' = bucket \cup {r} /\ UNCHANGED dropped
       \/ dropped' = dropped \cup {r} /\ UNCHANGED bucket
    /\ UNCHANGED <<now3, watchAt, seenTo, sync, rnd, gap>>

SyncStart ==
    /\ sync \in {"off", "over"} /\ sync' = "loop" /\ rnd' = Begin
    /\ dropped' = dropped \ (Begin..MaxS3) /\ gap' = gap \ (Begin..MaxS3)
    /\ UNCHANGED <<now3, watchAt, seenTo, uploads, bucket>>

\* The loop's test reads the clock each time; Get of the round may fail, and
\* the loop goes on with the next.
SyncGet ==
    /\ sync = "loop"
    /\ IF rnd > now3 THEN sync' = "over" /\ UNCHANGED <<rnd, dropped>>
       ELSE \/ sync' = "put" /\ UNCHANGED <<rnd, dropped>>
            \/ dropped' = dropped \cup {rnd} /\ rnd' = rnd + 1 /\ UNCHANGED sync
    /\ UNCHANGED <<now3, watchAt, seenTo, uploads, bucket, gap>>

SyncPut ==
    /\ sync = "put" /\ sync' = "loop" /\ rnd' = rnd + 1
    /\ \/ bucket' = bucket \cup {rnd} /\ UNCHANGED dropped
       \/ dropped' = dropped \cup {rnd} /\ UNCHANGED bucket
    /\ UNCHANGED <<now3, watchAt, seenTo, uploads, gap>>

S3Next ==
    \/ S3Due \/ (\E r \in 1..MaxS3 : S3Result(r)) \/ S3Closed \/ S3Reopen
    \/ \E r \in uploads : UploadRandomness(r)
    \/ SyncStart \/ SyncGet \/ SyncPut

S3Spec == S3Init /\ [][S3Next]_s3Vars

\* A hole in the bucket is explained: a round that is due and not in it is still
\* to be delivered or uploaded, came while no watch was open, failed, or lies
\* ahead of a sync under way.
HolesExplained ==
    \A r \in 1..now3 \ bucket :
        \/ r \in uploads \/ r > seenTo \/ r \in gap \/ r \in dropped
        \/ sync \in {"loop", "put"} /\ r >= rnd

\* A sync that ended without a failure repaired every earlier hole from --begin
\* on, also those that opened while it ran: its test reads the clock again.
SyncRepairs ==
    sync = "over" => (Begin..(rnd - 1)) \subseteq (bucket \cup dropped)

(***************************************************************************)
(* The bucket has no hole without a cause, and a sync repairs those there  *)
(* are (watch, syncCmd).                                                   *)
(***************************************************************************)
HolesAreRepaired ==
    /\ HolesExplained
    /\ SyncRepairs
=============================================================================
