------------------------------- MODULE Streams -------------------------------
(***************************************************************************)
(* The client ends of the streaming calls.  Each starts a goroutine that   *)
(* receives from the gRPC stream and forwards to a channel, and hands the  *)
(* channel to a consumer that may stop reading:                            *)
(*   "rand"    grpcClient.PublicRandStream, net/client_grpc.go             *)
(*   "sync"    grpcClient.SyncChain, read by tryNode of the syncer         *)
(*   "watch"   translate of client/grpc, read by the watch aggregator      *)
(*   "follow"  ControlClient.StartFollowChain, read by followCmd           *)
(* They differ in whether the forwarding goroutine still sees its context  *)
(* while it waits for room in the channel.                                 *)
(***************************************************************************)
EXTENDS Integers, Sequences

CONSTANTS StreamKinds, \* the calls made
          Backlog,     \* capacity of the channel
          LastMsg      \* bound: messages the server sends

VARIABLES
    kind,      \* the kind of stream
    served,    \* messages sent by the server
    server,    \* "open", "eof" or "broken"
    cancelled, \* the call's context is done
    fwd,       \* the forwarder: "recv", "put", or "gone"
    taken,     \* messages the forwarder took from the stream
    channel,   \* the messages in the channel
    errors,    \* errCh of "follow": at most one of "eof" and "broken"
    closed,    \* the channels are closed
    consumer,  \* "reads", "left", "ended", "failed" or "panic"
    read       \* messages the consumer took

streamVars ==
    <<kind, served, server, cancelled, fwd, taken, channel, errors, closed, consumer, read>>

StreamInit ==
    /\ kind \in StreamKinds
    /\ served = 0 /\ server = "open" /\ cancelled = FALSE
    /\ fwd = "recv" /\ taken = 0 /\ channel = <<>> /\ errors = <<>>
    /\ closed = FALSE /\ consumer = "reads" /\ read = 0

ServerSends ==
    /\ server = "open" /\ served < LastMsg
    /\ served' = served + 1
    /\ UNCHANGED <<kind, server, cancelled, fwd, taken, channel, errors, closed, consumer, read>>

ServerEnds(how) ==
    /\ server = "open" /\ server' = how
    /\ UNCHANGED <<kind, served, cancelled, fwd, taken, channel, errors, closed, consumer, read>>

\* The caller's context ends while it reads.
CancelCall ==
    /\ ~cancelled /\ consumer = "reads" /\ cancelled' = TRUE
    /\ UNCHANGED <<kind, served, server, fwd, taken, channel, errors, closed, consumer, read>>

\* Recv gives the next message.  translate looks at the context after it, and
\* SyncChain between Recv and the send; the other two while they wait.
Recv ==
    /\ fwd = "recv" /\ taken < served
    /\ taken' = taken + 1
    /\ IF cancelled /\ kind \in {"sync", "watch"}
       THEN fwd' = "gone" /\ closed' = TRUE
       ELSE fwd' = "put" /\ UNCHANGED closed
    /\ UNCHANGED <<kind, served, server, cancelled, channel, errors, consumer, read>>

\* Mutant: the end of the stream overtakes its messages.
RecvFailsEarly ==
    /\ fwd = "recv" /\ (cancelled \/ server # "open")
    /\ fwd' = "gone" /\ closed' = TRUE
    /\ UNCHANGED <<kind, served, server, cancelled, taken, channel, errors, consumer, read>>

\* Recv fails: the stream ended, broke, or its context is done.
RecvFails ==
    /\ fwd = "recv"
    /\ cancelled \/ server = "broken" \/ (server = "eof" /\ taken = served)
    /\ fwd' = "gone" /\ closed' = TRUE
    /\ errors' = IF kind = "follow"
                 THEN <<IF server = "eof" /\ taken = served THEN "eof" ELSE "broken">>
                 ELSE errors
    /\ UNCHANGED <<kind, served, server, cancelled, taken, channel, consumer, read>>

\* The message goes into the channel when there is room.
Put ==
    /\ fwd = "put" /\ Len(channel) < Backlog
    /\ channel' = Append(channel, taken) /\ fwd' = "recv"
    /\ UNCHANGED <<kind, served, server, cancelled, taken, errors, closed, consumer, read>>

\* The context ends the wait of PublicRandStream and StartFollowChain.
GiveUp ==
    /\ fwd = "put" /\ cancelled /\ kind \in {"rand", "follow"}
    /\ fwd' = "gone" /\ closed' = TRUE
    /\ UNCHANGED <<kind, served, server, cancelled, taken, channel, errors, consumer, read>>

ReadOne ==
    /\ consumer = "reads" /\ channel # <<>>
    /\ read' = Head(channel) /\ channel' = Tail(channel)
    /\ UNCHANGED <<kind, served, server, cancelled, fwd, taken, errors, closed, consumer>>

\* tryNode returns at an invalid beacon or a failed Put, and its deferred
\* cancel ends the call; the other readers leave when their user does.
ReaderLeaves ==
    /\ consumer = "reads" /\ read > 0
    /\ consumer' = "left" /\ cancelled' = TRUE
    /\ UNCHANGED <<kind, served, server, fwd, taken, channel, errors, closed, read>>

\* The consumer finds its channel closed.  followCmd does not look whether the
\* channel is closed and dereferences the nil progress.
ReadClosed ==
    /\ consumer = "reads" /\ closed /\ channel = <<>>
    /\ consumer' = IF kind = "follow" THEN "panic" ELSE "ended"
    /\ UNCHANGED <<kind, served, server, cancelled, fwd, taken, channel, errors, closed, read>>

\* followCmd's other case: an error, or nil from the closed errCh.
ReadError ==
    /\ kind = "follow" /\ consumer = "reads" /\ (errors # <<>> \/ closed)
    /\ consumer' = IF errors = <<"eof">> THEN "ended" ELSE "failed"
    /\ errors' = <<>>
    /\ UNCHANGED <<kind, served, server, cancelled, fwd, taken, channel, closed, read>>

StreamNext ==
    \/ ServerSends \/ \E how \in {"eof", "broken"} : ServerEnds(how)
    \/ CancelCall \/ Recv \/ RecvFails \/ Put \/ GiveUp
    \/ ReadOne \/ ReaderLeaves \/ ReadClosed \/ ReadError

StreamSpec == StreamInit /\ [][StreamNext]_streamVars

\* Nothing is lost or reordered between server and consumer while the call is
\* alive: what the consumer has, what is queued and what the forwarder holds
\* are together the messages taken from the stream.
ForwardedInOrder ==
    /\ \A i \in 1 .. Len(channel) : channel[i] = read + i
    /\ ~cancelled => taken = read + Len(channel) + (IF fwd = "put" THEN 1 ELSE 0)

\* A consumer that sees its channel closed after a call that neither broke nor
\* was cancelled has read everything the server sent.
EndMeansAll ==
    consumer = "ended" /\ ~cancelled /\ server = "eof" /\ kind # "follow" => read = served
=============================================================================
