------------------------------ MODULE ChainTime ------------------------------
(***************************************************************************)
(* The clock arithmetic of the beacon (chain/time.go): which round is      *)
(* active at a UNIX time, when the next one starts, and when a given round *)
(* happens.  Every node derives its ticks, its acceptance window for       *)
(* partial signatures and the moment of a group transition from these      *)
(* three functions, each from its own clock.                               *)
(*                                                                         *)
(* Times are whole seconds.  Periods are whole seconds too: the setup      *)
(* packets carry the period as a number of seconds.  The state machine     *)
(* below is one node's clock running over the three functions.             *)
(***************************************************************************)
EXTENDS Integers

CONSTANTS
    WordBits,    \* width of a uint64 (64 in the code, smaller for TLC)
    BufferBits,  \* timeBufferBits
    Periods,     \* beacon periods
    Geneses,     \* genesis times
    MaxNow       \* bound: the clock stops here

ASSUME ClockAssumption ==
    /\ WordBits \in Nat /\ BufferBits \in 0 .. WordBits - 1
    /\ Periods \subseteq Nat \ {0}
    /\ Geneses \subseteq Nat
    /\ MaxNow \in Nat

VARIABLES now, period, genesis

vars == <<now, period, genesis>>
-----------------------------------------------------------------------------

(* The round after the active one, and when it starts.                     *)
NextRound(t, p, g) ==
    IF t < g
    THEN [round |-> 1, time |-> g]
    ELSE LET n == (t - g) \div p + 1
         IN  [round |-> n + 1, time |-> g + n * p]

(* Mutant of CurrentRound: the next round.                                 *)
CurrentRoundSkips(t, p, g) ==
    LET next == NextRound(t, p, g).round
    IN  IF next <= 2 THEN 1 ELSE next

(* The active round; 1 already before the genesis.                         *)
CurrentRound(t, p, g) ==
    LET next == NextRound(t, p, g).round
    IN  IF next <= 1 THEN next ELSE next - 1

(* The exact time of a round, in unbounded arithmetic: what TimeOfRound is *)
(* meant to return.                                                        *)
RoundTime(p, g, round) == IF round = 0 THEN g ELSE g + (round - 1) * p
-----------------------------------------------------------------------------
MaxUint == 2^WordBits - 1
MaxInt == 2^(WordBits - 1) - 1

TimeOfRoundErrorValue == MaxInt - 2^BufferBits

(* What the numbers are: exponentiation by doubling (the provers do not    *)
(* interpret it), and a clock far from the end of the words, as a UNIX     *)
(* time and a period of at most 2^32 seconds are in 64 bits.               *)
ASSUME WordAssumption ==
    /\ 2^0 = 1
    /\ \A k \in 0 .. WordBits : 2^k \in Nat /\ 2^(k + 1) = 2 * 2^k
    /\ \A p \in Periods, g \in Geneses :
          /\ (p + 1) * g <= MaxInt
          /\ 8 * (MaxNow + 3 * p) <= MaxUint
          /\ g + p + MaxNow <= TimeOfRoundErrorValue

(* The conversion of a word to a signed one.                               *)
ToInt(x) ==
    LET word == x % 2^WordBits
    IN  IF word > MaxInt THEN word - 2^WordBits ELSE word

(* int(math.Log2(x)) for x >= 1                                            *)
Log2(x) == CHOOSE b \in 0 .. WordBits : 2^b <= x /\ x < 2^(b + 1)

(* Mutant of TimeOfRound: a guard two bits too weak.                       *)
TimeOfRoundUnguarded(p, g, round) ==
    IF round = 0 THEN g
    ELSE IF p < 0 \/ round >= MaxUint \div 2^Log2(p + 1)
    THEN TimeOfRoundErrorValue
    ELSE LET delta == ((round - 1) * p) % 2^WordBits
             val   == ToInt(g + ToInt(delta))
         IN  IF val > TimeOfRoundErrorValue THEN TimeOfRoundErrorValue ELSE val

(* When a round happens, with a guard against overflow.                    *)
TimeOfRound(p, g, round) ==
    IF round = 0 THEN g
    ELSE IF p < 0 \/ round >= MaxUint \div 2^(Log2(p + 1) + 2)
    THEN TimeOfRoundErrorValue
    ELSE LET delta == ((round - 1) * p) % 2^WordBits
             val   == ToInt(g + ToInt(delta))
         IN  IF val > TimeOfRoundErrorValue THEN TimeOfRoundErrorValue ELSE val
-----------------------------------------------------------------------------
Init ==
    /\ now = 0
    /\ period \in Periods
    /\ genesis \in Geneses

(* A second passes on the node's clock.                                    *)
Second ==
    /\ now < MaxNow
    /\ now' = now + 1
    /\ UNCHANGED <<period, genesis>>

Next == Second

Spec == Init /\ [][Next]_vars
-----------------------------------------------------------------------------
(* The type of the clock; the active round is never 0, which is the number *)
(* of the genesis beacon.                                                  *)
TypeOK ==
    /\ now \in Nat /\ period \in Periods /\ genesis \in Geneses
    /\ CurrentRound(now, period, genesis) \in Nat \ {0}

(* ticker.Start sleeps until the time NextRound returns and then asks      *)
(* CurrentRound which round it is: it must be the round that NextRound     *)
(* announced, neither the one before nor the one after.                    *)
TickIsAnnouncedRound ==
    LET next == NextRound(now, period, genesis)
    IN  CurrentRound(next.time, period, genesis) = next.round

(* createAndSend sets the TransitionTime of a new group to a time returned *)
(* by NextRound.  Transition and TransitionNewGroup then map it to a round *)
(* and back, and stop the program when they do not get the same time: they *)
(* must always get it.                                                     *)
TransitionTimeIsARound ==
    LET t == NextRound(now, period, genesis).time
    IN  TimeOfRound(period, genesis, CurrentRound(t, period, genesis)) = t

(* The sleep until the next tick is never negative or zero, and after the  *)
(* genesis never longer than a period.                                     *)
NextRoundIsAhead ==
    LET next == NextRound(now, period, genesis).time
    IN  next > now /\ (now >= genesis => next <= now + period)

(* TimeOfRound never wraps around: whatever round a client asks about, it  *)
(* returns the exact time of the round or the error value, which is not    *)
(* before any time it returns.                                             *)
TimeOfRoundExact ==
    \A round \in 0 .. MaxUint :
        LET t == TimeOfRound(period, genesis, round)
        IN  /\ t \in {RoundTime(period, genesis, round), TimeOfRoundErrorValue}
            /\ t <= TimeOfRoundErrorValue

(* As the clock of a node advances, the active round never goes back and   *)
(* no round is skipped: between two seconds it moves by at most one.       *)
NoRoundSkipped ==
    [][ CurrentRound(now, period, genesis)' - CurrentRound(now, period, genesis)
        \in {0, 1} ]_vars
=============================================================================
