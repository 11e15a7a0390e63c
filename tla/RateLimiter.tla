---------------------------- MODULE RateLimiter ----------------------------
(***************************************************************************)
(* The token bucket the lanes of a transfer share (class RateLimiter).     *)
(* Time passes in ticks of one byte at the capped rate.  The bucket is     *)
(* refilled when a lane looks at it, from the time of the last look, and   *)
(* holds one second's worth at most; a lane that finds too little sleeps   *)
(* for what it lacks and looks again.                                      *)
(***************************************************************************)
EXTENDS Naturals

CONSTANTS
    Lanes,   \* the threads that share the limiter
    Rate,    \* m_rate: ticks in a second
    Chunks   \* bytes a lane may have read or written at once

VARIABLES
    tokens,   \* m_tokens
    elapsed,  \* ticks since m_last; more than Rate make no difference
    want,     \* bytes each lane asks for in consume(), or 0
    sleep,    \* ticks each lane has still to sleep
    granted,  \* the lane last let through
    excess    \* the most bytes let through in an interval, less its ticks

limiterVars == <<tokens, elapsed, want, sleep, granted, excess>>

Lesser(a, b) == IF a < b THEN a ELSE b
None == "none"

LimiterInit ==
    /\ tokens = 0 /\ elapsed = 0
    /\ want = [l \in Lanes |-> 0] /\ sleep = [l \in Lanes |-> 0]
    /\ granted = None /\ excess = 0

Consume(l) ==
    /\ want[l] = 0
    /\ \E bytes \in Chunks : want' = [want EXCEPT ![l] = bytes]
    /\ UNCHANGED <<tokens, elapsed, sleep, granted, excess>>

Refilled == Lesser(tokens + elapsed, Rate)

\* m_last moves with every look.
SinceLook_Kept == elapsed
SinceLook == 0

Grant(l) ==
    /\ want[l] > 0 /\ sleep[l] = 0 /\ Refilled >= want[l]
    /\ tokens' = Refilled - want[l]
    /\ elapsed' = SinceLook
    /\ want' = [want EXCEPT ![l] = 0]
    /\ granted' = l
    /\ excess' = excess + want[l]
    /\ UNCHANGED sleep

Kept == Refilled

Deficit(l) == want[l] - Refilled

Sleep(l) ==
    /\ want[l] > 0 /\ sleep[l] = 0 /\ Refilled < want[l]
    /\ tokens' = Kept
    /\ elapsed' = SinceLook
    /\ sleep' = [sleep EXCEPT ![l] = Deficit(l)]
    /\ UNCHANGED <<want, granted, excess>>

Tick ==
    /\ elapsed' = Lesser(elapsed + 1, Rate)
    /\ sleep' = [l \in Lanes |-> IF sleep[l] > 0 THEN sleep[l] - 1 ELSE 0]
    /\ excess' = IF excess > 0 THEN excess - 1 ELSE 0
    /\ granted' = None
    /\ UNCHANGED <<tokens, want>>

Look(l) == Grant(l) \/ Sleep(l)

LimiterNext == Tick \/ \E l \in Lanes : Consume(l) \/ Look(l)

\* Time passes, and a lane that is awake gets the mutex.
LimiterSpec ==
    /\ LimiterInit /\ [][LimiterNext]_limiterVars
    /\ WF_limiterVars(Tick) /\ \A l \in Lanes : WF_limiterVars(Look(l))

-----------------------------------------------------------------------------
(* Properties. *)

LimiterTypeOK ==
    /\ tokens \in 0 .. Rate /\ elapsed \in 0 .. Rate
    /\ want \in [Lanes -> {0} \union Chunks] /\ sleep \in [Lanes -> Nat]
    /\ granted \in Lanes \union {None} /\ excess \in Nat

\* The rate is the transfer's, not the lane's: in any interval, however many
\* lanes share the limiter and however they interleave, no more bytes pass
\* than its length allows and one second's worth that was saved up.
AggregateCapped == excess <= Rate

\* While lanes wait, one of them is always let through again.
SomeLaneMoves == (\E l \in Lanes : want[l] > 0) ~> granted # None

\* consume() of a lane that no other lane competes with returns in the end: the
\* bucket can hold the bytes it asks for, and its own looks do not empty it.
ConsumeReturns ==
    \A l \in Lanes :
        <>[](\A k \in Lanes \ {l} : want[k] = 0) => (want[l] > 0 ~> want[l] = 0)
=============================================================================
