---------------------------- MODULE RateLimiter ----------------------------
(***************************************************************************)
(* The fixed-window rate limiter in front of every route but /health and   *)
(* /ready, for one identity (a token's hash, or an address).  hit() is one *)
(* transaction in both back ends; the middleware also runs cleanup() on    *)
(* every thousandth request of its process.                                *)
(***************************************************************************)
EXTENDS Integers

CONSTANTS
    RateLimit,      \* requests per window
    WindowLength,   \* seconds per window
    MaxClock,       \* bound on the clock
    CleanupEvery    \* requests between two cleanups (1000)

ASSUME RateAssumption ==
    /\ RateLimit \in Nat \ {0} /\ WindowLength \in Nat \ {0}
    /\ MaxClock \in Nat /\ CleanupEvery \in Nat \ {0}

VARIABLES
    clock,      \* seconds
    hits,       \* table rate_limits: count per window start, 0 if there is no row
    admitted,   \* requests let through, per window start
    arrivals    \* requests since the last cleanup

rateVars == <<clock, hits, admitted, arrivals>>

Windows == {w \in 0..MaxClock : w % WindowLength = 0}

RateTypeOK ==
    /\ clock \in 0..MaxClock
    /\ hits \in [Windows -> 0..(RateLimit + 2)]
    /\ admitted \in [Windows -> Nat]
    /\ arrivals \in 0..(CleanupEvery - 1)

RateInit ==
    /\ clock = 0
    /\ hits = [w \in Windows |-> 0]
    /\ admitted = [w \in Windows |-> 0]
    /\ arrivals = 0

-----------------------------------------------------------------------------

WindowStart == clock - (clock % WindowLength)

\* Mutant: the cutoff forgets the factor, and the open window is dropped.
CleanedEagerly == [w \in Windows |-> IF w < clock - (clock % WindowLength) + 1 THEN 0 ELSE hits[w]]

\* DELETE WHERE window_start < now - 2 * window
Cleaned == [w \in Windows |-> IF w < clock - 2 * WindowLength THEN 0 ELSE hits[w]]

\* dispatch(): every CleanupEvery-th request cleans up first; then the window's
\* row is counted up and its new count decides.  Counts above the limit are not
\* told apart.
Hit ==
    LET due   == arrivals + 1 = CleanupEvery
        rows  == IF due THEN Cleaned ELSE hits
        count == rows[WindowStart] + 1
    IN  /\ arrivals' = IF due THEN 0 ELSE arrivals + 1
        /\ hits' = [rows EXCEPT ![WindowStart] = IF count > RateLimit + 1 THEN @ ELSE count]
        /\ admitted' = [admitted EXCEPT ![WindowStart] = @ + (IF count <= RateLimit THEN 1 ELSE 0)]
        /\ UNCHANGED clock

ClockTicks ==
    /\ clock < MaxClock
    /\ clock' = clock + 1
    /\ UNCHANGED <<hits, admitted, arrivals>>

RateNext == Hit \/ ClockTicks

RateSpec == RateInit /\ [][RateNext]_rateVars

-----------------------------------------------------------------------------
(* No window lets more than RateLimit requests of an identity through,     *)
(* though rows are deleted while the window is open.                       *)
WindowsHold == \A w \in Windows : admitted[w] <= RateLimit

=============================================================================
