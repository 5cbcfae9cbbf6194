------------------------------ MODULE RateLimit ------------------------------
(***************************************************************************)
(* The two rate limiters of kleos-lib (ratelimit.rs).                      *)
(*                                                                         *)
(* RateLimiter keeps the times of the admitted requests of a bounded number*)
(* of keys in memory: a sliding window.  The limiter behind the HTTP       *)
(* middleware keeps a count and the start of a window per key in the       *)
(* table rate_limits: a fixed window, whose rows a background task drops   *)
(* after a grace period.  Each call is one locked section or one statement.*)
(***************************************************************************)
EXTENDS Integers, Sequences, SequencesExt, FiniteSetsExt

CONSTANTS
    Bucket,         \* keys of the limiter in memory
    Account,        \* keys of the limiter in the database
    Window,         \* the 60 seconds, in ticks
    MaxRate,        \* requests_per_minute + burst; max_requests
    MaxKeys,        \* max_keys
    Cost,           \* costs of endpoints
    GraceSecs,      \* grace_seconds of cleanup_expired_rows (300)
    MaxSecond       \* bound: last tick

ASSUME RateLimitAssumption ==
    /\ Window \in Nat /\ MaxRate \in Nat /\ MaxKeys \in Nat /\ MaxSecond \in Nat
    /\ Cost \subseteq Nat \ {0}
    /\ GraceSecs \in Nat /\ GraceSecs >= Window

VARIABLES
    windows,        \* times of a tracked key, oldest first; <<>>: not in the map
    row,            \* rate_limits; count 0: no row
    second,         \* the time
    admitted,       \* history: requests the sliding window admitted, per tick
    spent           \* history: cost the fixed window admitted, per tick

rateLimitVars == <<windows, row, second, admitted, spent>>

Seconds == 0..MaxSecond

NoCount == [count |-> 0, start |-> 0]

\* Times, counts and histories keep their types.
RateLimitTypeOK ==
    /\ windows \in [Bucket -> Seq(Seconds)]
    /\ row \in [Account -> [count : Nat, start : Seconds]]
    /\ second \in Seconds
    /\ admitted \in [Bucket -> [Seconds -> Nat]]
    /\ spent \in [Account -> [Seconds -> Nat]]

RateLimitInit ==
    /\ windows = [b \in Bucket |-> <<>>]
    /\ row = [a \in Account |-> NoCount]
    /\ second = 0
    /\ admitted = [b \in Bucket |-> [t \in Seconds |-> 0]]
    /\ spent = [a \in Account |-> [t \in Seconds |-> 0]]
-----------------------------------------------------------------------------
(* In memory. *)

\* Mutant: a request that is exactly one window old no longer counts.
LiveHalfOpen(times) ==
    SubSeq(times, Min({i \in 1..Len(times) : second - times[i] < Window} \cup {Len(times) + 1}),
           Len(times))

\* What is left when the expired times are popped from the front.
LiveTimes(times) ==
    SubSeq(times, Min({i \in 1..Len(times) : second - times[i] <= Window} \cup {Len(times) + 1}),
           Len(times))

Tracked == {b \in Bucket : windows[b] # <<>>}

\* At the limit of keys every window is pruned before an unseen key is turned away.
Pruned(b) ==
    IF b \in Tracked \/ Cardinality(Tracked) < MaxKeys THEN windows
    ELSE [d \in Bucket |-> LiveTimes(windows[d])]

has_room_for_key(b) ==
    b \in Tracked \/ Cardinality({d \in Bucket : Pruned(b)[d] # <<>>}) < MaxKeys

\* check is the same with a limit of the caller's.
check_key(b) ==
    LET times == LiveTimes(windows[b])
        ok    == has_room_for_key(b) /\ Len(times) < MaxRate
    IN  /\ windows' = IF ~has_room_for_key(b) THEN Pruned(b)
                      ELSE [Pruned(b) EXCEPT ![b] = IF ok THEN Append(times, second) ELSE times]
        /\ admitted' = IF ok THEN [admitted EXCEPT ![b][second] = @ + 1] ELSE admitted
        /\ UNCHANGED <<row, second, spent>>

prune ==
    /\ windows' = [b \in Bucket |-> LiveTimes(windows[b])]
    /\ UNCHANGED <<row, second, admitted, spent>>
-----------------------------------------------------------------------------
(* In the database. *)

Expired(a) == second - row[a].start > Window

\* A refused request is counted too; check_and_increment is the case cost = 1.
check_and_increment_by(a, cost) ==
    LET new == IF row[a].count = 0 \/ Expired(a) THEN [count |-> cost, start |-> second]
               ELSE [row[a] EXCEPT !.count = @ + cost]
    IN  /\ row[a].count <= MaxRate \/ Expired(a)    \* beyond this a count grows to no effect
        /\ row' = [row EXCEPT ![a] = new]
        /\ spent' = IF new.count <= MaxRate THEN [spent EXCEPT ![a][second] = @ + cost] ELSE spent
        /\ UNCHANGED <<windows, second, admitted>>

\* Mutant: the grace period is not counted from the start of the window.
OutOfGraceAtOnce(a) == second > row[a].start

OutOfGrace(a) == second - row[a].start > GraceSecs

cleanup_expired_rows ==
    /\ \E a \in Account : row[a].count > 0 /\ OutOfGrace(a)
    /\ row' = [a \in Account |-> IF OutOfGrace(a) THEN NoCount ELSE row[a]]
    /\ UNCHANGED <<windows, second, admitted, spent>>

RateLimitTick ==
    /\ second < MaxSecond /\ second' = second + 1
    /\ UNCHANGED <<windows, row, admitted, spent>>

RateLimitNext ==
    \/ \E b \in Bucket : check_key(b)
    \/ prune
    \/ \E a \in Account, c \in Cost : check_and_increment_by(a, c)
    \/ cleanup_expired_rows
    \/ RateLimitTick

RateLimitSpec == RateLimitInit /\ [][RateLimitNext]_rateLimitVars
-----------------------------------------------------------------------------
(* Properties. *)

\* What a history adds up to before each tick, and from one tick to another.
Before(history) ==
    LET sum[n \in 0..MaxSecond + 1] == IF n = 0 THEN 0 ELSE sum[n - 1] + history[n - 1]
    IN  sum

During(history, from, to) == Before(history)[to + 1] - Before(history)[from]

\* The sliding window admits at most requests_per_minute + burst requests of a key in any
\* span of one window, also when the key table overflows and windows are pruned on the way.
SlidingWindowHolds ==
    \A b \in Bucket, t \in Seconds :
        t + Window <= MaxSecond => During(admitted[b], t, t + Window) <= MaxRate

\* A fixed window lets through at most twice the limit in any span of one window, and
\* cleanup_expired_rows never hands a key a fresh budget before its window is over.
FixedWindowHolds ==
    \A a \in Account, t \in Seconds :
        t + Window <= MaxSecond => During(spent[a], t, t + Window) <= 2 * MaxRate
=============================================================================
