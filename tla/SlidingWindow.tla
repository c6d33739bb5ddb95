---------------------------- MODULE SlidingWindow ----------------------------
(***************************************************************************)
(* The rate limiter of core/rate_limiter.py: a sorted set of the hits of    *)
(* one key, trimmed, counted and added to by one script in Redis.  The      *)
(* script's time is that of the API replica that calls it, and the replicas'*)
(* clocks differ.                                                           *)
(***************************************************************************)
EXTENDS Integers, FiniteSets, Sequences

CONSTANTS
    Replica,        \* API processes
    Skew,           \* for each how far its clock is ahead
    Rate,           \* limit
    Window,         \* window_seconds
    MaxTime         \* bound: the end of time

MaxSkew == CHOOSE s \in 0..Window : /\ \A r \in Replica : Skew[r] <= s
                                    /\ \E r \in Replica : Skew[r] = s

ASSUME WindowAssumption ==
    /\ Replica # {} /\ Rate \in Nat \ {0} /\ Window \in Nat \ {0} /\ MaxTime \in Nat
    /\ Skew \in [Replica -> 0..(Window - 1)]

VARIABLES
    clock,      \* time
    zset,       \* the hits kept: their score and their serial number
    keyTtl,     \* what is left of the key's PEXPIRE
    admitted    \* history: the time of each request admitted

windowVars == <<clock, zset, keyTtl, admitted>>

WindowTypeOK ==
    /\ clock \in 0..MaxTime
    /\ zset \subseteq (0..(MaxTime + Window)) \X Nat
    /\ keyTtl \in 0..Window
    /\ admitted \in Seq(0..MaxTime)

WindowInit ==
    /\ clock = 0
    /\ zset = {}
    /\ keyTtl = 0
    /\ admitted = <<>>

(* ZREMRANGEBYSCORE: a hit exactly one window old is out.                   *)
Trimmed(now) == {h \in zset : h[1] > now - Window}

(* Mutant: only the first hit of a window sets the key's expiry.            *)
HitExpiringOnce(r) ==
    LET now == clock + Skew[r]
        used == Trimmed(now)
    IN  /\ Cardinality(used) < Rate
        /\ zset' = used \cup {<<now, Len(admitted)>>}
        /\ keyTtl' = IF used = {} THEN Window ELSE keyTtl
        /\ admitted' = Append(admitted, clock)
        /\ UNCHANGED clock

Hit(r) ==
    LET now == clock + Skew[r]
        used == Trimmed(now)
    IN  /\ Cardinality(used) < Rate
        /\ zset' = used \cup {<<now, Len(admitted)>>}
        /\ keyTtl' = Window
        /\ admitted' = Append(admitted, clock)
        /\ UNCHANGED clock

(* A refusal trims the set too, and leaves the key's expiry alone.  While   *)
(* Redis does not answer, every request is refused and nothing changes.     *)
Refusal(r) ==
    LET used == Trimmed(clock + Skew[r])
    IN  /\ Cardinality(used) >= Rate
        /\ zset' = used
        /\ UNCHANGED <<clock, keyTtl, admitted>>

(* Redis counts the key's expiry down, and drops the set with it.           *)
SecondPasses ==
    /\ clock < MaxTime
    /\ clock' = clock + 1
    /\ keyTtl' = IF keyTtl > 0 THEN keyTtl - 1 ELSE 0
    /\ zset' = IF keyTtl > 1 THEN zset ELSE {}
    /\ UNCHANGED admitted

WindowNext ==
    \/ \E r \in Replica : Hit(r) \/ Refusal(r)
    \/ SecondPasses

WindowSpec == WindowInit /\ [][WindowNext]_windowVars
-----------------------------------------------------------------------------
(* However the requests fall around a window's edge, and on whichever       *)
(* replica, no window shorter by the greatest difference of the clocks sees *)
(* more than the limit admitted (rate_limiter.py:24-42).                    *)
WindowHolds ==
    \A i \in DOMAIN admitted :
        Cardinality({k \in DOMAIN admitted :
                        admitted[k] \in (admitted[i] - (Window - MaxSkew) + 1)..admitted[i]})
            <= Rate
=============================================================================
