------------------------------ MODULE PinGate ------------------------------
(***************************************************************************)
(* The gate in front of a gallery's PIN (gallery/pin_gate.py): cache        *)
(* counters of failed attempts, one per gallery and one per address, read   *)
(* before the PIN is hashed and written after.  Every cache call is a step  *)
(* of its own; a missing key counts as 0.                                   *)
(***************************************************************************)
EXTENDS Integers, FiniteSets

CONSTANTS
    Visitor,        \* concurrent attempts, each from an address of its own
    MaxFailures,    \* GALLERY_PIN_MAX_FAILED_ATTEMPTS
    IpLimit,        \* GALLERY_PIN_IP_ATTEMPTS_PER_MINUTE
    MaxOutages      \* bound: counts the cache drops

ASSUME GateAssumption ==
    /\ IsFiniteSet(Visitor)
    /\ MaxFailures \in Nat \ {0} /\ IpLimit \in Nat \ {0} /\ MaxOutages \in Nat

VARIABLES
    failures,   \* the gallery's counter
    ip,         \* each address's counter
    attempt,    \* where each attempt is
    wrong,      \* history: wrong PINs hashed since the counter last went away
    outages     \* counts dropped by the cache since then

gateVars == <<failures, ip, attempt, wrong, outages>>

GateTypeOK ==
    /\ failures \in Nat
    /\ ip \in [Visitor -> Nat]
    /\ attempt \in [Visitor -> {"none", "hash", "count", "first", "address"}]
    /\ wrong \in Nat
    /\ outages \in 0..MaxOutages

GateInit ==
    /\ failures = 0
    /\ ip = [v \in Visitor |-> 0]
    /\ attempt = [v \in Visitor |-> "none"]
    /\ wrong = 0
    /\ outages = 0

At(v, pc) == attempt[v] = pc
Move(v, pc) == attempt' = [attempt EXCEPT ![v] = pc]
-----------------------------------------------------------------------------
(* Mutant: only the address is limited.                                     *)
GateOpenByAddress(v) == ip[v] < IpLimit

(* pin_gate_precheck; an unreachable cache refuses the attempt.             *)
GateOpen(v) == failures < MaxFailures /\ ip[v] < IpLimit

Precheck(v) ==
    /\ At(v, "none")
    /\ GateOpen(v)
    /\ Move(v, "hash")
    /\ UNCHANGED <<failures, ip, wrong, outages>>

WrongPin(v) ==
    /\ At(v, "hash")
    /\ wrong' = wrong + 1
    /\ Move(v, "count")
    /\ UNCHANGED <<failures, ip, outages>>

(* Mutant: a right PIN takes one failure back.                              *)
RightPinTakesOneBack(v) ==
    /\ At(v, "hash")
    /\ failures' = failures - 1
    /\ ip' = [ip EXCEPT ![v] = 0]
    /\ Move(v, "none")
    /\ UNCHANGED <<wrong, outages>>

(* A right PIN clears the gallery's counter for everyone.                   *)
RightPin(v) ==
    /\ At(v, "hash")
    /\ failures' = 0
    /\ ip' = [ip EXCEPT ![v] = 0]
    /\ wrong' = 0
    /\ outages' = 0
    /\ Move(v, "none")

(* The keys could not be deleted, which is nobody's business.               *)
RightPinNotCleared(v) ==
    /\ At(v, "hash")
    /\ Move(v, "none")
    /\ UNCHANGED <<failures, ip, wrong, outages>>

(* cache.incr raises ValueError on a missing key.                           *)
CountFailure(v) ==
    /\ At(v, "count")
    /\ failures' = IF failures > 0 THEN failures + 1 ELSE 0
    /\ Move(v, IF failures > 0 THEN "address" ELSE "first")
    /\ UNCHANGED <<ip, wrong, outages>>

(* cache.set(key, 1): what others counted in the meantime is overwritten.   *)
FirstFailure(v) ==
    /\ At(v, "first")
    /\ failures' = 1
    /\ Move(v, "address")
    /\ UNCHANGED <<ip, wrong, outages>>

CountAddress(v) ==
    /\ At(v, "address")
    /\ ip' = [ip EXCEPT ![v] = @ + 1]
    /\ Move(v, "none")
    /\ UNCHANGED <<failures, wrong, outages>>

(* The cache fails under the write: the attempt goes uncounted.             *)
CountLost(v) ==
    /\ attempt[v] \in {"count", "first", "address"}
    /\ outages < MaxOutages
    /\ outages' = outages + 1
    /\ Move(v, "none")
    /\ UNCHANGED <<failures, ip, wrong>>

(* GALLERY_PIN_LOCKOUT_SECONDS after the first failure.                     *)
LockoutEnds ==
    /\ failures > 0
    /\ failures' = 0
    /\ wrong' = 0
    /\ outages' = 0
    /\ UNCHANGED <<ip, attempt>>

AddressWindowEnds(v) ==
    /\ ip[v] > 0
    /\ ip' = [ip EXCEPT ![v] = 0]
    /\ UNCHANGED <<failures, attempt, wrong, outages>>

GateNext ==
    \/ \E v \in Visitor : \/ Precheck(v) \/ WrongPin(v) \/ RightPin(v)
                          \/ RightPinNotCleared(v) \/ CountFailure(v)
                          \/ FirstFailure(v) \/ CountAddress(v) \/ CountLost(v)
                          \/ AddressWindowEnds(v)
    \/ LockoutEnds

GateSpec == GateInit /\ [][GateNext]_gateVars
-----------------------------------------------------------------------------
(* Checking and counting are separate cache calls, and a first count that   *)
(* is written late sets a full counter back to 1 (pin_gate.py:53-57). Still  *)
(* the wrong PINs hashed before the lockout are bounded: every attempt can  *)
(* be the late one once, and while k of n wait with their first count the   *)
(* limit is overrun by the others already past the check, n - k - 1.        *)
AttemptsBounded ==
    LET n == Cardinality(Visitor)
    IN  wrong <= n * MaxFailures + (n * (n - 1)) \div 2 + outages
=============================================================================
