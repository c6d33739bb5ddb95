------------------------------ MODULE Checkout ------------------------------
(***************************************************************************)
(* Asking the payment provider for a checkout link (checkout/views.py): one *)
(* request at a time for each user, by a lock in the cache that nobody owns *)
(* and that lives for five seconds.                                         *)
(***************************************************************************)
EXTENDS Integers, FiniteSets

CONSTANTS
    Buyer,          \* concurrent requests of one user
    MaxSessions,    \* bound: checkout sessions created
    MaxOverruns     \* bound: locks that expire under a request

ASSUME CheckoutAssumption ==
    IsFiniteSet(Buyer) /\ MaxSessions \in Nat /\ MaxOverruns \in Nat

VARIABLES
    pro,        \* the user's subscription is PRO
    lock,       \* the lock key exists
    checked,    \* requests past the check of the subscription and the plan
    inside,     \* requests past the lock
    pending,    \* CheckoutSession rows created
    links,      \* links the provider has answered with
    overruns    \* history: locks that expired since nobody was inside

checkoutVars == <<pro, lock, checked, inside, pending, links, overruns>>

CheckoutTypeOK ==
    /\ pro \in BOOLEAN /\ lock \in BOOLEAN
    /\ checked \in SUBSET Buyer /\ inside \in SUBSET Buyer
    /\ pending \in 0..MaxSessions /\ links \in 0..pending
    /\ overruns \in 0..MaxOverruns

CheckoutInit ==
    /\ pro = FALSE /\ lock = FALSE
    /\ checked = {} /\ inside = {}
    /\ pending = 0 /\ links = 0
    /\ overruns = 0

(* A history variable's reset, by every step that leaves `in` inside.       *)
Overrun(in, n) == overruns' = IF in = {} THEN 0 ELSE n

(* A subscriber is refused here, before the lock.                           *)
CheckSubscription(b) ==
    /\ b \notin checked \cup inside
    /\ ~pro
    /\ checked' = checked \cup {b}
    /\ UNCHANGED <<pro, lock, inside, pending, links, overruns>>

(* Mutant: the request that finds the lock taken deletes it on its way out. *)
LeaveLockedClearing(b) ==
    /\ b \in checked /\ lock
    /\ checked' = checked \ {b}
    /\ lock' = FALSE
    /\ UNCHANGED <<pro, inside, pending, links, overruns>>

(* cache.add found the key: 409, and the lock is left alone.                *)
LeaveLocked(b) ==
    /\ b \in checked /\ lock
    /\ checked' = checked \ {b}
    /\ UNCHANGED <<pro, lock, inside, pending, links, overruns>>

(* The session row is created before the provider is asked.                 *)
Enter(b) ==
    /\ b \in checked /\ ~lock
    /\ pending < MaxSessions
    /\ checked' = checked \ {b}
    /\ lock' = TRUE
    /\ inside' = inside \cup {b}
    /\ pending' = pending + 1
    /\ UNCHANGED <<pro, links, overruns>>

(* An answer, a timeout or an error: the finally clause deletes the key,    *)
(* whoever has set it.                                                      *)
Leave(b) ==
    /\ b \in inside
    /\ inside' = inside \ {b}
    /\ lock' = FALSE
    /\ links' = links + 1 \/ UNCHANGED links
    /\ Overrun(inside', overruns)
    /\ UNCHANGED <<pro, checked, pending>>

BuyerDies(b) ==
    /\ b \in inside
    /\ inside' = inside \ {b}
    /\ Overrun(inside', overruns)
    /\ UNCHANGED <<pro, lock, checked, pending, links>>

LockExpires ==
    /\ lock /\ overruns < MaxOverruns
    /\ lock' = FALSE
    /\ Overrun(inside, overruns + 1)
    /\ UNCHANGED <<pro, checked, inside, pending, links>>

(* A webhook completes one of the sessions, or ends the subscription.       *)
Subscribe ==
    /\ pro \/ links > 0
    /\ pro' = ~pro
    /\ UNCHANGED <<lock, checked, inside, pending, links, overruns>>

CheckoutNext ==
    \/ \E b \in Buyer : \/ CheckSubscription(b) \/ LeaveLocked(b) \/ Enter(b)
                        \/ Leave(b) \/ BuyerDies(b)
    \/ LockExpires \/ Subscribe

CheckoutSpec == CheckoutInit /\ [][CheckoutNext]_checkoutVars
-----------------------------------------------------------------------------
(* "The Double-Tap Cache Lock" (checkout/views.py:63): two requests are     *)
(* with the provider at once only if a lock has expired under a request,    *)
(* and every expiry lets in one more and no more, although each request     *)
(* deletes on leaving what may be the lock of the next.                     *)
CheckoutsBounded ==
    Cardinality(inside) <= overruns + (IF lock THEN 1 ELSE 0)
=============================================================================
