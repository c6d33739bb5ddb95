----------------------------- MODULE MCServices -----------------------------
(***************************************************************************)
(* The components that share no state with the photo's life cycle, nor with *)
(* each other, checked side by side: a behaviour is one of the component    *)
(* chosen at its start while the others rest in an initial state.           *)
(***************************************************************************)
EXTENDS LeaseHolders, BillingWebhooks, Checkout, DarajaCallback, WorkspaceRow,
        PhotoObjects, SlidingWindow, UploadSink, KeysetPages, BurstSchedule,
        BurstGroups, QuietCorner, RowLocks, TLC

CONSTANTS g1, g2, r1, r2, f1, f2, pa, pb

MCGalleryOfJob == [j \in Job |-> IF j = 3 THEN g2 ELSE g1]
MCLimit == [w \in Tenant |-> w - 1]
(* PATCHes are compared for equality only.                                  *)
SaverSymmetry == Permutations(Saver)

MCSkew == [r \in Replica |-> r - 1]

(* Wide with room to spare, scaled by less than one half, nearly square,    *)
(* with a margin, and too small to be searched.                             *)
MCCanvas == {[w |-> 4, h |-> 2, lw |-> 2, lh |-> 1, m |-> 0],
             [w |-> 9, h |-> 4, lw |-> 4, lh |-> 1, m |-> 0],
             [w |-> 8, h |-> 5, lw |-> 5, lh |-> 3, m |-> 0],
             [w |-> 6, h |-> 3, lw |-> 3, lh |-> 1, m |-> 1],
             [w |-> 2, h |-> 2, lw |-> 2, lh |-> 1, m |-> 1]}

VARIABLE part   \* the component at work, chosen once

Part == {"leases", "billing", "checkout", "daraja", "row", "objects", "window",
         "sink", "pages", "bursts", "groups", "corner", "locks"}

(* The components with many initial states have one while they rest. At     *)
(* work, the first photo has no bit set and is the first in time: grouping  *)
(* looks at differences only.                                               *)
OnePages == order = "pk" /\ rows = {} /\ cursor = Start /\ given = <<>> /\ reading = TRUE
            /\ steady = {}
OneGroups ==
    /\ hash = [i \in Image |-> {}] /\ taken = [i \in Image |-> 0]
    /\ pairs = {} /\ parent = [i \in Image |-> i] /\ rank = [i \in Image |-> 0]
    /\ compress = Image
OneCorner ==
    /\ canvas = CHOOSE c \in Canvas : c.w = 2
    /\ pixel = [p \in Grid(canvas) |-> 0]
    /\ s1 = [p \in Table(canvas) |-> 0] /\ s2 = s1
    /\ at = [x |-> 1, y |-> 1, sum |-> 0, sumsq |-> 0]
    /\ choice = Undecided

ServicesInit ==
    /\ part \in Part
    /\ HolderInit /\ BillingInit /\ CheckoutInit /\ DarajaInit /\ RowInit
    /\ ObjectsInit /\ WindowInit /\ SinkInit /\ BurstInit /\ LockInit
    /\ IF part = "pages" THEN PageInit ELSE OnePages
    /\ IF part = "groups" THEN GroupInit /\ hash[1] = {} /\ taken[1] = 0 ELSE OneGroups
    /\ IF part = "corner" THEN CornerInit ELSE OneCorner

RestBut(p) ==
    /\ UNCHANGED part
    /\ IF p = "leases" THEN TRUE ELSE UNCHANGED holderVars
    /\ IF p = "billing" THEN TRUE ELSE UNCHANGED billingVars
    /\ IF p = "checkout" THEN TRUE ELSE UNCHANGED checkoutVars
    /\ IF p = "daraja" THEN TRUE ELSE UNCHANGED darajaVars
    /\ IF p = "row" THEN TRUE ELSE UNCHANGED rowVars
    /\ IF p = "objects" THEN TRUE ELSE UNCHANGED objectVars
    /\ IF p = "window" THEN TRUE ELSE UNCHANGED windowVars
    /\ IF p = "sink" THEN TRUE ELSE UNCHANGED sinkVars
    /\ IF p = "pages" THEN TRUE ELSE UNCHANGED pageVars
    /\ IF p = "bursts" THEN TRUE ELSE UNCHANGED burstVars
    /\ IF p = "groups" THEN TRUE ELSE UNCHANGED groupVars
    /\ IF p = "corner" THEN TRUE ELSE UNCHANGED cornerVars
    /\ IF p = "locks" THEN TRUE ELSE UNCHANGED lockVars

ServicesNext ==
    \/ part = "leases" /\ HolderNext /\ RestBut("leases")
    \/ part = "billing" /\ BillingNext /\ RestBut("billing")
    \/ part = "checkout" /\ CheckoutNext /\ RestBut("checkout")
    \/ part = "daraja" /\ DarajaNext /\ RestBut("daraja")
    \/ part = "row" /\ RowNext /\ RestBut("row")
    \/ part = "objects" /\ ObjectsNext /\ RestBut("objects")
    \/ part = "window" /\ WindowNext /\ RestBut("window")
    \/ part = "sink" /\ SinkNext /\ RestBut("sink")
    \/ part = "pages" /\ PageNext /\ RestBut("pages")
    \/ part = "bursts" /\ BurstNext /\ RestBut("bursts")
    \/ part = "groups" /\ GroupNext /\ RestBut("groups")
    \/ part = "corner" /\ CornerNext /\ RestBut("corner")
    \/ part = "locks" /\ LockNext /\ RestBut("locks")

servicesVars ==
    <<part, holderVars, billingVars, checkoutVars, darajaVars, rowVars, objectVars,
      windowVars, sinkVars, pageVars, burstVars, groupVars, cornerVars, lockVars>>

ServicesSpec == ServicesInit /\ [][ServicesNext]_servicesVars

(* Every component keeps its types; one of two runs may be given a lease,   *)
(* a counter or a ledger below zero by a missing check.                     *)
ServicesTypeOK ==
    CASE part = "leases" -> HolderTypeOK [] part = "billing" -> BillingTypeOK
      [] part = "checkout" -> CheckoutTypeOK [] part = "daraja" -> DarajaTypeOK
      [] part = "row" -> RowTypeOK [] part = "objects" -> ObjectsTypeOK
      [] part = "window" -> WindowTypeOK [] part = "sink" -> SinkTypeOK
      [] part = "pages" -> PageTypeOK [] part = "bursts" -> BurstTypeOK
      [] part = "groups" -> GroupTypeOK [] part = "corner" -> CornerTypeOK
      [] part = "locks" -> LockTypeOK
=============================================================================
