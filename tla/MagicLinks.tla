----------------------------- MODULE MagicLinks -----------------------------
(***************************************************************************)
(* Single-use links by which an allowlisted client enters one gallery       *)
(* (gallery/client_views.py, gallery/tasks.py): asked for, mailed, redeemed *)
(* under a row lock, and purged by two beat tasks.  One client address; the *)
(* links it has been given are numbered in order of creation.               *)
(***************************************************************************)
EXTENDS Integers, FiniteSets

CONSTANTS
    Link,           \* bound: links created, 1..n
    Asker,          \* concurrent requests for a link
    Redeemer,       \* concurrent requests to redeem one
    MaxLive         \* GALLERY_MAGIC_LINK_MAX_LIVE

ASSUME LinkAssumption ==
    /\ Link \subseteq Nat /\ IsFiniteSet(Link)
    /\ IsFiniteSet(Asker) /\ Asker # {} /\ IsFiniteSet(Redeemer)
    /\ MaxLive \in Nat

VARIABLES
    allowed,    \* the address is on the allowlist
    open,       \* the gallery is published and unexpired
    link,       \* GalleryMagicLink rows
    ask,        \* requests that counted the live links and may create one
    posted,     \* links whose mail task is queued, and those it has mailed
    redeem,     \* the link each redeeming request has locked
    session,    \* the access session a link was redeemed for
    opened      \* history: sessions created for each link

linkVars == <<allowed, open, link, ask, posted, redeem, session, opened>>

NoLink == 0

LinkTypeOK ==
    /\ allowed \in BOOLEAN /\ open \in BOOLEAN
    /\ link \in [Link -> {"none", "live", "lapsed", "gone"}]
    /\ ask \in SUBSET Asker
    /\ posted \in [queued : SUBSET Link, sent : SUBSET Link]
    /\ redeem \in [Redeemer -> Link \cup {NoLink}]
    /\ session \in [Link -> {"none", "open", "picked", "aged", "kept", "gone"}]
    /\ opened \in [Link -> Nat]

LinkInit ==
    /\ allowed = FALSE
    /\ open = TRUE
    /\ link = [l \in Link |-> "none"]
    /\ ask = {}
    /\ posted = [queued |-> {}, sent |-> {}]
    /\ redeem = [c \in Redeemer |-> NoLink]
    /\ session = [l \in Link |-> "none"]
    /\ opened = [l \in Link |-> 0]

Locked(l) == \E c \in Redeemer : redeem[c] = l
LiveLinks == {l \in Link : link[l] = "live"}
-----------------------------------------------------------------------------
(* The allowlist and the gallery, as their owner changes them.              *)

AllowClient ==
    /\ ~allowed
    /\ allowed' = TRUE
    /\ UNCHANGED <<open, link, ask, posted, redeem, session, opened>>

DisallowClient ==
    /\ allowed
    /\ allowed' = FALSE
    /\ UNCHANGED <<open, link, ask, posted, redeem, session, opened>>

OpenOrClose ==
    /\ open' = ~open
    /\ UNCHANGED <<allowed, link, ask, posted, redeem, session, opened>>

(* Rows past their time are deleted, except one that a redeemer has locked. *)
Swept == [l \in Link |-> IF link[l] = "lapsed" /\ ~Locked(l) THEN "gone" ELSE link[l]]

(* Mutant: the limit counts what was ever created today, one too many.      *)
MayAskOneMore == Cardinality(LiveLinks) <= MaxLive

(* Fewer than the limit are live at the moment of counting.                 *)
MayAsk == Cardinality(LiveLinks) < MaxLive

(* Unknown addresses get the same answer and nothing happens.               *)
AskForLink(q) ==
    /\ q \notin ask
    /\ open /\ allowed
    /\ link' = Swept
    /\ ask' = IF MayAsk THEN ask \cup {q} ELSE ask
    /\ UNCHANGED <<allowed, open, posted, redeem, session, opened>>

(* The row is created, then the mail task queued: no lock since the count.  *)
CreateLink(q) ==
    LET l == Cardinality({k \in Link : link[k] # "none"}) + 1
    IN  /\ q \in ask
        /\ l \in Link
        /\ link' = [link EXCEPT ![l] = "live"]
        /\ ask' = ask \ {q}
        /\ \/ posted' = [posted EXCEPT !.queued = @ \cup {l}]
           \/ UNCHANGED posted
        /\ UNCHANGED <<allowed, open, redeem, session, opened>>

(* acks_late: a worker lost after sending leaves the task queued.           *)
MailLink(l) ==
    /\ l \in posted.queued
    /\ \/ posted' = [queued |-> posted.queued \ {l}, sent |-> posted.sent \cup {l}]
       \/ posted' = [posted EXCEPT !.sent = @ \cup {l}]
    /\ UNCHANGED <<allowed, open, link, ask, redeem, session, opened>>

LinkLapses(l) ==
    /\ link[l] = "live"
    /\ link' = [link EXCEPT ![l] = "lapsed"]
    /\ UNCHANGED <<allowed, open, ask, posted, redeem, session, opened>>
-----------------------------------------------------------------------------
(* Redeeming.                                                               *)

(* Mutant: the row is read without SELECT ... FOR UPDATE.                   *)
RedeemUnlocked(c, l) ==
    /\ redeem[c] = NoLink
    /\ l \in posted.sent
    /\ link[l] \in {"live", "lapsed"}
    /\ redeem' = [redeem EXCEPT ![c] = l]
    /\ UNCHANGED <<allowed, open, link, ask, posted, session, opened>>

(* A second request for the same token waits here, then finds no row.       *)
Redeem(c, l) ==
    /\ redeem[c] = NoLink
    /\ l \in posted.sent
    /\ link[l] \in {"live", "lapsed"}
    /\ ~Locked(l)
    /\ redeem' = [redeem EXCEPT ![c] = l]
    /\ UNCHANGED <<allowed, open, link, ask, posted, session, opened>>

(* Only its expiry is looked at: a locked row is there.  The allowlist is   *)
(* not asked again: a session may be created for a client who was taken off *)
(* it, and is refused when it is used.                                      *)
Admit(c) ==
    LET l == redeem[c]
    IN  /\ l # NoLink
        /\ link[l] # "lapsed" /\ open
        /\ session' = [session EXCEPT ![l] = "open"]
        /\ opened' = [opened EXCEPT ![l] = @ + 1]
        /\ link' = [link EXCEPT ![l] = "gone"]
        /\ redeem' = [redeem EXCEPT ![c] = NoLink]
        /\ UNCHANGED <<allowed, open, ask, posted>>

(* An expired link, or one to a closed gallery, is used up all the same.    *)
TurnAway(c) ==
    LET l == redeem[c]
    IN  /\ l # NoLink
        /\ link[l] = "lapsed" \/ ~open
        /\ link' = [link EXCEPT ![l] = "gone"]
        /\ redeem' = [redeem EXCEPT ![c] = NoLink]
        /\ UNCHANGED <<allowed, open, ask, posted, session, opened>>

(* The transaction of a request that dies is rolled back.                   *)
RedeemDies(c) ==
    /\ redeem[c] # NoLink
    /\ redeem' = [redeem EXCEPT ![c] = NoLink]
    /\ UNCHANGED <<allowed, open, link, ask, posted, session, opened>>
-----------------------------------------------------------------------------
(* Sessions.                                                                *)

(* A client's token alone opens nothing: its session row must be there and  *)
(* its address still on the list.                                           *)
Served(l) == session[l] \in {"open", "picked"} /\ open /\ allowed

(* A session with a favorite is one the purge must keep.                    *)
PickFavorite(l) ==
    /\ Served(l)
    /\ session' = [session EXCEPT ![l] = "picked"]
    /\ UNCHANGED <<allowed, open, link, ask, posted, redeem, opened>>

UnpickFavorite(l) ==
    /\ Served(l)
    /\ session' = [session EXCEPT ![l] = "open"]
    /\ UNCHANGED <<allowed, open, link, ask, posted, redeem, opened>>

(* Thirty days on; tokens have died long before.                            *)
SessionAges(l) ==
    /\ session[l] \in {"open", "picked"}
    /\ session' = [session EXCEPT ![l] = IF @ = "open" THEN "aged" ELSE "kept"]
    /\ UNCHANGED <<allowed, open, link, ask, posted, redeem, opened>>

(* Expired links, whoever they were for, and sessions nothing refers to.    *)
PurgeAccess ==
    /\ link' = Swept
    /\ session' = [l \in Link |-> IF session[l] = "aged" THEN "gone" ELSE session[l]]
    /\ UNCHANGED <<allowed, open, ask, posted, redeem, opened>>

PurgeLinks ==
    /\ link' = Swept
    /\ UNCHANGED <<allowed, open, ask, posted, redeem, session, opened>>

LinkNext ==
    \/ AllowClient \/ DisallowClient \/ OpenOrClose \/ PurgeAccess \/ PurgeLinks
    \/ \E q \in Asker : AskForLink(q) \/ CreateLink(q)
    \/ \E c \in Redeemer : \/ \E l \in Link : Redeem(c, l)
                           \/ Admit(c) \/ TurnAway(c) \/ RedeemDies(c)
    \/ \E l \in Link : \/ MailLink(l) \/ LinkLapses(l) \/ PickFavorite(l)
                       \/ UnpickFavorite(l) \/ SessionAges(l)

LinkSpec == LinkInit /\ [][LinkNext]_linkVars
-----------------------------------------------------------------------------
(* Counting the live links and creating one are two statements: the limit   *)
(* is overrun by the requests that counted at the same time, and by no more *)
(* than those (client_views.py:134-149).                                    *)
LinkBound == Cardinality(LiveLinks) <= MaxLive + Cardinality(Asker) - 1

(* A link opens at most one session, however often and by however many      *)
(* requests at once its token is presented (client_views.py:179-186).       *)
ConsumeOnce == \A l \in Link : opened[l] <= 1
=============================================================================
