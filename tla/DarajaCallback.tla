--------------------------- MODULE DarajaCallback ---------------------------
(***************************************************************************)
(* The M-Pesa callback (billing/daraja.py, billing/views.py): unsigned, and *)
(* let in by a secret that is used up under a row lock; the callback is     *)
(* then recorded by its request, result and secret.                         *)
(***************************************************************************)
EXTENDS Integers, FiniteSets

CONSTANTS
    Token,          \* secrets minted, one per payment request
    Result,         \* result codes a callback may bring
    Callback        \* concurrent callbacks

ASSUME DarajaAssumption == IsFiniteSet(Token) /\ IsFiniteSet(Callback)

VARIABLES
    token,      \* DarajaCallbackToken rows
    call,       \* callbacks at work: the token locked, then what they record
    recorded,   \* ProcessedWebhook keys
    accepted    \* history: callbacks answered "Accepted" for each token

darajaVars == <<token, call, recorded, accepted>>

NoCall == [pc |-> "none"]
Calls == {NoCall} \cup [pc : {"locked", "record"}, token : Token, result : Result]

DarajaTypeOK ==
    /\ token \in [Token -> {"none", "fresh", "expired", "used"}]
    /\ call \in [Callback -> Calls]
    /\ recorded \in SUBSET (Token \X Result)
    /\ accepted \in [Token -> Nat]

DarajaInit ==
    /\ token = [t \in Token |-> "none"]
    /\ call = [c \in Callback |-> NoCall]
    /\ recorded = {}
    /\ accepted = [t \in Token |-> 0]

Mint(t) ==
    /\ token[t] = "none"
    /\ token' = [token EXCEPT ![t] = "fresh"]
    /\ UNCHANGED <<call, recorded, accepted>>

TokenExpires(t) ==
    /\ token[t] = "fresh"
    /\ token' = [token EXCEPT ![t] = "expired"]
    /\ UNCHANGED <<call, recorded, accepted>>

(* Mutant: the row is read without FOR UPDATE.                              *)
RowFreeAlways(t) == TRUE

RowFree(t) == \A c \in Callback : call[c].pc = "locked" => call[c].token # t

(* A used or expired token is refused; nothing is written.                  *)
Consult(c, t, r) ==
    /\ call[c] = NoCall
    /\ token[t] = "fresh" /\ RowFree(t)
    /\ call' = [call EXCEPT ![c] = [pc |-> "locked", token |-> t, result |-> r]]
    /\ UNCHANGED <<token, recorded, accepted>>

(* used_at is committed before the callback is recorded.                    *)
UseUp(c) ==
    /\ call[c].pc = "locked"
    /\ token' = [token EXCEPT ![call[c].token] = "used"]
    /\ call' = [call EXCEPT ![c].pc = "record"]
    /\ UNCHANGED <<recorded, accepted>>

(* The first to record a result of a token is accepted, the others are told *)
(* that it was processed.                                                   *)
Record(c) ==
    LET key == <<call[c].token, call[c].result>>
    IN  /\ call[c].pc = "record"
        /\ recorded' = recorded \cup {key}
        /\ accepted' = IF key \in recorded THEN accepted
                       ELSE [accepted EXCEPT ![key[1]] = @ + 1]
        /\ call' = [call EXCEPT ![c] = NoCall]
        /\ UNCHANGED token

(* A locked row is released by the rollback; a token used up stays so, and  *)
(* the provider's next attempt is refused.                                  *)
CallbackDies(c) ==
    /\ call[c] # NoCall
    /\ call' = [call EXCEPT ![c] = NoCall]
    /\ UNCHANGED <<token, recorded, accepted>>

DarajaNext ==
    \/ \E t \in Token : Mint(t) \/ TokenExpires(t)
    \/ \E c \in Callback : \/ \E t \in Token, r \in Result : Consult(c, t, r)
                           \/ UseUp(c) \/ Record(c) \/ CallbackDies(c)

DarajaSpec == DarajaInit /\ [][DarajaNext]_darajaVars
-----------------------------------------------------------------------------
(* Whatever results callbacks with one secret bring, and however they       *)
(* overlap, at most one is accepted (daraja.py:33-53, views.py:111-125).    *)
DarajaOnce == \A t \in Token : accepted[t] <= 1
=============================================================================
