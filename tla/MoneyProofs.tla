---------------------------- MODULE MoneyProofs ----------------------------
(***************************************************************************)
(* Proofs about money: the subscription that webhooks move, the checkout    *)
(* lock, and the M-Pesa callback, for any number of requests and payloads.  *)
(***************************************************************************)
EXTENDS BillingWebhooks, Checkout, DarajaCallback, FiniteSetTheorems, TLAPS

-----------------------------------------------------------------------------
(* M-Pesa callbacks.                                                        *)

(* A callback that has locked a secret has it alone and unused; one that is *)
(* past using it up has it alone too, and nothing was accepted for it yet.  *)
SecretsHeldOnce ==
    /\ \A c \in Callback : call[c].pc = "locked" =>
          token[call[c].token] \in {"fresh", "expired"}
    /\ \A c \in Callback : call[c].pc = "record" =>
          token[call[c].token] = "used" /\ accepted[call[c].token] = 0
    /\ \A c, d \in Callback : c # d /\ call[c] # NoCall /\ call[d] # NoCall =>
          call[c].token # call[d].token
    /\ \A t \in Token : accepted[t] <= 1 /\ (token[t] # "used" => accepted[t] = 0)

DarajaInv == DarajaTypeOK /\ SecretsHeldOnce

(* What a callback has in hand.                                             *)
LEMMA CallShape ==
    ASSUME DarajaTypeOK, NEW c \in Callback, call[c] # NoCall
    PROVE  /\ call[c] \in [pc : {"locked", "record"}, token : Token, result : Result]
           /\ call[c].token \in Token
BY DEF DarajaTypeOK, Calls

(* Every step of a callback is well typed.                                  *)
LEMMA DarajaTyped == DarajaTypeOK /\ [DarajaNext]_darajaVars => DarajaTypeOK'
<1> SUFFICES ASSUME DarajaTypeOK, [DarajaNext]_darajaVars
             PROVE  DarajaTypeOK'
  OBVIOUS
<1>1. CASE UNCHANGED darajaVars
  BY <1>1 DEF darajaVars, DarajaTypeOK
<1>2. ASSUME NEW t \in Token, Mint(t) \/ TokenExpires(t)
      PROVE  DarajaTypeOK'
  BY <1>2 DEF Mint, TokenExpires, DarajaTypeOK
<1>3. ASSUME NEW c \in Callback, NEW t \in Token, NEW r \in Result, Consult(c, t, r)
      PROVE  DarajaTypeOK'
  BY <1>3 DEF Consult, DarajaTypeOK, Calls
<1>4. ASSUME NEW c \in Callback, UseUp(c)
      PROVE  DarajaTypeOK'
  <2>1. call[c] \in [pc : {"locked", "record"}, token : Token, result : Result]
    BY <1>4, CallShape DEF UseUp, NoCall
  <2>2. [call[c] EXCEPT !.pc = "record"] \in Calls
    BY <2>1 DEF Calls
  <2>3. call' \in [Callback -> Calls]
    BY <1>4, <2>2 DEF UseUp, DarajaTypeOK
  <2>4. token' \in [Token -> {"none", "fresh", "expired", "used"}]
    BY <1>4 DEF UseUp, DarajaTypeOK
  <2> QED
    BY <1>4, <2>3, <2>4 DEF UseUp, DarajaTypeOK
<1>5. ASSUME NEW c \in Callback, Record(c)
      PROVE  DarajaTypeOK'
  <2>1. call[c] \in [pc : {"locked", "record"}, token : Token, result : Result]
    BY <1>5, CallShape DEF Record, NoCall
  <2>2. call' \in [Callback -> Calls]
    BY <1>5 DEF Record, DarajaTypeOK, Calls
  <2>3. recorded' \in SUBSET (Token \X Result)
    BY <1>5, <2>1 DEF Record, DarajaTypeOK
  <2>4. accepted' \in [Token -> Nat]
    <3>1. accepted' = accepted \/ accepted' = [accepted EXCEPT ![call[c].token] = @ + 1]
      BY <1>5 DEF Record
    <3> QED
      BY <3>1 DEF DarajaTypeOK
  <2> QED
    BY <1>5, <2>2, <2>3, <2>4 DEF Record, DarajaTypeOK
<1>6. ASSUME NEW c \in Callback, CallbackDies(c)
      PROVE  DarajaTypeOK'
  BY <1>6 DEF CallbackDies, DarajaTypeOK, Calls
<1> QED
  BY <1>1, <1>2, <1>3, <1>4, <1>5, <1>6 DEF DarajaNext

(* Each secret stays in one callback's hands.                               *)
LEMMA SecretsStay == DarajaInv /\ [DarajaNext]_darajaVars => SecretsHeldOnce'
<1> SUFFICES ASSUME DarajaInv, [DarajaNext]_darajaVars
             PROVE  SecretsHeldOnce'
  OBVIOUS
<1> USE DEF DarajaInv
<1>1. CASE UNCHANGED darajaVars
  BY <1>1 DEF darajaVars, SecretsHeldOnce
<1>2. ASSUME NEW t \in Token, Mint(t) \/ TokenExpires(t)
      PROVE  SecretsHeldOnce'
  <2>1. \A c \in Callback : call[c].pc \in {"locked", "record"} => call[c].token \in Token
    BY CallShape DEF NoCall
  <2> QED
    BY <1>2, <2>1 DEF Mint, TokenExpires, DarajaTypeOK, SecretsHeldOnce
<1>3. ASSUME NEW c \in Callback, NEW t \in Token, NEW r \in Result, Consult(c, t, r)
      PROVE  SecretsHeldOnce'
  <2>1. \A d \in Callback : call[d] # NoCall => call[d].token # t
    <3> SUFFICES ASSUME NEW d \in Callback, call[d] # NoCall
                 PROVE  call[d].token # t
      OBVIOUS
    <3>1. call[d].pc = "locked" \/ call[d].pc = "record"
      BY CallShape
    <3> QED
      BY <1>3, <3>1 DEF Consult, RowFree, SecretsHeldOnce
  <2>2. \A d \in Callback : call'[d] = IF d = c
           THEN [pc |-> "locked", token |-> t, result |-> r] ELSE call[d]
    BY <1>3 DEF Consult, DarajaTypeOK
  <2>3. token' = token /\ accepted' = accepted /\ token[t] = "fresh"
    BY <1>3 DEF Consult
  <2> QED
    BY <2>1, <2>2, <2>3 DEF SecretsHeldOnce
<1>4. ASSUME NEW c \in Callback, UseUp(c)
      PROVE  SecretsHeldOnce'
  <2> DEFINE t == call[c].token
  <2>1. /\ call[c] \in [pc : {"locked", "record"}, token : Token, result : Result]
        /\ call[c] # NoCall /\ call[c].pc = "locked" /\ t \in Token
    BY <1>4, CallShape DEF UseUp, NoCall
  <2>2. /\ call'[c] # NoCall /\ call'[c].pc = "record" /\ call'[c].token = t
        /\ \A d \in Callback : d # c => call'[d] = call[d]
    BY <1>4, <2>1 DEF UseUp, DarajaTypeOK, NoCall
  <2>3. /\ token'[t] = "used" /\ accepted' = accepted /\ accepted[t] = 0
        /\ \A u \in Token : u # t => token'[u] = token[u]
    BY <1>4, <2>1 DEF UseUp, DarajaTypeOK, SecretsHeldOnce
  <2>4. \A d \in Callback : d # c /\ call[d] # NoCall => call[d].token # t /\ call[d].token \in Token
    BY <2>1, CallShape DEF SecretsHeldOnce
  <2>5. \A d \in Callback : call[d].pc \in {"locked", "record"} => call[d] # NoCall
    BY DEF NoCall
  <2> HIDE DEF t
  <2>6. \A d \in Callback : d # c /\ call[d].pc \in {"locked", "record"} =>
           token'[call[d].token] = token[call[d].token] /\ call[d].token # t
    BY <2>3, <2>4, <2>5
  <2> QED
    BY <2>1, <2>2, <2>3, <2>4, <2>6 DEF SecretsHeldOnce
<1>5. ASSUME NEW c \in Callback, Record(c)
      PROVE  SecretsHeldOnce'
  <2> DEFINE t == call[c].token
  <2>1. call[c] # NoCall /\ call[c].pc = "record" /\ t \in Token
    BY <1>5, CallShape DEF Record, NoCall
  <2>2. \A d \in Callback : call'[d] = IF d = c THEN NoCall ELSE call[d]
    BY <1>5 DEF Record, DarajaTypeOK
  <2>3. token[t] = "used" /\ accepted[t] = 0 /\ token' = token
    BY <1>5, <2>1 DEF Record, SecretsHeldOnce
  <2>4. accepted' = accepted \/ accepted' = [accepted EXCEPT ![t] = @ + 1]
    BY <1>5 DEF Record
  <2>5. accepted'[t] <= 1 /\ \A u \in Token : u # t => accepted'[u] = accepted[u]
    BY <2>1, <2>3, <2>4 DEF DarajaTypeOK
  <2>6. \A d \in Callback : d # c /\ call[d] # NoCall => call[d].token # t /\ call[d].token \in Token
    BY <2>1, CallShape DEF SecretsHeldOnce
  <2>7. \A d \in Callback : call'[d].pc \in {"locked", "record"} => d # c /\ call[d] # NoCall
    BY <2>2 DEF NoCall
  <2> HIDE DEF t
  <2> QED
    BY <2>2, <2>3, <2>5, <2>6, <2>7 DEF SecretsHeldOnce
<1>6. ASSUME NEW c \in Callback, CallbackDies(c)
      PROVE  SecretsHeldOnce'
  <2>1. \A d \in Callback : call'[d] = IF d = c THEN NoCall ELSE call[d]
    BY <1>6 DEF CallbackDies, DarajaTypeOK
  <2> QED
    BY <1>6, <2>1 DEF CallbackDies, SecretsHeldOnce, NoCall
<1> QED
  BY <1>1, <1>2, <1>3, <1>4, <1>5, <1>6 DEF DarajaNext

(* Every reachable state of the callbacks is in order.                      *)
THEOREM DarajaInvariant == DarajaSpec => []DarajaInv
<1>1. DarajaInit => DarajaInv
  BY DEF DarajaInit, DarajaInv, DarajaTypeOK, SecretsHeldOnce, Calls, NoCall
<1>2. DarajaInv /\ [DarajaNext]_darajaVars => DarajaInv'
  BY DarajaTyped, SecretsStay DEF DarajaInv
<1> QED
  BY <1>1, <1>2, PTL DEF DarajaSpec

(* However callbacks with one secret overlap, one at most is accepted.      *)
THEOREM SecretAcceptedOnce == DarajaSpec => []DarajaOnce
<1>1. DarajaInv => DarajaOnce
  BY DEF DarajaInv, SecretsHeldOnce, DarajaOnce
<1> QED
  BY <1>1, DarajaInvariant, PTL
-----------------------------------------------------------------------------
(* Checkout sessions.                                                       *)

(* A link was answered for a session row that was there first.              *)
LinksHaveRows == links + Cardinality(inside) <= pending

CheckoutInv == CheckoutTypeOK /\ CheckoutsBounded /\ LinksHaveRows

(* The requests inside are finitely many.                                   *)
LEMMA InsideCounts ==
    ASSUME CheckoutTypeOK
    PROVE  /\ IsFiniteSet(inside) /\ Cardinality(inside) \in Nat
           /\ links \in Nat /\ pending \in Nat /\ overruns \in Nat
BY CheckoutAssumption, FS_Subset, FS_CardinalityType DEF CheckoutTypeOK

(* Every step of a checkout is well typed, and of what is inside, rows,     *)
(* links, expiries and the lock, none runs away from the others.            *)
LEMMA CheckoutStays == CheckoutInv /\ [CheckoutNext]_checkoutVars => CheckoutInv'
<1> SUFFICES ASSUME CheckoutInv, [CheckoutNext]_checkoutVars
             PROVE  CheckoutInv'
  OBVIOUS
<1> USE DEF CheckoutInv
<1>1. /\ IsFiniteSet(inside) /\ Cardinality(inside) \in Nat
      /\ links \in Nat /\ pending \in Nat /\ overruns \in Nat
  BY InsideCounts
<1>2. ASSUME UNCHANGED <<lock, inside, pending, links, overruns>>,
             checked' \in SUBSET Buyer, pro' \in BOOLEAN
      PROVE  CheckoutInv'
  BY <1>2 DEF CheckoutTypeOK, CheckoutsBounded, LinksHaveRows
<1>3. ASSUME NEW b \in Buyer, CheckSubscription(b) \/ LeaveLocked(b)
      PROVE  CheckoutInv'
  BY <1>2, <1>3 DEF CheckSubscription, LeaveLocked, CheckoutTypeOK
<1>4. ASSUME NEW b \in Buyer, Enter(b)
      PROVE  CheckoutInv'
  <2>1. Cardinality(inside') \in Nat /\ Cardinality(inside') <= Cardinality(inside) + 1
    <3>1. inside' = inside \cup {b}
      BY <1>4 DEF Enter
    <3>2. /\ IsFiniteSet(inside')
          /\ Cardinality(inside') = Cardinality(inside) \/ Cardinality(inside') = Cardinality(inside) + 1
      BY <1>1, <3>1, FS_AddElement
    <3> QED
      BY <1>1, <3>2, FS_CardinalityType
  <2>2. Cardinality(inside) <= overruns
    <3>1. ~lock
      BY <1>4 DEF Enter
    <3> QED
      BY <1>1, <3>1 DEF CheckoutsBounded
  <2>3. CheckoutTypeOK'
    BY <1>1, <1>4, CheckoutAssumption DEF Enter, CheckoutTypeOK
  <2>4. CheckoutsBounded'
    BY <1>1, <1>4, <2>1, <2>2 DEF Enter, CheckoutsBounded
  <2>5. LinksHaveRows'
    BY <1>1, <1>4, <2>1 DEF Enter, LinksHaveRows
  <2> QED
    BY <2>3, <2>4, <2>5
<1>5. ASSUME NEW b \in Buyer, Leave(b) \/ BuyerDies(b)
      PROVE  CheckoutInv'
  <2>1. /\ inside' = inside \ {b} /\ b \in inside
        /\ Cardinality(inside') = Cardinality(inside) - 1 /\ Cardinality(inside') \in Nat
    <3>1. inside' = inside \ {b} /\ b \in inside
      BY <1>5 DEF Leave, BuyerDies
    <3>2. IsFiniteSet(inside') /\ Cardinality(inside') = Cardinality(inside) - 1
      BY <1>1, <3>1, FS_RemoveElement
    <3> QED
      BY <3>1, <3>2, FS_CardinalityType
  <2>2. IF inside' = {} THEN overruns' = 0 ELSE overruns' = overruns
    BY <1>5 DEF Leave, BuyerDies, Overrun
  <2>3. /\ pending' = pending /\ checked' = checked /\ pro' = pro
        /\ links' = links + 1 \/ links' = links
        /\ lock' = lock \/ lock' = FALSE
    BY <1>5 DEF Leave, BuyerDies
  <2>4. LinksHaveRows' /\ links' \in Nat
    BY <1>1, <2>1, <2>3 DEF LinksHaveRows
  <2>5. CheckoutTypeOK'
    <3>1. links' \in 0..pending'
      BY <1>1, <2>1, <2>3, <2>4 DEF LinksHaveRows
    <3>2. inside' \in SUBSET Buyer /\ overruns' \in 0..MaxOverruns
      BY <2>1, <2>2, CheckoutAssumption DEF CheckoutTypeOK
    <3> QED
      BY <2>3, <3>1, <3>2 DEF CheckoutTypeOK
  <2>6. CheckoutsBounded'
    <3>1. CASE inside' = {}
      BY <2>2, <3>1, FS_EmptySet DEF CheckoutsBounded
    <3>2. CASE inside' # {}
      BY <1>1, <2>1, <2>2, <3>2 DEF CheckoutsBounded
    <3> QED
      BY <3>1, <3>2
  <2> QED
    BY <2>4, <2>5, <2>6
<1>6. CASE LockExpires
  <2>1. /\ lock /\ ~lock' /\ UNCHANGED <<pro, checked, inside, pending, links>>
        /\ overruns' = IF inside = {} THEN 0 ELSE overruns + 1
        /\ overruns < MaxOverruns
    BY <1>6 DEF LockExpires, Overrun
  <2>2. lock' \in BOOLEAN
    BY <1>6 DEF LockExpires
  <2>3. CheckoutTypeOK'
    BY <1>1, <2>1, <2>2, CheckoutAssumption DEF CheckoutTypeOK
  <2>4. CheckoutsBounded'
    BY <1>1, <2>1, FS_EmptySet DEF CheckoutsBounded
  <2> QED
    BY <2>1, <2>3, <2>4 DEF LinksHaveRows
<1>7. CASE Subscribe
  BY <1>2, <1>7 DEF Subscribe, CheckoutTypeOK
<1>8. CASE UNCHANGED checkoutVars
  BY <1>2, <1>8 DEF checkoutVars, CheckoutTypeOK
<1> QED
  BY <1>3, <1>4, <1>5, <1>6, <1>7, <1>8 DEF CheckoutNext

(* Every reachable state of the checkout is in order.                       *)
THEOREM CheckoutInvariant == CheckoutSpec => []CheckoutInv
<1>1. CheckoutInit => CheckoutInv
  <2>1. Cardinality({}) = 0
    BY FS_EmptySet
  <2>2. CheckoutInit => CheckoutTypeOK
    <3>1. 0 \in 0..MaxSessions /\ 0 \in 0..MaxOverruns /\ 0 \in 0..0
      BY CheckoutAssumption
    <3> QED
      BY <3>1 DEF CheckoutInit, CheckoutTypeOK
  <2>3. ASSUME CheckoutInit
        PROVE  /\ inside = {} /\ lock = FALSE
               /\ links = 0 /\ pending = 0 /\ overruns = 0
    BY <2>3 DEF CheckoutInit
  <2>4. CheckoutInit => CheckoutsBounded /\ LinksHaveRows
    BY <2>1, <2>3 DEF CheckoutsBounded, LinksHaveRows
  <2> QED
    BY <2>2, <2>4 DEF CheckoutInv
<1>2. CheckoutInv /\ [CheckoutNext]_checkoutVars => CheckoutInv'
  BY CheckoutStays
<1> QED
  BY <1>1, <1>2, PTL DEF CheckoutSpec

(* Every expiry of the lock lets in one more request and no more, although  *)
(* each deletes on leaving what may be the lock of the next.                *)
THEOREM DoubleTapsBounded == CheckoutSpec => []CheckoutsBounded
<1>1. CheckoutInv => CheckoutsBounded
  BY DEF CheckoutInv
<1> QED
  BY <1>1, CheckoutInvariant, PTL
-----------------------------------------------------------------------------
(* Subscriptions.                                                           *)

(* A payload that pays, and one that ends the subscription.                 *)
Pays(e) == sent[e].kind = "created" \/ (sent[e].kind = "updated" /\ sent[e].paid)
Ends(e) == sent[e].kind = "cancelled"

(* What pays names a plan; a queued delivery is one of a payload sent.      *)
PayloadsSound ==
    /\ \A e \in 1..Len(sent) : Pays(e) => sent[e].plan \in Plan
    /\ \A d \in Delivery : task[d] # Unsent => d[1] <= Len(sent)
    /\ story.handled \subseteq 1..Len(sent)

(* Effects are counted against the ledger of replays and its prunings.      *)
LedgerCounts ==
    \A e \in Event : applied[e] <= story.prunes + (IF e \in seen THEN 1 ELSE 0)

(* What the provider knows is what it last sent.                            *)
ProviderSent ==
    \A s \in Session :
        /\ provider[s] = "none" => \A e \in 1..Len(sent) : sent[e].of # s
        /\ (provider[s] = "active") =
              \E e \in 1..Len(sent) :
                  /\ sent[e].of = s /\ Pays(e)
                  /\ \A f \in e..Len(sent) : sent[f].of = s => ~Ends(f)

(* A session is created once and completed by the payload that says so.     *)
CreatedOnce ==
    /\ \A e, f \in 1..Len(sent) :
          /\ sent[e].kind = "created" /\ sent[f].kind = "created"
          /\ sent[e].of = sent[f].of
          => e = f
    /\ \A e \in 1..Len(sent) :
          sent[e].kind = "created" /\ session[sent[e].of] = "COMPLETED" => e \in story.handled

(* Without overtaking, the subscription is what the payloads handled say.   *)
InOrder ==
    ~story.overtaken =>
        ((sub.plan # 0) = \E e \in story.handled :
                              Pays(e) /\ \A f \in story.handled : f > e => ~Ends(f))

BillingInv ==
    /\ BillingTypeOK /\ PayloadsSound /\ BooksAgree /\ LedgerCounts
    /\ ProviderSent /\ CreatedOnce /\ InOrder

(* What sending a payload does to the list of those sent.                   *)
LEMMA SendFacts ==
    ASSUME BillingTypeOK, NEW kind \in {"created", "updated", "cancelled", "failed"},
           NEW s \in Session, NEW plan \in Plan \cup {0}, NEW paid \in BOOLEAN,
           Send(kind, s, plan, paid)
    PROVE  /\ sent' \in Seq(Payload)
           /\ Len(sent) \in Nat /\ Len(sent') = Len(sent) + 1 /\ Len(sent') <= MaxEvents
           /\ \A e \in 1..Len(sent) : sent'[e] = sent[e]
           /\ sent'[Len(sent) + 1] = [kind |-> kind, of |-> s, plan |-> plan, paid |-> paid]
<1> DEFINE p == [kind |-> kind, of |-> s, plan |-> plan, paid |-> paid]
<1>1. p \in Payload
  BY DEF Payload
<1>2. sent' = Append(sent, p) /\ Len(sent) < MaxEvents
  BY DEF Send
<1>3. sent \in Seq(Payload) /\ Len(sent) \in Nat /\ MaxEvents \in Nat
  BY BillingAssumption DEF BillingTypeOK
<1> HIDE DEF p
<1>4. /\ sent' \in Seq(Payload) /\ Len(sent') = Len(sent) + 1
      /\ \A e \in 1..Len(sent) : sent'[e] = sent[e]
      /\ sent'[Len(sent) + 1] = p
  BY <1>1, <1>2, <1>3
<1> QED
  BY <1>2, <1>3, <1>4 DEF p

(* The payload a delivery brings was sent.                                  *)
LEMMA DeliveryFacts ==
    ASSUME BillingTypeOK, PayloadsSound, NEW d \in Delivery, Queued(d)
    PROVE  /\ d[1] \in Event /\ d[1] \in 1..Len(sent) /\ sent[d[1]] \in Payload
           /\ [task EXCEPT ![d] = Done] \in [Delivery -> {Unsent, Done} \cup 0..MaxRetries]
<1>1. d[1] \in Event /\ d[1] \in Nat /\ Len(sent) \in Nat
  BY BillingAssumption DEF Delivery, Event, BillingTypeOK
<1>2. task[d] # Unsent
  BY DEF Queued, Unsent
<1>3. d[1] \in 1..Len(sent)
  BY <1>1, <1>2 DEF PayloadsSound, Event
<1> QED
  BY <1>1, <1>3 DEF BillingTypeOK

(* The history a step may write.                                            *)
StoryType ==
    [prunes : 0..MaxPrunes, faults : 0..MaxFaults, lost : SUBSET Event,
     exhausted : SUBSET Event, handled : SUBSET Event, overtaken : BOOLEAN]

(* The provider's steps are well typed, and the books are left alone.       *)
LEMMA ProviderSteps ==
    ASSUME BillingInv, NEW m \in Nat, m = Len(sent) + 1, NEW s \in Session,
           Pay(s) \/ Renew(s) \/ Lapse(s) \/ Cancel(s)
    PROVE  /\ UNCHANGED <<task, session, sub, user, workspace, audit, seen, applied, dlq, story>>
           /\ sent' \in Seq(Payload)
           /\ Len(sent) \in Nat /\ Len(sent') = m /\ m <= MaxEvents
           /\ \A e \in 1..Len(sent) : sent'[e] = sent[e]
           /\ sent'[m].of = s
           /\ Pays(m)' => sent'[m].plan \in Plan
           /\ provider' \in [Session -> {"none", "active", "cancelled"}]
           /\ \A t \in Session : t # s => provider'[t] = provider[t]
           /\ \/ provider'[s] = "active" /\ Pays(m)'
              \/ /\ provider[s] = "active" /\ provider'[s] = "active"
                 /\ ~Pays(m)' /\ ~Ends(m)'
              \/ provider'[s] = "cancelled" /\ ~Pays(m)' /\ Ends(m)'
           /\ sent'[m].kind = "created" =>
                 provider[s] = "none" /\ session[s] = "PENDING"
<1> USE DEF BillingInv
<1>1. provider \in [Session -> {"none", "active", "cancelled"}]
  BY DEF BillingTypeOK
<1>2. CASE Pay(s)
  <2>1. PICK p \in Plan : Send("created", s, p, TRUE)
    BY <1>2 DEF Pay
  <2>2. sent'[m] = [kind |-> "created", of |-> s, plan |-> p, paid |-> TRUE]
    BY <2>1, SendFacts
  <2>3. /\ sent' \in Seq(Payload)
        /\ Len(sent) \in Nat /\ Len(sent') = m /\ m <= MaxEvents
        /\ \A e \in 1..Len(sent) : sent'[e] = sent[e]
    BY <2>1, SendFacts
  <2>4. UNCHANGED <<task, session, sub, user, workspace, audit, seen, applied, dlq, story>>
    BY <1>2, <2>1 DEF Pay, Send
  <2>5. /\ provider' \in [Session -> {"none", "active", "cancelled"}]
        /\ \A t \in Session : t # s => provider'[t] = provider[t]
        /\ provider[s] = "none" /\ session[s] = "PENDING" /\ provider'[s] = "active"
    BY <1>1, <1>2 DEF Pay
  <2> QED
    BY <2>2, <2>3, <2>4, <2>5 DEF Pays, Ends
<1>3. CASE Renew(s)
  <2>1. PICK p \in Plan : Send("updated", s, p, TRUE)
    BY <1>3 DEF Renew
  <2>2. sent'[m] = [kind |-> "updated", of |-> s, plan |-> p, paid |-> TRUE]
    BY <2>1, SendFacts
  <2>3. /\ sent' \in Seq(Payload)
        /\ Len(sent) \in Nat /\ Len(sent') = m /\ m <= MaxEvents
        /\ \A e \in 1..Len(sent) : sent'[e] = sent[e]
    BY <2>1, SendFacts
  <2>4. UNCHANGED <<task, session, sub, user, workspace, audit, seen, applied, dlq, story>>
    BY <1>3, <2>1 DEF Renew, Send
  <2>5. /\ provider' \in [Session -> {"none", "active", "cancelled"}]
        /\ \A t \in Session : t # s => provider'[t] = provider[t]
        /\ provider'[s] = "active"
    BY <1>1, <1>3 DEF Renew
  <2> QED
    BY <2>2, <2>3, <2>4, <2>5 DEF Pays, Ends
<1>4. CASE Lapse(s)
  <2>1. PICK kind \in {"updated", "failed"} : Send(kind, s, 0, FALSE)
    BY <1>4 DEF Lapse
  <2>2. sent'[m] = [kind |-> kind, of |-> s, plan |-> 0, paid |-> FALSE]
    BY <2>1, SendFacts
  <2>3. /\ sent' \in Seq(Payload)
        /\ Len(sent) \in Nat /\ Len(sent') = m /\ m <= MaxEvents
        /\ \A e \in 1..Len(sent) : sent'[e] = sent[e]
    BY <2>1, SendFacts
  <2>4. UNCHANGED <<task, session, sub, user, workspace, audit, seen, applied, dlq, story>>
    BY <1>4, <2>1 DEF Lapse, Send
  <2>5. /\ provider' \in [Session -> {"none", "active", "cancelled"}]
        /\ \A t \in Session : t # s => provider'[t] = provider[t]
        /\ provider[s] = "active" /\ provider'[s] = "active"
    BY <1>1, <1>4 DEF Lapse
  <2> QED
    BY <2>2, <2>3, <2>4, <2>5 DEF Pays, Ends
<1>5. CASE Cancel(s)
  <2>1. Send("cancelled", s, 0, FALSE)
    BY <1>5 DEF Cancel
  <2>2. sent'[m] = [kind |-> "cancelled", of |-> s, plan |-> 0, paid |-> FALSE]
    BY <2>1, SendFacts
  <2>3. /\ sent' \in Seq(Payload)
        /\ Len(sent) \in Nat /\ Len(sent') = m /\ m <= MaxEvents
        /\ \A e \in 1..Len(sent) : sent'[e] = sent[e]
    BY <2>1, SendFacts
  <2>4. UNCHANGED <<task, session, sub, user, workspace, audit, seen, applied, dlq, story>>
    BY <1>5, <2>1 DEF Cancel, Send
  <2>5. /\ provider' \in [Session -> {"none", "active", "cancelled"}]
        /\ \A t \in Session : t # s => provider'[t] = provider[t]
        /\ provider'[s] = "cancelled"
    BY <1>1, <1>5 DEF Cancel
  <2> QED
    BY <2>2, <2>3, <2>4, <2>5 DEF Pays, Ends
<1> QED
  BY <1>2, <1>3, <1>4, <1>5

(* They keep everything in order.                                           *)
LEMMA SendingKeepsBooks ==
    ASSUME BillingInv, NEW s \in Session, Pay(s) \/ Renew(s) \/ Lapse(s) \/ Cancel(s)
    PROVE  BillingInv'
<1> USE DEF BillingInv
<1>0. Len(sent) \in Nat
  BY DEF BillingTypeOK
<1> PICK m \in Nat : m = Len(sent) + 1
  BY <1>0
<1>1. /\ Len(sent) \in Nat /\ Len(sent') = m /\ 1..m = (1..Len(sent)) \cup {m}
      /\ \A e \in 1..Len(sent) : e # m /\ e < m
  BY ProviderSteps
<1>2. \A e \in 1..Len(sent) : sent'[e] = sent[e] /\ Pays(e)' = Pays(e) /\ Ends(e)' = Ends(e)
  BY ProviderSteps DEF Pays, Ends
<1>3. BillingTypeOK'
  BY ProviderSteps DEF BillingTypeOK
<1>4. PayloadsSound'
  <2>1. \A e \in 1..m : Pays(e)' => sent'[e].plan \in Plan
    BY <1>1, <1>2, ProviderSteps DEF PayloadsSound
  <2>2. \A d \in Delivery : task'[d] # Unsent => d[1] <= m
    <3>1. \A d \in Delivery : d[1] \in Nat
      BY BillingAssumption DEF Delivery, Event
    <3> QED
      BY <1>1, <3>1, ProviderSteps DEF PayloadsSound
  <2>3. story'.handled \subseteq 1..m
    BY <1>1, ProviderSteps DEF PayloadsSound
  <2> QED
    BY <1>1, <2>1, <2>2, <2>3 DEF PayloadsSound
<1>5. BooksAgree' /\ LedgerCounts'
  BY ProviderSteps DEF BooksAgree, LedgerCounts
<1>6. ProviderSent'
  <2> SUFFICES ASSUME NEW t \in Session
               PROVE  /\ provider'[t] = "none" => \A e \in 1..m : sent'[e].of # t
                      /\ (provider'[t] = "active") =
                            \E e \in 1..m :
                                /\ sent'[e].of = t /\ Pays(e)'
                                /\ \A f \in e..m : sent'[f].of = t => ~Ends(f)'
    BY <1>1 DEF ProviderSent
  <2>1. /\ provider[t] = "none" => \A e \in 1..Len(sent) : sent[e].of # t
        /\ (provider[t] = "active") =
              \E e \in 1..Len(sent) :
                  /\ sent[e].of = t /\ Pays(e)
                  /\ \A f \in e..Len(sent) : sent[f].of = t => ~Ends(f)
    BY DEF ProviderSent
  <2>2. ASSUME sent'[m].of # t \/ ~Ends(m)'
        PROVE  (\E e \in 1..Len(sent) : /\ sent'[e].of = t /\ Pays(e)'
                                        /\ \A f \in e..m : sent'[f].of = t => ~Ends(f)')
             = (\E e \in 1..Len(sent) : /\ sent[e].of = t /\ Pays(e)
                                        /\ \A f \in e..Len(sent) : sent[f].of = t => ~Ends(f))
    <3>1. \A e \in 1..Len(sent) : e..m = (e..Len(sent)) \cup {m} /\ e..Len(sent) \subseteq 1..Len(sent)
      BY <1>1
    <3>2. \A e \in 1..Len(sent) :
             (\A f \in e..m : sent'[f].of = t => ~Ends(f)')
             = (\A f \in e..Len(sent) : sent[f].of = t => ~Ends(f))
      BY <1>2, <2>2, <3>1
    <3> QED
      BY <1>2, <3>2
  <2>3. CASE t # s
    <3>1. sent'[m].of # t /\ provider'[t] = provider[t]
      BY <2>3, ProviderSteps
    <3> QED
      BY <1>1, <1>2, <2>1, <2>2, <3>1
  <2>4. CASE t = s
    <3>1. sent'[m].of = t
      BY <2>4, ProviderSteps
    <3>2. CASE provider'[s] = "active" /\ Pays(m)'
      <4>1. m..m = {m} /\ m \in 1..m
        BY <1>1
      <4>2. ~Ends(m)'
        BY <3>2 DEF Pays, Ends
      <4> QED
        BY <2>4, <3>1, <3>2, <4>1, <4>2
    <3>3. CASE provider[s] = "active" /\ provider'[s] = "active" /\ ~Pays(m)' /\ ~Ends(m)'
      BY <1>1, <2>1, <2>2, <2>4, <3>3
    <3>4. CASE provider'[s] = "cancelled" /\ ~Pays(m)' /\ Ends(m)'
      <4>1. \A e \in 1..m : m \in e..m
        BY <1>1
      <4> QED
        BY <2>4, <3>1, <3>4, <4>1
    <3> QED
      BY <3>2, <3>3, <3>4, ProviderSteps
  <2> QED
    BY <2>3, <2>4
<1>7. CreatedOnce'
  <2>1. /\ sent'[m].of = s /\ session' = session /\ story' = story
        /\ sent'[m].kind = "created" => provider[s] = "none" /\ session[s] = "PENDING"
    BY ProviderSteps
  <2>2. provider[s] = "none" => \A e \in 1..Len(sent) : sent'[e].of # s
    <3>1. provider[s] = "none" => \A e \in 1..Len(sent) : sent[e].of # s
      BY DEF ProviderSent
    <3>2. \A e \in 1..Len(sent) : sent'[e] = sent[e]
      BY <1>2
    <3> QED
      BY <3>1, <3>2
  <2>3. ASSUME NEW e \in 1..m, NEW f \in 1..m, sent'[e].kind = "created",
               sent'[f].kind = "created", sent'[e].of = sent'[f].of
        PROVE  e = f
    <3>1. CASE e = m \/ f = m
      <4>1. sent'[e].of = s /\ sent'[f].of = s /\ provider[s] = "none"
        BY <2>1, <2>3, <3>1
      <4>2. e \notin 1..Len(sent) /\ f \notin 1..Len(sent)
        BY <2>2, <4>1
      <4> QED
        BY <1>1, <4>2
    <3>2. CASE e # m /\ f # m
      <4>1. e \in 1..Len(sent) /\ f \in 1..Len(sent)
        BY <1>1, <3>2
      <4> QED
        BY <1>2, <2>3, <4>1 DEF CreatedOnce
    <3> QED
      BY <3>1, <3>2
  <2>4. ASSUME NEW e \in 1..m, sent'[e].kind = "created", session'[sent'[e].of] = "COMPLETED"
        PROVE  e \in story'.handled
    <3>1. e # m
      BY <2>1, <2>4
    <3>2. e \in 1..Len(sent)
      BY <1>1, <3>1
    <3> QED
      BY <1>2, <2>1, <2>4, <3>2 DEF CreatedOnce
  <2> QED
    BY <1>1, <2>3, <2>4 DEF CreatedOnce
<1>8. InOrder'
  <2>1. story' = story /\ sub' = sub /\ story.handled \subseteq 1..Len(sent)
    BY ProviderSteps DEF PayloadsSound
  <2>2. \A e \in story.handled : (Pays(e)' <=> Pays(e)) /\ (Ends(e)' <=> Ends(e))
    BY <1>2, <2>1
  <2>3. (\E e \in story.handled : Pays(e)' /\ \A f \in story.handled : f > e => ~Ends(f)')
        <=> \E e \in story.handled : Pays(e) /\ \A f \in story.handled : f > e => ~Ends(f)
    BY <2>2
  <2> QED
    BY <2>1, <2>3 DEF InOrder
<1> QED
  BY <1>3, <1>4, <1>5, <1>6, <1>7, <1>8

(* What was sent is of a session.                                           *)
LEMMA SentTyped ==
    ASSUME BillingTypeOK
    PROVE  \A e \in 1..Len(sent) : sent[e] \in Payload /\ sent[e].of \in Session
<1>1. sent \in Seq(Payload)
  BY DEF BillingTypeOK
<1>2. \A e \in 1..Len(sent) : sent[e] \in Payload
  BY <1>1
<1> QED
  BY <1>2 DEF Payload

(* What the payloads handled say stays if they do.                          *)
LEMMA SettledSame ==
    ASSUME InOrder, UNCHANGED <<sent, sub>>,
           story'.handled = story.handled, story'.overtaken = story.overtaken
    PROVE  InOrder'
<1>1. \A e : (Pays(e)' <=> Pays(e)) /\ (Ends(e)' <=> Ends(e))
  BY DEF Pays, Ends
<1>2. (\E e \in story'.handled : Pays(e)' /\ \A f \in story'.handled : f > e => ~Ends(f)')
      <=> \E e \in story.handled : Pays(e) /\ \A f \in story.handled : f > e => ~Ends(f)
  BY <1>1
<1> QED
  BY <1>2 DEF InOrder

(* What the provider knows and has sent stays related if it stays.          *)
LEMMA ProviderSame ==
    ASSUME ProviderSent, UNCHANGED <<provider, sent>>
    PROVE  ProviderSent'
<1> SUFFICES ASSUME NEW t \in Session
             PROVE  /\ provider'[t] = "none" => \A e \in 1..Len(sent') : sent'[e].of # t
                    /\ (provider'[t] = "active") =
                          \E e \in 1..Len(sent') :
                              /\ sent'[e].of = t /\ Pays(e)'
                              /\ \A f \in e..Len(sent') : sent'[f].of = t => ~Ends(f)'
  BY DEF ProviderSent
<1>1. /\ provider[t] = "none" => \A e \in 1..Len(sent) : sent[e].of # t
      /\ (provider[t] = "active") =
            \E e \in 1..Len(sent) :
                /\ sent[e].of = t /\ Pays(e)
                /\ \A f \in e..Len(sent) : sent[f].of = t => ~Ends(f)
  BY DEF ProviderSent
<1>2. \A e : (Pays(e)' <=> Pays(e)) /\ (Ends(e)' <=> Ends(e))
  BY DEF Pays, Ends
<1>3. (\E e \in 1..Len(sent') : /\ sent'[e].of = t /\ Pays(e)'
                                /\ \A f \in e..Len(sent') : sent'[f].of = t => ~Ends(f)')
      <=> \E e \in 1..Len(sent) : /\ sent[e].of = t /\ Pays(e)
                                  /\ \A f \in e..Len(sent) : sent[f].of = t => ~Ends(f)
  BY <1>2
<1> QED
  BY <1>1, <1>3

(* What relates payloads, provider and history stays if these do.           *)
LEMMA HistoryKept ==
    ASSUME ProviderSent, CreatedOnce, InOrder,
           UNCHANGED <<provider, sent, session, sub>>,
           story'.handled = story.handled, story'.overtaken = story.overtaken
    PROVE  ProviderSent' /\ CreatedOnce' /\ InOrder'
<1>1. ProviderSent'
  BY ProviderSame
<1>2. CreatedOnce'
  BY DEF CreatedOnce
<1>3. InOrder'
  BY SettledSame
<1> QED
  BY <1>1, <1>2, <1>3

(* Steps that write neither the books nor the list of payloads.             *)
LEMMA IdlingKeepsBooks ==
    ASSUME BillingInv,
           UNCHANGED <<provider, sent, session, sub, user, workspace, audit, applied>>,
           \/ /\ task' \in [Delivery -> {Unsent, Done} \cup 0..MaxRetries]
              /\ \A d \in Delivery : task'[d] # Unsent => task[d] # Unsent \/ d[1] <= Len(sent)
              /\ UNCHANGED seen /\ story'.prunes = story.prunes
           \/ UNCHANGED task /\ seen' = {} /\ story'.prunes = story.prunes + 1,
           dlq' \in SUBSET Event, story' \in StoryType,
           story'.handled = story.handled /\ story'.overtaken = story.overtaken
    PROVE  BillingInv'
<1> USE DEF BillingInv
<1>1. BillingTypeOK'
  BY DEF BillingTypeOK, StoryType
<1>2. PayloadsSound'
  BY DEF PayloadsSound, Pays
<1>3. BooksAgree'
  BY DEF BooksAgree
<1>4. LedgerCounts'
  <2>1. story.prunes \in Nat /\ story'.prunes \in Nat /\ \A e \in Event : applied[e] \in Nat
    BY BillingAssumption DEF BillingTypeOK, StoryType
  <2>2. \A e \in Event : applied[e] <= story.prunes + (IF e \in seen THEN 1 ELSE 0)
    BY DEF LedgerCounts
  <2>3. CASE UNCHANGED seen /\ story'.prunes = story.prunes
    BY <2>2, <2>3 DEF LedgerCounts
  <2>4. CASE seen' = {} /\ story'.prunes = story.prunes + 1
    <3>1. \A e \in Event : applied[e] <= story.prunes + 1
      BY <2>1, <2>2
    <3> QED
      BY <2>1, <2>4, <3>1 DEF LedgerCounts
  <2> QED
    BY <2>3, <2>4
<1>5. ProviderSent' /\ CreatedOnce' /\ InOrder'
  BY HistoryKept
<1> QED
  BY <1>1, <1>2, <1>3, <1>4, <1>5

(* The retries, losses and duplicates of a delivery, and the pruning.       *)
LEMMA QuietStepsKeepBooks ==
    ASSUME BillingInv,
           \/ UNCHANGED billingVars
           \/ \E d \in Delivery : \/ Receive(d) \/ Duplicate(d) \/ Retry(d)
                                  \/ Exhaust(d) \/ Poison(d) \/ WorkerDies(d)
           \/ PruneLedger
    PROVE  BillingInv'
<1> USE DEF BillingInv
<1>1. /\ task \in [Delivery -> {Unsent, Done} \cup 0..MaxRetries]
      /\ dlq \in SUBSET Event /\ story \in StoryType
      /\ MaxRetries \in Nat /\ MaxFaults \in Nat /\ MaxPrunes \in Nat
  BY BillingAssumption DEF BillingTypeOK, StoryType
<1>2. CASE UNCHANGED billingVars
  BY <1>1, <1>2, IdlingKeepsBooks DEF billingVars, bookVars
<1>3. CASE PruneLedger
  <2>1. story' \in StoryType /\ story'.prunes = story.prunes + 1
        /\ story'.handled = story.handled /\ story'.overtaken = story.overtaken
    BY <1>1, <1>3 DEF PruneLedger, StoryType
  <2> QED
    BY <1>1, <1>3, <2>1, IdlingKeepsBooks DEF PruneLedger
<1>4. ASSUME NEW d \in Delivery, Receive(d)
      PROVE  BillingInv'
  <2>1. /\ task' \in [Delivery -> {Unsent, Done} \cup 0..MaxRetries]
        /\ \A c \in Delivery : task'[c] # Unsent => task[c] # Unsent \/ c[1] <= Len(sent)
    BY <1>1, <1>4 DEF Receive
  <2> QED
    BY <1>1, <1>4, <2>1, IdlingKeepsBooks DEF Receive, bookVars
<1>5. ASSUME NEW d \in Delivery, Duplicate(d) \/ Retry(d) \/ Exhaust(d) \/ Poison(d) \/ WorkerDies(d)
      PROVE  BillingInv'
  <2>1. Queued(d)
    BY <1>5 DEF Duplicate, Retry, Exhaust, Poison, WorkerDies, Finish
  <2>2. d[1] \in Event /\ d[1] <= Len(sent)
    BY <2>1, DeliveryFacts
  <2>3. task' \in [Delivery -> {Unsent, Done} \cup 0..MaxRetries]
    <3>1. CASE Retry(d)
      <4>1. task[d] + 1 \in 0..MaxRetries
        BY <1>1, <2>1, <3>1 DEF Retry, Queued, Unsent, Done
      <4> QED
        BY <1>1, <3>1, <4>1 DEF Retry
    <3>2. CASE ~Retry(d)
      BY <1>1, <1>5, <3>2 DEF Duplicate, Exhaust, Poison, WorkerDies, Finish
    <3> QED
      BY <3>1, <3>2
  <2>4. \A c \in Delivery : task'[c] # Unsent => task[c] # Unsent \/ c[1] <= Len(sent)
    <3>1. \A c \in Delivery : c # d => task'[c] = task[c]
      BY <1>1, <1>5 DEF Duplicate, Retry, Exhaust, Poison, WorkerDies, Finish
    <3> QED
      BY <2>2, <3>1
  <2>5. /\ story' \in StoryType /\ story'.prunes = story.prunes
        /\ story'.handled = story.handled /\ story'.overtaken = story.overtaken
    <3>1. story.faults < MaxFaults => story.faults + 1 \in 0..MaxFaults
      BY <1>1 DEF StoryType
    <3>2. CASE Duplicate(d)
      BY <1>1, <3>2 DEF Duplicate
    <3>3. CASE Retry(d)
      BY <1>1, <3>1, <3>3 DEF Retry, StoryType
    <3>4. CASE Exhaust(d)
      BY <1>1, <2>2, <3>1, <3>4 DEF Exhaust, StoryType
    <3>5. CASE Poison(d) \/ WorkerDies(d)
      BY <1>1, <2>2, <3>1, <3>5 DEF Poison, WorkerDies, Lose, StoryType
    <3> QED
      BY <1>5, <3>2, <3>3, <3>4, <3>5
  <2>6. dlq' \in SUBSET Event
    BY <1>1, <1>5, <2>2 DEF Duplicate, Retry, Exhaust, Poison, WorkerDies, Finish
  <2>7. UNCHANGED <<provider, sent, session, sub, user, workspace, audit, applied, seen>>
    BY <1>5 DEF Duplicate, Retry, Exhaust, Poison, WorkerDies, Finish, bookVars
  <2> QED
    BY <2>3, <2>4, <2>5, <2>6, <2>7, IdlingKeepsBooks
<1> QED
  BY <1>2, <1>3, <1>4, <1>5

(* A new link is for a session that has no payload yet.                     *)
LEMMA NewLinkKeepsBooks ==
    ASSUME BillingInv, NEW s \in Session, NewLink(s)
    PROVE  BillingInv'
<1> USE DEF BillingInv
<1>1. BillingTypeOK'
  BY DEF NewLink, BillingTypeOK
<1>2. PayloadsSound' /\ BooksAgree' /\ LedgerCounts' /\ ProviderSent' /\ InOrder'
  <2>1. UNCHANGED <<provider, sent, task, sub, user, workspace, audit, seen, applied, story>>
    BY DEF NewLink
  <2>2. PayloadsSound'
    BY <2>1 DEF PayloadsSound, Pays
  <2>3. BooksAgree' /\ LedgerCounts'
    BY <2>1 DEF BooksAgree, LedgerCounts
  <2>4. ProviderSent'
    BY <2>1, ProviderSame
  <2>5. InOrder'
    BY <2>1, SettledSame
  <2> QED
    BY <2>2, <2>3, <2>4, <2>5
<1>3. \A t : session'[t] = "COMPLETED" /\ t \in Session => session[t] = "COMPLETED"
  BY DEF NewLink, BillingTypeOK
<1>4. \A e \in 1..Len(sent) : sent[e].of \in Session
  BY SentTyped
<1>5. CreatedOnce'
  BY <1>3, <1>4 DEF NewLink, CreatedOnce
<1> QED
  BY <1>1, <1>2, <1>5

(* What a set of payloads says: one pays and none after it ends.            *)
Standing(handled) ==
    \E e \in handled : Pays(e) /\ \A f \in handled : f > e => ~Ends(f)

(* The last payload decides, and one that says nothing changes nothing.     *)
LEMMA LastOneDecides ==
    ASSUME NEW handled \in SUBSET Nat, NEW e \in Nat, \A f \in handled : ~(f > e)
    PROVE  /\ Pays(e) => Standing(handled \cup {e})
           /\ Ends(e) => ~Standing(handled \cup {e})
           /\ ~Pays(e) /\ ~Ends(e) => (Standing(handled \cup {e}) <=> Standing(handled))
<1>1. Pays(e) => ~Ends(e)
  BY DEF Pays, Ends
<1>2. Pays(e) => Standing(handled \cup {e})
  BY DEF Standing
<1>3. Ends(e) => ~Standing(handled \cup {e})
  <2> SUFFICES ASSUME Ends(e), NEW x \in handled \cup {e}, Pays(x),
                      \A f \in handled \cup {e} : f > x => ~Ends(f)
               PROVE  FALSE
    BY DEF Standing
  <2>1. x # e
    BY <1>1
  <2> QED
    BY <2>1
<1>4. ~Pays(e) /\ ~Ends(e) => (Standing(handled \cup {e}) <=> Standing(handled))
  BY DEF Standing
<1> QED
  BY <1>2, <1>3, <1>4

(* A payload is noted and its books written: what else that needs.          *)
LEMMA NotingKeepsOrder ==
    ASSUME BillingInv, NEW d \in Delivery, Finish(d), Fresh(d[1]), Note(d[1]),
           sub'.plan # 0 <=> IF Idle(sent[d[1]]) THEN sub.plan # 0 ELSE Pays(d[1]),
           ~Idle(sent[d[1]]) => Pays(d[1]) \/ Ends(d[1])
    PROVE  InOrder'
<1> USE DEF BillingInv
<1> PICK e \in Nat : e = d[1] /\ e \in 1..Len(sent) /\ sent[e] \in Payload
  BY DeliveryFacts DEF Finish
<1> PICK H \in SUBSET Nat : H = story.handled
  BY DEF BillingTypeOK, Event
<1>1. /\ story \in StoryType
      /\ story' = [story EXCEPT !.handled = @ \cup {e},
                                !.overtaken = @ \/ \E f \in story.handled : f > e]
  BY DEF BillingTypeOK, Note, StoryType
<1>2. story'.handled = H \cup {e}
      /\ (story'.overtaken <=> story.overtaken \/ \E f \in H : f > e)
  BY <1>1 DEF StoryType
<1>3. UNCHANGED sent
  BY DEF Finish
<1>4. InOrder' <=> (~story'.overtaken => (sub'.plan # 0 <=> Standing(H \cup {e})))
  <2>1. \A x : (Pays(x)' <=> Pays(x)) /\ (Ends(x)' <=> Ends(x))
    BY <1>3 DEF Pays, Ends
  <2>2. (\E x \in story'.handled : Pays(x)' /\ \A f \in story'.handled : f > x => ~Ends(f)')
        <=> Standing(H \cup {e})
    BY <1>2, <2>1 DEF Standing
  <2> QED
    BY <2>2 DEF InOrder
<1> SUFFICES ASSUME ~story'.overtaken
             PROVE  sub'.plan # 0 <=> Standing(H \cup {e})
  BY <1>4
<1>5. ~story.overtaken /\ \A f \in H : ~(f > e)
  BY <1>2
<1>6. sub.plan # 0 <=> Standing(H)
  BY <1>5 DEF InOrder, Standing
<1>7. /\ Pays(e) => Standing(H \cup {e})
      /\ Ends(e) => ~Standing(H \cup {e})
      /\ ~Pays(e) /\ ~Ends(e) => (Standing(H \cup {e}) <=> Standing(H))
  BY <1>5, LastOneDecides
<1>8. CASE ~Idle(sent[e])
  <2>1. Pays(e) => ~Ends(e)
    BY DEF Pays, Ends
  <2> QED
    BY <1>7, <1>8, <2>1
<1>9. CASE Idle(sent[e])
  <2>1. CASE sent[e].kind = "failed" \/ (sent[e].kind = "updated" /\ ~sent[e].paid)
    <3>1. ~Pays(e) /\ ~Ends(e)
      BY <2>1 DEF Pays, Ends
    <3> QED
      BY <1>6, <1>7, <1>9, <3>1
  <2>2. CASE sent[e].kind = "created" /\ session[sent[e].of] = "COMPLETED"
    <3>1. H \cup {e} = H
      BY <2>2 DEF CreatedOnce
    <3> QED
      BY <1>6, <1>9, <3>1
  <2>3. CASE sent[e].kind = "cancelled" /\ sub.plan = 0
    BY <1>7, <1>9, <2>3 DEF Ends
  <2> QED
    BY <1>9, <2>1, <2>2, <2>3 DEF Idle
<1> QED
  BY <1>8, <1>9

(* Noting a payload, applied or not, is well typed and keeps the counts.    *)
LEMMA NotingTyped ==
    ASSUME BillingInv, NEW d \in Delivery, Finish(d), Fresh(d[1]), Note(d[1]),
           session' \in [Session -> {"none", "PENDING", "COMPLETED"}],
           sub' \in [plan : Plan \cup {0}, ext : Session \cup {0}],
           user' \in Plan \cup {0}, workspace' \in Plan \cup {0},
           audit' \in Seq({"PRO", "FREE"}),
           applied' = applied \/ applied' = [applied EXCEPT ![d[1]] = @ + 1]
    PROVE  BillingTypeOK' /\ PayloadsSound' /\ LedgerCounts' /\ ProviderSent'
<1> USE DEF BillingInv
<1>1. d[1] \in Event /\ d[1] \in 1..Len(sent) /\ Queued(d)
      /\ [task EXCEPT ![d] = Done] \in [Delivery -> {Unsent, Done} \cup 0..MaxRetries]
  BY DeliveryFacts DEF Finish
<1>2. UNCHANGED <<provider, sent, dlq>> /\ task' = [task EXCEPT ![d] = Done]
  BY DEF Finish
<1>3. /\ seen' = seen \cup {d[1]} /\ d[1] \notin seen
      /\ story \in StoryType
      /\ story' = [story EXCEPT !.handled = @ \cup {d[1]},
                                !.overtaken = @ \/ \E f \in story.handled : f > d[1]]
  BY DEF BillingTypeOK, Note, StoryType, Fresh
<1>4. /\ story' \in StoryType /\ story'.prunes = story.prunes
      /\ story'.handled = story.handled \cup {d[1]}
  <2> DEFINE late == story.overtaken \/ \E f \in story.handled : f > d[1]
  <2>1. late \in BOOLEAN
    BY <1>3 DEF StoryType
  <2>2. story' = [story EXCEPT !.handled = @ \cup {d[1]}, !.overtaken = late]
    BY <1>3
  <2> HIDE DEF late
  <2> DEFINE handled == story.handled \cup {d[1]}
  <2>3. handled \in SUBSET Event
    BY <1>1, <1>3 DEF StoryType
  <2>4. story' = [story EXCEPT !.handled = handled, !.overtaken = late]
    BY <1>3, <2>2
  <2> HIDE DEF handled
  <2>5. story' \in StoryType /\ story'.prunes = story.prunes /\ story'.handled = handled
    BY <1>3, <2>1, <2>3, <2>4 DEF StoryType
  <2> QED
    BY <2>5 DEF handled
<1>5. /\ applied' \in [Event -> Nat]
      /\ applied'[d[1]] <= applied[d[1]] + 1
      /\ \A e \in Event : e # d[1] => applied'[e] = applied[e]
  <2>1. applied \in [Event -> Nat] /\ applied[d[1]] \in Nat /\ d[1] \in Event
    BY <1>1 DEF BillingTypeOK
  <2>2. CASE applied' = applied
    BY <2>1, <2>2
  <2>3. CASE applied' = [applied EXCEPT ![d[1]] = @ + 1]
    BY <2>1, <2>3
  <2> QED
    BY <2>2, <2>3
<1>6. BillingTypeOK'
  <2>1. seen' \in SUBSET Event
    BY <1>1, <1>3 DEF BillingTypeOK
  <2> QED
    BY <1>1, <1>2, <1>4, <1>5, <2>1 DEF BillingTypeOK, StoryType
<1>7. PayloadsSound'
  <2>1. \A e : Pays(e)' <=> Pays(e)
    BY <1>2 DEF Pays
  <2>2. \A c \in Delivery : task'[c] # Unsent => c[1] <= Len(sent)
    <3>1. d[1] <= Len(sent)
      BY <1>1 DEF BillingTypeOK
    <3>2. \A c \in Delivery : c # d => task'[c] = task[c]
      BY <1>2 DEF BillingTypeOK
    <3> QED
      BY <3>1, <3>2 DEF PayloadsSound
  <2> QED
    BY <1>1, <1>2, <1>4, <2>1, <2>2 DEF PayloadsSound
<1>8. LedgerCounts'
  <2>1. story.prunes \in Nat /\ \A e \in Event : applied[e] \in Nat
    BY <1>3, BillingAssumption DEF BillingTypeOK, StoryType
  <2> SUFFICES ASSUME NEW e \in Event
               PROVE  applied'[e] <= story.prunes + (IF e \in seen' THEN 1 ELSE 0)
    BY <1>4 DEF LedgerCounts
  <2>2. applied[e] <= story.prunes + (IF e \in seen THEN 1 ELSE 0)
    BY DEF LedgerCounts
  <2>3. CASE e = d[1]
    BY <1>3, <1>5, <2>1, <2>2, <2>3 DEF BillingTypeOK
  <2>4. CASE e # d[1]
    BY <1>3, <1>5, <2>1, <2>2, <2>4
  <2> QED
    BY <2>3, <2>4
<1>9. ProviderSent'
  BY <1>2, ProviderSame
<1> QED
  BY <1>6, <1>7, <1>8, <1>9

(* A payload that changes nothing.                                          *)
LEMMA IgnoringKeepsBooks ==
    ASSUME BillingInv, NEW d \in Delivery, Ignore(d)
    PROVE  BillingInv'
<1> USE DEF BillingInv
<1>1. /\ Finish(d) /\ Fresh(d[1]) /\ Idle(sent[d[1]]) /\ Note(d[1])
      /\ UNCHANGED <<sent, session, sub, user, workspace, audit, applied>>
  BY DEF Ignore, Finish
<1>2. BillingTypeOK' /\ PayloadsSound' /\ LedgerCounts' /\ ProviderSent'
  BY <1>1, NotingTyped DEF BillingTypeOK
<1>3. BooksAgree'
  BY <1>1 DEF BooksAgree
<1>4. story'.handled = story.handled \cup {d[1]}
  BY <1>1 DEF Note, BillingTypeOK
<1>5. CreatedOnce'
  BY <1>1, <1>4 DEF CreatedOnce
<1>6. InOrder'
  BY <1>1, NotingKeepsOrder
<1> QED
  BY <1>2, <1>3, <1>5, <1>6

(* A payload that starts, renews or changes the plan.                       *)
LEMMA UpgradingKeepsBooks ==
    ASSUME BillingInv, NEW d \in Delivery, Upgrade(d)
    PROVE  BillingInv'
<1> USE DEF BillingInv
<1> PICK e \in Nat : e = d[1] /\ e \in 1..Len(sent) /\ sent[e] \in Payload
  BY DeliveryFacts DEF Upgrade, Finish
<1>1. /\ Finish(d) /\ Fresh(e) /\ ~Idle(sent[e]) /\ Note(e)
      /\ sent[e].kind \in {"created", "updated"}
      /\ session' = IF sent[e].kind = "created"
                    THEN [session EXCEPT ![sent[e].of] = "COMPLETED"] ELSE session
      /\ sub' = [plan |-> sent[e].plan, ext |-> sent[e].of]
      /\ user' = sent[e].plan /\ workspace' = sent[e].plan
      /\ audit' = AuditUpgrade
      /\ applied' = [applied EXCEPT ![e] = @ + 1]
      /\ sent' = sent
  BY DEF Upgrade, Apply, Finish
<1>2. Pays(e) /\ sent[e].plan \in Plan /\ sent[e].plan # 0 /\ sent[e].of \in Session
  <2>1. Pays(e)
    BY <1>1 DEF Idle, Pays
  <2> QED
    BY <2>1, BillingAssumption DEF PayloadsSound, Payload
<1>3. session' \in [Session -> {"none", "PENDING", "COMPLETED"}]
  BY <1>1, <1>2 DEF BillingTypeOK
<1>4. audit' \in Seq({"PRO", "FREE"})
  BY <1>1 DEF AuditUpgrade, BillingTypeOK
<1>5. BillingTypeOK' /\ PayloadsSound' /\ LedgerCounts' /\ ProviderSent'
  BY <1>1, <1>2, <1>3, <1>4, NotingTyped
<1>6. BooksAgree'
  <2>1. sub'.plan = sent[e].plan
    BY <1>1
  <2>2. audit \in Seq({"PRO", "FREE"}) /\ Len(audit) \in Nat
    BY DEF BillingTypeOK
  <2>3. CASE sub.plan # 0
    BY <1>1, <1>2, <2>1, <2>3 DEF BooksAgree, AuditUpgrade
  <2>4. CASE sub.plan = 0
    <3>1. audit' = Append(audit, "PRO") /\ Len(audit) % 2 = 0
      BY <1>1, <2>2, <2>4 DEF BooksAgree, AuditUpgrade
    <3>2. /\ Len(audit') = Len(audit) + 1 /\ audit'[Len(audit) + 1] = "PRO"
          /\ \A i \in 1..Len(audit) : audit'[i] = audit[i]
          /\ DOMAIN audit' = 1..(Len(audit) + 1)
          /\ DOMAIN audit = 1..Len(audit)
      BY <2>2, <3>1
    <3>3. (Len(audit) + 1) % 2 = 1
      BY <2>2, <3>1
    <3>4. \A i \in DOMAIN audit' : audit'[i] = IF i % 2 = 1 THEN "PRO" ELSE "FREE"
      <4>1. \A i \in 1..Len(audit) : audit'[i] = IF i % 2 = 1 THEN "PRO" ELSE "FREE"
        BY <3>2 DEF BooksAgree
      <4>2. \A i \in DOMAIN audit' : i \in 1..Len(audit) \/ i = Len(audit) + 1
        BY <2>2, <3>2
      <4> QED
        BY <3>2, <3>3, <4>1, <4>2
    <3> QED
      BY <1>1, <1>2, <2>1, <3>2, <3>3, <3>4 DEF BooksAgree
  <2> QED
    BY <2>3, <2>4
<1>7. story'.handled = story.handled \cup {e}
  BY <1>1 DEF Note, BillingTypeOK
<1>8. CreatedOnce'
  <2> SUFFICES ASSUME NEW f \in 1..Len(sent), sent[f].kind = "created",
                      session'[sent[f].of] = "COMPLETED"
               PROVE  f \in story'.handled
    BY <1>1 DEF CreatedOnce
  <2>1. sent[f].of \in Session
    BY SentTyped
  <2>2. CASE sent[e].kind = "created" /\ sent[f].of = sent[e].of
    BY <1>7, <2>2 DEF CreatedOnce
  <2>3. CASE ~(sent[e].kind = "created" /\ sent[f].of = sent[e].of)
    <3>1. session'[sent[f].of] = session[sent[f].of]
      BY <1>1, <2>1, <2>3 DEF BillingTypeOK
    <3> QED
      BY <1>7, <3>1 DEF CreatedOnce
  <2> QED
    BY <2>2, <2>3
<1>9. InOrder'
  <2>1. sub'.plan # 0
    BY <1>1, <1>2
  <2> QED
    BY <1>1, <1>2, <2>1, NotingKeepsOrder
<1> QED
  BY <1>5, <1>6, <1>8, <1>9

(* A payload that ends the subscription.                                    *)
LEMMA DowngradingKeepsBooks ==
    ASSUME BillingInv, NEW d \in Delivery, Downgrade(d)
    PROVE  BillingInv'
<1> USE DEF BillingInv
<1> PICK e \in Nat : e = d[1] /\ e \in 1..Len(sent) /\ sent[e] \in Payload
  BY DeliveryFacts DEF Downgrade, Finish
<1>1. /\ Finish(d) /\ Fresh(e) /\ ~Idle(sent[e]) /\ Note(e)
      /\ sent[e].kind = "cancelled"
      /\ sub' = [plan |-> 0, ext |-> sent[e].of]
      /\ user' = 0 /\ workspace' = 0
      /\ audit' = Append(audit, "FREE")
      /\ applied' = [applied EXCEPT ![e] = @ + 1]
      /\ session' = session /\ sent' = sent
  BY DEF Downgrade, Apply, Finish
<1>2. Ends(e) /\ ~Pays(e) /\ sub.plan # 0 /\ sub'.plan = 0 /\ sent[e].of \in Session
  BY <1>1 DEF Idle, Pays, Ends, Payload
<1>3. audit \in Seq({"PRO", "FREE"}) /\ Len(audit) \in Nat
  BY DEF BillingTypeOK
<1>4. /\ Len(audit') = Len(audit) + 1 /\ audit'[Len(audit) + 1] = "FREE"
      /\ \A i \in 1..Len(audit) : audit'[i] = audit[i]
      /\ DOMAIN audit' = 1..(Len(audit) + 1) /\ DOMAIN audit = 1..Len(audit)
      /\ audit' \in Seq({"PRO", "FREE"})
  BY <1>1, <1>3
<1>5. BillingTypeOK' /\ PayloadsSound' /\ LedgerCounts' /\ ProviderSent'
  BY <1>1, <1>2, <1>4, NotingTyped DEF BillingTypeOK
<1>6. BooksAgree'
  <2>1. Len(audit) % 2 = 1
    BY <1>2 DEF BooksAgree
  <2>2. (Len(audit) + 1) % 2 # 1
    BY <1>3, <2>1
  <2>3. \A i \in DOMAIN audit' : audit'[i] = IF i % 2 = 1 THEN "PRO" ELSE "FREE"
    <3>1. \A i \in 1..Len(audit) : audit'[i] = IF i % 2 = 1 THEN "PRO" ELSE "FREE"
      BY <1>4 DEF BooksAgree
    <3>2. \A i \in DOMAIN audit' : i \in 1..Len(audit) \/ i = Len(audit) + 1
      BY <1>3, <1>4
    <3> QED
      BY <1>4, <2>2, <3>1, <3>2
  <2> QED
    BY <1>1, <1>2, <1>4, <2>2, <2>3 DEF BooksAgree
<1>7. story'.handled = story.handled \cup {e}
  BY <1>1 DEF Note, BillingTypeOK
<1>8. CreatedOnce'
  BY <1>1, <1>7 DEF CreatedOnce
<1>9. InOrder'
  BY <1>1, <1>2, NotingKeepsOrder
<1> QED
  BY <1>5, <1>6, <1>8, <1>9

(* Every reachable state of the subscription is in order.                   *)
THEOREM BillingInvariant == BillingSpec => []BillingInv
<1>1. BillingInit => BillingInv
  <2> SUFFICES ASSUME BillingInit
               PROVE  BillingInv
    OBVIOUS
  <2> USE DEF BillingInit
  <2>1. /\ MaxEvents \in Nat /\ MaxPrunes \in Nat /\ MaxFaults \in Nat
        /\ 0 \in 0..MaxPrunes /\ 0 \in 0..MaxFaults
    BY BillingAssumption
  <2>2. sent \in Seq(Payload) /\ Len(sent) = 0 /\ audit \in Seq({"PRO", "FREE"}) /\ Len(audit) = 0
    OBVIOUS
  <2>3. BillingTypeOK
    BY <2>1, <2>2 DEF BillingTypeOK
  <2>4. PayloadsSound /\ CreatedOnce
    BY <2>2 DEF PayloadsSound, CreatedOnce
  <2>5. BooksAgree
    BY DEF BooksAgree
  <2>6. LedgerCounts
    BY DEF LedgerCounts
  <2>7. ProviderSent /\ InOrder
    <3>1. 1..Len(sent) = {}
      BY <2>2
    <3>2. \A s \in Session : provider[s] # "active"
      OBVIOUS
    <3>3. ProviderSent
      BY <3>1, <3>2 DEF ProviderSent
    <3>4. story.handled = {} /\ sub.plan = 0
      OBVIOUS
    <3>5. InOrder
      BY <3>4 DEF InOrder
    <3> QED
      BY <3>3, <3>5
  <2> QED
    BY <2>3, <2>4, <2>5, <2>6, <2>7 DEF BillingInv
<1>2. BillingInv /\ [BillingNext]_billingVars => BillingInv'
  BY SendingKeepsBooks, NewLinkKeepsBooks, QuietStepsKeepBooks, IgnoringKeepsBooks,
     UpgradingKeepsBooks, DowngradingKeepsBooks DEF BillingNext
<1> QED
  BY <1>1, <1>2, PTL DEF BillingSpec

(* The four places that hold the plan agree, and the audit log is their     *)
(* history, in whatever order payloads come (tasks.py:174-230).             *)
THEOREM BooksAlwaysAgree == BillingSpec => []BooksAgree
<1>1. BillingInv => BooksAgree
  BY DEF BillingInv
<1> QED
  BY <1>1, BillingInvariant, PTL

(* A payload has its effect once, and once more for every pruning of the    *)
(* replay ledger, however often it is delivered or retried.                 *)
THEOREM EffectsAreOnce == BillingSpec => []AppliedOnce
<1>1. BillingInv => AppliedOnce
  <2> SUFFICES ASSUME BillingInv, NEW e \in Event
               PROVE  applied[e] <= 1 + story.prunes
    BY DEF AppliedOnce
  <2>1. story.prunes \in Nat /\ applied[e] \in Nat
    BY BillingAssumption DEF BillingInv, BillingTypeOK
  <2>2. applied[e] <= story.prunes + (IF e \in seen THEN 1 ELSE 0)
    BY DEF BillingInv, LedgerCounts
  <2> QED
    BY <2>1, <2>2
<1> QED
  BY <1>1, BillingInvariant, PTL

(* With one subscription at the provider and every payload handled in       *)
(* order, the books say what the provider says.                             *)
THEOREM BooksConverge == BillingSpec => []Converges
<1>1. BillingInv => Converges
  <2> SUFFICES ASSUME BillingInv, AllHandled
               PROVE  (sub.plan # 0) <=> (\E s \in Session : provider[s] = "active")
    BY DEF Converges
  <2> USE DEF BillingInv
  <2> DEFINE known == {s \in Session : provider[s] # "none"}
  <2>1. PICK s \in Session : known = {s}
    <3>1. IsFiniteSet(known) /\ Cardinality(known) = 1
      BY BillingAssumption, FS_Subset DEF AllHandled
    <3>2. PICK x : known = {x}
      BY <3>1, FS_Singleton
    <3> QED
      BY <3>2
  <2>2. \A t \in Session : t # s => provider[t] = "none"
    BY <2>1
  <2>3. \A e \in 1..Len(sent) : sent[e].of = s
    BY <2>2, SentTyped DEF ProviderSent
  <2>4. story.handled = 1..Len(sent)
    BY DEF AllHandled, PayloadsSound
  <2>5. provider[s] = "active" <=>
           \E e \in 1..Len(sent) : Pays(e) /\ \A f \in e..Len(sent) : ~Ends(f)
    <3>1. Len(sent) \in Nat
      BY DEF BillingTypeOK
    <3>2. \A e \in 1..Len(sent) : \A f \in e..Len(sent) : f \in 1..Len(sent)
      BY <3>1
    <3>3. provider[s] = "active" <=>
             \E e \in 1..Len(sent) :
                 /\ sent[e].of = s /\ Pays(e)
                 /\ \A f \in e..Len(sent) : sent[f].of = s => ~Ends(f)
      BY DEF ProviderSent
    <3> QED
      BY <2>3, <3>2, <3>3
  <2>6. sub.plan # 0 <=>
           \E e \in 1..Len(sent) : Pays(e) /\ \A f \in 1..Len(sent) : f > e => ~Ends(f)
    BY <2>4 DEF AllHandled, InOrder
  <2>7. \A e \in 1..Len(sent) :
           Pays(e) => ((\A f \in e..Len(sent) : ~Ends(f))
                       <=> \A f \in 1..Len(sent) : f > e => ~Ends(f))
    <3>1. \A e : Pays(e) => ~Ends(e)
      BY DEF Pays, Ends
    <3>2. Len(sent) \in Nat
      BY DEF BillingTypeOK
    <3> QED
      BY <3>1, <3>2
  <2>8. sub.plan # 0 <=> provider[s] = "active"
    BY <2>5, <2>6, <2>7
  <2> QED
    BY <2>2, <2>8
<1> QED
  BY <1>1, BillingInvariant, PTL
=============================================================================
