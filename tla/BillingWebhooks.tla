-------------------------- MODULE BillingWebhooks --------------------------
(***************************************************************************)
(* A photographer's subscription as the payment provider's webhooks move it *)
(* (billing/views.py, billing/tasks.py): every payload is acknowledged when *)
(* it is queued, may be delivered again, and is worked through by a task    *)
(* that may find the database locked, fail, or die with its worker.  The    *)
(* task's transaction locks the rows it reads, so it is one step.           *)
(*                                                                          *)
(* Payloads are numbered in the order the provider sends them; plan 0 is    *)
(* the free tier.  The subscription bought with checkout session s is s.    *)
(***************************************************************************)
EXTENDS Integers, FiniteSets, Sequences

CONSTANTS
    Session,        \* checkout sessions
    Plan,           \* paid plans
    MaxEvents,      \* bound: payloads the provider sends
    MaxDeliveries,  \* bound: deliveries of each
    MaxRetries,     \* max_retries of the task
    MaxPrunes,      \* bound: runs of the retention task
    MaxFaults       \* bound: times a task finds the database locked, fails or dies

ASSUME BillingAssumption ==
    /\ Session \subseteq Nat \ {0} /\ IsFiniteSet(Session)
    /\ Plan \subseteq Nat \ {0}
    /\ {MaxEvents, MaxDeliveries, MaxRetries, MaxPrunes, MaxFaults} \subseteq Nat

VARIABLES
    provider,   \* what the provider knows of each session's subscription
    sent,       \* payloads sent so far
    task,       \* each delivery: unsent, done, or queued after n retries
    session,    \* CheckoutSession status
    sub,        \* Subscription: plan (0 when not is_pro) and provider's id
    user,       \* the plan the User row displays
    workspace,  \* the plan whose bytes the Workspace may use
    audit,      \* BillingAuditLog: the new states
    seen,       \* ProcessedWebhook: payload hashes
    dlq,        \* DeadLetterQueue
    applied,    \* history: effects of each payload
    story       \* history: prunes, faults, what was lost, exhausted, handled, overtaken

bookVars == <<session, sub, user, workspace, audit, seen, applied>>
billingVars == <<bookVars, provider, sent, task, dlq, story>>

Event == 1..MaxEvents
Delivery == Event \X (1..MaxDeliveries)
Unsent == -1
Done == -2
Payload == [kind : {"created", "updated", "cancelled", "failed"},
            of : Session, plan : Plan \cup {0}, paid : BOOLEAN]

BillingTypeOK ==
    /\ provider \in [Session -> {"none", "active", "cancelled"}]
    /\ sent \in Seq(Payload) /\ Len(sent) <= MaxEvents
    /\ task \in [Delivery -> {Unsent, Done} \cup 0..MaxRetries]
    /\ session \in [Session -> {"none", "PENDING", "COMPLETED"}]
    /\ sub \in [plan : Plan \cup {0}, ext : Session \cup {0}]
    /\ user \in Plan \cup {0}
    /\ workspace \in Plan \cup {0}
    /\ audit \in Seq({"PRO", "FREE"})
    /\ seen \in SUBSET Event /\ dlq \in SUBSET Event
    /\ applied \in [Event -> Nat]
    /\ story \in [prunes : 0..MaxPrunes, faults : 0..MaxFaults, lost : SUBSET Event,
                  exhausted : SUBSET Event, handled : SUBSET Event, overtaken : BOOLEAN]

(* Registration has provisioned a free subscription and a free workspace.   *)
BillingInit ==
    /\ provider = [s \in Session |-> "none"]
    /\ sent = <<>>
    /\ task = [d \in Delivery |-> Unsent]
    /\ session = [s \in Session |-> "none"]
    /\ sub = [plan |-> 0, ext |-> 0]
    /\ user = 0 /\ workspace = 0
    /\ audit = <<>>
    /\ seen = {} /\ dlq = {}
    /\ applied = [e \in Event |-> 0]
    /\ story = [prunes |-> 0, faults |-> 0, lost |-> {}, exhausted |-> {},
                handled |-> {}, overtaken |-> FALSE]
-----------------------------------------------------------------------------
(* The provider.                                                            *)

Send(kind, s, plan, paid) ==
    /\ Len(sent) < MaxEvents
    /\ sent' = Append(sent, [kind |-> kind, of |-> s, plan |-> plan, paid |-> paid])
    /\ UNCHANGED <<task, sub, user, workspace, audit, seen, applied, dlq, story>>

(* A link is made for a user who is not PRO; a second one may be pending.   *)
NewLink(s) ==
    /\ sub.plan = 0
    /\ session[s] = "none" /\ \A t \in Session : t < s => session[t] # "none"
    /\ session' = [session EXCEPT ![s] = "PENDING"]
    /\ UNCHANGED <<provider, sent, task, sub, user, workspace, audit, seen, applied, dlq,
                   story>>

Pay(s) ==
    /\ session[s] = "PENDING" /\ provider[s] = "none"
    /\ provider' = [provider EXCEPT ![s] = "active"]
    /\ \E p \in Plan : Send("created", s, p, TRUE)
    /\ UNCHANGED session

(* Renewals, changes of plan, and resuming what was cancelled.              *)
Renew(s) ==
    /\ provider[s] # "none"
    /\ provider' = [provider EXCEPT ![s] = "active"]
    /\ \E p \in Plan : Send("updated", s, p, TRUE)
    /\ UNCHANGED session

(* A payment is missing: an update with an unpaid status, or the notice.    *)
Lapse(s) ==
    /\ provider[s] = "active"
    /\ \E kind \in {"updated", "failed"} : Send(kind, s, 0, FALSE)
    /\ UNCHANGED <<provider, session>>

Cancel(s) ==
    /\ provider[s] = "active"
    /\ provider' = [provider EXCEPT ![s] = "cancelled"]
    /\ Send("cancelled", s, 0, FALSE)
    /\ UNCHANGED session
-----------------------------------------------------------------------------
(* WebhookReceiverView: a payload with a good signature is queued.          *)
Receive(d) ==
    /\ d[1] <= Len(sent)
    /\ task[d] = Unsent
    /\ \A n \in 1..(d[2] - 1) : task[<<d[1], n>>] # Unsent
    /\ task' = [task EXCEPT ![d] = 0]
    /\ UNCHANGED <<bookVars, provider, sent, dlq, story>>

Queued(d) == task[d] >= 0

Finish(d) ==
    /\ Queued(d)
    /\ task' = [task EXCEPT ![d] = Done]
    /\ UNCHANGED <<provider, sent, dlq>>

(* The idempotency row is written by every transaction that commits.        *)
Note(e) ==
    /\ seen' = seen \cup {e}
    /\ story' = [story EXCEPT !.handled = @ \cup {e},
                             !.overtaken = @ \/ \E f \in story.handled : f > e]

(* Mutant: the row of the replay ledger is not looked at.                   *)
FreshAlways(e) == TRUE

Fresh(e) == e \notin seen

Duplicate(d) ==
    /\ ~Fresh(d[1])
    /\ Finish(d)
    /\ UNCHANGED <<bookVars, story>>

(* Mutant: an update of a completed session passes for processed as well.   *)
IdleCompleted(p) ==
    \/ p.kind \in {"created", "updated"} /\ (~p.paid \/ session[p.of] = "COMPLETED")
    \/ p.kind = "failed"
    \/ p.kind = "cancelled" /\ sub.plan = 0

(* Nothing else is written for what is unpaid or only a notice, for a       *)
(* session completed before, and for a cancellation of what is free.        *)
Idle(p) ==
    \/ p.kind = "failed"
    \/ p.kind = "updated" /\ ~p.paid
    \/ p.kind = "created" /\ session[p.of] = "COMPLETED"
    \/ p.kind = "cancelled" /\ sub.plan = 0

Ignore(d) ==
    LET e == d[1]
    IN  /\ Finish(d)
        /\ Fresh(e)
        /\ Idle(sent[e])
        /\ Note(e)
        /\ UNCHANGED <<session, sub, user, workspace, audit, applied>>

Apply(e) ==
    /\ Note(e)
    /\ applied' = [applied EXCEPT ![e] = @ + 1]

(* Mutant: the audit log gets a line for every update.                      *)
AuditAlways == Append(audit, "PRO")

AuditUpgrade == IF sub.plan = 0 THEN Append(audit, "PRO") ELSE audit

(* A subscription the provider's id does not find is found by the user.     *)
Upgrade(d) ==
    LET e == d[1]
        p == sent[e]
    IN  /\ Finish(d)
        /\ Fresh(e) /\ ~Idle(p)
        /\ p.kind \in {"created", "updated"}
        /\ session' = IF p.kind = "created" THEN [session EXCEPT ![p.of] = "COMPLETED"]
                      ELSE session
        /\ sub' = [plan |-> p.plan, ext |-> p.of]
        /\ user' = p.plan /\ workspace' = p.plan
        /\ audit' = AuditUpgrade
        /\ Apply(e)

Downgrade(d) ==
    LET e == d[1]
        p == sent[e]
    IN  /\ Finish(d)
        /\ Fresh(e) /\ ~Idle(p)
        /\ p.kind = "cancelled"
        /\ sub' = [plan |-> 0, ext |-> p.of]
        /\ user' = 0 /\ workspace' = 0
        /\ audit' = Append(audit, "FREE")
        /\ Apply(e)
        /\ UNCHANGED session

(* OperationalError: the task goes back to the queue.                       *)
Retry(d) ==
    /\ story.faults < MaxFaults
    /\ Queued(d) /\ task[d] < MaxRetries
    /\ task' = [task EXCEPT ![d] = @ + 1]
    /\ story' = [story EXCEPT !.faults = @ + 1]
    /\ UNCHANGED <<bookVars, provider, sent, dlq>>

Lose(e) ==
    /\ story.faults < MaxFaults
    /\ story' = [story EXCEPT !.faults = @ + 1, !.lost = @ \cup {e}]

(* The last retry: task.retry(exc=exc) raises exc itself, and the callback  *)
(* that was to write the dead letter waits for MaxRetriesExceededError.     *)
Exhaust(d) ==
    /\ Queued(d) /\ task[d] = MaxRetries
    /\ Finish(d)
    /\ story.faults < MaxFaults
    /\ story' = [story EXCEPT !.faults = @ + 1, !.lost = @ \cup {d[1]},
                             !.exhausted = @ \cup {d[1]}]
    /\ UNCHANGED bookVars

(* Any other exception: a dead letter, unless that fails too.               *)
Poison(d) ==
    /\ Queued(d) /\ Fresh(d[1])
    /\ Lose(d[1])
    /\ task' = [task EXCEPT ![d] = Done]
    /\ dlq' = dlq \cup {d[1]} \/ UNCHANGED dlq
    /\ UNCHANGED <<bookVars, provider, sent>>

(* The task was acknowledged when it was taken.                             *)
WorkerDies(d) ==
    /\ Finish(d)
    /\ Lose(d[1])
    /\ UNCHANGED bookVars

(* prune_billing_ledgers: a payload may be replayed after ninety days.      *)
PruneLedger ==
    /\ story.prunes < MaxPrunes
    /\ seen # {}
    /\ seen' = {}
    /\ story' = [story EXCEPT !.prunes = @ + 1]
    /\ UNCHANGED <<session, sub, user, workspace, audit, applied, provider, sent, task, dlq>>

BillingNext ==
    \/ \E s \in Session : NewLink(s) \/ Pay(s) \/ Renew(s) \/ Lapse(s) \/ Cancel(s)
    \/ \E d \in Delivery : \/ Receive(d) \/ Duplicate(d) \/ Ignore(d) \/ Upgrade(d)
                           \/ Downgrade(d) \/ Retry(d) \/ Exhaust(d) \/ Poison(d)
                           \/ WorkerDies(d)
    \/ PruneLedger

BillingSpec == BillingInit /\ [][BillingNext]_billingVars
-----------------------------------------------------------------------------
(* Whatever order payloads come in, the four places that hold the plan      *)
(* agree, and the audit log is their history: upgrades and downgrades take  *)
(* turns and the last one is what the subscription is (tasks.py:174-230).   *)
BooksAgree ==
    /\ user = sub.plan /\ workspace = sub.plan
    /\ \A i \in DOMAIN audit : audit[i] = IF i % 2 = 1 THEN "PRO" ELSE "FREE"
    /\ (sub.plan # 0) = (Len(audit) % 2 = 1)

(* A payload, however often it is delivered, has its effect once, and once  *)
(* more for every time the replay ledger was pruned (tasks.py:119-128).     *)
AppliedOnce == \A e \in Event : applied[e] <= 1 + story.prunes

(* With one subscription at the provider, no payload lost and none          *)
(* overtaken, the books end up with what the provider has, whatever was     *)
(* duplicated, unpaid or retried (tasks.py:134-230).                        *)
AllHandled ==
    /\ \A e \in 1..Len(sent) : e \in story.handled
    /\ story.lost = {} /\ ~story.overtaken
    /\ Cardinality({s \in Session : provider[s] # "none"}) = 1

Converges ==
    AllHandled => ((sub.plan # 0) = (\E s \in Session : provider[s] = "active"))

(* retry_or_call "runs on_exhausted when retries are spent"                 *)
(* (core/celery_retry.py:59): here, that puts the payload in the dead       *)
(* letter queue (tasks.py:244-246).                                         *)
ExhaustedKept == story.exhausted \subseteq dlq
=============================================================================
