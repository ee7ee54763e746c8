------------------------------ MODULE MinutePack ------------------------------
(***************************************************************************)
(* The payment of minute packs, from the order to the minutes:             *)
(* POST /billing/credits/verify (apps/api/src/routes/billing.ts), the      *)
(* Razorpay webhooks (routes/webhooks.ts) and the jobs every instance runs *)
(* (services/payment/payment-background-jobs.ts): webhook recovery,        *)
(* technical reconciliation with the zombie detector, the UPI sweep.       *)
(*                                                                         *)
(* A thread is one request or one pass of a job over one order; a statement *)
(* that reads or writes the database, or a call to Razorpay, is one step.  *)
(* An order has at most one payment that Razorpay authorizes, and possibly *)
(* a failed attempt before it.  The age limits of the jobs are taken as    *)
(* met.  Refunds, amounts and payment_state_transitions are left out.      *)
(***************************************************************************)
EXTENDS Naturals, FiniteSets

CONSTANTS
    Orders,        \* rows of payments, of kind CREDITS
    NoOrder,
    Requests,      \* calls of /billing/credits/verify, and deliveries of a webhook
    Jobs,          \* passes of a background job, in all instances
    AutoCapture,   \* ENABLE_AUTO_CAPTURE
    OwnIds,        \* a webhook's body has an id of its own
    MaxFaults      \* bound: crashes, and calls of the database or Razorpay that fail

Threads == Requests \cup Jobs

ASSUME PackAssumption ==
    /\ NoOrder \notin Orders /\ Requests \cap Jobs = {}
    /\ AutoCapture \in BOOLEAN /\ OwnIds \in BOOLEAN /\ MaxFaults \in Nat

VARIABLES
    gate,      \* the payment at Razorpay
    tried,     \* orders with a failed attempt at Razorpay
    status,    \* payments.status
    known,     \* orders with a razorpayPaymentId
    grants,    \* minute_pack_purchase rows of credit_ledger, by order
    booked,    \* payment_captured rows of ledger_transactions, by order
    audit,     \* the largest committed sequence of payment_audit_logs
    seen,      \* event ids in webhook_events
    pc, of,    \* where each thread is, and with which order
    st,        \* the status it read or will write
    seq,       \* the audit sequence it read or inserted
    found,     \* the ledger row it looked for exists
    orphaned,  \* history: orders written as captured by a thread that never granted
    faults

provider == <<gate, tried>>
payments == <<status, known>>
posted == <<booked, audit>>
local == <<of, st, seq, found>>
history == <<orphaned, faults>>
vars == <<provider, payments, grants, posted, seen, pc, local, history>>

Unresolved == {"created", "authorized", "pending"}
Statuses == Unresolved \cup {"captured", "failed"}
Events == {"authorized", "captured", "failed"}

Init ==
    /\ gate = [o \in Orders |-> "open"] /\ tried = {}
    /\ status = [o \in Orders |-> "created"] /\ known = {}
    /\ grants = [o \in Orders |-> 0] /\ booked = [o \in Orders |-> 0] /\ audit = 0
    /\ seen = {}
    /\ pc = [t \in Threads |-> "idle"] /\ of = [t \in Threads |-> NoOrder]
    /\ st = [t \in Threads |-> "none"] /\ seq = [t \in Threads |-> 0]
    /\ found = [t \in Threads |-> FALSE]
    /\ orphaned = {} /\ faults = 0

Start(t, o, at, s) ==
    /\ pc[t] = "idle" /\ pc' = [pc EXCEPT ![t] = at]
    /\ of' = [of EXCEPT ![t] = o] /\ st' = [st EXCEPT ![t] = s]
    /\ UNCHANGED <<seq, found>>

Go(t, from, to) == pc[t] = from /\ pc' = [pc EXCEPT ![t] = to]

\* A job starts again, a request does not.
Leave(t) ==
    /\ pc' = [pc EXCEPT ![t] = IF t \in Jobs THEN "idle" ELSE "done"]
    /\ of' = [of EXCEPT ![t] = NoOrder] /\ st' = [st EXCEPT ![t] = "none"]
    /\ seq' = [seq EXCEPT ![t] = 0] /\ found' = [found EXCEPT ![t] = FALSE]

Finish(t, from) == pc[t] = from /\ Leave(t)

SetStatus(o, s) == status' = [status EXCEPT ![o] = s]
Fault == faults < MaxFaults /\ faults' = faults + 1

----------------------------------------------------------------------------
(* Razorpay.                                                               *)

Attempt(o) ==
    /\ gate[o] = "open" /\ tried' = tried \cup {o}
    /\ UNCHANGED <<gate, payments, grants, posted, seen, pc, local, history>>

Pay(o) ==
    /\ gate[o] = "open" /\ gate' = [gate EXCEPT ![o] = "authorized"]
    /\ UNCHANGED <<tried, payments, grants, posted, seen, pc, local, history>>

\* The account's own automatic capture.
Settle(o) ==
    /\ gate[o] = "authorized" /\ gate' = [gate EXCEPT ![o] = "captured"]
    /\ UNCHANGED <<tried, payments, grants, posted, seen, pc, local, history>>

Happened(o, e) ==
    CASE e = "failed"     -> o \in tried
      [] e = "authorized" -> gate[o] # "open"
      [] e = "captured"   -> gate[o] = "captured"

\* Without an id of its own an event takes the id of its payment.
EventId(o, e) == <<o, IF OwnIds \/ e = "failed" THEN e ELSE "payment">>

\* Slip: the status of a paid order is taken over as it is.
FetchedUnmapped(o) ==
    IF o \in known THEN gate[o] 
    ELSE IF gate[o] = "captured" THEN "paid"
    ELSE IF gate[o] = "open" /\ o \notin tried THEN "created"
    ELSE "pending"

\* What Razorpay says of the payment, or of the order when no payment is known.
Fetched(o) ==
    IF o \in known THEN gate[o]
    ELSE IF gate[o] = "captured" THEN "captured"
    ELSE IF gate[o] = "open" /\ o \notin tried THEN "created"
    ELSE "pending"

----------------------------------------------------------------------------
(* recordCapturedPaymentArtifacts: one transaction, READ COMMITTED.  The   *)
(* sequence is unique, so an insert waits for an open transaction that     *)
(* inserted the same sequence.                                             *)

InsertOpen(t) == pc[t] \in {"find", "post"}

\* What its caller does next, whether the transaction failed or not.
AfterArtifacts(t) ==
    IF st[t] = "captured"
    THEN Leave(t)
    ELSE /\ pc' = [pc EXCEPT ![t] = "verifyGrant"]
         /\ seq' = [seq EXCEPT ![t] = 0] /\ found' = [found EXCEPT ![t] = FALSE]
         /\ UNCHANGED <<of, st>>

ReadAudit(t) ==
    /\ Go(t, "readAudit", "insert")
    /\ seq' = [seq EXCEPT ![t] = audit + 1]
    /\ UNCHANGED <<provider, payments, grants, posted, seen, of, st, found, history>>

\* Slip: the sequence is not unique.
InsertAnySequence(t) ==
    /\ Go(t, "insert", "find")
    /\ UNCHANGED <<provider, payments, grants, posted, seen, local, history>>

InsertAudit(t) ==
    /\ Go(t, "insert", "find")
    /\ audit < seq[t]
    /\ \A u \in Threads : InsertOpen(u) => seq[u] # seq[t]
    /\ UNCHANGED <<provider, payments, grants, posted, seen, local, history>>

\* P2002 is swallowed with the rest of the transaction.
AuditTaken(t) ==
    /\ pc[t] = "insert" /\ audit >= seq[t]
    /\ AfterArtifacts(t)
    /\ UNCHANGED <<provider, payments, grants, posted, seen, history>>

FindPosting(t) ==
    /\ Go(t, "find", "post")
    /\ found' = [found EXCEPT ![t] = booked[of[t]] > 0]
    /\ UNCHANGED <<provider, payments, grants, posted, seen, of, st, seq, history>>

Commit(t) ==
    /\ pc[t] = "post"
    /\ audit' = seq[t]
    /\ booked' = IF found[t] THEN booked ELSE [booked EXCEPT ![of[t]] = @ + 1]
    /\ AfterArtifacts(t)
    /\ UNCHANGED <<provider, payments, grants, seen, history>>

RollBack(t) ==
    /\ Fault /\ pc[t] \in {"readAudit", "insert", "find", "post"}
    /\ AfterArtifacts(t)
    /\ UNCHANGED <<provider, payments, grants, posted, seen, orphaned>>

----------------------------------------------------------------------------
(* POST /billing/credits/verify.  The checkout signs an authorized payment.*)

\* Slip: the signature is not checked.
VerifyUnsigned(t, o) ==
    /\ Start(t, o, IF status[o] = "captured" THEN "readAudit" ELSE "verifyUpdate", status[o])
    /\ UNCHANGED <<provider, payments, grants, posted, seen, history>>

Verify(t, o) ==
    /\ gate[o] # "open"
    /\ Start(t, o, IF status[o] = "captured" THEN "readAudit" ELSE "verifyUpdate", status[o])
    /\ UNCHANGED <<provider, payments, grants, posted, seen, history>>

VerifyUpdate(t) ==
    /\ Go(t, "verifyUpdate", "readAudit")
    /\ SetStatus(of[t], "captured") /\ known' = known \cup {of[t]}
    /\ UNCHANGED <<provider, grants, posted, seen, local, history>>

\* grantPurchasedInterviewMinutes, one transaction.
Grant(t, from) ==
    /\ Finish(t, from)
    /\ grants' = [grants EXCEPT ![of[t]] = @ + 1]
    /\ UNCHANGED <<provider, payments, posted, seen, history>>

----------------------------------------------------------------------------
(* POST /webhooks/razorpay.  A delivery whose event id is there is dropped.*)

Handler == [authorized |-> "authorize", captured |-> "captured", failed |-> "fail"]

Webhook(t, o, e) ==
    /\ Happened(o, e) /\ EventId(o, e) \notin seen
    /\ seen' = seen \cup {EventId(o, e)}
    /\ Start(t, o, Handler[e], "none")
    /\ UNCHANGED <<provider, payments, grants, posted, history>>

\* The insert of the event fails, and the event is processed all the same.
WebhookUnrecorded(t, o, e) ==
    /\ Fault /\ Happened(o, e)
    /\ Start(t, o, Handler[e], "none")
    /\ UNCHANGED <<provider, payments, grants, posted, seen, orphaned>>

\* payment.authorized
Authorize(t) ==
    /\ Go(t, "authorize", IF AutoCapture THEN "capture" ELSE "skip")
    /\ SetStatus(of[t], "authorized") /\ known' = known \cup {of[t]}
    /\ UNCHANGED <<provider, grants, posted, seen, local, history>>

\* Captured now, or "already been captured".
Capture(t) ==
    /\ Go(t, "capture", "update")
    /\ gate' = [gate EXCEPT ![of[t]] = "captured"]
    /\ UNCHANGED <<tried, payments, grants, posted, seen, local, history>>

\* The answer of Razorpay is an error, whatever Razorpay did.
CaptureFails(t) ==
    /\ Fault /\ Finish(t, "capture")
    /\ \E g \in {gate[of[t]], "captured"} : gate' = [gate EXCEPT ![of[t]] = g]
    /\ UNCHANGED <<tried, payments, grants, posted, seen, orphaned>>

\* payment.captured
Captured(t) ==
    /\ Go(t, "captured", "update") /\ status[of[t]] # "captured"
    /\ UNCHANGED <<provider, payments, grants, posted, seen, local, history>>

AlreadyCaptured(t) ==
    /\ Finish(t, "captured") /\ status[of[t]] = "captured"
    /\ UNCHANGED <<provider, payments, grants, posted, seen, history>>

CapturedUpdate(t) ==
    /\ Go(t, "update", "look")
    /\ SetStatus(of[t], "captured") /\ known' = known \cup {of[t]}
    /\ UNCHANGED <<provider, grants, posted, seen, local, history>>

\* No purchase row in the ledger, or one: nothing is left to do.
LookForGrant(t) ==
    /\ Go(t, "look", "grant") /\ grants[of[t]] = 0
    /\ UNCHANGED <<provider, payments, grants, posted, seen, local, history>>

Granted(t) ==
    /\ \/ Finish(t, "skip")
       \/ Finish(t, "look") /\ grants[of[t]] > 0
    /\ UNCHANGED <<provider, payments, grants, posted, seen, history>>

\* payment.failed
FailUpdate(t) ==
    /\ Finish(t, "fail") /\ SetStatus(of[t], "failed")
    /\ UNCHANGED <<provider, known, grants, posted, seen, history>>

----------------------------------------------------------------------------
(* WebhookRecoveryService, every 30 seconds.                               *)

\* Slip: authorized payments are not looked for.
RecoverCreated(t, o) ==
    /\ o \in known /\ status[o] \in {"created", "pending"}
    /\ Start(t, o, "recover", status[o])
    /\ UNCHANGED <<provider, payments, grants, posted, seen, history>>

Recover(t, o) ==
    /\ o \in known /\ status[o] \in Unresolved
    /\ Start(t, o, "recover", status[o])
    /\ UNCHANGED <<provider, payments, grants, posted, seen, history>>

RecoverFetch(t) ==
    /\ pc[t] = "recover"
    /\ IF gate[of[t]] = st[t]
       THEN Leave(t)
       ELSE /\ pc' = [pc EXCEPT ![t] = "reconcile"]
            /\ st' = [st EXCEPT ![t] = gate[of[t]]]
            /\ UNCHANGED <<of, seq, found>>
    /\ UNCHANGED <<provider, payments, grants, posted, seen, history>>

\* Slip: the status is repaired and the minutes forgotten.
RecoverStatusOnly(t) ==
    /\ Go(t, "reconcile", "skip")
    /\ SetStatus(of[t], st[t])
    /\ UNCHANGED <<provider, known, grants, posted, seen, local, history>>

RecoverUpdate(t) ==
    /\ Go(t, "reconcile", IF st[t] = "captured" THEN "look" ELSE "skip")
    /\ SetStatus(of[t], st[t])
    /\ UNCHANGED <<provider, known, grants, posted, seen, local, history>>

----------------------------------------------------------------------------
(* ReconciliationService, ZombiePaymentDetector and UpiPendingStateHandler,*)
(* all through StateManager.transitionState.                               *)

Reconcile(t, o) ==
    /\ status[o] \in Unresolved /\ Start(t, o, "fetch", status[o])
    /\ UNCHANGED <<provider, payments, grants, posted, seen, history>>

Fetch(t) ==
    /\ pc[t] = "fetch"
    /\ IF Fetched(of[t]) = st[t]
       THEN Leave(t)
       ELSE /\ pc' = [pc EXCEPT ![t] = "transition"]
            /\ st' = [st EXCEPT ![t] = Fetched(of[t])]
            /\ UNCHANGED <<of, seq, found>>
    /\ UNCHANGED <<provider, payments, grants, posted, seen, history>>

SweepPending(t, o) ==
    /\ status[o] = "pending" /\ Start(t, o, "transition", "failed")
    /\ UNCHANGED <<provider, payments, grants, posted, seen, history>>

\* handleOutOfOrderEvent: forward jumps and validTransitions.
Accepts(from, to) ==
    \/ from = "created" /\ to \in {"pending", "authorized", "captured", "failed"}
    \/ from = "pending" /\ to \in {"authorized", "captured", "failed"}
    \/ from = "authorized" /\ to \in {"captured", "failed"}

Transition(t) ==
    /\ Go(t, "transition", "write") /\ Accepts(status[of[t]], st[t])
    /\ UNCHANGED <<provider, payments, grants, posted, seen, local, history>>

\* The refusal is logged with the sequence AuditLogger counts in memory, never
\* ahead of the table: the next one, or one that is taken.
Refuse(t) ==
    /\ Finish(t, "transition") /\ ~Accepts(status[of[t]], st[t])
    /\ \/ audit' = audit
       \/ audit' = audit + 1 /\ \A u \in Threads : ~InsertOpen(u)
    /\ UNCHANGED <<provider, payments, grants, booked, seen, history>>

\* The record of the transition has a field the table lacks: what would follow
\* the update is never reached.
TransitionUpdate(t) ==
    /\ Finish(t, "write") /\ SetStatus(of[t], st[t])
    /\ orphaned' = IF st[t] = "captured" THEN orphaned \cup {of[t]} ELSE orphaned
    /\ UNCHANGED <<provider, known, grants, posted, seen, faults>>

----------------------------------------------------------------------------

\* It has written captured, and the grant is still to come.
Owes(t) ==
    \/ pc[t] \in {"verifyGrant", "look", "grant"}
    \/ pc[t] \in {"readAudit", "insert", "find", "post"} /\ st[t] # "captured"

\* The instance stops, or a call throws: a webhook answers 200, a job goes on.
Abort(t) ==
    /\ Fault /\ pc[t] \notin {"idle", "done"}
    /\ Leave(t)
    /\ orphaned' = IF Owes(t) THEN orphaned \cup {of[t]} ELSE orphaned
    /\ UNCHANGED <<provider, payments, grants, posted, seen>>

Artifacts(t) == ReadAudit(t) \/ InsertAudit(t) \/ AuditTaken(t) \/ FindPosting(t) \/ Commit(t)
Call(t) == VerifyUpdate(t) \/ Grant(t, "verifyGrant")
Deliver(t) ==
    \/ Authorize(t) \/ Capture(t) \/ Captured(t) \/ AlreadyCaptured(t) \/ CapturedUpdate(t)
    \/ LookForGrant(t) \/ Granted(t) \/ Grant(t, "grant") \/ FailUpdate(t)
Work(t) ==
    RecoverFetch(t) \/ RecoverUpdate(t) \/ Fetch(t) \/ Transition(t) \/ Refuse(t) \/ TransitionUpdate(t)
Step(t) == Artifacts(t) \/ Call(t) \/ Deliver(t) \/ Work(t)
Fail(t) == RollBack(t) \/ CaptureFails(t) \/ Abort(t)

Arrive(o) ==
    \/ Attempt(o) \/ Pay(o) \/ Settle(o)
    \/ \E t \in Requests : Verify(t, o)
    \/ \E t \in Requests, e \in Events : Webhook(t, o, e) \/ WebhookUnrecorded(t, o, e)
    \/ \E t \in Jobs : Recover(t, o) \/ Reconcile(t, o) \/ SweepPending(t, o)

Next == (\E o \in Orders : Arrive(o)) \/ (\E t \in Threads : Step(t) \/ Fail(t))

Spec == Init /\ [][Next]_vars

\* The instances run, and a pass of the recovery job comes to every order.
Fairness ==
    /\ \A t \in Threads : WF_vars(Step(t))
    /\ \A o \in Orders : SF_vars(\E t \in Jobs : Recover(t, o))

FairSpec == Spec /\ Fairness

----------------------------------------------------------------------------
(* Properties.                                                             *)

Places ==
    {"idle", "done", "skip", "readAudit", "insert", "find", "post", "verifyUpdate", "verifyGrant",
     "authorize", "capture", "captured", "fail", "update", "look", "grant", "recover", "reconcile",
     "fetch", "transition", "write"}

\* Types.
TypeOK ==
    /\ gate \in [Orders -> {"open", "authorized", "captured"}] /\ tried \subseteq Orders
    /\ status \in [Orders -> Statuses] /\ known \subseteq Orders
    /\ grants \in [Orders -> Nat] /\ booked \in [Orders -> Nat] /\ audit \in Nat
    /\ seen \subseteq Orders \X (Events \cup {"payment"})
    /\ pc \in [Threads -> Places]
    /\ of \in [Threads -> Orders \cup {NoOrder}]
    /\ st \in [Threads -> Statuses \cup {"none"}]
    /\ seq \in [Threads -> Nat] /\ found \in [Threads -> BOOLEAN]
    /\ orphaned \subseteq Orders /\ faults \in 0..MaxFaults

(* The revenue of an order is posted once, whatever calls, retries and     *)
(* replays record it at the same time: the row is looked for without a     *)
(* lock, and only the unique audit sequence keeps two such transactions    *)
(* apart (recordCapturedPaymentArtifacts).                                 *)
PostedOnce == \A o \in Orders : booked[o] <= 1

(* Minutes are granted, and revenue posted, only for an order whose payer  *)
(* has paid: no job, and no late or repeated event, grants an order that   *)
(* was only opened or tried.                                               *)
GrantIsPaid == \A o \in Orders : grants[o] + booked[o] > 0 => gate[o] # "open"

(* A payment that Razorpay captured, and whose id is known, is in the end  *)
(* captured or failed here, and stays so, though every event of it was     *)
(* lost and late writes took the status back (recoverMissedWebhooks).      *)
KnownIsResolved ==
    \A o \in Orders :
        <>[](o \in known /\ gate[o] = "captured" => status[o] \notin Unresolved)

(* A captured payment whose id is known gets its minutes, through any      *)
(* interleaving and any failure but two: it was orphaned (the StateManager *)
(* wrote captured, and it grants nothing, or a handler stopped between     *)
(* that write and the grant; every later handler takes the grant as made), *)
(* or a late payment.failed or the UPI sweep failed it.                    *)
PaidIsGranted ==
    \A o \in Orders :
        (o \in known /\ gate[o] = "captured")
            ~> (grants[o] > 0 \/ o \in orphaned \/ status[o] = "failed")

(* An order is granted once: "Minute grants use the atomic entitlements    *)
(* service so double-delivery is a no-op" (webhooks.ts:12-13).             *)
GrantedOnce == \A o \in Orders : grants[o] <= 1
================================================================================
