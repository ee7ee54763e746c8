----------------------------- MODULE MinuteWallet -----------------------------
(***************************************************************************)
(* The interview minutes of one user: the wallet and its ledger            *)
(* (apps/api/src/services/entitlements.ts), the start of an interview,     *)
(* which reserves its minutes (POST /interviews/:id/start,                 *)
(* routes/interviews.ts), its end, which gives the unused ones back, and   *)
(* the job that ends a lapsed subscription                                 *)
(* (services/payment/subscription-cancellation-service.ts).                *)
(*                                                                         *)
(* A call is one request, on any instance.  A transaction is READ          *)
(* COMMITTED: its reads are steps of their own, and its first write of the *)
(* wallet, which locks the row, is one step with all that follows.  There  *)
(* is one paid plan, one length of interview and one minute pack.          *)
(***************************************************************************)
EXTENDS Integers, FiniteSets, FiniteSetsExt

CONSTANTS
    Sessions,      \* interviews of the user
    NoSession,
    Calls,
    Cost,          \* minutes of an interview
    Plan,          \* monthly minutes of the plan
    Pack,          \* minutes of a pack
    Gift,          \* free minutes
    MaxPeriod,     \* bound: calendar months
    MaxPacks       \* bound: packs bought

ASSUME WalletAssumption ==
    /\ IsFiniteSet(Sessions) /\ NoSession \notin Sessions
    /\ Cost \in Nat \ {0} /\ {Plan, Pack, Gift} \subseteq Nat
    /\ MaxPeriod \in Nat /\ MaxPacks \in Nat

Buckets == {"free", "monthly", "purchased"}
Kept == {"free", "purchased"}
Nothing == [b \in Buckets |-> 0]

VARIABLES
    wallet,     \* credit_wallets, by bucket
    grantedIn,  \* the month of monthlyGrantedAt, 0 for null
    planRows,   \* months with a plan row in credit_ledger
    booked,     \* what the ledger rows of a bucket add up to
    packs,      \* packs bought
    active,     \* the user has a paid plan
    lapsed,     \* a subscription has ended, and its row does not say so
    period,     \* the month
    charges,    \* reservations of each session
    reserved,   \* ledger rows of refType interview, by session and bucket
    refunded,   \* ledger rows of refType interview_settlement
    started,    \* sessions with startedAt
    elapsed,    \* minutes from startedAt to completedAt, 0 while that is null
    pc, of,     \* where each call is, and with which session
    saw,        \* the wallet it read
    paid,       \* the refund it will make
    resets,     \* its grant starts a month, or else tops it up
    month,      \* the month it grants
    lasted,     \* the minutes it read
    raced,      \* history: a start spent from a bucket lowered since it read it
    settling    \* history: sessions two calls settled at the same time

money == <<wallet, booked, packs>>
plan == <<grantedIn, planRows, active, lapsed, period>>
rows == <<charges, reserved, refunded>>
clock == <<started, elapsed>>
local == <<saw, paid, resets, month, lasted>>
history == <<raced, settling>>
vars == <<money, plan, rows, clock, pc, of, local, history>>

Init ==
    /\ wallet = [b \in Buckets |-> IF b = "free" THEN Gift ELSE 0]
    /\ booked = [b \in Kept |-> IF b = "free" THEN Gift ELSE 0]
    /\ packs = 0 /\ grantedIn = 0 /\ planRows = {}
    /\ active \in BOOLEAN /\ lapsed = FALSE /\ period = 1
    /\ charges = [s \in Sessions |-> 0]
    /\ reserved = [s \in Sessions |-> Nothing] /\ refunded = [s \in Sessions |-> Nothing]
    /\ started = {} /\ elapsed = [s \in Sessions |-> 0]
    /\ pc = [t \in Calls |-> "idle"] /\ of = [t \in Calls |-> NoSession]
    /\ saw = [t \in Calls |-> Nothing] /\ paid = [t \in Calls |-> Nothing]
    /\ resets = [t \in Calls |-> FALSE] /\ month = [t \in Calls |-> 0]
    /\ lasted = [t \in Calls |-> 0]
    /\ raced = FALSE /\ settling = {}

Least(x, y) == IF x <= y THEN x ELSE y
Positive(x) == IF x > 0 THEN x ELSE 0
Total(w) == w["free"] + w["monthly"] + w["purchased"]
Plus(w, v) == [b \in DOMAIN w |-> w[b] + v[b]]

Call(t, s, at) ==
    /\ pc[t] = "idle" /\ pc' = [pc EXCEPT ![t] = at] /\ of' = [of EXCEPT ![t] = s]

Go(t, from, to) == pc[t] = from /\ pc' = [pc EXCEPT ![t] = to]

Leave(t) ==
    /\ pc' = [pc EXCEPT ![t] = "done"] /\ of' = [of EXCEPT ![t] = NoSession]
    /\ saw' = [saw EXCEPT ![t] = Nothing] /\ paid' = [paid EXCEPT ![t] = Nothing]
    /\ resets' = [resets EXCEPT ![t] = FALSE] /\ month' = [month EXCEPT ![t] = 0]
    /\ lasted' = [lasted EXCEPT ![t] = 0]

Finish(t, from) == pc[t] = from /\ Leave(t)

----------------------------------------------------------------------------
(* The month, the payments and the subscription.                           *)

NextPeriod ==
    /\ period < MaxPeriod /\ period' = period + 1
    /\ UNCHANGED <<money, grantedIn, planRows, active, lapsed, rows, clock, pc, of, local, history>>

Subscribe ==
    /\ ~active /\ active' = TRUE
    /\ UNCHANGED <<money, grantedIn, planRows, lapsed, period, rows, clock, pc, of, local, history>>

Lapse ==
    /\ active /\ ~lapsed /\ active' = FALSE /\ lapsed' = TRUE
    /\ UNCHANGED <<money, grantedIn, planRows, period, rows, clock, pc, of, local, history>>

\* grantPurchasedInterviewMinutes, one transaction.
BuyPack ==
    /\ packs < MaxPacks /\ packs' = packs + 1
    /\ wallet' = [wallet EXCEPT !["purchased"] = @ + Pack]
    /\ booked' = [booked EXCEPT !["purchased"] = @ + Pack]
    /\ UNCHANGED <<plan, rows, clock, pc, of, local, history>>

\* handleExpiredSubscriptions: what it found it ends, whatever has changed.
FindExpired(t) ==
    /\ lapsed /\ Call(t, NoSession, "expire")
    /\ UNCHANGED <<money, plan, rows, clock, local, history>>

Expire(t) ==
    /\ Finish(t, "expire")
    /\ wallet' = [wallet EXCEPT !["monthly"] = 0]
    /\ grantedIn' = 0 /\ lapsed' = FALSE
    /\ UNCHANGED <<booked, packs, planRows, active, period, rows, clock, history>>

----------------------------------------------------------------------------
(* ensureMonthlyGrant, on the statement level for a read of the balance,   *)
(* in the transaction for a start.                                         *)

\* A new month, or a month without a row for the plan.
GrantIsDue == grantedIn < period \/ (Plan > wallet["monthly"] /\ period \notin planRows)

LookForGrant(t, from, grant, none) ==
    /\ Go(t, from, IF GrantIsDue THEN grant ELSE none)
    /\ resets' = [resets EXCEPT ![t] = grantedIn < period]
    /\ month' = [month EXCEPT ![t] = period]

\* Slip: the grant is added to what is left.
GrantAdded(w) == [w EXCEPT !["monthly"] = @ + Plan]

\* The monthly bucket does not roll over.
Granted(w) == [w EXCEPT !["monthly"] = Plan]

\* Slip: monthlyGrantedAt takes the date of the next reset.
MarkNext(t) == grantedIn' = IF resets[t] THEN month[t] + 1 ELSE grantedIn

MarkGranted(t) == grantedIn' = IF resets[t] THEN month[t] ELSE grantedIn

Read(t) ==
    /\ active /\ Call(t, NoSession, "look")
    /\ UNCHANGED <<money, plan, rows, clock, local, history>>

ReadLook(t) ==
    /\ LookForGrant(t, "look", "grant", "skip")
    /\ UNCHANGED <<money, plan, rows, clock, of, saw, paid, lasted, history>>

ReadGrant(t) ==
    /\ Go(t, "grant", "row")
    /\ wallet' = Granted(wallet) /\ MarkGranted(t)
    /\ UNCHANGED <<booked, packs, planRows, active, lapsed, period, rows, clock, of, local, history>>

ReadRow(t) ==
    /\ Finish(t, "row") /\ planRows' = planRows \cup {period}
    /\ UNCHANGED <<money, grantedIn, active, lapsed, period, rows, clock, history>>

ReadDone(t) ==
    /\ Finish(t, "skip")
    /\ UNCHANGED <<money, plan, rows, clock, history>>

----------------------------------------------------------------------------
(* POST /interviews/:id/start.                                             *)

Holding == {"startLook", "startGrant", "total", "reserve"}

Start(t, s) ==
    /\ Call(t, s, "lock")
    /\ UNCHANGED <<money, plan, rows, clock, local, history>>

\* Slip: the session is read without FOR UPDATE.
LockNothing(t) ==
    /\ Go(t, "lock", IF active THEN "startLook" ELSE "total")
    /\ charges[of[t]] = 0
    /\ UNCHANGED <<money, plan, rows, clock, of, local, history>>

\* SELECT ... FOR UPDATE, then the ledger, then the plan.
Lock(t) ==
    /\ Go(t, "lock", IF active THEN "startLook" ELSE "total")
    /\ \A u \in Calls : pc[u] \in Holding => of[u] # of[t]
    /\ charges[of[t]] = 0
    /\ UNCHANGED <<money, plan, rows, clock, of, local, history>>

AlreadyStarted(t) ==
    /\ pc[t] = "lock" /\ charges[of[t]] > 0
    /\ \A u \in Calls : pc[u] \in Holding => of[u] # of[t]
    /\ Leave(t)
    /\ UNCHANGED <<money, plan, rows, clock, history>>

StartLook(t) ==
    /\ LookForGrant(t, "startLook", "startGrant", "total")
    /\ UNCHANGED <<money, plan, rows, clock, of, saw, paid, lasted, history>>

\* Free first, then the month's, then the purchased ones.
Use(w) ==
    LET f == Least(Cost, w["free"])
        m == Least(Cost - f, w["monthly"])
        p == Least(Cost - f - m, w["purchased"])
    IN  [b \in Buckets |-> CASE b = "free" -> f [] b = "monthly" -> m [] b = "purchased" -> p]

\* Slip: the new balance is computed from what was read.
Balance(w, read, use) == [b \in Buckets |-> read[b] - use[b]]

Decrement(w, read, use) == [b \in Buckets |-> w[b] - use[b]]

\* From the update of the wallet to the commit: rows for positive amounts only.
Reserve(t, w, read) ==
    LET use == Use(read)
    IN  /\ wallet' = Decrement(w, read, use)
        /\ booked' = [b \in Kept |-> booked[b] - Positive(use[b])]
        /\ reserved' = [reserved EXCEPT ![of[t]] = [b \in Buckets |-> @[b] + Positive(use[b])]]
        /\ charges' = [charges EXCEPT ![of[t]] = @ + 1]
        /\ started' = started \cup {of[t]}
        /\ raced' = (raced \/ \E b \in Buckets : w[b] < read[b])
        /\ UNCHANGED <<packs, refunded, elapsed, settling>>

ReadTotal(t) ==
    /\ Go(t, "total", "reserve") /\ Total(wallet) >= Cost
    /\ saw' = [saw EXCEPT ![t] = wallet]
    /\ UNCHANGED <<money, plan, rows, clock, of, paid, resets, month, lasted, history>>

\* EntitlementError, and the grant, if any, is rolled back with it.
TooFewMinutes(t) ==
    /\ \/ Finish(t, "total") /\ Total(wallet) < Cost
       \/ Finish(t, "startGrant") /\ Total(Granted(wallet)) < Cost
    /\ UNCHANGED <<money, plan, rows, clock, history>>

StartReserve(t) ==
    /\ Finish(t, "reserve") /\ Reserve(t, wallet, saw[t])
    /\ UNCHANGED plan

\* The grant locks the wallet, so the total is read and spent under the lock.
StartGrant(t) ==
    /\ Finish(t, "startGrant") /\ Total(Granted(wallet)) >= Cost
    /\ MarkGranted(t) /\ planRows' = planRows \cup {period}
    /\ Reserve(t, Granted(wallet), Granted(wallet))
    /\ UNCHANGED <<active, lapsed, period>>

----------------------------------------------------------------------------
(* The end of an interview: POST /interviews/:id/end, session:end of the   *)
(* web socket, the AI's last turn, and settleInterviewMinuteReservation.   *)

Settling == {"settle", "rows", "refund"}

BeginSettle(t, s) ==
    settling' = IF \E u \in Calls : pc[u] \in Settling /\ of[u] = s
                THEN settling \cup {s} ELSE settling

\* completedAt is written again by whoever ends the interview later.
Complete(t, s) ==
    /\ s \in started /\ Call(t, s, "settle") /\ BeginSettle(t, s)
    /\ \E m \in 1..Cost : m >= elapsed[s] /\ elapsed' = [elapsed EXCEPT ![s] = m]
    /\ UNCHANGED <<money, plan, rows, started, local, raced>>

\* POST /interviews/:id/end of a completed interview settles it again.
SettleAgain(t, s) ==
    /\ s \in started /\ elapsed[s] > 0 /\ Call(t, s, "settle") /\ BeginSettle(t, s)
    /\ UNCHANGED <<money, plan, rows, clock, local, raced>>

ReadSession(t) ==
    /\ Go(t, "settle", "rows")
    /\ lasted' = [lasted EXCEPT ![t] = elapsed[of[t]]]
    /\ UNCHANGED <<money, plan, rows, clock, of, saw, paid, resets, month, history>>

\* Purchased minutes are given back first, then the month's, then free ones.
Unused(s, used) ==
    LET left == Total(reserved[s]) - Least(used, Total(reserved[s]))
        p == Least(left, reserved[s]["purchased"])
        m == Least(left - p, reserved[s]["monthly"])
        f == Least(left - p - m, reserved[s]["free"])
    IN  [b \in Buckets |-> CASE b = "free" -> f [] b = "monthly" -> m [] b = "purchased" -> p]

\* Slip: what was given back before is not looked at.
StillDueAll(s, used) == Unused(s, used)

\* Less what the ledger says was given back.
StillDue(s, used) ==
    IF Total(refunded[s]) >= Total(Unused(s, used))
    THEN Nothing
    ELSE [b \in Buckets |-> Positive(Unused(s, used)[b] - refunded[s][b])]

ReadRows(t) ==
    /\ Go(t, "rows", "refund")
    /\ paid' = [paid EXCEPT ![t] = StillDue(of[t], lasted[t])]
    /\ UNCHANGED <<money, plan, rows, clock, of, saw, resets, month, lasted, history>>

\* refundCredits, one transaction.
Refund(t) ==
    /\ Finish(t, "refund")
    /\ wallet' = Plus(wallet, paid[t]) /\ booked' = Plus(booked, paid[t])
    /\ refunded' = [refunded EXCEPT ![of[t]] = Plus(@, paid[t])]
    /\ UNCHANGED <<packs, plan, charges, reserved, clock, history>>

----------------------------------------------------------------------------

\* A statement fails, the transaction times out, or the instance stops.
Abort(t) ==
    /\ pc[t] \notin {"idle", "done"} /\ Leave(t)
    /\ UNCHANGED <<money, plan, rows, clock, history>>

Grants(t) == ReadLook(t) \/ ReadGrant(t) \/ ReadRow(t) \/ ReadDone(t)
Starts(t) ==
    \/ Lock(t) \/ AlreadyStarted(t) \/ StartLook(t) \/ ReadTotal(t)
    \/ TooFewMinutes(t) \/ StartReserve(t) \/ StartGrant(t)
Settles(t) == ReadSession(t) \/ ReadRows(t) \/ Refund(t)
Arrive(t) ==
    \/ Read(t) \/ FindExpired(t)
    \/ \E s \in Sessions : Start(t, s) \/ Complete(t, s) \/ SettleAgain(t, s)

Next ==
    \/ NextPeriod \/ Subscribe \/ Lapse \/ BuyPack
    \/ \E t \in Calls :
          Arrive(t) \/ Grants(t) \/ Starts(t) \/ Settles(t) \/ Expire(t) \/ Abort(t)

Spec == Init /\ [][Next]_vars

----------------------------------------------------------------------------
(* Properties.                                                             *)

Places ==
    {"idle", "done", "expire", "look", "grant", "row", "skip", "lock", "startLook",
     "startGrant", "total", "reserve", "settle", "rows", "refund"}

Minutes == [Buckets -> Int]
Amounts == [Buckets -> Nat]

\* Types.
TypeOK ==
    /\ wallet \in Minutes /\ booked \in [Kept -> Int] /\ packs \in 0..MaxPacks
    /\ period \in Nat \ {0} /\ grantedIn \in 0..period /\ planRows \subseteq 1..period
    /\ active \in BOOLEAN /\ lapsed \in BOOLEAN
    /\ charges \in [Sessions -> Nat]
    /\ reserved \in [Sessions -> Amounts] /\ refunded \in [Sessions -> Amounts]
    /\ started \subseteq Sessions /\ elapsed \in [Sessions -> 0..Cost]
    /\ pc \in [Calls -> Places] /\ of \in [Calls -> Sessions \cup {NoSession}]
    /\ saw \in [Calls -> Minutes] /\ paid \in [Calls -> Amounts]
    /\ resets \in [Calls -> BOOLEAN] /\ month \in [Calls -> 0..period]
    /\ lasted \in [Calls -> 0..Cost]
    /\ raced \in BOOLEAN /\ settling \subseteq Sessions

(* An interview that was started was charged once, whatever starts of it   *)
(* run at the same time, fail or are tried again: the lock on its row      *)
(* covers the read of the ledger and the charge (POST /:id/start).         *)
ChargedOnce == \A s \in Sessions : charges[s] = IF s \in started THEN 1 ELSE 0

(* Unless a start spent minutes that another call took after it had read   *)
(* them, no bucket is below zero, and the free and the purchased minutes   *)
(* are what their ledger rows add up to: no charge, refund or purchase is  *)
(* lost or counted twice by another that is open at the same time.         *)
WalletIsLedger ==
    ~raced => /\ \A b \in Buckets : wallet[b] >= 0
              /\ \A b \in Kept : wallet[b] = booked[b]

\* The month's minutes given back, by interview.
MonthlyBack == [s \in Sessions |-> refunded[s]["monthly"]]

(* The month's minutes never exceed the plan by more than what was given   *)
(* back of earlier interviews, however many reads of the balance grant the *)
(* month at once, late or again (ensureMonthlyGrant).                      *)
MonthlyIsBounded ==
    ~raced => wallet["monthly"] <= Plan +
        MapThenSumSet(LAMBDA s : MonthlyBack[s], Sessions)

(* The unused minutes of an interview are given back once, unless two      *)
(* calls settle it at the same time: an end that comes later, with a later *)
(* completedAt, adds nothing (settleInterviewMinuteReservation).           *)
RefundedOnce ==
    [][\A s \in Sessions :
          s \notin settling /\ Total(refunded[s]) > 0 => refunded'[s] = refunded[s]]_vars
================================================================================
