--------------------------- MODULE MinutePackProofs ---------------------------
(***************************************************************************)
(* Proofs about MinutePack: the revenue of an order is posted once, and    *)
(* nothing is granted or posted before the payer has paid, for any orders, *)
(* requests, jobs and failures.                                            *)
(***************************************************************************)
EXTENDS MinutePack, TLAPS

\* Where a thread is only with an order that is paid.
PaidPlaces ==
    {"readAudit", "insert", "find", "post", "verifyUpdate", "verifyGrant", "authorize", "capture",
     "captured", "update", "look", "grant", "recover", "reconcile"}

\* Where it holds a status of the order.
StatusPlaces == {"recover", "reconcile", "fetch", "transition", "write"}

(* An open insert holds the sequence after the last committed one, and who *)
(* found no posting with it still finds none.                              *)
ThreadOK(t) ==
    /\ pc[t] \notin {"idle", "done"} => of[t] \in Orders
    /\ pc[t] \in StatusPlaces => st[t] \in Statuses
    /\ pc[t] \in PaidPlaces => gate[of[t]] # "open"
    /\ pc[t] = "insert" => seq[t] <= audit + 1
    /\ InsertOpen(t) => seq[t] = audit + 1
    /\ pc[t] = "post" /\ ~found[t] => booked[of[t]] = 0

ThreadsOK == \A t \in Threads : ThreadOK(t)

\* So two inserts are never open at a time.
Alone == \A t, u \in Threads : InsertOpen(t) /\ InsertOpen(u) => t = u

KnownIsPaid == \A o \in known : gate[o] # "open"

PackInv == TypeOK /\ ThreadsOK /\ Alone /\ KnownIsPaid /\ PostedOnce /\ GrantIsPaid

-----------------------------------------------------------------------------
(* Types of the threads' variables, by the way a thread moves.             *)

LocalOK ==
    /\ pc \in [Threads -> Places] /\ of \in [Threads -> Orders \cup {NoOrder}]
    /\ st \in [Threads -> Statuses \cup {"none"}]
    /\ seq \in [Threads -> Nat] /\ found \in [Threads -> BOOLEAN]

LEMMA StartOK ==
    ASSUME TypeOK, NEW t \in Threads, NEW o \in Orders, NEW at \in Places,
           NEW s \in Statuses \cup {"none"}, Start(t, o, at, s)
    PROVE  LocalOK'
  BY DEF TypeOK, Start, LocalOK

LEMMA GoOK ==
    ASSUME TypeOK, NEW t \in Threads, NEW from, NEW to \in Places, Go(t, from, to), UNCHANGED local
    PROVE  LocalOK'
  BY DEF TypeOK, Go, LocalOK, local

LEMMA LeaveOK ==
    ASSUME TypeOK, NEW t \in Threads, Leave(t)
    PROVE  LocalOK'
  BY DEF TypeOK, Leave, LocalOK, Places

LEMMA AfterOK ==
    ASSUME TypeOK, NEW t \in Threads, AfterArtifacts(t)
    PROVE  LocalOK'
<1>1. CASE st[t] = "captured" BY <1>1, LeaveOK DEF AfterArtifacts
<1>2. CASE st[t] # "captured"
  <2>1. "verifyGrant" \in Places /\ 0 \in Nat /\ FALSE \in BOOLEAN BY DEF Places
  <2> QED BY <1>2, <2>1 DEF AfterArtifacts, TypeOK, LocalOK
<1> QED BY <1>1, <1>2

LEMMA HandlerOK ==
    ASSUME NEW o \in Orders, NEW e \in Events, Happened(o, e)
    PROVE  /\ Handler[e] \in {"authorize", "captured", "fail"}
           /\ Handler[e] # "fail" => gate[o] # "open"
<1>1. Handler["authorized"] = "authorize" /\ Handler["captured"] = "captured"
      /\ Handler["failed"] = "fail"
  BY DEF Handler
<1>2. CASE e = "failed" BY <1>1, <1>2
<1>3. CASE e = "authorized" BY <1>1, <1>3 DEF Happened
<1>4. CASE e = "captured" BY <1>1, <1>4 DEF Happened
<1> QED BY <1>2, <1>3, <1>4 DEF Events

-----------------------------------------------------------------------------
LEMMA InitOK == Init => PackInv
  BY PackAssumption
  DEF Init, PackInv, TypeOK, Places, Statuses, Unresolved, ThreadsOK, ThreadOK, StatusPlaces,
     PaidPlaces, InsertOpen, Alone, KnownIsPaid, PostedOnce, GrantIsPaid

LEMMA StepOK == PackInv /\ [Next]_vars => PackInv'
<1> SUFFICES ASSUME PackInv, [Next]_vars PROVE PackInv' OBVIOUS
<1> USE PackAssumption
     DEF PackInv, Go, Start, Finish, Leave, AfterArtifacts, SetStatus, Fault, provider, payments,
         posted, local, history

<1>1. ASSUME NEW o \in Orders, Attempt(o) PROVE PackInv'
  <2>1. TypeOK' BY <1>1 DEF Attempt, TypeOK
  <2>2. ThreadsOK' BY <1>1 DEF Attempt, ThreadsOK, ThreadOK, InsertOpen
  <2>3. Alone' /\ KnownIsPaid' /\ PostedOnce' /\ GrantIsPaid'
    BY <1>1 DEF Attempt, InsertOpen, Alone, KnownIsPaid, PostedOnce, GrantIsPaid
  <2> QED BY <2>1, <2>2, <2>3
<1>2. ASSUME NEW o \in Orders, Pay(o) PROVE PackInv'
  <2>1. TypeOK' BY <1>2 DEF Pay, TypeOK
  <2>2. ThreadsOK' BY <1>2 DEF Pay, ThreadsOK, ThreadOK, InsertOpen
  <2>3. Alone' /\ KnownIsPaid' /\ PostedOnce' /\ GrantIsPaid'
    BY <1>2 DEF Pay, InsertOpen, Alone, KnownIsPaid, PostedOnce, GrantIsPaid
  <2> QED BY <2>1, <2>2, <2>3
<1>3. ASSUME NEW o \in Orders, Settle(o) PROVE PackInv'
  <2>1. TypeOK' BY <1>3 DEF Settle, TypeOK
  <2>2. ThreadsOK' BY <1>3 DEF Settle, ThreadsOK, ThreadOK, InsertOpen
  <2>3. Alone' /\ KnownIsPaid' /\ PostedOnce' /\ GrantIsPaid'
    BY <1>3 DEF Settle, InsertOpen, Alone, KnownIsPaid, PostedOnce, GrantIsPaid
  <2> QED BY <2>1, <2>2, <2>3
<1>4. ASSUME NEW o \in Orders, NEW t \in Threads, Verify(t, o) PROVE PackInv'
  <2>1. TypeOK' BY <1>4 DEF Verify, TypeOK, Places
  <2>2. ThreadsOK' BY <1>4 DEF Verify, TypeOK, ThreadsOK, ThreadOK, InsertOpen
  <2>3. Alone' /\ KnownIsPaid' /\ PostedOnce' /\ GrantIsPaid'
    BY <1>4 DEF Verify, InsertOpen, Alone, KnownIsPaid, PostedOnce, GrantIsPaid
  <2> QED BY <2>1, <2>2, <2>3
<1>5. ASSUME NEW o \in Orders, NEW t \in Threads, Recover(t, o) PROVE PackInv'
  <2>1. TypeOK' BY <1>5 DEF Recover, TypeOK, Places
  <2>2. ThreadsOK' BY <1>5 DEF Recover, TypeOK, ThreadsOK, ThreadOK, InsertOpen, KnownIsPaid
  <2>3. Alone' /\ KnownIsPaid' /\ PostedOnce' /\ GrantIsPaid'
    BY <1>5 DEF Recover, InsertOpen, Alone, KnownIsPaid, PostedOnce, GrantIsPaid
  <2> QED BY <2>1, <2>2, <2>3
<1>6. ASSUME NEW o \in Orders, NEW t \in Threads, Reconcile(t, o) PROVE PackInv'
  <2>1. TypeOK' BY <1>6 DEF Reconcile, TypeOK, Places
  <2>2. ThreadsOK' BY <1>6 DEF Reconcile, TypeOK, ThreadsOK, ThreadOK, PaidPlaces, InsertOpen
  <2>3. Alone' /\ KnownIsPaid' /\ PostedOnce' /\ GrantIsPaid'
    BY <1>6 DEF Reconcile, InsertOpen, Alone, KnownIsPaid, PostedOnce, GrantIsPaid
  <2> QED BY <2>1, <2>2, <2>3
<1>7. ASSUME NEW o \in Orders, NEW t \in Threads, SweepPending(t, o) PROVE PackInv'
  <2>1. TypeOK' BY <1>7 DEF SweepPending, TypeOK, Statuses, Places
  <2>2. ThreadsOK'
    BY <1>7 DEF SweepPending, TypeOK, ThreadsOK, ThreadOK, PaidPlaces, InsertOpen, Statuses
  <2>3. Alone' /\ KnownIsPaid' /\ PostedOnce' /\ GrantIsPaid'
    BY <1>7 DEF SweepPending, InsertOpen, Alone, KnownIsPaid, PostedOnce, GrantIsPaid
  <2> QED BY <2>1, <2>2, <2>3
<1>8. ASSUME NEW o \in Orders, NEW t \in Threads, NEW e \in Events, Webhook(t, o, e) PROVE PackInv'
  <2>1. Handler[e] \in {"authorize", "captured", "fail"} /\ (Handler[e] # "fail" => gate[o] #
     "open")
    BY <1>8, HandlerOK DEF Webhook
  <2>2. LocalOK' BY <1>8, <2>1, StartOK DEF Webhook, Places
  <2>3. TypeOK' BY <1>8, <2>2 DEF Webhook, TypeOK, LocalOK, EventId
  <2>4. ThreadsOK'
    BY <1>8, <2>1 DEF Webhook, TypeOK, ThreadsOK, ThreadOK, PaidPlaces, StatusPlaces, InsertOpen
  <2>5. Alone' /\ KnownIsPaid' /\ PostedOnce' /\ GrantIsPaid'
    BY <1>8, <2>1 DEF Webhook, InsertOpen, Alone, KnownIsPaid, PostedOnce, GrantIsPaid
  <2> QED BY <2>3, <2>4, <2>5
<1>9. ASSUME NEW o \in Orders, NEW t \in Threads, NEW e \in Events, WebhookUnrecorded(t, o, e) PROVE
   PackInv'
  <2>1. Handler[e] \in {"authorize", "captured", "fail"} /\ (Handler[e] # "fail" => gate[o] #
     "open")
    BY <1>9, HandlerOK DEF WebhookUnrecorded
  <2>2. LocalOK' BY <1>9, <2>1, StartOK DEF WebhookUnrecorded, Places
  <2>3. TypeOK' BY <1>9, <2>2 DEF WebhookUnrecorded, TypeOK, LocalOK
  <2>4. ThreadsOK'
    BY <1>9, <2>1 DEF WebhookUnrecorded, TypeOK, ThreadsOK, ThreadOK, PaidPlaces, StatusPlaces,
       InsertOpen
  <2>5. Alone' /\ KnownIsPaid' /\ PostedOnce' /\ GrantIsPaid'
    BY <1>9, <2>1 DEF WebhookUnrecorded, InsertOpen, Alone, KnownIsPaid, PostedOnce, GrantIsPaid
  <2> QED BY <2>3, <2>4, <2>5
<1>10. ASSUME NEW t \in Threads, ReadAudit(t) PROVE PackInv'
  <2>1. TypeOK' BY <1>10 DEF ReadAudit, TypeOK, Places
  <2>2. ThreadsOK'
    BY <1>10 DEF ReadAudit, TypeOK, ThreadsOK, ThreadOK, PaidPlaces, StatusPlaces, InsertOpen
  <2>3. Alone' /\ KnownIsPaid' /\ PostedOnce' /\ GrantIsPaid'
    BY <1>10 DEF ReadAudit, InsertOpen, Alone, KnownIsPaid, PostedOnce, GrantIsPaid
  <2> QED BY <2>1, <2>2, <2>3
<1>11. ASSUME NEW t \in Threads, InsertAudit(t) PROVE PackInv'
  <2>1. TypeOK' BY <1>11 DEF InsertAudit, TypeOK, Places
  <2>2. ThreadsOK'
    BY <1>11 DEF InsertAudit, TypeOK, ThreadsOK, ThreadOK, PaidPlaces, StatusPlaces, InsertOpen
  <2>3. Alone' /\ KnownIsPaid' /\ PostedOnce' /\ GrantIsPaid'
    BY <1>11 DEF InsertAudit, TypeOK, ThreadsOK, ThreadOK, InsertOpen, Alone, KnownIsPaid,
       PostedOnce, GrantIsPaid
  <2> QED BY <2>1, <2>2, <2>3
<1>12. ASSUME NEW t \in Threads, AuditTaken(t) PROVE PackInv'
  <2>1. LocalOK' BY <1>12, AfterOK DEF AuditTaken
  <2>2. TypeOK' BY <1>12, <2>1 DEF AuditTaken, TypeOK, LocalOK
  <2>3. ThreadsOK'
    BY <1>12 DEF AuditTaken, TypeOK, ThreadsOK, ThreadOK, PaidPlaces, StatusPlaces, InsertOpen
  <2>4. Alone' /\ KnownIsPaid' /\ PostedOnce' /\ GrantIsPaid'
    BY <1>12 DEF AuditTaken, TypeOK, InsertOpen, Alone, KnownIsPaid, PostedOnce, GrantIsPaid
  <2> QED BY <2>2, <2>3, <2>4
<1>13. ASSUME NEW t \in Threads, FindPosting(t) PROVE PackInv'
  <2>1. TypeOK' BY <1>13 DEF FindPosting, TypeOK, Places
  <2>2. of[t] \in Orders /\ booked[of[t]] \in Nat
    BY <1>13 DEF FindPosting, TypeOK, ThreadsOK, ThreadOK
  <2>3. (~found'[t] => ~(booked[of[t]] > 0)) /\ \A u \in Threads \ {t} : found'[u] = found[u]
    BY <1>13 DEF FindPosting, TypeOK
  <2>4. ThreadOK(t)'
    BY <1>13, <2>2, <2>3 DEF FindPosting, ThreadsOK, ThreadOK, PaidPlaces, StatusPlaces, InsertOpen
  <2>5. \A u \in Threads \ {t} : ThreadOK(u)'
    BY <1>13, <2>3 DEF FindPosting, ThreadsOK, ThreadOK, InsertOpen
  <2>6. ThreadsOK' BY <2>4, <2>5 DEF ThreadsOK
  <2>7. Alone' /\ KnownIsPaid' /\ PostedOnce' /\ GrantIsPaid'
    BY <1>13 DEF FindPosting, InsertOpen, Alone, KnownIsPaid, PostedOnce, GrantIsPaid
  <2> QED BY <2>1, <2>6, <2>7
<1>14. ASSUME NEW t \in Threads, Commit(t) PROVE PackInv'
  <2>1. of[t] \in Orders BY <1>14 DEF Commit, ThreadsOK, ThreadOK
  <2>2. LocalOK' BY <1>14, AfterOK DEF Commit
  <2>3. TypeOK' BY <1>14, <2>2, <2>1 DEF Commit, TypeOK, LocalOK
  <2>4. ThreadsOK'
    BY <1>14 DEF Commit, TypeOK, ThreadsOK, ThreadOK, PaidPlaces, StatusPlaces, InsertOpen, Alone
  <2>5. Alone' /\ KnownIsPaid' /\ PostedOnce' /\ GrantIsPaid'
    BY <1>14 DEF Commit, TypeOK, ThreadsOK, ThreadOK, InsertOpen, Alone, KnownIsPaid, PaidPlaces,
       PostedOnce, GrantIsPaid
  <2> QED BY <2>3, <2>4, <2>5
<1>15. ASSUME NEW t \in Threads, RollBack(t) PROVE PackInv'
  <2>1. LocalOK' BY <1>15, AfterOK DEF RollBack
  <2>2. TypeOK' BY <1>15, <2>1 DEF RollBack, TypeOK, LocalOK
  <2>3. ThreadsOK'
    BY <1>15 DEF RollBack, TypeOK, ThreadsOK, ThreadOK, PaidPlaces, StatusPlaces, InsertOpen
  <2>4. Alone' /\ KnownIsPaid' /\ PostedOnce' /\ GrantIsPaid'
    BY <1>15 DEF RollBack, TypeOK, InsertOpen, Alone, KnownIsPaid, PostedOnce, GrantIsPaid
  <2> QED BY <2>2, <2>3, <2>4
<1>16. ASSUME NEW t \in Threads, VerifyUpdate(t) PROVE PackInv'
  <2>1. of[t] \in Orders BY <1>16 DEF VerifyUpdate, ThreadsOK, ThreadOK
  <2>2. LocalOK' BY <1>16, <2>1, GoOK DEF VerifyUpdate, Places
  <2>3. TypeOK' BY <1>16, <2>2, <2>1 DEF VerifyUpdate, TypeOK, Statuses, LocalOK
  <2>4. ThreadsOK'
    BY <1>16 DEF VerifyUpdate, ThreadsOK, ThreadOK, PaidPlaces, StatusPlaces, InsertOpen
  <2>5. Alone' /\ KnownIsPaid' /\ PostedOnce' /\ GrantIsPaid'
    BY <1>16 DEF VerifyUpdate, ThreadsOK, ThreadOK, InsertOpen, Alone, KnownIsPaid, PaidPlaces,
       PostedOnce, GrantIsPaid
  <2> QED BY <2>3, <2>4, <2>5
<1>17. ASSUME NEW t \in Threads, Authorize(t) PROVE PackInv'
  <2>1. of[t] \in Orders BY <1>17 DEF Authorize, ThreadsOK, ThreadOK
  <2>2. LocalOK' BY <1>17, <2>1, GoOK DEF Authorize, Places
  <2>3. TypeOK' BY <1>17, <2>2, <2>1 DEF Authorize, TypeOK, Statuses, Unresolved, LocalOK
  <2>4. ThreadsOK' BY <1>17 DEF Authorize, ThreadsOK, ThreadOK, PaidPlaces, StatusPlaces, InsertOpen
  <2>5. Alone' /\ KnownIsPaid' /\ PostedOnce' /\ GrantIsPaid'
    BY <1>17 DEF Authorize, ThreadsOK, ThreadOK, InsertOpen, Alone, KnownIsPaid, PaidPlaces,
       PostedOnce, GrantIsPaid
  <2> QED BY <2>3, <2>4, <2>5
<1>18. ASSUME NEW t \in Threads, Capture(t) PROVE PackInv'
  <2>1. TypeOK' BY <1>18 DEF Capture, TypeOK, Places
  <2>2. ThreadsOK' BY <1>18 DEF Capture, ThreadsOK, ThreadOK, PaidPlaces, StatusPlaces, InsertOpen
  <2>3. Alone' /\ KnownIsPaid' /\ PostedOnce' /\ GrantIsPaid'
    BY <1>18 DEF Capture, InsertOpen, Alone, KnownIsPaid, PostedOnce, GrantIsPaid
  <2> QED BY <2>1, <2>2, <2>3
<1>19. ASSUME NEW t \in Threads, CaptureFails(t) PROVE PackInv'
  <2>1. of[t] \in Orders BY <1>19 DEF CaptureFails, ThreadsOK, ThreadOK
  <2>2. LocalOK' BY <1>19, LeaveOK DEF CaptureFails
  <2>3. TypeOK' BY <1>19, <2>2, <2>1 DEF CaptureFails, TypeOK, LocalOK
  <2>4. ThreadsOK'
    BY <1>19 DEF CaptureFails, TypeOK, ThreadsOK, ThreadOK, PaidPlaces, StatusPlaces, InsertOpen
  <2>5. Alone' /\ KnownIsPaid' /\ PostedOnce' /\ GrantIsPaid'
    BY <1>19 DEF CaptureFails, InsertOpen, Alone, KnownIsPaid, PostedOnce, GrantIsPaid
  <2> QED BY <2>3, <2>4, <2>5
<1>20. ASSUME NEW t \in Threads, Captured(t) PROVE PackInv'
  <2>1. TypeOK' BY <1>20 DEF Captured, TypeOK, Places
  <2>2. ThreadsOK' BY <1>20 DEF Captured, ThreadsOK, ThreadOK, PaidPlaces, StatusPlaces, InsertOpen
  <2>3. Alone' /\ KnownIsPaid' /\ PostedOnce' /\ GrantIsPaid'
    BY <1>20 DEF Captured, InsertOpen, Alone, KnownIsPaid, PostedOnce, GrantIsPaid
  <2> QED BY <2>1, <2>2, <2>3
<1>21. ASSUME NEW t \in Threads, AlreadyCaptured(t) PROVE PackInv'
  <2>1. TypeOK' BY <1>21 DEF AlreadyCaptured, TypeOK, Places
  <2>2. ThreadsOK'
    BY <1>21 DEF AlreadyCaptured, TypeOK, ThreadsOK, ThreadOK, PaidPlaces, StatusPlaces, InsertOpen
  <2>3. Alone' /\ KnownIsPaid' /\ PostedOnce' /\ GrantIsPaid'
    BY <1>21 DEF AlreadyCaptured, InsertOpen, Alone, KnownIsPaid, PostedOnce, GrantIsPaid
  <2> QED BY <2>1, <2>2, <2>3
<1>22. ASSUME NEW t \in Threads, CapturedUpdate(t) PROVE PackInv'
  <2>1. of[t] \in Orders BY <1>22 DEF CapturedUpdate, ThreadsOK, ThreadOK
  <2>2. LocalOK' BY <1>22, <2>1, GoOK DEF CapturedUpdate, Places
  <2>3. TypeOK' BY <1>22, <2>2, <2>1 DEF CapturedUpdate, TypeOK, Statuses, LocalOK
  <2>4. ThreadsOK'
    BY <1>22 DEF CapturedUpdate, ThreadsOK, ThreadOK, PaidPlaces, StatusPlaces, InsertOpen
  <2>5. Alone' /\ KnownIsPaid' /\ PostedOnce' /\ GrantIsPaid'
    BY <1>22 DEF CapturedUpdate, ThreadsOK, ThreadOK, InsertOpen, Alone, KnownIsPaid, PaidPlaces,
       PostedOnce, GrantIsPaid
  <2> QED BY <2>3, <2>4, <2>5
<1>23. ASSUME NEW t \in Threads, LookForGrant(t) PROVE PackInv'
  <2>1. TypeOK' BY <1>23 DEF LookForGrant, TypeOK, Places
  <2>2. ThreadsOK'
    BY <1>23 DEF LookForGrant, ThreadsOK, ThreadOK, PaidPlaces, StatusPlaces, InsertOpen
  <2>3. Alone' /\ KnownIsPaid' /\ PostedOnce' /\ GrantIsPaid'
    BY <1>23 DEF LookForGrant, InsertOpen, Alone, KnownIsPaid, PostedOnce, GrantIsPaid
  <2> QED BY <2>1, <2>2, <2>3
<1>24. ASSUME NEW t \in Threads, Granted(t) PROVE PackInv'
  <2>1. LocalOK' BY <1>24, LeaveOK DEF Granted
  <2>2. TypeOK' BY <1>24, <2>1 DEF Granted, TypeOK, LocalOK
  <2>3. ThreadsOK'
    BY <1>24 DEF Granted, TypeOK, ThreadsOK, ThreadOK, PaidPlaces, StatusPlaces, InsertOpen
  <2>4. Alone' /\ KnownIsPaid' /\ PostedOnce' /\ GrantIsPaid'
    BY <1>24 DEF Granted, TypeOK, InsertOpen, Alone, KnownIsPaid, PostedOnce, GrantIsPaid
  <2> QED BY <2>2, <2>3, <2>4
<1>25. ASSUME NEW t \in Threads, FailUpdate(t) PROVE PackInv'
  <2>1. TypeOK' BY <1>25 DEF FailUpdate, TypeOK, Statuses, Places
  <2>2. ThreadsOK'
    BY <1>25 DEF FailUpdate, TypeOK, ThreadsOK, ThreadOK, PaidPlaces, StatusPlaces, InsertOpen
  <2>3. Alone' /\ KnownIsPaid' /\ PostedOnce' /\ GrantIsPaid'
    BY <1>25 DEF FailUpdate, InsertOpen, Alone, KnownIsPaid, PostedOnce, GrantIsPaid
  <2> QED BY <2>1, <2>2, <2>3
<1>26. ASSUME NEW t \in Threads, RecoverFetch(t) PROVE PackInv'
  <2>1. of[t] \in Orders BY <1>26 DEF RecoverFetch, ThreadsOK, ThreadOK
  <2>2. gate[of[t]] \in Statuses
    BY <1>26, <2>1 DEF RecoverFetch, TypeOK, ThreadsOK, ThreadOK, PaidPlaces, Statuses, Unresolved
  <2>3. ASSUME gate[of[t]] = st[t] PROVE LocalOK' BY <1>26, <2>3, LeaveOK DEF RecoverFetch
  <2>4. ASSUME gate[of[t]] # st[t] PROVE LocalOK'
    BY <1>26, <2>2, <2>4 DEF RecoverFetch, TypeOK, LocalOK, Places
  <2>5. LocalOK' BY <2>3, <2>4
  <2>6. TypeOK' BY <1>26, <2>5 DEF RecoverFetch, TypeOK, LocalOK
  <2>7. ThreadsOK'
    BY <1>26, <2>1, <2>2 DEF RecoverFetch, TypeOK, ThreadsOK, ThreadOK, PaidPlaces, StatusPlaces,
       InsertOpen
  <2>8. Alone' /\ KnownIsPaid' /\ PostedOnce' /\ GrantIsPaid'
    BY <1>26 DEF RecoverFetch, TypeOK, InsertOpen, Alone, KnownIsPaid, PostedOnce, GrantIsPaid
  <2> QED BY <2>6, <2>7, <2>8
<1>27. ASSUME NEW t \in Threads, RecoverUpdate(t) PROVE PackInv'
  <2>1. of[t] \in Orders BY <1>27 DEF RecoverUpdate, ThreadsOK, ThreadOK
  <2>2. st[t] \in Statuses BY <1>27 DEF RecoverUpdate, ThreadsOK, ThreadOK, StatusPlaces
  <2>3. LocalOK' BY <1>27, <2>1, GoOK DEF RecoverUpdate, Places
  <2>4. TypeOK' BY <1>27, <2>3, <2>1, <2>2 DEF RecoverUpdate, TypeOK, LocalOK
  <2>5. ThreadsOK'
    BY <1>27 DEF RecoverUpdate, ThreadsOK, ThreadOK, PaidPlaces, StatusPlaces, InsertOpen
  <2>6. Alone' /\ KnownIsPaid' /\ PostedOnce' /\ GrantIsPaid'
    BY <1>27 DEF RecoverUpdate, InsertOpen, Alone, KnownIsPaid, PostedOnce, GrantIsPaid
  <2> QED BY <2>4, <2>5, <2>6
<1>28. ASSUME NEW t \in Threads, Fetch(t) PROVE PackInv'
  <2>1. of[t] \in Orders BY <1>28 DEF Fetch, ThreadsOK, ThreadOK
  <2>2. Fetched(of[t]) \in Statuses
    BY <1>28, <2>1 DEF TypeOK, KnownIsPaid, Fetched, Statuses, Unresolved
  <2>3. ASSUME Fetched(of[t]) = st[t] PROVE LocalOK' BY <1>28, <2>3, LeaveOK DEF Fetch
  <2>4. ASSUME Fetched(of[t]) # st[t] PROVE LocalOK'
    BY <1>28, <2>2, <2>4 DEF Fetch, TypeOK, LocalOK, Places
  <2>5. LocalOK' BY <2>3, <2>4
  <2>6. TypeOK' BY <1>28, <2>5 DEF Fetch, TypeOK, LocalOK
  <2>7. ThreadsOK'
    BY <1>28, <2>1, <2>2 DEF Fetch, TypeOK, ThreadsOK, ThreadOK, PaidPlaces, StatusPlaces,
       InsertOpen
  <2>8. Alone' /\ KnownIsPaid' /\ PostedOnce' /\ GrantIsPaid'
    BY <1>28 DEF Fetch, TypeOK, InsertOpen, Alone, KnownIsPaid, PostedOnce, GrantIsPaid
  <2> QED BY <2>6, <2>7, <2>8
<1>29. ASSUME NEW t \in Threads, Transition(t) PROVE PackInv'
  <2>1. TypeOK' BY <1>29 DEF Transition, TypeOK, Places
  <2>2. ThreadsOK'
    BY <1>29 DEF Transition, ThreadsOK, ThreadOK, PaidPlaces, StatusPlaces, InsertOpen
  <2>3. Alone' /\ KnownIsPaid' /\ PostedOnce' /\ GrantIsPaid'
    BY <1>29 DEF Transition, InsertOpen, Alone, KnownIsPaid, PostedOnce, GrantIsPaid
  <2> QED BY <2>1, <2>2, <2>3
<1>30. ASSUME NEW t \in Threads, Refuse(t) PROVE PackInv'
  <2>1. TypeOK' BY <1>30 DEF Refuse, TypeOK, Places
  <2>2. ThreadsOK'
    BY <1>30 DEF Refuse, TypeOK, ThreadsOK, ThreadOK, PaidPlaces, StatusPlaces, InsertOpen
  <2>3. Alone' /\ KnownIsPaid' /\ PostedOnce' /\ GrantIsPaid'
    BY <1>30 DEF Refuse, InsertOpen, Alone, KnownIsPaid, PostedOnce, GrantIsPaid
  <2> QED BY <2>1, <2>2, <2>3
<1>31. ASSUME NEW t \in Threads, TransitionUpdate(t) PROVE PackInv'
  <2>1. of[t] \in Orders BY <1>31 DEF TransitionUpdate, ThreadsOK, ThreadOK
  <2>2. st[t] \in Statuses BY <1>31 DEF TransitionUpdate, ThreadsOK, ThreadOK, StatusPlaces
  <2>3. LocalOK' BY <1>31, <2>1, LeaveOK DEF TransitionUpdate
  <2>4. TypeOK' BY <1>31, <2>3, <2>1, <2>2 DEF TransitionUpdate, TypeOK, LocalOK
  <2>5. ThreadsOK'
    BY <1>31 DEF TransitionUpdate, TypeOK, ThreadsOK, ThreadOK, PaidPlaces, StatusPlaces, InsertOpen
  <2>6. Alone' /\ KnownIsPaid' /\ PostedOnce' /\ GrantIsPaid'
    BY <1>31 DEF TransitionUpdate, InsertOpen, Alone, KnownIsPaid, PostedOnce, GrantIsPaid
  <2> QED BY <2>4, <2>5, <2>6
<1>32. ASSUME NEW t \in Threads, Abort(t) PROVE PackInv'
  <2>1. of[t] \in Orders BY <1>32 DEF Abort, ThreadsOK, ThreadOK
  <2>2. LocalOK' BY <1>32, LeaveOK DEF Abort
  <2>3. TypeOK' BY <1>32, <2>2, <2>1 DEF Abort, TypeOK, LocalOK
  <2>4. ThreadsOK'
    BY <1>32 DEF Abort, TypeOK, ThreadsOK, ThreadOK, PaidPlaces, StatusPlaces, InsertOpen
  <2>5. Alone' /\ KnownIsPaid' /\ PostedOnce' /\ GrantIsPaid'
    BY <1>32 DEF Abort, InsertOpen, Alone, KnownIsPaid, PostedOnce, GrantIsPaid
  <2> QED BY <2>3, <2>4, <2>5
<1>33. ASSUME NEW t \in Threads, Grant(t, "verifyGrant") PROVE PackInv'
  <2>1. of[t] \in Orders BY <1>33 DEF Grant, ThreadsOK, ThreadOK
  <2>2. LocalOK' BY <1>33, LeaveOK DEF Grant
  <2>3. TypeOK' BY <1>33, <2>2, <2>1 DEF Grant, TypeOK, LocalOK
  <2>4. ThreadsOK'
    BY <1>33 DEF Grant, TypeOK, ThreadsOK, ThreadOK, PaidPlaces, StatusPlaces, InsertOpen
  <2>5. Alone' /\ KnownIsPaid' /\ PostedOnce' /\ GrantIsPaid'
    BY <1>33 DEF Grant, ThreadsOK, ThreadOK, InsertOpen, Alone, KnownIsPaid, PaidPlaces, PostedOnce,
       GrantIsPaid
  <2> QED BY <2>3, <2>4, <2>5
<1>34. ASSUME NEW t \in Threads, Grant(t, "grant") PROVE PackInv'
  <2>1. of[t] \in Orders BY <1>34 DEF Grant, ThreadsOK, ThreadOK
  <2>2. LocalOK' BY <1>34, LeaveOK DEF Grant
  <2>3. TypeOK' BY <1>34, <2>2, <2>1 DEF Grant, TypeOK, LocalOK
  <2>4. ThreadsOK'
    BY <1>34 DEF Grant, TypeOK, ThreadsOK, ThreadOK, PaidPlaces, StatusPlaces, InsertOpen
  <2>5. Alone' /\ KnownIsPaid' /\ PostedOnce' /\ GrantIsPaid'
    BY <1>34 DEF Grant, ThreadsOK, ThreadOK, InsertOpen, Alone, KnownIsPaid, PaidPlaces, PostedOnce,
       GrantIsPaid
  <2> QED BY <2>3, <2>4, <2>5
<1>35. CASE UNCHANGED vars
  BY <1>35 DEF vars, TypeOK, ThreadsOK, ThreadOK, InsertOpen, KnownIsPaid, PostedOnce, Alone,
     GrantIsPaid
<1> QED BY <1>1, <1>2, <1>3, <1>4, <1>5, <1>6, <1>7, <1>8, <1>9, <1>10, <1>11, <1>12, <1>13, <1>14,
    <1>15, <1>16, <1>17, <1>18, <1>19, <1>20, <1>21, <1>22, <1>23, <1>24, <1>25, <1>26, <1>27,
    <1>28, <1>29, <1>30, <1>31, <1>32, <1>33, <1>34, <1>35 DEF Next, Arrive, Step, Fail,
    Artifacts, Call, Deliver, Work, Threads

-----------------------------------------------------------------------------
(* The variables keep their types: no status but the five, no sequence or  *)
(* count below zero, every thread at a place of its handler.               *)
THEOREM PackTypes == Spec => []TypeOK
<1>1. PackInv => TypeOK BY DEF PackInv
<1> QED BY InitOK, StepOK, <1>1, PTL DEF Spec

(* The revenue of an order is posted once.                                 *)
THEOREM RevenueIsPostedOnce == Spec => []PostedOnce
<1>1. PackInv => PostedOnce BY DEF PackInv
<1> QED BY InitOK, StepOK, <1>1, PTL DEF Spec

(* Nothing is granted or posted for an order that is not paid.             *)
THEOREM GrantsArePaid == Spec => []GrantIsPaid
<1>1. PackInv => GrantIsPaid BY DEF PackInv
<1> QED BY InitOK, StepOK, <1>1, PTL DEF Spec
================================================================================
