--------------------------- MODULE ContestSubmission ---------------------------
(***************************************************************************)
(* The submissions of one participant of a coding contest, from POST       *)
(* /execute/submit to the score: the request handler                       *)
(* (apps/contest-service/src/routes/execution.ts), the BullMQ queue        *)
(* (lib/queue.ts), the judging worker (services/submission-worker.ts) and  *)
(* the scoring transaction (services/scoring-service.ts).                  *)
(*                                                                         *)
(* A row of contest_submissions is named by its idempotency key, which is  *)
(* unique and fixes the question and the code.  Requests with one key are  *)
(* a client that tries again.  The guards of a request that change nothing *)
(* and whose outcome never changes (visibility, registration, an unlocked  *)
(* round, a known question) are taken as passed: a request they refuse has *)
(* no effect.  Attempt numbers, test counts, notifications and the         *)
(* participant's current question are left out.                            *)
(***************************************************************************)
EXTENDS Integers, FiniteSets, FiniteSetsExt

CONSTANTS
    Requests,         \* the POSTs
    Keys,             \* idempotency keys: the rows that may exist
    NoKey,
    QuestionOf,       \* the question of a key
    CodeOf,           \* the content hash of a key
    Legacy,           \* keys of failed rows that older scoring charged for
    Points, NegativePoints, NegativeCap,  \* of every question
    Workers,          \* the jobs that may run at once, in all instances
    MaxAttempts,      \* QUEUE_MAX_ATTEMPTS
    MaxStalledCount,  \* BULLMQ_MAX_STALLED_COUNT
    MaxLosses,        \* bound: job locks lost
    MaxCrashes        \* bound: requests cut off

ASSUME ContestAssumption ==
    /\ NoKey \notin Keys /\ IsFiniteSet(Keys)
    /\ DOMAIN QuestionOf = Keys /\ DOMAIN CodeOf = Keys
    /\ Legacy \subseteq Keys
    /\ {Points, NegativePoints, NegativeCap, MaxStalledCount, MaxLosses, MaxCrashes} \subseteq Nat
    /\ MaxAttempts \in Nat \ {0}

VARIABLES
    contest,   \* contests.status, and whether its scores were clamped since
    row,       \* contest_submissions: status and points_awarded
    total,     \* contest_participants.total_score
    board,     \* the participant's score in contest:<id>:leaderboard:live
    recent,    \* duplicate:<user>:<contest>:<hash> keys in Redis
    request,   \* how far each request is, or its answer, and its key
    job,       \* the BullMQ job of each row
    worker,    \* the run of processSubmissionJob in each slot
    newTotal,  \* newTotalScore, as each run got it from the transaction
    forgiven,  \* history: what the clamp at the end of the contest forgave
    losses, crashes

api == <<recent, request, crashes>>
judge == <<job, worker, newTotal, losses>>
scores == <<row, total, board, forgiven, contest>>
vars == <<api, judge, scores>>

PreScore == {"QUEUED", "PROCESSING", "JUDGING_DEFERRED"}
Verdicts == {"ACCEPTED", "WRONG_ANSWER"}
Errors == {"JUDGING_DEFERRED", "RUNTIME_ERROR"}
Statuses == {"none"} \cup PreScore \cup Verdicts \cup Errors

Exists(k) == row[k].status # "none"
Idle == [pc |-> "idle", key |-> NoKey, status |-> "none"]

Init ==
    /\ contest = "ACTIVE"
    /\ row = [k \in Keys |-> IF k \in Legacy
                             THEN [status |-> "WRONG_ANSWER", points |-> -NegativePoints]
                             ELSE [status |-> "none", points |-> 0]]
    /\ total = -NegativePoints * Cardinality(Legacy) /\ board = total
    /\ recent = {} /\ request = [r \in Requests |-> [at |-> "idle", key |-> NoKey]]
    /\ job = [k \in Keys |-> [state |-> "none", worker |-> {}, failures |-> 0, stalls |-> 0]]
    /\ worker = [w \in Workers |-> Idle] /\ newTotal = [w \in Workers |-> 0]
    /\ forgiven = 0 /\ losses = 0 /\ crashes = 0

----------------------------------------------------------------------------
(* POST /execute/submit.                                                   *)

Reach(r, from, to) == request[r].at = from /\ request' = [request EXCEPT ![r].at = to]

\* The idempotency key is looked up first, then the contest.
Submit(r) ==
    /\ request[r].at = "idle"
    /\ \E k \in Keys \ Legacy :
         request' = [request EXCEPT ![r] =
            [key |-> k,
             at |-> IF Exists(k) THEN "exists"
                    ELSE IF contest = "ACTIVE" THEN "checked" ELSE "closed"]]
    /\ UNCHANGED <<recent, crashes, judge, scores>>

\* checkDuplicateSubmission: redis.get, and later redis.setex.
DuplicateRead(r) ==
    /\ Reach(r, "checked", IF CodeOf[request[r].key] \in recent THEN "duplicate" ELSE "fresh")
    /\ UNCHANGED <<recent, crashes, judge, scores>>

DuplicateMark(r) ==
    /\ Reach(r, "fresh", "create")
    /\ recent' = recent \cup {CodeOf[request[r].key]}
    /\ UNCHANGED <<crashes, judge, scores>>

\* Redis fails, and the check is passed over.
DuplicateUnknown(r) ==
    /\ \E at \in {"checked", "fresh"} : Reach(r, at, "create")
    /\ UNCHANGED <<recent, crashes, judge, scores>>

\* The queue is backed up, with the jobs of any participant.
Busy(r) ==
    /\ Reach(r, "create", "busy")
    /\ UNCHANGED <<recent, crashes, judge, scores>>

\* The unique key refuses a second row.
Create(r) ==
    LET k == request[r].key IN
    /\ Reach(r, "create", IF Exists(k) THEN "error" ELSE "enqueue")
    /\ row' = IF Exists(k) THEN row ELSE [row EXCEPT ![k].status = "QUEUED"]
    /\ UNCHANGED <<recent, crashes, judge, total, board, forgiven, contest>>

Enqueue(r) ==
    /\ Reach(r, "enqueue", "created")
    /\ job' = [job EXCEPT ![request[r].key].state = "waiting"]
    /\ UNCHANGED <<recent, crashes, worker, newTotal, losses, scores>>

\* The 30 seconds of a duplicate key are over.
Forget ==
    /\ \E c \in recent : recent' = recent \ {c}
    /\ UNCHANGED <<request, crashes, judge, scores>>

\* The instance stops, or Postgres or the queue fails, in mid-request.
CutOff(r) ==
    /\ crashes < MaxCrashes /\ crashes' = crashes + 1
    /\ request[r].at \in {"checked", "fresh", "create", "enqueue"}
    /\ request' = [request EXCEPT ![r].at = "error"]
    /\ UNCHANGED <<recent, judge, scores>>

----------------------------------------------------------------------------
(* The queue.  A job's "worker" is the run that holds its lock.            *)

TakeJob(w, k) ==
    /\ worker[w].pc = "idle" /\ job[k].state = "waiting"
    /\ worker' = [worker EXCEPT ![w] = [Idle EXCEPT !.pc = "start", !.key = k]]
    /\ job' = [job EXCEPT ![k].state = "active", ![k].worker = {w}]
    /\ UNCHANGED <<newTotal, losses, api, scores>>

\* The run is over; the queue hears of it only from the holder of the lock.
Release(w, after) ==
    LET k == worker[w].key IN
    /\ worker' = [worker EXCEPT ![w] = Idle]
    /\ job' = IF job[k].worker = {w} THEN [job EXCEPT ![k] = after] ELSE job
    /\ UNCHANGED <<newTotal, losses, api, scores>>

Complete(w) ==
    /\ worker[w].pc = "done"
    /\ Release(w, [job[worker[w].key] EXCEPT !.state = "completed", !.worker = {}])

\* Slip: a failed job is left in no state of the queue.
FailedMisspelt(j) == [j EXCEPT !.state = "error", !.worker = {}]

Failed(j) ==
    [j EXCEPT !.state = IF j.failures + 1 < MaxAttempts THEN "waiting" ELSE "failed",
              !.worker = {}, !.failures = @ + 1]

Throw(w) ==
    /\ worker[w].pc = "throw"
    /\ Release(w, Failed(job[worker[w].key]))

Stalled(j) ==
    [j EXCEPT !.state = IF j.stalls < MaxStalledCount THEN "waiting" ELSE "failed",
              !.worker = {}, !.stalls = @ + 1]

\* The lock of a job runs out: its worker stopped, or goes on unaware.
LoseLock(w) ==
    LET k == worker[w].key IN
    /\ losses < MaxLosses /\ losses' = losses + 1
    /\ worker[w].pc # "idle" /\ job[k].worker = {w}
    /\ job' = [job EXCEPT ![k] = Stalled(@)]
    /\ \E alive \in BOOLEAN : worker' = IF alive THEN worker ELSE [worker EXCEPT ![w] = Idle]
    /\ UNCHANGED <<newTotal, api, scores>>

----------------------------------------------------------------------------
(* processSubmissionJob.                                                   *)

At(w, from, to) == worker[w].pc = from /\ worker' = [worker EXCEPT ![w].pc = to]

MarkProcessing(w) ==
    /\ At(w, "start", "judge")
    /\ row' = [row EXCEPT ![worker[w].key].status = "PROCESSING"]
    /\ UNCHANGED <<job, newTotal, losses, api, total, board, forgiven, contest>>

\* The verdict of all test cases, or an error on the way to it.
Judge(w) ==
    /\ worker[w].pc = "judge"
    /\ \/ \E v \in Verdicts :
            worker' = [worker EXCEPT ![w].pc = "score", ![w].status = v]
       \/ \E e \in Errors :
            worker' = [worker EXCEPT ![w].pc = "fail", ![w].status = e]
    /\ UNCHANGED <<job, newTotal, losses, api, scores>>

\* The other submissions of the participant to the question of k.
Prior(k) == {o \in Keys \ {k} : QuestionOf[o] = QuestionOf[k] /\ Exists(o)}

\* Slip: a question may be solved again.
NeverSolved(k) == FALSE

AlreadySolved(k) == \E o \in Prior(k) : row[o].status = "ACCEPTED"

\* Slip: PROCESSING is taken for a final status.
FinalizedEarly(k) == row[k].status \notin {"QUEUED", "JUDGING_DEFERRED"}

Finalized(k) == row[k].status \notin PreScore

Penalty(k) ==
    LET failed == {o \in Prior(k) : row[o].status \notin PreScore \cup {"ACCEPTED"}}
    IN  Min({Cardinality(failed) * NegativePoints, NegativeCap})

Award(k, v) ==
    IF v = "ACCEPTED" /\ ~AlreadySolved(k) THEN Max({0, Points - Penalty(k)}) ELSE 0

\* The rows that older scoring charged, if they are to be refunded now.
Refunded(k) == IF AlreadySolved(k) THEN {} ELSE {o \in Prior(k) : row[o].points < 0}

Awarded == [o \in Keys |-> row[o].points]
Sum(keys) == MapThenSumSet(LAMBDA o : Awarded[o], keys)

\* Slip: nothing is refunded, though the rows are set to 0.
NoRefund(k) == 0

Refund(k) == -Sum(Refunded(k))

\* finalizeSubmissionScore: one transaction that locks the rows it reads.
Score(w) ==
    LET k == worker[w].key
        v == worker[w].status
        new == IF Finalized(k) THEN total ELSE total + Refund(k) + Award(k, v)
    IN  /\ worker[w].pc = "score"
        /\ worker' = [worker EXCEPT ![w].pc = "board"]
        /\ total' = new /\ newTotal' = [newTotal EXCEPT ![w] = new]
        /\ row' = IF Finalized(k) THEN row
                  ELSE [o \in Keys |-> IF o = k THEN [status |-> v, points |-> Award(k, v)]
                                       ELSE IF o \in Refunded(k) THEN [row[o] EXCEPT !.points = 0]
                                       ELSE row[o]]
        /\ UNCHANGED <<job, losses, api, board, forgiven, contest>>

\* The transaction fails and is rolled back.
ScoreFails(w) ==
    /\ worker[w].pc = "score"
    /\ worker' = [worker EXCEPT ![w].pc = "fail", ![w].status = "RUNTIME_ERROR"]
    /\ UNCHANGED <<job, newTotal, losses, api, scores>>

\* updateLeaderboardCache, after the transaction; its errors are swallowed.
UpdateBoard(w) ==
    /\ At(w, "board", "done")
    /\ board' = newTotal[w]
    /\ UNCHANGED <<job, newTotal, losses, api, row, total, forgiven, contest>>

\* The catch block keeps the error with the row and throws it to the queue.
PersistError(w) ==
    /\ At(w, "fail", "throw")
    /\ row' = [row EXCEPT ![worker[w].key] = [status |-> worker[w].status, points |-> 0]]
    /\ UNCHANGED <<job, newTotal, losses, api, total, board, forgiven, contest>>

----------------------------------------------------------------------------
(* updateContestStates: ACTIVE to ENDED, then clampNegativeContestScores.  *)

EndContest ==
    /\ contest = "ACTIVE" /\ contest' = "ENDED"
    /\ UNCHANGED <<api, judge, row, total, board, forgiven>>

Clamp ==
    /\ contest = "ENDED" /\ contest' = "CLAMPED"
    /\ total' = Max({total, 0})
    /\ forgiven' = total' - total
    /\ board' = IF total < 0 THEN 0 ELSE board
    /\ UNCHANGED <<api, judge, row>>

----------------------------------------------------------------------------

Api(r) ==
    \/ Submit(r) \/ DuplicateRead(r) \/ DuplicateMark(r) \/ DuplicateUnknown(r)
    \/ Busy(r) \/ Create(r) \/ Enqueue(r) \/ CutOff(r)

Run(w) ==
    \/ MarkProcessing(w) \/ Judge(w) \/ Score(w) \/ ScoreFails(w)
    \/ UpdateBoard(w) \/ PersistError(w) \/ Complete(w) \/ Throw(w)

Next ==
    \/ \E r \in Requests : Api(r)
    \/ \E w \in Workers : Run(w) \/ LoseLock(w) \/ \E k \in Keys : TakeJob(w, k)
    \/ Forget \/ EndContest \/ Clamp

Spec == Init /\ [][Next]_vars

\* Judge0 answers or times out, and a free worker takes the waiting jobs.
Fairness ==
    /\ \A w \in Workers : WF_vars(Run(w))
    /\ \A k \in Keys : WF_vars(\E w \in Workers : TakeJob(w, k))

FairSpec == Spec /\ Fairness

----------------------------------------------------------------------------
(* Properties.                                                             *)

Answers == {"exists", "closed", "duplicate", "busy", "error", "created"}
JobStates == {"none", "waiting", "active", "completed", "failed"}

\* Types.
TypeOK ==
    /\ contest \in {"ACTIVE", "ENDED", "CLAMPED"}
    /\ row \in [Keys -> [status : Statuses, points : Int]]
    /\ total \in Int /\ board \in Int /\ forgiven \in Nat
    /\ recent \subseteq {CodeOf[k] : k \in Keys}
    /\ request \in [Requests -> [at : {"idle", "checked", "fresh", "create", "enqueue"} \cup Answers,
                                 key : Keys \cup {NoKey}]]
    /\ job \in [Keys -> [state : JobStates, worker : SUBSET Workers, failures : 0..MaxAttempts,
                         stalls : 0..(MaxStalledCount + 1)]]
    /\ worker \in [Workers ->
                     [pc : {"idle", "start", "judge", "score", "board", "fail", "done", "throw"},
                      key : Keys \cup {NoKey}, status : {"none"} \cup Verdicts \cup Errors]]
    /\ newTotal \in [Workers -> Int]
    /\ losses \in 0..MaxLosses /\ crashes \in 0..MaxCrashes

(* The score of the participant is what the rows say was awarded, and what *)
(* the end of the contest forgave: finalizeSubmissionScore keeps the two   *)
(* tables together through retries, refunds and errors.                    *)
TotalIsTheAwards == total = Sum(Keys) + forgiven

(* A question is paid for once: submissions of one question that are       *)
(* judged at the same time, in any order, with retries, are paid for one   *)
(* of them, whose row then stays (alreadySolved in scoring-service.ts).    *)
PaidOnce ==
    [][\A k \in Keys : row[k].points > 0 =>
          /\ row'[k] = row[k]
          /\ \A o \in Keys \ {k} : QuestionOf[o] = QuestionOf[k] => row'[o].points <= 0]_vars

\* The row has its final verdict, or the queue has given the job up.
Judged(k) ==
    \/ job[k].state = "failed"
    \/ job[k].state = "completed" /\ row[k].status \notin PreScore

(* A submission the client was told is queued (201) is judged for good, or *)
(* its job fails for good: the retries of lib/queue.ts come to an end, and *)
(* no later run takes the verdict back.                                    *)
QueuedIsJudged ==
    \A k \in Keys : (\E r \in Requests : request[r] = [at |-> "created", key |-> k]) ~> []Judged(k)

(* The total is never more than the questions are worth: the comment in    *)
(* scoring-service.ts:66 that a second run of a job "must NOT add the      *)
(* points again".                                                          *)
PointsAddedOnce == total - forgiven <= Points * Cardinality({QuestionOf[k] : k \in Keys})
================================================================================
