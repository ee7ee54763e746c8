------------------------ MODULE ContestSubmissionProofs ------------------------
(***************************************************************************)
(* Proofs about the judging of contest submissions (ContestSubmission),    *)
(* for any requests, keys, questions, workers, points and retries.         *)
(*                                                                         *)
(* The argument: as long as a job whose lock is lost is never handed out   *)
(* again (MaxStalledCount = 0), a row has one run at a time (OneRun), and  *)
(* no run starts or is still to be scored once the row is ACCEPTED         *)
(* (AcceptedIsSettled); so the row keeps its points, and any other         *)
(* submission of the question finds it solved.  A row that is scored has   *)
(* no points yet (PointsOK) and was never charged by older scoring         *)
(* (LegacyOK), so the total moves by what the sum of the rows moves by.    *)
(***************************************************************************)
EXTENDS ContestSubmission, FiniteSums, TLAPS

-----------------------------------------------------------------------------
(* The types PaidOnce needs; those of the scores come with TypeInv below.   *)
RequestPlaces == {"idle", "checked", "fresh", "create", "enqueue"} \cup Answers
WorkerPlaces == {"idle", "start", "judge", "score", "board", "fail", "done", "throw"}

RowsType == row \in [Keys -> [status : Statuses, points : Int]]
RequestsType == request \in [Requests -> [at : RequestPlaces, key : Keys \cup {NoKey}]]
JobsType ==
    job \in [Keys -> [state : JobStates, worker : SUBSET Workers, failures : Nat, stalls : Nat]]
WorkersType ==
    worker \in [Workers -> [pc : WorkerPlaces, key : Keys \cup {NoKey},
                            status : {"none"} \cup Verdicts \cup Errors]]
Types == RowsType /\ RequestsType /\ JobsType /\ WorkersType

-----------------------------------------------------------------------------
(* Rows, requests and jobs.                                                *)
Works(w, k) == worker[w].pc # "idle" /\ worker[w].key = k

\* A row that is not there earned nothing, and only ACCEPTED rows did.
RowsOK == \A k \in Keys : row[k].points > 0 => row[k].status = "ACCEPTED"

\* A request past its lookups has a key; one that is about to queue its row
\* is the only one, and the row has no job yet.
RequestsOK ==
    \A r \in Requests :
        /\ request[r].at # "idle" => request[r].key \in Keys
        /\ request[r].at = "enqueue" =>
              /\ Exists(request[r].key) /\ job[request[r].key].state = "none"
              /\ \A q \in Requests \ {r} :
                    ~ (request[q].at = "enqueue" /\ request[q].key = request[r].key)

\* A job belongs to a row, and has a holder only while it is active.
JobsOK ==
    \A k \in Keys :
        /\ job[k].state # "none" => Exists(k)
        /\ job[k].state # "active" => job[k].worker = {}

\* A run has a row; it holds its job, or the job was given up.
OneRun ==
    /\ \A w \in Workers : worker[w].pc # "idle" =>
          /\ worker[w].key \in Keys
          /\ \/ job[worker[w].key].state = "failed"
             \/ job[worker[w].key].state = "active" /\ job[worker[w].key].worker = {w}
          /\ worker[w].pc = "fail" => worker[w].status \in Errors
          /\ worker[w].pc = "score" => worker[w].status \in Verdicts
    /\ \A v, w \in Workers, k \in Keys : Works(v, k) /\ Works(w, k) => v = w

\* An ACCEPTED row has no run before it and none that may still write to it.
AcceptedIsSettled ==
    \A k \in Keys : row[k].status = "ACCEPTED" =>
        /\ job[k].state \in {"active", "completed", "failed"}
        /\ \A w \in Workers : Works(w, k) => worker[w].pc \in {"board", "done"}

OnePaid ==
    \A k, o \in Keys :
        k # o /\ QuestionOf[k] = QuestionOf[o] /\ row[k].points > 0 => row[o].points <= 0

ContestInv == Types /\ RowsOK /\ RequestsOK /\ JobsOK /\ OneRun /\ AcceptedIsSettled /\ OnePaid

-----------------------------------------------------------------------------
(* No run is repeated because its lock was lost: there is no such loss, or *)
(* the queue gives the job up at the first.                                *)
NoRedelivery == MaxLosses = 0 \/ MaxStalledCount = 0

(* The queue and the retries of a job keep it well-typed.                  *)
JobRecords == [state : JobStates, worker : SUBSET Workers, failures : Nat, stalls : Nat]

LEMMA LargerOfTwo ==
  ASSUME NEW a \in Int, NEW b \in Int
  PROVE  Max({a, b}) \in {a, b}
<1>1. \E x \in {a, b} : \A y \in {a, b} : x >= y OBVIOUS
<1> QED BY <1>1 DEF Max

LEMMA SmallerOfTwo ==
  ASSUME NEW a \in Int, NEW b \in Int
  PROVE  Min({a, b}) \in {a, b}
<1>1. \E x \in {a, b} : \A y \in {a, b} : x =< y OBVIOUS
<1> QED BY <1>1 DEF Min

LEMMA PenaltyIsInt ==
  ASSUME NEW k \in Keys PROVE Penalty(k) \in Int /\ Points - Penalty(k) \in Int
<1> DEFINE failed == {o \in Prior(k) : row[o].status \notin PreScore \cup {"ACCEPTED"}}
<1>1. Cardinality(failed) \in Nat
  <2>1. failed \subseteq Keys BY DEF Prior
  <2> QED BY <2>1, ContestAssumption, FS_Subset, FS_CardinalityType
<1>2. Penalty(k) \in Int
  <2>1. NegativePoints \in Nat /\ NegativeCap \in Nat BY ContestAssumption
  <2>2. Cardinality(failed) * NegativePoints \in Int BY <1>1, <2>1
  <2> HIDE DEF failed
  <2>3. Min({Cardinality(failed) * NegativePoints, NegativeCap}) \in Int
    BY <2>1, <2>2, SmallerOfTwo
  <2> QED BY <2>3 DEF Penalty, failed
<1> QED BY <1>2, ContestAssumption

(* Points are awarded only to an ACCEPTED run whose question no other      *)
(* submission has solved.                                                  *)
LEMMA AwardIsEarned ==
  ASSUME NEW k \in Keys, NEW v
  PROVE  /\ Award(k, v) \in Int
         /\ Award(k, v) > 0 => v = "ACCEPTED" /\ ~AlreadySolved(k)
<1>1. Points - Penalty(k) \in Int BY PenaltyIsInt
<1>2. Max({0, Points - Penalty(k)}) \in Int BY <1>1, LargerOfTwo
<1> QED BY <1>2 DEF Award

-----------------------------------------------------------------------------
(* Steps of a request.                                                     *)

(* A request may move anywhere but to the queueing of its row.             *)
LEMMA RequestMoves ==
  ASSUME ContestInv, UNCHANGED <<row, job, worker>>, RequestsType',
         NEW r \in Requests,
         \A q \in Requests \ {r} : request'[q] = request[q],
         request'[r].key \in Keys, request'[r].at # "enqueue"
  PROVE  ContestInv'
<1>1. RequestsOK' BY DEF ContestInv, RequestsOK, Exists
<1>2. (Types /\ RowsOK /\ JobsOK /\ OneRun /\ AcceptedIsSettled /\ OnePaid)'
  BY DEF ContestInv, Types, RowsType, JobsType, WorkersType, RowsOK, JobsOK, Exists, OneRun,
         Works, AcceptedIsSettled, OnePaid
<1> QED BY <1>1, <1>2 DEF ContestInv

(* So does a request that reaches another place.                           *)
LEMMA RequestReaches ==
  ASSUME ContestInv, UNCHANGED <<row, job, worker>>,
         NEW r \in Requests, NEW to \in RequestPlaces \ {"enqueue"},
         request[r].at # "idle", request' = [request EXCEPT ![r].at = to]
  PROVE  ContestInv'
<1>1. request[r].key \in Keys BY DEF ContestInv, RequestsOK
<1>2. RequestsType' BY DEF ContestInv, Types, RequestsType
<1>3. request'[r].key \in Keys /\ request'[r].at # "enqueue"
  BY <1>1 DEF ContestInv, Types, RequestsType
<1>4. \A q \in Requests \ {r} : request'[q] = request[q] BY DEF ContestInv, Types, RequestsType
<1> QED BY <1>2, <1>3, <1>4, RequestMoves

LEMMA CreateKeepsInv ==
  ASSUME ContestInv, NEW r \in Requests, Create(r)
  PROVE  ContestInv'
<1> DEFINE k == request[r].key
<1>1. k \in Keys /\ request[r].at = "create" BY DEF Create, Reach, ContestInv, RequestsOK
<1>2. UNCHANGED <<job, worker>> BY DEF Create, judge
<1>3. CASE Exists(k)
  <2>1. request' = [request EXCEPT ![r].at = "error"] /\ UNCHANGED row
    BY <1>3 DEF Create, Reach
  <2> QED BY <2>1, <1>1, <1>2, RequestReaches DEF RequestPlaces, Answers
<1>4. CASE ~Exists(k)
  <2>1. row' = [row EXCEPT ![k].status = "QUEUED"]
        /\ request' = [request EXCEPT ![r].at = "enqueue"]
    BY <1>4 DEF Create, Reach
  <2>2. job[k].state = "none" BY <1>1, <1>4 DEF ContestInv, JobsOK
  <2>3. row[k].status = "none" /\ row[k].points \in Int /\ ~(row[k].points > 0)
    BY <1>1, <1>4 DEF ContestInv, RowsOK, Exists, Types, RowsType
  <2>4. /\ row'[k].status = "QUEUED" /\ row'[k].points = row[k].points
        /\ \A o \in Keys \ {k} : row'[o] = row[o]
    BY <2>1, <1>1 DEF ContestInv, Types, RowsType
  <2>5. /\ request'[r].at = "enqueue" /\ request'[r].key = k
        /\ \A q \in Requests \ {r} : request'[q] = request[q]
    BY <2>1, <1>1 DEF ContestInv, Types, RequestsType
  <2>6. Types'
    BY <1>1, <1>2, <2>1
    DEF ContestInv, Types, RowsType, RequestsType, JobsType, WorkersType, RequestPlaces,
        Statuses, PreScore
  <2>7. RequestsOK'
    BY <1>1, <1>2, <1>4, <2>2, <2>4, <2>5 DEF ContestInv, RequestsOK, Exists
  <2>8. RowsOK' /\ AcceptedIsSettled' /\ OnePaid'
    BY <1>1, <1>2, <2>3, <2>4 DEF ContestInv, RowsOK, AcceptedIsSettled, OnePaid, Works
  <2>9. JobsOK' /\ OneRun' BY <1>2, <2>4 DEF ContestInv, JobsOK, OneRun, Exists, Works
  <2> QED BY <2>6, <2>7, <2>8, <2>9 DEF ContestInv
<1> QED BY <1>3, <1>4

LEMMA EnqueueKeepsInv ==
  ASSUME ContestInv, NEW r \in Requests, Enqueue(r)
  PROVE  ContestInv'
<1> DEFINE k == request[r].key
<1>1. k \in Keys /\ request[r].at = "enqueue" /\ Exists(k) /\ job[k].state = "none"
      /\ job[k].worker = {}
  BY DEF Enqueue, Reach, ContestInv, RequestsOK, JobsOK
<1>2. UNCHANGED <<row, worker>> BY DEF Enqueue, scores
<1>3. /\ job'[k].state = "waiting" /\ job'[k].worker = {}
      /\ \A o \in Keys \ {k} : job'[o] = job[o]
  BY <1>1 DEF Enqueue, ContestInv, Types, JobsType
<1>4. /\ request'[r].at = "created" /\ request'[r].key = k
      /\ \A q \in Requests \ {r} : request'[q] = request[q]
  BY <1>1 DEF Enqueue, Reach, ContestInv, Types, RequestsType
<1>5. Types'
  <2>1. RowsType' /\ WorkersType' BY <1>2 DEF ContestInv, Types, RowsType, WorkersType
  <2>2. RequestsType'
    BY DEF Enqueue, Reach, ContestInv, Types, RequestsType, RequestPlaces, Answers
  <2>3. JobsType' BY <1>1 DEF Enqueue, ContestInv, Types, JobsType, JobStates
  <2> QED BY <2>1, <2>2, <2>3 DEF Types
<1>6. RequestsOK' BY <1>1, <1>2, <1>3, <1>4 DEF ContestInv, RequestsOK, Exists
<1>7. JobsOK' BY <1>1, <1>2, <1>3 DEF ContestInv, JobsOK, Exists
<1>8. OneRun' BY <1>1, <1>2, <1>3 DEF ContestInv, OneRun, Works
<1>9. AcceptedIsSettled' BY <1>1, <1>2, <1>3 DEF ContestInv, AcceptedIsSettled, Works
<1>10. RowsOK' /\ OnePaid' BY <1>2 DEF ContestInv, RowsOK, OnePaid
<1> QED BY <1>5, <1>6, <1>7, <1>8, <1>9, <1>10 DEF ContestInv

LEMMA ApiKeepsInv ==
  ASSUME ContestInv, NEW r \in Requests, Api(r)
  PROVE  ContestInv'
<1>1. CASE Submit(r)
  <2>1. PICK k \in Keys \ Legacy :
          request' = [request EXCEPT ![r] =
            [key |-> k,
             at |-> IF Exists(k) THEN "exists"
                    ELSE IF contest = "ACTIVE" THEN "checked" ELSE "closed"]]
    BY <1>1 DEF Submit
  <2>2. RequestsType'
    BY <2>1 DEF ContestInv, Types, RequestsType, RequestPlaces, Answers
  <2>3. /\ request'[r].key \in Keys /\ request'[r].at # "enqueue"
        /\ \A q \in Requests \ {r} : request'[q] = request[q]
    BY <2>1 DEF ContestInv, Types, RequestsType
  <2> QED BY <1>1, <2>2, <2>3, RequestMoves DEF Submit, judge, scores
<1>2. CASE DuplicateRead(r)
  BY <1>2, RequestReaches DEF DuplicateRead, Reach, judge, scores, RequestPlaces, Answers
<1>3. CASE DuplicateMark(r)
  BY <1>3, RequestReaches DEF DuplicateMark, Reach, judge, scores, RequestPlaces
<1>4. CASE DuplicateUnknown(r)
  BY <1>4, RequestReaches DEF DuplicateUnknown, Reach, judge, scores, RequestPlaces
<1>5. CASE Busy(r)
  BY <1>5, RequestReaches DEF Busy, Reach, judge, scores, RequestPlaces, Answers
<1>6. CASE CutOff(r)
  BY <1>6, RequestReaches DEF CutOff, judge, scores, RequestPlaces, Answers
<1> QED BY <1>1, <1>2, <1>3, <1>4, <1>5, <1>6, CreateKeepsInv, EnqueueKeepsInv DEF Api

-----------------------------------------------------------------------------
(* Steps of the queue.                                                     *)

LEMMA TakeKeepsInv ==
  ASSUME ContestInv, NEW w \in Workers, NEW k \in Keys, TakeJob(w, k)
  PROVE  ContestInv'
<1>1. UNCHANGED <<row, request>> BY DEF TakeJob, api, scores
<1>2. job[k].state = "waiting" /\ worker[w].pc = "idle" BY DEF TakeJob
<1>3. /\ job'[k].state = "active" /\ job'[k].worker = {w}
      /\ \A o \in Keys \ {k} : job'[o] = job[o]
  BY DEF TakeJob, ContestInv, Types, JobsType
<1>4. /\ worker'[w] = [pc |-> "start", key |-> k, status |-> "none"]
      /\ \A v \in Workers \ {w} : worker'[v] = worker[v]
  BY DEF TakeJob, Idle, ContestInv, Types, WorkersType
<1>5. \A v \in Workers : ~Works(v, k) BY <1>2 DEF ContestInv, OneRun, Works
<1>6. row[k].status # "ACCEPTED" BY <1>2 DEF ContestInv, AcceptedIsSettled
<1>7. RowsType' /\ RequestsType' BY <1>1 DEF ContestInv, Types, RowsType, RequestsType
<1>8. JobsType' BY DEF TakeJob, ContestInv, Types, JobsType, JobStates
<1>9. WorkersType' BY DEF TakeJob, Idle, ContestInv, Types, WorkersType, WorkerPlaces
<1>10. RequestsOK' BY <1>1, <1>2, <1>3 DEF ContestInv, RequestsOK, Exists
<1>11. JobsOK' BY <1>1, <1>2, <1>3 DEF ContestInv, JobsOK, Exists
<1>12. OneRun' BY <1>2, <1>3, <1>4, <1>5 DEF ContestInv, OneRun, Works
<1>13. AcceptedIsSettled'
  BY <1>1, <1>3, <1>4, <1>6 DEF ContestInv, AcceptedIsSettled, Works
<1>14. RowsOK' /\ OnePaid' BY <1>1 DEF ContestInv, RowsOK, OnePaid
<1> QED BY <1>7, <1>8, <1>9, <1>10, <1>11, <1>12, <1>13, <1>14 DEF ContestInv, Types

(* A run gives its job back: done, or to be tried again if it is not       *)
(* settled; a run that lost its job goes away, or goes on.                 *)
LEMMA JobIsGivenBack ==
  ASSUME ContestInv, UNCHANGED <<row, request>>,
         NEW w \in Workers, worker[w].pc # "idle",
         NEW after \in JobRecords, after.worker = {}, after.state \in {"waiting", "completed", "failed"},
         row[worker[w].key].status = "ACCEPTED" => after.state # "waiting",
         \/ job[worker[w].key].worker = {w} /\ job' = [job EXCEPT ![worker[w].key] = after]
         \/ job' = job,
         \/ worker' = [worker EXCEPT ![w] = Idle]
         \/ worker' = worker /\ (job' = job \/ after.state = "failed")
  PROVE  ContestInv'
<1> DEFINE k == worker[w].key
<1>1. k \in Keys BY DEF ContestInv, OneRun
<1>2. \A v \in Workers \ {w} : ~Works(v, k) BY <1>1 DEF ContestInv, OneRun, Works
<1>3. \/ job' = job
      \/ /\ job[k].state = "active" /\ job'[k] = after
         /\ \A o \in Keys \ {k} : job'[o] = job[o]
  BY <1>1 DEF ContestInv, JobsOK, Types, JobsType
<1>4. /\ \/ worker'[w] = Idle
         \/ worker'[w] = worker[w] /\ (job' = job \/ after.state = "failed")
      /\ \A v \in Workers \ {w} : worker'[v] = worker[v]
  BY DEF ContestInv, Types, WorkersType
<1>5. RowsType' /\ RequestsType' BY DEF ContestInv, Types, RowsType, RequestsType
<1>6. JobsType' BY <1>1 DEF ContestInv, Types, JobsType, JobRecords
<1>7. WorkersType' BY DEF Idle, ContestInv, Types, WorkersType, WorkerPlaces
<1>8. RequestsOK' BY <1>1, <1>3 DEF ContestInv, RequestsOK, Exists
<1>9. JobsOK' BY <1>1, <1>3 DEF ContestInv, JobsOK, Exists
<1>10. OneRun' BY <1>1, <1>2, <1>3, <1>4 DEF ContestInv, OneRun, Works, Idle
<1>11. AcceptedIsSettled'
  BY <1>1, <1>2, <1>3, <1>4 DEF ContestInv, AcceptedIsSettled, Works, Idle
<1>12. RowsOK' /\ OnePaid' BY DEF ContestInv, RowsOK, OnePaid
<1> QED BY <1>5, <1>6, <1>7, <1>8, <1>9, <1>10, <1>11, <1>12 DEF ContestInv, Types

(* A run that is not over leaves its row unsettled.                        *)
LEMMA RunIsUnsettled ==
  ASSUME ContestInv, NEW w \in Workers, worker[w].pc \notin {"idle", "board", "done"}
  PROVE  worker[w].key \in Keys /\ row[worker[w].key].status # "ACCEPTED"
BY DEF ContestInv, OneRun, AcceptedIsSettled, Works

LEMMA QueueKeepsInv ==
  ASSUME ContestInv, NoRedelivery, losses \in Nat,
         NEW w \in Workers, Complete(w) \/ Throw(w) \/ LoseLock(w)
  PROVE  ContestInv'
<1> DEFINE k == worker[w].key
<1>0. worker[w].pc # "idle" BY DEF Complete, Throw, LoseLock
<1>1. k \in Keys BY <1>0 DEF ContestInv, OneRun
<1>2. job[k] \in JobRecords BY <1>1 DEF ContestInv, Types, JobsType, JobRecords
<1>3. CASE Complete(w)
  <2> DEFINE after == [job[k] EXCEPT !.state = "completed", !.worker = {}]
  <2>1. after \in JobRecords /\ after.worker = {} /\ after.state = "completed"
    BY <1>2 DEF JobRecords, JobStates
  <2>2. Release(w, after) BY <1>3 DEF Complete
  <2> HIDE DEF after
  <2>3. /\ worker' = [worker EXCEPT ![w] = Idle] /\ UNCHANGED <<row, request>>
        /\ \/ job[k].worker = {w} /\ job' = [job EXCEPT ![k] = after]
           \/ job' = job
    BY <2>2 DEF Release, api, scores
  <2> QED BY <1>0, <2>1, <2>3, JobIsGivenBack
<1>4. CASE Throw(w)
  <2> DEFINE after == Failed(job[k])
  <2>1. after \in JobRecords /\ after.worker = {} /\ after.state \in {"waiting", "failed"}
    <3> DEFINE state == IF job[k].failures + 1 < MaxAttempts THEN "waiting" ELSE "failed"
               failures == job[k].failures + 1
    <3>1. after = [job[k] EXCEPT !.state = state, !.worker = {}, !.failures = failures]
      BY <1>2 DEF JobRecords, Failed
    <3>2. state \in {"waiting", "failed"} /\ failures \in Nat BY <1>2 DEF JobRecords
    <3> HIDE DEF state, failures, after
    <3> QED BY <1>2, <3>1, <3>2 DEF JobRecords, JobStates
  <2>2. Release(w, after) BY <1>4 DEF Throw
  <2>3. row[k].status # "ACCEPTED" BY <1>4, RunIsUnsettled DEF Throw
  <2> HIDE DEF after
  <2>4. /\ worker' = [worker EXCEPT ![w] = Idle] /\ UNCHANGED <<row, request>>
        /\ \/ job[k].worker = {w} /\ job' = [job EXCEPT ![k] = after]
           \/ job' = job
    BY <2>2 DEF Release, api, scores
  <2> QED BY <1>0, <2>1, <2>3, <2>4, JobIsGivenBack
<1>5. CASE LoseLock(w)
  <2> DEFINE after == Stalled(job[k])
  <2>1. MaxStalledCount = 0
    BY <1>5 DEF LoseLock, NoRedelivery
  <2>2. after \in JobRecords /\ after.worker = {} /\ after.state = "failed"
    <3> DEFINE stalls == job[k].stalls + 1
    <3>1. ~(job[k].stalls < MaxStalledCount) /\ stalls \in Nat BY <1>2, <2>1 DEF JobRecords
    <3>2. after = [job[k] EXCEPT !.state = "failed", !.worker = {}, !.stalls = stalls]
      BY <1>2, <3>1 DEF JobRecords, Stalled
    <3> HIDE DEF stalls, after
    <3> QED BY <1>2, <3>1, <3>2 DEF JobRecords, JobStates
  <2>3. /\ job[k].worker = {w} /\ job' = [job EXCEPT ![k] = after]
        /\ UNCHANGED <<row, request>>
        /\ worker' = [worker EXCEPT ![w] = Idle] \/ worker' = worker
    BY <1>1, <1>5 DEF LoseLock, api, scores
  <2> HIDE DEF after
  <2> QED BY <1>0, <2>2, <2>3, JobIsGivenBack
<1> QED BY <1>3, <1>4, <1>5

-----------------------------------------------------------------------------
(* Steps of a run.                                                         *)

(* A run that goes on to another place, and leaves its row alone.          *)
LEMMA RunMoves ==
  ASSUME ContestInv, UNCHANGED <<row, request, job>>, NEW w \in Workers,
         worker[w].pc # "idle",
         NEW to \in [pc : WorkerPlaces, key : Keys \cup {NoKey},
                     status : {"none"} \cup Verdicts \cup Errors],
         to.pc # "idle", to.key = worker[w].key, to.pc = "fail" => to.status \in Errors,
         to.pc = "score" => to.status \in Verdicts,
         to.pc \in {"board", "done"} \/ worker[w].pc \notin {"board", "done"},
         worker' = [worker EXCEPT ![w] = to]
  PROVE  ContestInv'
<1>1. worker'[w] = to /\ \A v \in Workers \ {w} : worker'[v] = worker[v]
  BY DEF ContestInv, Types, WorkersType
<1>2. RowsType' /\ RequestsType' /\ JobsType'
  BY DEF ContestInv, Types, RowsType, RequestsType, JobsType
<1>3. WorkersType' BY DEF ContestInv, Types, WorkersType
<1>4. RequestsOK' /\ JobsOK' /\ RowsOK' /\ OnePaid'
  BY DEF ContestInv, RequestsOK, JobsOK, Exists, RowsOK, OnePaid
<1>5. OneRun' BY <1>1 DEF ContestInv, OneRun, Works
<1>6. AcceptedIsSettled' BY <1>1 DEF ContestInv, AcceptedIsSettled, Works, OneRun
<1> QED BY <1>2, <1>3, <1>4, <1>5, <1>6 DEF ContestInv, Types

(* A run that goes on to another place, and writes to its unsettled row    *)
(* what earns nothing.                                                     *)
LEMMA RunWrites ==
  ASSUME ContestInv, UNCHANGED <<request, job>>, NEW w \in Workers,
         worker[w].pc \notin {"idle", "board", "done"},
         NEW new \in [status : Statuses, points : Int],
         new.status \notin {"none", "ACCEPTED"}, ~(new.points > 0),
         row' = [row EXCEPT ![worker[w].key] = new],
         NEW to \in {"judge", "throw"}, worker' = [worker EXCEPT ![w].pc = to]
  PROVE  ContestInv'
<1> DEFINE k == worker[w].key
<1>1. k \in Keys /\ row[k].status # "ACCEPTED" BY RunIsUnsettled
<1>2. row'[k] = new /\ \A o \in Keys \ {k} : row'[o] = row[o]
  BY <1>1 DEF ContestInv, Types, RowsType
<1>3. /\ worker'[w].pc = to /\ worker'[w].key = k
      /\ \A v \in Workers \ {w} : worker'[v] = worker[v]
  BY DEF ContestInv, Types, WorkersType
<1>4. RowsType' BY <1>1 DEF ContestInv, Types, RowsType
<1>5. RequestsType' /\ JobsType' BY DEF ContestInv, Types, RequestsType, JobsType
<1>6. WorkersType' BY DEF ContestInv, Types, WorkersType, WorkerPlaces
<1>7. RequestsOK' BY <1>2 DEF ContestInv, RequestsOK, Exists
<1>8. JobsOK' BY <1>2 DEF ContestInv, JobsOK, Exists
<1>9. RowsOK' /\ OnePaid' BY <1>1, <1>2 DEF ContestInv, RowsOK, OnePaid
<1>10. OneRun' BY <1>3 DEF ContestInv, OneRun, Works
<1>11. AcceptedIsSettled' BY <1>1, <1>2, <1>3 DEF ContestInv, AcceptedIsSettled, Works
<1> QED BY <1>4, <1>5, <1>6, <1>7, <1>8, <1>9, <1>10, <1>11 DEF ContestInv, Types

LEMMA ScoreKeepsInv ==
  ASSUME ContestInv, NEW w \in Workers, Score(w)
  PROVE  ContestInv'
<1> DEFINE k == worker[w].key
           v == worker[w].status
           to == [worker[w] EXCEPT !.pc = "board"]
<1>1. k \in Keys /\ worker[w].pc = "score" /\ row[k].status # "ACCEPTED"
  BY RunIsUnsettled DEF Score
<1>2. UNCHANGED <<request, job>> /\ worker' = [worker EXCEPT ![w].pc = "board"]
  BY DEF Score, api
<1>3. /\ to \in [pc : WorkerPlaces, key : Keys \cup {NoKey},
                 status : {"none"} \cup Verdicts \cup Errors]
      /\ to.pc = "board" /\ to.key = k /\ to.status = v
  BY DEF ContestInv, Types, WorkersType, WorkerPlaces
<1>4. worker' = [worker EXCEPT ![w] = to] BY <1>2
<1> HIDE DEF to
<1>5. CASE Finalized(k)
  <2>1. row' = row BY <1>5 DEF Score
  <2> QED BY <1>1, <1>2, <1>3, <1>4, <2>1, RunMoves
<1>6. CASE ~Finalized(k)
  <2> DEFINE award == Award(k, v)
  <2>1. row' = [o \in Keys |-> IF o = k THEN [status |-> v, points |-> award]
                               ELSE IF o \in Refunded(k) THEN [row[o] EXCEPT !.points = 0]
                               ELSE row[o]]
    BY <1>6 DEF Score
  <2>2. award \in Int /\ (award > 0 => v = "ACCEPTED" /\ ~AlreadySolved(k))
    BY <1>1, AwardIsEarned
  <2>3. v \in Verdicts BY <1>1 DEF ContestInv, OneRun
  <2>4. /\ row'[k].status = v /\ row'[k].points = award
        /\ \A o \in Keys \ {k} :
              row'[o].status = row[o].status /\ row'[o].points \in {row[o].points, 0}
    <3> HIDE DEF award
    <3> QED BY <1>1, <2>1 DEF ContestInv, Types, RowsType
  <2>5. RowsType'
    <3> HIDE DEF award
    <3>1. [status |-> v, points |-> award] \in [status : Statuses, points : Int]
      BY <2>2, <2>3 DEF Verdicts, Statuses
    <3>2. \A o \in Keys : [row[o] EXCEPT !.points = 0] \in [status : Statuses, points : Int]
      BY DEF ContestInv, Types, RowsType
    <3> QED BY <2>1, <3>1, <3>2 DEF ContestInv, Types, RowsType
  <2>6. RequestsType' /\ JobsType' BY <1>2 DEF ContestInv, Types, RequestsType, JobsType
  <2>7. WorkersType' BY <1>3, <1>4 DEF ContestInv, Types, WorkersType
  <2>8. \A o \in Keys : Exists(o) => Exists(o)'
    BY <2>3, <2>4 DEF Exists, Verdicts
  <2>9. RequestsOK' BY <1>2, <2>8 DEF ContestInv, RequestsOK
  <2>10. JobsOK' BY <1>2, <2>8 DEF ContestInv, JobsOK
  <2>11. RowsOK' BY <2>2, <2>4 DEF ContestInv, RowsOK
  <2>12. OneRun'
    <3>1. worker'[w] = to /\ \A u \in Workers \ {w} : worker'[u] = worker[u]
      BY <1>4 DEF ContestInv, Types, WorkersType
    <3> QED BY <1>1, <1>2, <1>3, <3>1 DEF ContestInv, OneRun, Works
  <2>13. AcceptedIsSettled'
    <3>1. worker'[w] = to /\ \A u \in Workers \ {w} : worker'[u] = worker[u]
      BY <1>4 DEF ContestInv, Types, WorkersType
    <3>2. job[k].state \in {"failed", "active"} /\ \A u \in Workers \ {w} : ~Works(u, k)
      BY <1>1 DEF ContestInv, OneRun, Works
    <3> QED BY <1>1, <1>2, <1>3, <2>4, <3>1, <3>2 DEF ContestInv, AcceptedIsSettled, Works
  <2>14. OnePaid'
    <3>1. award > 0 => \A o \in Keys \ {k} : QuestionOf[o] = QuestionOf[k] => ~(row[o].points > 0)
      BY <2>2 DEF AlreadySolved, Prior, Exists, ContestInv, RowsOK
    <3> HIDE DEF award
    <3>2. \A o \in Keys : row[o].points \in Int BY DEF ContestInv, Types, RowsType
    <3> QED BY <1>1, <2>2, <2>4, <3>1, <3>2 DEF ContestInv, OnePaid, RowsOK
  <2> QED BY <2>5, <2>6, <2>7, <2>9, <2>10, <2>11, <2>12, <2>13, <2>14 DEF ContestInv, Types
<1> QED BY <1>5, <1>6

LEMMA RunKeepsInv ==
  ASSUME ContestInv, NoRedelivery, losses \in Nat, NEW w \in Workers, Run(w)
  PROVE  ContestInv'
<1>0. worker[w] \in [pc : WorkerPlaces, key : Keys \cup {NoKey},
                     status : {"none"} \cup Verdicts \cup Errors]
  BY DEF ContestInv, Types, WorkersType
<1>1. CASE MarkProcessing(w)
  <2> DEFINE new == [row[worker[w].key] EXCEPT !.status = "PROCESSING"]
  <2>1. worker[w].pc = "start" /\ worker' = [worker EXCEPT ![w].pc = "judge"]
        /\ UNCHANGED <<request, job>>
    BY <1>1 DEF MarkProcessing, At, api
  <2>2. worker[w].key \in Keys /\ row[worker[w].key].status # "ACCEPTED" BY <2>1, RunIsUnsettled
  <2>3. /\ new \in [status : Statuses, points : Int] /\ new.status = "PROCESSING"
        /\ ~(new.points > 0)
    BY <2>2 DEF ContestInv, Types, RowsType, RowsOK, Statuses, PreScore
  <2>4. row' = [row EXCEPT ![worker[w].key] = new] BY <1>1 DEF MarkProcessing
  <2> HIDE DEF new
  <2> QED BY <2>1, <2>3, <2>4, RunWrites
<1>2. CASE Judge(w)
  <2>1. PICK pc \in {"score", "fail"}, s \in Verdicts \cup Errors :
          /\ worker' = [worker EXCEPT ![w].pc = pc, ![w].status = s]
          /\ pc = "score" => s \in Verdicts
          /\ pc = "fail" => s \in Errors
    BY <1>2 DEF Judge
  <2> DEFINE to == [worker[w] EXCEPT !.pc = pc, !.status = s]
  <2>2. to \in [pc : WorkerPlaces, key : Keys \cup {NoKey},
                status : {"none"} \cup Verdicts \cup Errors]
        /\ to.pc = pc /\ to.key = worker[w].key /\ to.status = s
    BY <1>0 DEF WorkerPlaces
  <2>3. worker' = [worker EXCEPT ![w] = to] BY <2>1 DEF ContestInv, Types, WorkersType
  <2> HIDE DEF to
  <2> QED BY <1>2, <2>1, <2>2, <2>3, RunMoves DEF Judge, api, scores
<1>3. CASE ScoreFails(w)
  <2> DEFINE to == [worker[w] EXCEPT !.pc = "fail", !.status = "RUNTIME_ERROR"]
  <2>1. to \in [pc : WorkerPlaces, key : Keys \cup {NoKey},
                status : {"none"} \cup Verdicts \cup Errors]
        /\ to.pc = "fail" /\ to.key = worker[w].key /\ to.status \in Errors
    BY <1>0 DEF WorkerPlaces, Errors
  <2>2. worker' = [worker EXCEPT ![w] = to]
    BY <1>3 DEF ScoreFails, ContestInv, Types, WorkersType
  <2> HIDE DEF to
  <2> QED BY <1>3, <2>1, <2>2, RunMoves DEF ScoreFails, api, scores
<1>4. CASE UpdateBoard(w)
  <2> DEFINE to == [worker[w] EXCEPT !.pc = "done"]
  <2>1. to \in [pc : WorkerPlaces, key : Keys \cup {NoKey},
                status : {"none"} \cup Verdicts \cup Errors]
        /\ to.pc = "done" /\ to.key = worker[w].key
    BY <1>0 DEF WorkerPlaces
  <2>2. worker' = [worker EXCEPT ![w] = to] /\ worker[w].pc = "board" BY <1>4 DEF UpdateBoard, At
  <2> HIDE DEF to
  <2> QED BY <1>4, <2>1, <2>2, RunMoves DEF UpdateBoard, api
<1>5. CASE PersistError(w)
  <2> DEFINE new == [status |-> worker[w].status, points |-> 0]
  <2>1. worker[w].pc = "fail" /\ worker' = [worker EXCEPT ![w].pc = "throw"]
        /\ UNCHANGED <<request, job>>
    BY <1>5 DEF PersistError, At, api
  <2>2. worker[w].status \in Errors BY <2>1 DEF ContestInv, OneRun
  <2>3. /\ new \in [status : Statuses, points : Int] /\ new.status \notin {"none", "ACCEPTED"}
        /\ ~(new.points > 0)
    BY <2>2 DEF Statuses, Errors
  <2>4. row' = [row EXCEPT ![worker[w].key] = new] BY <1>5 DEF PersistError
  <2> HIDE DEF new
  <2> QED BY <2>1, <2>3, <2>4, RunWrites
<1> QED BY <1>1, <1>2, <1>3, <1>4, <1>5, ScoreKeepsInv, QueueKeepsInv DEF Run

-----------------------------------------------------------------------------
(* The specification.                                                      *)

LEMMA InitContestInv == Init => ContestInv /\ losses \in Nat
<1> SUFFICES ASSUME Init PROVE ContestInv /\ losses \in Nat OBVIOUS
<1> USE DEF Init
<1>1. \A k \in Keys : row[k] \in [status : Statuses, points : Int] /\ ~(row[k].points > 0)
  <2>1. -NegativePoints \in Int /\ ~(-NegativePoints > 0) BY ContestAssumption
  <2> HIDE DEF Init
  <2>2. row = [k \in Keys |-> IF k \in Legacy
                             THEN [status |-> "WRONG_ANSWER", points |-> -NegativePoints]
                             ELSE [status |-> "none", points |-> 0]]
    BY DEF Init
  <2> QED BY <2>1, <2>2 DEF Statuses, Verdicts
<1>2. \A k \in Keys : row[k].status # "ACCEPTED" OBVIOUS
<1>3. RowsType BY <1>1 DEF RowsType
<1>4. RequestsType /\ JobsType /\ WorkersType
  BY DEF RequestsType, JobsType, WorkersType, RequestPlaces, WorkerPlaces, JobStates, Idle
<1>5. RowsOK /\ OnePaid /\ AcceptedIsSettled
  <2> HIDE DEF Init
  <2>1. \A k \in Keys : row[k].points \in Int BY <1>1
  <2> QED BY <1>1, <1>2, <2>1 DEF RowsOK, OnePaid, AcceptedIsSettled
<1>6. RequestsOK /\ JobsOK /\ OneRun
  BY DEF RequestsOK, JobsOK, OneRun, Works, Idle
<1> QED BY <1>3, <1>4, <1>5, <1>6 DEF ContestInv, Types

LEMMA NextKeepsInv ==
  ASSUME NoRedelivery, ContestInv, losses \in Nat, [Next]_vars
  PROVE  ContestInv' /\ losses' \in Nat
<1>1. ASSUME UNCHANGED <<row, request, job, worker>> PROVE ContestInv'
  <2>1. Types'
    BY <1>1 DEF ContestInv, Types, RowsType, RequestsType, JobsType, WorkersType
  <2>2. RowsOK' /\ OnePaid' /\ RequestsOK' /\ JobsOK'
    BY <1>1 DEF ContestInv, RowsOK, OnePaid, RequestsOK, JobsOK, Exists
  <2>3. OneRun' /\ AcceptedIsSettled' BY <1>1 DEF ContestInv, OneRun, AcceptedIsSettled, Works
  <2> QED BY <2>1, <2>2, <2>3 DEF ContestInv
<1>2. \A w \in Workers : LoseLock(w) => ContestInv' BY QueueKeepsInv
<1>3. ASSUME Forget \/ EndContest \/ Clamp \/ UNCHANGED vars PROVE ContestInv'
  <2>1. UNCHANGED <<row, request, job, worker>>
    BY <1>3 DEF Forget, EndContest, Clamp, vars, api, judge, scores
  <2> QED BY <1>1, <2>1
<1>4. ContestInv' BY <1>2, <1>3, ApiKeepsInv, RunKeepsInv, TakeKeepsInv DEF Next
<1>5. losses' = losses \/ losses' = losses + 1
  <2>1. \A r \in Requests : Api(r) => losses' = losses
    BY DEF Api, Submit, DuplicateRead, DuplicateMark, DuplicateUnknown, Busy, Create, Enqueue,
           CutOff, judge
  <2>2. \A w \in Workers : Run(w) => losses' = losses
    BY DEF Run, MarkProcessing, Judge, Score, ScoreFails, UpdateBoard, PersistError, Complete,
           Throw, Release
  <2>3. \A w \in Workers : LoseLock(w) => losses' = losses + 1 BY DEF LoseLock
  <2>4. \A w \in Workers, k \in Keys : TakeJob(w, k) => losses' = losses BY DEF TakeJob
  <2>5. Forget \/ EndContest \/ Clamp \/ UNCHANGED vars => losses' = losses
    BY DEF Forget, EndContest, Clamp, vars, judge
  <2> QED BY <2>1, <2>2, <2>3, <2>4, <2>5 DEF Next
<1> QED BY <1>4, <1>5

(* A row that earned points is left as it is.                              *)
LEMMA PaidRowStays ==
  ASSUME ContestInv, [Next]_vars, NEW k \in Keys, row[k].points > 0
  PROVE  row'[k] = row[k]
<1>1. row[k].status = "ACCEPTED" BY DEF ContestInv, RowsOK
<1>2. row[k] \in [status : Statuses, points : Int] BY DEF ContestInv, Types, RowsType
<1>3. ASSUME NEW r \in Requests, Create(r) PROVE row'[k] = row[k]
  <2>1. row' = row \/ (~Exists(request[r].key) /\ row' = [row EXCEPT ![request[r].key].status = "QUEUED"])
    BY <1>3 DEF Create
  <2> QED BY <1>1, <2>1 DEF Exists, ContestInv, Types, RowsType
<1>4. ASSUME NEW w \in Workers, MarkProcessing(w) \/ PersistError(w) \/ Score(w)
      PROVE  row'[k] = row[k]
  <2>1. worker[w].key # k /\ worker[w].key \in Keys
    <3>1. worker[w].pc \in {"start", "fail", "score"}
      BY <1>4 DEF MarkProcessing, PersistError, Score, At
    <3> QED BY <1>1, <3>1, RunIsUnsettled
  <2>2. CASE MarkProcessing(w) \/ PersistError(w)
    BY <2>1, <2>2 DEF MarkProcessing, PersistError, ContestInv, Types, RowsType
  <2>3. CASE Score(w)
    <3>1. k \notin Refunded(worker[w].key) BY <1>2 DEF Refunded
    <3> QED BY <2>1, <2>3, <3>1 DEF Score
  <2> QED BY <1>4, <2>2, <2>3
<1>5. CASE UNCHANGED row BY <1>5
<1>6. ASSUME NEW r \in Requests, Api(r), ~Create(r) PROVE UNCHANGED row
  BY <1>6 DEF Api, Submit, DuplicateRead, DuplicateMark, DuplicateUnknown, Busy, Enqueue, CutOff, scores
<1>7. ASSUME NEW w \in Workers, Run(w), ~(MarkProcessing(w) \/ PersistError(w) \/ Score(w))
      PROVE  UNCHANGED row
  BY <1>7 DEF Run, Judge, ScoreFails, UpdateBoard, Complete, Throw, Release, scores
<1>8. ASSUME NEW w \in Workers, LoseLock(w) \/ \E o \in Keys : TakeJob(w, o) PROVE UNCHANGED row
  BY <1>8 DEF LoseLock, TakeJob, scores
<1>9. Forget \/ EndContest \/ Clamp \/ UNCHANGED vars => UNCHANGED row
  BY DEF Forget, EndContest, Clamp, scores, vars
<1> QED BY <1>3, <1>4, <1>5, <1>6, <1>7, <1>8, <1>9 DEF Next

LEMMA SpecContestInv ==
  ASSUME NoRedelivery PROVE Spec => [](ContestInv /\ losses \in Nat)
<1>1. ContestInv /\ losses \in Nat /\ [Next]_vars => (ContestInv /\ losses \in Nat)'
  BY NextKeepsInv
<1> QED BY <1>1, InitContestInv, PTL DEF Spec

(* However requests, runs, failures, retries and the end of the contest    *)
(* interleave, a row of contest_submissions that earned points keeps its   *)
(* verdict and points, and no other submission of its question earns any,  *)
(* unless a job is handed out twice.                                       *)
THEOREM QuestionIsPaidOnce == ASSUME NoRedelivery PROVE Spec => PaidOnce
<1> DEFINE Paid == \A k \in Keys : row[k].points > 0 =>
                      /\ row'[k] = row[k]
                      /\ \A o \in Keys \ {k} : QuestionOf[o] = QuestionOf[k] => row'[o].points <= 0
<1>1. ContestInv /\ losses \in Nat /\ [Next]_vars => Paid
  <2> SUFFICES ASSUME ContestInv, losses \in Nat, [Next]_vars,
                      NEW k \in Keys, row[k].points > 0
               PROVE  /\ row'[k] = row[k]
                      /\ \A o \in Keys \ {k} : QuestionOf[o] = QuestionOf[k] => row'[o].points <= 0
    OBVIOUS
  <2>1. row'[k] = row[k] BY PaidRowStays
  <2>2. OnePaid' BY NextKeepsInv DEF ContestInv
  <2> QED BY <2>1, <2>2 DEF OnePaid
<1>2. ContestInv /\ losses \in Nat /\ [Next]_vars => [Paid]_vars BY <1>1
<1> QED BY <1>2, SpecContestInv, PTL DEF Spec, PaidOnce

-----------------------------------------------------------------------------
(* Types, whatever is lost or run again.                                   *)

Rows == [status : Statuses, points : Int]
Asks == [at : RequestPlaces, key : Keys \cup {NoKey}]
Jobs == [state : JobStates, worker : SUBSET Workers, failures : 0..MaxAttempts,
         stalls : 0..(MaxStalledCount + 1)]
Runs == [pc : WorkerPlaces, key : Keys \cup {NoKey}, status : {"none"} \cup Verdicts \cup Errors]

Typed ==
    /\ contest \in {"ACTIVE", "ENDED", "CLAMPED"}
    /\ total \in Int /\ board \in Int /\ forgiven \in Nat
    /\ row \in [Keys -> Rows] /\ request \in [Requests -> Asks] /\ job \in [Keys -> Jobs]
    /\ worker \in [Workers -> Runs] /\ newTotal \in [Workers -> Int]
    /\ recent \subseteq {CodeOf[k] : k \in Keys}
    /\ losses \in 0..MaxLosses /\ crashes \in 0..MaxCrashes

LEMMA TypesAre == (TypeOK <=> Typed) /\ (TypeOK' <=> Typed')
BY DEF TypeOK, Typed, Rows, Asks, Jobs, Runs, RequestPlaces, WorkerPlaces, Answers

\* A job that may still run has an attempt and a stall left.
Pending == {"none", "waiting", "active"}
TriesLeft ==
    \A k \in Keys : job[k].state \in Pending =>
        job[k].failures < MaxAttempts /\ job[k].stalls <= MaxStalledCount

\* A run has a row, and a verdict when it is to score, an error when it fails.
RunsOK ==
    \A w \in Workers : worker[w].pc # "idle" =>
        /\ worker[w].key \in Keys
        /\ worker[w].pc = "fail" => worker[w].status \in Errors
        /\ worker[w].pc = "score" => worker[w].status \in Verdicts

TypeInv == TypeOK /\ RequestsOK /\ JobsOK /\ TriesLeft /\ RunsOK

\* The awards as a function of the row, and what they add up to.
LEMMA AwardsAre ==
  ASSUME TypeOK
  PROVE  /\ Awarded \in [Keys -> Int]
         /\ \A A \in SUBSET Keys : Sum(A) = SumOver(Awarded, A) /\ Sum(A) \in Int
<1>1. Awarded \in [Keys -> Int] BY TypesAre DEF Typed, Awarded, Rows
<1>2. \A A \in SUBSET Keys : Sum(A) = SumOver(Awarded, A) BY DEF Sum, SumOver
<1>3. \A A \in SUBSET Keys : SumOver(Awarded, A) \in Int BY <1>1, SumType, ContestAssumption
<1> QED BY <1>1, <1>2, <1>3

LEMMA LargerIsMax ==
  ASSUME NEW a \in Int, NEW b \in Int
  PROVE  Max({a, b}) \in Int /\ Max({a, b}) >= a /\ Max({a, b}) >= b
<1>1. \E x \in {a, b} : \A y \in {a, b} : x >= y OBVIOUS
<1> QED BY <1>1 DEF Max

LEMMA TypeInit == Init => TypeInv
<1> SUFFICES ASSUME Init PROVE TypeInv OBVIOUS
<1>1. Cardinality(Legacy) \in Nat BY ContestAssumption, FS_Subset, FS_CardinalityType
<1>2. row \in [Keys -> Rows] /\ request \in [Requests -> Asks] /\ worker \in [Workers -> Runs]
  BY InitContestInv
  DEF ContestInv, Types, RowsType, RequestsType, WorkersType, Rows, Asks, Runs
<1>3. job \in [Keys -> Jobs] /\ TriesLeft
  BY ContestAssumption DEF Init, Jobs, JobStates, TriesLeft
<1>4. total \in Int /\ board \in Int BY <1>1, ContestAssumption DEF Init
<1>5. /\ newTotal \in [Workers -> Int] /\ forgiven \in Nat /\ contest = "ACTIVE"
      /\ recent = {} /\ losses \in 0..MaxLosses /\ crashes \in 0..MaxCrashes
  BY ContestAssumption DEF Init
<1>6. RunsOK BY DEF Init, Idle, RunsOK
<1> QED BY <1>2, <1>3, <1>4, <1>5, <1>6, TypesAre, InitContestInv DEF ContestInv, Typed, TypeInv

\* A request that changes only itself, what is remembered and what was cut off.
LEMMA RequestTypes ==
  ASSUME TypeInv, UNCHANGED <<judge, scores>>, NEW r \in Requests,
         recent' \subseteq {CodeOf[k] : k \in Keys}, crashes' \in 0..MaxCrashes,
         NEW new \in Asks, new.key \in Keys, new.at # "enqueue",
         request' = [request EXCEPT ![r] = new]
  PROVE  TypeInv'
<1>1. request' \in [Requests -> Asks] /\ request'[r] = new
      /\ \A q \in Requests \ {r} : request'[q] = request[q]
  BY TypesAre DEF Typed, TypeInv
<1>2. UNCHANGED <<contest, row, total, board, forgiven, job, worker, newTotal, losses>>
  BY DEF judge, scores
<1>3. TypeOK' BY <1>1, <1>2, TypesAre DEF Typed, TypeInv
<1>4. RequestsOK' BY <1>1, <1>2 DEF TypeInv, RequestsOK, Exists
<1>5. JobsOK' /\ TriesLeft' /\ RunsOK' BY <1>2 DEF TypeInv, JobsOK, TriesLeft, RunsOK, Exists
<1> QED BY <1>3, <1>4, <1>5 DEF TypeInv

LEMMA ApiTypes ==
  ASSUME TypeInv, NEW r \in Requests, Api(r)
  PROVE  TypeInv'
<1>0. /\ request[r] \in Asks /\ request \in [Requests -> Asks] /\ crashes \in 0..MaxCrashes
      /\ recent \subseteq {CodeOf[k] : k \in Keys}
      /\ request[r].at # "idle" => request[r].key \in Keys
  BY TypesAre DEF TypeInv, Typed, RequestsOK
<1> DEFINE k == request[r].key
<1>1. ASSUME NEW to \in RequestPlaces \ {"enqueue"}, request[r].at # "idle",
             request' = [request EXCEPT ![r].at = to], UNCHANGED <<judge, scores>>,
             recent' \subseteq {CodeOf[o] : o \in Keys}, crashes' \in 0..MaxCrashes
      PROVE  TypeInv'
  <2> DEFINE new == [request[r] EXCEPT !.at = to]
  <2>1. new \in Asks /\ new.key = k /\ new.at = to BY <1>0 DEF Asks
  <2>2. request' = [request EXCEPT ![r] = new] BY <1>1
  <2> HIDE DEF new
  <2> QED BY <1>0, <1>1, <2>1, <2>2, RequestTypes
<1>2. CASE Submit(r)
  <2>1. PICK o \in Keys \ Legacy :
          request' = [request EXCEPT ![r] =
            [key |-> o,
             at |-> IF Exists(o) THEN "exists"
                    ELSE IF contest = "ACTIVE" THEN "checked" ELSE "closed"]]
    BY <1>2 DEF Submit
  <2> DEFINE at == IF Exists(o) THEN "exists" ELSE IF contest = "ACTIVE" THEN "checked" ELSE "closed"
             new == [key |-> o, at |-> at]
  <2>2. at \in RequestPlaces \ {"enqueue"} BY DEF RequestPlaces, Answers
  <2>3. new \in Asks /\ new.key \in Keys /\ new.at # "enqueue"
    <3> HIDE DEF at
    <3> QED BY <2>2 DEF Asks
  <2> HIDE DEF new
  <2> QED BY <1>0, <1>2, <2>1, <2>3, RequestTypes DEF Submit, new
<1>3. CASE DuplicateRead(r)
  BY <1>0, <1>1, <1>3 DEF DuplicateRead, Reach, RequestPlaces, Answers
<1>4. CASE DuplicateMark(r)
  <2>1. /\ request[r].at = "fresh" /\ request' = [request EXCEPT ![r].at = "create"]
        /\ UNCHANGED <<judge, scores>> /\ crashes' = crashes
        /\ recent' = recent \cup {CodeOf[k]} /\ k \in Keys
    BY <1>0, <1>4 DEF DuplicateMark, Reach
  <2>2. recent' \subseteq {CodeOf[o] : o \in Keys} BY <1>0, <2>1
  <2> QED BY <1>0, <1>1, <2>1, <2>2 DEF RequestPlaces
<1>5. CASE DuplicateUnknown(r)
  BY <1>0, <1>1, <1>5 DEF DuplicateUnknown, Reach, RequestPlaces, Answers
<1>6. CASE Busy(r)
  BY <1>0, <1>1, <1>6 DEF Busy, Reach, RequestPlaces, Answers
<1>7. CASE CutOff(r)
  <2>1. crashes' \in 0..MaxCrashes BY <1>0, <1>7, ContestAssumption DEF CutOff
  <2> QED BY <1>0, <1>1, <1>7, <2>1 DEF CutOff, RequestPlaces, Answers
<1>8. CASE Create(r) /\ Exists(k)
  <2>1. /\ request[r].at = "create" /\ request' = [request EXCEPT ![r].at = "error"]
        /\ UNCHANGED <<judge, scores, recent, crashes>>
    BY <1>8 DEF Create, Reach, scores
  <2> QED BY <1>0, <1>1, <2>1 DEF RequestPlaces, Answers
<1>9. CASE Create(r) /\ ~Exists(k)
  <2>1. /\ request[r].at = "create" /\ request' = [request EXCEPT ![r].at = "enqueue"]
        /\ row' = [row EXCEPT ![k].status = "QUEUED"] /\ k \in Keys
        /\ UNCHANGED <<recent, crashes, job, worker, newTotal, losses, total, board, forgiven, contest>>
    BY <1>0, <1>9 DEF Create, Reach, judge
  <2>2. row \in [Keys -> Rows] /\ job[k].state = "none"
    BY <1>9, <2>1, TypesAre DEF TypeInv, Typed, JobsOK
  <2>3. row' \in [Keys -> Rows] /\ row'[k].status = "QUEUED" /\ \A o \in Keys \ {k} : row'[o] = row[o]
    BY <2>1, <2>2 DEF Rows, Statuses, PreScore
  <2>4. /\ request' \in [Requests -> Asks] /\ request'[r].at = "enqueue" /\ request'[r].key = k
        /\ \A q \in Requests \ {r} : request'[q] = request[q]
    BY <1>0, <2>1 DEF Asks, RequestPlaces
  <2>5. TypeOK' BY <2>1, <2>3, <2>4, TypesAre DEF TypeInv, Typed
  <2>6. RequestsOK' BY <1>9, <2>1, <2>2, <2>3, <2>4 DEF TypeInv, RequestsOK, Exists
  <2>7. JobsOK' BY <2>1, <2>3 DEF TypeInv, JobsOK, Exists
  <2>8. TriesLeft' /\ RunsOK' BY <2>1 DEF TypeInv, TriesLeft, RunsOK
  <2> QED BY <2>5, <2>6, <2>7, <2>8 DEF TypeInv
<1>10. CASE Enqueue(r)
  <2>1. /\ request[r].at = "enqueue" /\ request' = [request EXCEPT ![r].at = "created"]
        /\ job' = [job EXCEPT ![k].state = "waiting"] /\ k \in Keys
        /\ UNCHANGED <<recent, crashes, row, worker, newTotal, losses, total, board, forgiven, contest>>
    BY <1>0, <1>10 DEF Enqueue, Reach, scores
  <2>2. job \in [Keys -> Jobs] /\ job[k].state = "none" /\ Exists(k)
    BY <2>1, TypesAre DEF TypeInv, Typed, RequestsOK
  <2>3. /\ job' \in [Keys -> Jobs] /\ job'[k].state = "waiting"
        /\ job'[k].worker = job[k].worker /\ job'[k].failures = job[k].failures
        /\ job'[k].stalls = job[k].stalls /\ \A o \in Keys \ {k} : job'[o] = job[o]
    BY <2>1, <2>2 DEF Jobs, JobStates
  <2>4. /\ request' \in [Requests -> Asks] /\ request'[r].at = "created" /\ request'[r].key = k
        /\ \A q \in Requests \ {r} : request'[q] = request[q]
    BY <1>0, <2>1 DEF Asks, RequestPlaces, Answers
  <2>5. TypeOK' BY <2>1, <2>3, <2>4, TypesAre DEF TypeInv, Typed
  <2>6. RequestsOK' BY <2>1, <2>2, <2>3, <2>4 DEF TypeInv, RequestsOK, Exists
  <2>7. JobsOK' BY <2>1, <2>2, <2>3 DEF TypeInv, JobsOK, Exists
  <2>8. TriesLeft' BY <2>2, <2>3 DEF TypeInv, TriesLeft, Pending
  <2>9. RunsOK' BY <2>1 DEF TypeInv, RunsOK
  <2> QED BY <2>5, <2>6, <2>7, <2>8, <2>9 DEF TypeInv
<1> QED BY <1>2, <1>3, <1>4, <1>5, <1>6, <1>7, <1>8, <1>9, <1>10 DEF Api

\* A job that is handed out, given back or given up, and the run that had it.
JobMoves(k, after) ==
    /\ job' = [job EXCEPT ![k] = after]
    /\ after \in Jobs /\ job[k].state # "none" /\ after.state # "none"
    /\ after.state # "active" => after.worker = {}
    /\ after.state \in Pending => after.failures < MaxAttempts /\ after.stalls <= MaxStalledCount

LEMMA QueueTypes ==
  ASSUME TypeInv, UNCHANGED <<api, scores, newTotal>>, losses' \in 0..MaxLosses,
         NEW w \in Workers, NEW k \in Keys, NEW after,
         NEW run \in Runs, run.pc # "idle" => run.key \in Keys, run.pc \notin {"fail", "score"},
         job' = job \/ JobMoves(k, after),
         worker' = [worker EXCEPT ![w] = run] \/ worker' = worker
  PROVE  TypeInv'
<1>1. UNCHANGED <<contest, row, total, board, forgiven, request, recent, crashes, newTotal>>
  BY DEF api, scores
<1>2. job' \in [Keys -> Jobs]
      /\ \A o \in Keys : job'[o] = job[o] \/ (o = k /\ job'[o] = after /\ JobMoves(k, after))
  BY TypesAre DEF TypeInv, Typed, JobMoves
<1>3. worker' \in [Workers -> Runs] /\ \A v \in Workers : worker'[v] = worker[v] \/ worker'[v] = run
  BY TypesAre DEF TypeInv, Typed
<1>4. TypeOK' BY <1>1, <1>2, <1>3, TypesAre DEF TypeInv, Typed
<1>5. RequestsOK' BY <1>1, <1>2 DEF TypeInv, RequestsOK, Exists, JobMoves
<1>6. JobsOK' BY <1>1, <1>2 DEF TypeInv, JobsOK, Exists, JobMoves
<1>7. TriesLeft' BY <1>2 DEF TypeInv, TriesLeft, JobMoves
<1>8. RunsOK' BY <1>3 DEF TypeInv, RunsOK
<1> QED BY <1>4, <1>5, <1>6, <1>7, <1>8 DEF TypeInv

LEMMA IdleIs == Idle \in Runs /\ Idle.pc = "idle"
BY DEF Idle, Runs, WorkerPlaces

LEMMA TakeTypes ==
  ASSUME TypeInv, NEW w \in Workers, NEW k \in Keys, TakeJob(w, k)
  PROVE  TypeInv'
<1> DEFINE after == [job[k] EXCEPT !.state = "active", !.worker = {w}]
           run == [Idle EXCEPT !.pc = "start", !.key = k]
<1>1. /\ job[k] \in Jobs /\ job[k].state = "waiting" /\ losses \in 0..MaxLosses
      /\ job[k].failures < MaxAttempts /\ job[k].stalls <= MaxStalledCount
      /\ job \in [Keys -> Jobs] /\ UNCHANGED <<newTotal, losses, api, scores>>
  BY TypesAre DEF TypeInv, Typed, TakeJob, TriesLeft, Pending
<1>2. /\ after \in Jobs /\ after.state = "active" /\ after.failures = job[k].failures
      /\ after.stalls = job[k].stalls
  BY <1>1 DEF Jobs, JobStates
<1>3. run \in Runs /\ run.pc = "start" /\ run.key = k
  BY DEF Idle, Runs, WorkerPlaces
<1>4. JobMoves(k, after)
  <2>1. job' = [job EXCEPT ![k] = after] BY <1>1 DEF TakeJob
  <2> HIDE DEF after
  <2> QED BY <1>1, <1>2, <2>1 DEF JobMoves
<1>5. worker' = [worker EXCEPT ![w] = run] BY DEF TakeJob
<1> HIDE DEF after, run
<1> QED BY <1>1, <1>3, <1>4, <1>5, QueueTypes

\* The job of a run that holds it is active, and has an attempt and a stall left.
LEMMA HeldIsActive ==
  ASSUME TypeInv, NEW w \in Workers, worker[w].pc # "idle",
         job[worker[w].key].worker = {w}
  PROVE  LET j == job[worker[w].key]
         IN  /\ j \in Jobs /\ j.state = "active"
             /\ j.failures < MaxAttempts /\ j.stalls <= MaxStalledCount
BY TypesAre DEF TypeInv, Typed, RunsOK, JobsOK, TriesLeft, Pending

LEMMA GivenBackTypes ==
  ASSUME TypeInv, NEW w \in Workers, Complete(w) \/ Throw(w) \/ LoseLock(w)
  PROVE  TypeInv'
<1> DEFINE k == worker[w].key
           j == job[k]
<1>0. /\ worker[w].pc # "idle" /\ k \in Keys /\ losses \in 0..MaxLosses
      /\ MaxAttempts \in Nat /\ MaxStalledCount \in Nat
  BY TypesAre, ContestAssumption DEF TypeInv, Typed, RunsOK, Complete, Throw, LoseLock
<1>1. ASSUME NEW after, Release(w, after),
             j.worker = {w} =>
                /\ after \in Jobs /\ after.worker = {} /\ after.state # "none"
                /\ after.state \in Pending =>
                      after.failures < MaxAttempts /\ after.stalls <= MaxStalledCount
      PROVE  TypeInv'
  <2>1. worker' = [worker EXCEPT ![w] = Idle] /\ UNCHANGED <<newTotal, losses, api, scores>>
        /\ (job' = job \/ (j.worker = {w} /\ job' = [job EXCEPT ![k] = after]))
    BY <1>1 DEF Release
  <2>2. job' = job \/ JobMoves(k, after)
    BY <1>0, <1>1, <2>1, HeldIsActive DEF JobMoves
  <2> QED BY <1>0, <2>1, <2>2, IdleIs, QueueTypes
<1>2. CASE Complete(w)
  <2> DEFINE after == [j EXCEPT !.state = "completed", !.worker = {}]
  <2>1. Release(w, after) BY <1>2 DEF Complete
  <2>2. j.worker = {w} => after \in Jobs /\ after.worker = {} /\ after.state = "completed"
    BY <1>0, HeldIsActive DEF Jobs, JobStates
  <2> HIDE DEF after
  <2> QED BY <1>1, <2>1, <2>2 DEF Pending
<1>3. CASE Throw(w)
  <2> DEFINE after == Failed(j)
  <2>1. Release(w, after) BY <1>3 DEF Throw
  <2>2. ASSUME j.worker = {w}
        PROVE  /\ after \in Jobs /\ after.worker = {} /\ after.state # "none"
               /\ after.state \in Pending =>
                     after.failures < MaxAttempts /\ after.stalls <= MaxStalledCount
    <3>1. j \in Jobs /\ j.failures < MaxAttempts /\ j.stalls <= MaxStalledCount
      BY <1>0, <2>2, HeldIsActive
    <3> DEFINE state == IF j.failures + 1 < MaxAttempts THEN "waiting" ELSE "failed"
               failures == j.failures + 1
    <3>2. after = [j EXCEPT !.state = state, !.worker = {}, !.failures = failures]
      BY <3>1 DEF Jobs, Failed
    <3>3. state \in {"waiting", "failed"} /\ failures \in 0..MaxAttempts
          /\ (state = "waiting" => failures < MaxAttempts)
      BY <1>0, <3>1 DEF Jobs
    <3> HIDE DEF state, failures, after
    <3> QED BY <3>1, <3>2, <3>3 DEF Jobs, JobStates, Pending
  <2> HIDE DEF after
  <2> QED BY <1>1, <2>1, <2>2
<1>4. CASE LoseLock(w)
  <2> DEFINE after == Stalled(j)
  <2>1. /\ j.worker = {w} /\ job' = [job EXCEPT ![k] = after]
        /\ losses' \in 0..MaxLosses /\ UNCHANGED <<newTotal, api, scores>>
        /\ (worker' = [worker EXCEPT ![w] = Idle] \/ worker' = worker)
    <3>1. j.worker = {w} /\ UNCHANGED <<newTotal, api, scores>> BY <1>4 DEF LoseLock
    <3>2. losses' \in 0..MaxLosses BY <1>0, <1>4, ContestAssumption DEF LoseLock
    <3>3. job' = [job EXCEPT ![k] = after] BY <1>4 DEF LoseLock
    <3>4. worker' = [worker EXCEPT ![w] = Idle] \/ worker' = worker BY <1>4 DEF LoseLock
    <3> QED BY <3>1, <3>2, <3>3, <3>4
  <2>2. JobMoves(k, after)
    <3>1. j \in Jobs /\ j.state = "active" /\ j.failures < MaxAttempts /\ j.stalls <= MaxStalledCount
      BY <1>0, <2>1, HeldIsActive
    <3> DEFINE state == IF j.stalls < MaxStalledCount THEN "waiting" ELSE "failed"
               stalls == j.stalls + 1
    <3>2. after = [j EXCEPT !.state = state, !.worker = {}, !.stalls = stalls]
      BY <3>1 DEF Jobs, Stalled
    <3>3. state \in {"waiting", "failed"} /\ stalls \in 0..(MaxStalledCount + 1)
          /\ (state = "waiting" => stalls <= MaxStalledCount)
      BY <1>0, <3>1 DEF Jobs
    <3> HIDE DEF state, stalls, after
    <3>4. /\ after \in Jobs /\ after.worker = {} /\ after.state = state
          /\ after.failures = j.failures /\ after.stalls = stalls
      BY <3>1, <3>2, <3>3 DEF Jobs, JobStates
    <3> QED BY <2>1, <3>1, <3>3, <3>4 DEF JobMoves, Pending
  <2> HIDE DEF after
  <2> QED BY <1>0, <2>1, <2>2, IdleIs, QueueTypes
<1> QED BY <1>2, <1>3, <1>4

\* A run that goes on.
LEMMA RunTypes ==
  ASSUME TypeInv, UNCHANGED <<api, job, losses, forgiven, contest>>,
         NEW w \in Workers, worker[w].pc # "idle",
         NEW to \in Runs, worker' = [worker EXCEPT ![w] = to], to.key = worker[w].key,
         to.pc = "fail" => to.status \in Errors, to.pc = "score" => to.status \in Verdicts,
         row' \in [Keys -> Rows], \A o \in Keys : Exists(o) => Exists(o)',
         total' \in Int, board' \in Int, newTotal' \in [Workers -> Int]
  PROVE  TypeInv'
<1>1. UNCHANGED <<request, recent, crashes>> BY DEF api
<1>2. worker' \in [Workers -> Runs] /\ worker'[w] = to /\ \A v \in Workers \ {w} : worker'[v] = worker[v]
  BY TypesAre DEF TypeInv, Typed
<1>3. TypeOK' BY <1>1, <1>2, TypesAre DEF TypeInv, Typed
<1>4. RequestsOK' BY <1>1 DEF TypeInv, RequestsOK
<1>5. JobsOK' BY DEF TypeInv, JobsOK
<1>6. TriesLeft' BY DEF TypeInv, TriesLeft
<1>7. RunsOK' BY <1>2 DEF TypeInv, RunsOK
<1> QED BY <1>3, <1>4, <1>5, <1>6, <1>7 DEF TypeInv

LEMMA RunsTypes ==
  ASSUME TypeInv, NEW w \in Workers, Run(w)
  PROVE  TypeInv'
<1> DEFINE k == worker[w].key
<1>0. /\ worker[w] \in Runs /\ row \in [Keys -> Rows] /\ total \in Int /\ board \in Int
      /\ newTotal \in [Workers -> Int] /\ worker \in [Workers -> Runs]
      /\ worker[w].pc # "idle" => k \in Keys
  BY TypesAre DEF TypeInv, Typed, RunsOK
<1>1. CASE MarkProcessing(w)
  <2> DEFINE to == [worker[w] EXCEPT !.pc = "judge"]
  <2>1. worker[w].pc = "start" /\ worker' = [worker EXCEPT ![w] = to]
        /\ row' = [row EXCEPT ![k].status = "PROCESSING"]
        /\ UNCHANGED <<job, newTotal, losses, api, total, board, forgiven, contest>>
    BY <1>1 DEF MarkProcessing, At
  <2>2. to \in Runs /\ to.pc = "judge" /\ to.key = k BY <1>0 DEF Runs, WorkerPlaces
  <2>3. row' \in [Keys -> Rows] /\ \A o \in Keys : Exists(o) => Exists(o)'
    BY <1>0, <2>1 DEF Rows, Statuses, PreScore, Exists
  <2> HIDE DEF to
  <2> QED BY <1>0, <2>1, <2>2, <2>3, RunTypes
<1>2. CASE Judge(w)
  <2>1. PICK pc \in {"score", "fail"}, s \in Verdicts \cup Errors :
          /\ worker' = [worker EXCEPT ![w].pc = pc, ![w].status = s]
          /\ pc = "score" => s \in Verdicts
          /\ pc = "fail" => s \in Errors
    BY <1>2 DEF Judge
  <2> DEFINE to == [worker[w] EXCEPT !.pc = pc, !.status = s]
  <2>2. to \in Runs /\ to.pc = pc /\ to.key = k /\ to.status = s
    BY <1>0 DEF Runs, WorkerPlaces
  <2>3. worker' = [worker EXCEPT ![w] = to] BY <1>0, <2>1 DEF Runs
  <2>4. worker[w].pc = "judge" /\ UNCHANGED <<job, newTotal, losses, api, row, total, board, forgiven, contest>>
    BY <1>2 DEF Judge, scores
  <2> HIDE DEF to
  <2> QED BY <1>0, <2>1, <2>2, <2>3, <2>4, RunTypes DEF Exists
<1>3. CASE ScoreFails(w)
  <2> DEFINE to == [worker[w] EXCEPT !.pc = "fail", !.status = "RUNTIME_ERROR"]
  <2>1. to \in Runs /\ to.pc = "fail" /\ to.key = k /\ to.status \in Errors
    BY <1>0 DEF Runs, WorkerPlaces, Errors
  <2>2. worker' = [worker EXCEPT ![w] = to] BY <1>0, <1>3 DEF ScoreFails, Runs
  <2>3. worker[w].pc = "score" /\ UNCHANGED <<job, newTotal, losses, api, row, total, board, forgiven, contest>>
    BY <1>3 DEF ScoreFails, scores
  <2> HIDE DEF to
  <2> QED BY <1>0, <2>1, <2>2, <2>3, RunTypes DEF Exists
<1>4. CASE UpdateBoard(w)
  <2> DEFINE to == [worker[w] EXCEPT !.pc = "done"]
  <2>1. to \in Runs /\ to.pc = "done" /\ to.key = k BY <1>0 DEF Runs, WorkerPlaces
  <2>2. worker[w].pc = "board" /\ worker' = [worker EXCEPT ![w] = to] /\ board' = newTotal[w]
        /\ UNCHANGED <<job, newTotal, losses, api, row, total, forgiven, contest>>
    BY <1>4 DEF UpdateBoard, At
  <2> HIDE DEF to
  <2> QED BY <1>0, <2>1, <2>2, RunTypes DEF Exists
<1>5. CASE PersistError(w)
  <2> DEFINE to == [worker[w] EXCEPT !.pc = "throw"]
             new == [status |-> worker[w].status, points |-> 0]
  <2>1. to \in Runs /\ to.pc = "throw" /\ to.key = k BY <1>0 DEF Runs, WorkerPlaces
  <2>2. worker[w].pc = "fail" /\ worker' = [worker EXCEPT ![w] = to]
        /\ row' = [row EXCEPT ![k] = new]
        /\ UNCHANGED <<job, newTotal, losses, api, total, board, forgiven, contest>>
    BY <1>5 DEF PersistError, At
  <2>3. worker[w].status \in Errors BY <2>2 DEF TypeInv, RunsOK
  <2>4. new \in Rows /\ new.status # "none" BY <2>3 DEF Rows, Statuses, Errors
  <2> HIDE DEF to, new
  <2>5. row' \in [Keys -> Rows] /\ \A o \in Keys : Exists(o) => Exists(o)'
    BY <1>0, <2>2, <2>4 DEF Exists
  <2> QED BY <1>0, <2>1, <2>2, <2>5, RunTypes
<1>6. CASE Score(w)
  <2> DEFINE to == [worker[w] EXCEPT !.pc = "board"]
             v == worker[w].status
             new == IF Finalized(k) THEN total ELSE total + Refund(k) + Award(k, v)
             award == Award(k, v)
  <2>1. worker[w].pc = "score" /\ worker' = [worker EXCEPT ![w] = to]
        /\ total' = new /\ newTotal' = [newTotal EXCEPT ![w] = new]
        /\ UNCHANGED <<job, losses, api, board, forgiven, contest>>
    BY <1>6 DEF Score
  <2>2. to \in Runs /\ to.pc = "board" /\ to.key = k BY <1>0 DEF Runs, WorkerPlaces
  <2>3. k \in Keys /\ v \in Verdicts BY <1>0, <2>1 DEF TypeInv, RunsOK
  <2>4. award \in Int BY <2>3, AwardIsEarned
  <2>5. Refund(k) \in Int
    <3>1. Refunded(k) \in SUBSET Keys BY DEF Refunded, Prior
    <3>2. Sum(Refunded(k)) \in Int BY <3>1, AwardsAre DEF TypeInv
    <3> QED BY <3>2 DEF Refund
  <2>6. new \in Int
    <3> HIDE DEF award
    <3> QED BY <1>0, <2>4, <2>5 DEF award
  <2>7. row' = IF Finalized(k) THEN row
               ELSE [o \in Keys |-> IF o = k THEN [status |-> v, points |-> award]
                                    ELSE IF o \in Refunded(k) THEN [row[o] EXCEPT !.points = 0]
                                    ELSE row[o]]
    BY <1>6 DEF Score
  <2> HIDE DEF to, new, award
  <2>8. [status |-> v, points |-> award] \in Rows /\ v # "none"
    BY <2>3, <2>4 DEF Rows, Statuses, Verdicts
  <2>9. \A o \in Keys : /\ [row[o] EXCEPT !.points = 0] \in Rows
                        /\ [row[o] EXCEPT !.points = 0].status = row[o].status
    BY <1>0 DEF Rows
  <2>10. row' \in [Keys -> Rows] BY <1>0, <2>7, <2>8, <2>9
  <2>11. \A o \in Keys : Exists(o) => Exists(o)'
    BY <1>0, <2>7, <2>8, <2>9 DEF Exists
  <2>12. newTotal' \in [Workers -> Int] BY <1>0, <2>1, <2>6
  <2> QED BY <1>0, <2>1, <2>2, <2>6, <2>10, <2>11, <2>12, RunTypes
<1>7. CASE Complete(w) \/ Throw(w) BY <1>7, GivenBackTypes
<1> QED BY <1>1, <1>2, <1>3, <1>4, <1>5, <1>6, <1>7 DEF Run

LEMMA TypeStep == TypeInv /\ [Next]_vars => TypeInv'
<1> SUFFICES ASSUME TypeInv, [Next]_vars PROVE TypeInv' OBVIOUS
<1>1. ASSUME UNCHANGED <<row, request, job, worker, newTotal, losses, crashes>>,
             contest' \in {"ACTIVE", "ENDED", "CLAMPED"}, recent' \subseteq recent,
             total' \in Int, board' \in Int, forgiven' \in Nat
      PROVE  TypeInv'
  <2>1. TypeOK' BY <1>1, TypesAre DEF TypeInv, Typed
  <2>2. RequestsOK' /\ JobsOK' /\ TriesLeft' /\ RunsOK'
    BY <1>1 DEF TypeInv, RequestsOK, JobsOK, TriesLeft, RunsOK, Exists
  <2> QED BY <2>1, <2>2 DEF TypeInv
<1>2. /\ total \in Int /\ board \in Int /\ forgiven \in Nat
      /\ contest \in {"ACTIVE", "ENDED", "CLAMPED"}
  BY TypesAre DEF TypeInv, Typed
<1>3. CASE Forget \/ EndContest \/ UNCHANGED vars
  BY <1>1, <1>2, <1>3 DEF Forget, EndContest, vars, api, judge, scores
<1>4. CASE Clamp
  <2>1. Max({total, 0}) \in Int /\ Max({total, 0}) >= total BY <1>2, LargerIsMax
  <2>2. /\ total' = Max({total, 0}) /\ forgiven' = total' - total
        /\ board' = (IF total < 0 THEN 0 ELSE board) /\ contest' = "CLAMPED"
        /\ UNCHANGED <<api, judge, row>>
    BY <1>4 DEF Clamp
  <2>3. forgiven' \in Nat /\ board' \in Int BY <1>2, <2>1, <2>2
  <2> QED BY <1>1, <2>1, <2>2, <2>3 DEF api, judge
<1> QED BY <1>3, <1>4, ApiTypes, RunsTypes, GivenBackTypes, TakeTypes DEF Next

-----------------------------------------------------------------------------
(* The total and the sum of the awards.                                    *)

\* The rows that older scoring charged are never judged again.
LegacyOK ==
    /\ \A r \in Requests : request[r].at # "idle" => request[r].key \notin Legacy
    /\ \A k \in Legacy : job[k].state = "none"
    /\ \A w \in Workers : worker[w].pc # "idle" => worker[w].key \notin Legacy

\* Of the others only an ACCEPTED row has points.
PointsOK == \A k \in Keys : row[k].points # 0 => row[k].status = "ACCEPTED" \/ k \in Legacy

AwardsInv ==
    /\ LegacyOK /\ PointsOK
    /\ contest \in {"ACTIVE", "ENDED"} => forgiven = 0
    /\ total = SumOver(Awarded, Keys) + forgiven

Inv == TypeInv /\ ContestInv /\ AwardsInv

LEMMA AwardsInit == Init => AwardsInv
<1> SUFFICES ASSUME Init PROVE AwardsInv OBVIOUS
<1>1. TypeInv /\ IsFiniteSet(Keys) /\ Legacy \in SUBSET Keys /\ -NegativePoints \in Int
      /\ Cardinality(Legacy) \in Nat
  BY TypeInit, ContestAssumption, FS_Subset, FS_CardinalityType
<1>2. LegacyOK /\ PointsOK /\ forgiven = 0
  BY <1>1 DEF Init, LegacyOK, PointsOK, Idle
<1>3. Awarded \in [Keys -> Int]
      /\ \A k \in Keys : Awarded[k] = IF k \in Legacy THEN -NegativePoints ELSE 0
  BY <1>1, AwardsAre DEF TypeInv, Awarded, Init
<1> DEFINE none == [k \in Keys |-> 0]
<1>4. none \in [Keys -> Int] /\ \A k \in Keys : none[k] = 0 OBVIOUS
<1> HIDE DEF none
<1>5. SumOver(Awarded, Legacy) = -NegativePoints * Cardinality(Legacy)
  <2>1. SumOver(Awarded, Legacy) = (-NegativePoints) * Cardinality(Legacy)
    BY <1>1, <1>3, SumConstant
  <2> QED BY <1>1, <2>1, ContestAssumption
<1>6. SumOver(none, Keys) = 0
  <2>1. Cardinality(Keys) \in Nat BY <1>1, FS_CardinalityType
  <2>2. SumOver(none, Keys) = 0 * Cardinality(Keys) BY <1>1, <1>4, SumConstant
  <2> QED BY <2>1, <2>2
<1>7. SumOver(none, Keys) = SumOver(Awarded, Keys) - SumOver(Awarded, Legacy)
  <2>1. \A k \in Keys : none[k] = IF k \in Legacy THEN 0 ELSE Awarded[k] BY <1>3, <1>4
  <2> QED BY <1>1, <1>3, <1>4, <2>1, SumErase
<1>8. SumOver(Awarded, Keys) \in Int BY <1>1, <1>3, SumType
<1>9. total = -NegativePoints * Cardinality(Legacy) BY DEF Init
<1>10. -NegativePoints * Cardinality(Legacy) \in Int BY <1>1, ContestAssumption
<1>11. total = SumOver(Awarded, Keys) + forgiven BY <1>2, <1>5, <1>6, <1>7, <1>8, <1>9, <1>10
<1> QED BY <1>2, <1>11 DEF AwardsInv

\* The sum depends on the points alone.
LEMMA SumStays ==
  ASSUME TypeInv, TypeInv', \A k \in Keys : row'[k].points = row[k].points
  PROVE  SumOver(Awarded, Keys)' = SumOver(Awarded, Keys)
<1>1. Awarded' = Awarded BY DEF Awarded
<1> QED BY <1>1

LEMMA LegacyStep ==
  ASSUME TypeInv, TypeInv', LegacyOK, [Next]_vars
  PROVE  LegacyOK'
<1>0. /\ request \in [Requests -> Asks] /\ job \in [Keys -> Jobs] /\ worker \in [Workers -> Runs]
      /\ Legacy \subseteq Keys
      /\ \A w \in Workers : worker[w].pc # "idle" => worker[w].key \in Keys
      /\ \A r \in Requests : request[r].at # "idle" => request[r].key \in Keys
  BY TypesAre, ContestAssumption DEF TypeInv, Typed, RunsOK, RequestsOK
<1>1. ASSUME NEW r \in Requests, Api(r) PROVE LegacyOK'
  <2>1. /\ worker' = worker
        /\ \A q \in Requests : request'[q].at # "idle" => request'[q].key \notin Legacy
    <3>1. CASE Submit(r) BY <1>0, <3>1 DEF Submit, LegacyOK, judge, Asks
    <3>2. CASE ~Submit(r)
      <4>1. PICK to : request' = [request EXCEPT ![r].at = to]
        BY <1>1, <3>2 DEF Api, DuplicateRead, DuplicateMark, DuplicateUnknown, Busy, Create,
             Enqueue, CutOff, Reach
      <4>2. request[r].at # "idle" /\ worker' = worker
        BY <1>1, <3>2 DEF Api, DuplicateRead, DuplicateMark, DuplicateUnknown, Busy, Create,
             Enqueue, CutOff, Reach, judge
      <4> QED BY <1>0, <4>1, <4>2 DEF LegacyOK, Asks
    <3> QED BY <3>1, <3>2
  <2>2. \A k \in Legacy : job'[k].state = "none"
    <3>1. CASE job' = job BY <3>1 DEF LegacyOK
    <3>2. CASE Enqueue(r)
      <4>1. request[r].key \in Keys \ Legacy /\ job' = [job EXCEPT ![request[r].key].state = "waiting"]
        BY <1>0, <3>2 DEF Enqueue, Reach, LegacyOK
      <4> QED BY <1>0, <4>1 DEF LegacyOK
    <3>3. CASE ~Enqueue(r)
      BY <1>1, <3>1, <3>3 DEF Api, Submit, DuplicateRead, DuplicateMark, DuplicateUnknown, Busy,
           Create, CutOff, judge
    <3> QED BY <3>2, <3>3
  <2> QED BY <2>1, <2>2 DEF LegacyOK
<1>2. ASSUME NEW w \in Workers, Run(w) \/ LoseLock(w) PROVE LegacyOK'
  <2>1. /\ worker[w].pc # "idle" /\ request' = request
        /\ \A k \in Keys : k # worker[w].key => job'[k] = job[k]
    BY <1>0, <1>2 DEF Run, MarkProcessing, Judge, Score, ScoreFails, UpdateBoard, PersistError,
         Complete, Throw, LoseLock, Release, At, api
  <2>2. worker'[w].pc = "idle" \/ worker'[w].key = worker[w].key
    <3>1. CASE worker' = [worker EXCEPT ![w] = Idle] BY <1>0, <3>1, IdleIs
    <3>2. CASE worker' = worker BY <3>2
    <3>3. CASE \E pc : worker' = [worker EXCEPT ![w].pc = pc] BY <1>0, <3>3 DEF Runs
    <3>4. CASE \E pc, s : worker' = [worker EXCEPT ![w].pc = pc, ![w].status = s]
      BY <1>0, <3>4 DEF Runs
    <3> QED BY <1>2, <3>1, <3>2, <3>3, <3>4 DEF Run, MarkProcessing, Judge, Score, ScoreFails,
              UpdateBoard, PersistError, Complete, Throw, LoseLock, Release, At
  <2>3. \A v \in Workers : v # w => worker'[v] = worker[v]
    BY <1>0, <1>2 DEF Run, MarkProcessing, Judge, Score, ScoreFails, UpdateBoard, PersistError,
         Complete, Throw, LoseLock, Release, At
  <2> QED BY <1>0, <2>1, <2>2, <2>3 DEF LegacyOK
<1>3. ASSUME NEW w \in Workers, NEW k \in Keys, TakeJob(w, k) PROVE LegacyOK'
  <2>1. k \notin Legacy /\ request' = request BY <1>3 DEF TakeJob, LegacyOK, api
  <2>2. /\ worker'[w].key = k /\ \A v \in Workers : v # w => worker'[v] = worker[v]
        /\ \A o \in Keys : o # k => job'[o] = job[o]
    BY <1>0, <1>3 DEF TakeJob, Idle
  <2> QED BY <1>0, <2>1, <2>2 DEF LegacyOK
<1>4. ASSUME Forget \/ EndContest \/ Clamp \/ UNCHANGED vars PROVE LegacyOK'
  BY <1>4 DEF Forget, EndContest, Clamp, vars, api, judge, LegacyOK
<1> QED BY <1>1, <1>2, <1>3, <1>4 DEF Next

\* A step that changes the total and the sum alike.
LEMMA TotalFollows ==
  ASSUME TypeInv, AwardsInv, LegacyOK', PointsOK', UNCHANGED <<contest, forgiven>>,
         NEW more \in Int, total' = total + more,
         SumOver(Awarded, Keys)' = SumOver(Awarded, Keys) + more
  PROVE  AwardsInv'
<1>1. total \in Int /\ forgiven \in Nat BY TypesAre DEF TypeInv, Typed
<1>2. SumOver(Awarded, Keys) \in Int BY AwardsAre, SumType, ContestAssumption DEF TypeInv
<1>3. total = SumOver(Awarded, Keys) + forgiven BY DEF AwardsInv
<1>4. total' = SumOver(Awarded, Keys)' + forgiven' BY <1>1, <1>2, <1>3
<1> QED BY <1>4 DEF AwardsInv

LEMMA ScoreAwards ==
  ASSUME Inv, TypeInv', LegacyOK', NEW w \in Workers, Score(w)
  PROVE  AwardsInv'
<1> DEFINE k == worker[w].key
           v == worker[w].status
           award == Award(k, v)
<1>1. /\ worker[w].pc = "score" /\ UNCHANGED <<contest, forgiven>>
      /\ k \in Keys \ Legacy /\ row[k].status # "ACCEPTED" /\ v \in Verdicts
      /\ row \in [Keys -> Rows] /\ total \in Int
  BY RunIsUnsettled, TypesAre DEF Score, Inv, TypeInv, Typed, RunsOK, AwardsInv, LegacyOK
<1>2. row[k].points = 0 BY <1>1 DEF Inv, AwardsInv, PointsOK
<1>3. TypeInv /\ AwardsInv /\ IsFiniteSet(Keys) BY ContestAssumption DEF Inv
<1>4. CASE Finalized(k)
  <2>1. row' = row /\ total' = total BY <1>4 DEF Score
  <2>2. PointsOK' BY <1>3, <2>1 DEF AwardsInv, PointsOK
  <2>3. SumOver(Awarded, Keys)' = SumOver(Awarded, Keys) BY <1>3, <2>1, SumStays
  <2>4. SumOver(Awarded, Keys) \in Int BY <1>3, AwardsAre, SumType DEF TypeInv
  <2>5. total' = total + 0 /\ SumOver(Awarded, Keys)' = SumOver(Awarded, Keys) + 0
    BY <1>1, <2>1, <2>3, <2>4
  <2> QED BY <1>1, <1>3, <2>2, <2>5, TotalFollows
<1>5. CASE ~Finalized(k)
  <2>1. /\ total' = total + Refund(k) + award
        /\ row' = [o \in Keys |-> IF o = k THEN [status |-> v, points |-> award]
                                  ELSE IF o \in Refunded(k) THEN [row[o] EXCEPT !.points = 0]
                                  ELSE row[o]]
    BY <1>5 DEF Score
  <2>2. award \in Int /\ (award > 0 => v = "ACCEPTED") BY <1>1, AwardIsEarned
  <2>3. Refunded(k) \in SUBSET Keys /\ k \notin Refunded(k) BY DEF Refunded, Prior
  <2>4. award >= 0
    <3>1. 0 \in Int /\ Points - Penalty(k) \in Int BY <1>1, PenaltyIsInt
    <3>2. Max({0, Points - Penalty(k)}) >= 0 BY <3>1, LargerIsMax
    <3> QED BY <3>2 DEF Award
  <2>5. /\ row'[k].status = v /\ row'[k].points = award
        /\ \A o \in Keys : o # k =>
              /\ row'[o].status = row[o].status
              /\ row'[o].points = IF o \in Refunded(k) THEN 0 ELSE row[o].points
    <3> HIDE DEF award
    <3> QED BY <1>1, <2>1 DEF Rows
  <2> HIDE DEF award
  <2>6. PointsOK' BY <1>1, <1>3, <2>2, <2>4, <2>5 DEF AwardsInv, PointsOK
  <2> DEFINE before == [o \in Keys |-> IF o \in Refunded(k) THEN 0 ELSE Awarded[o]]
  <2>7. /\ Awarded \in [Keys -> Int] /\ Awarded' \in [Keys -> Int]
        /\ before \in [Keys -> Int]
        /\ \A o \in Keys : Awarded[o] = row[o].points /\ Awarded'[o] = row'[o].points
    <3>1. row' \in [Keys -> Rows] BY TypesAre DEF TypeInv, Typed
    <3> QED BY <1>1, <3>1 DEF Awarded, Rows
  <2>8. /\ before[k] = 0 /\ Awarded'[k] = award
        /\ \A o \in Keys : o # k => Awarded'[o] = before[o]
        /\ \A o \in Keys : before[o] = IF o \in Refunded(k) THEN 0 ELSE Awarded[o]
    BY <1>1, <1>2, <2>3, <2>5, <2>7
  <2> HIDE DEF before
  <2>9. SumOver(before, Keys) = SumOver(Awarded, Keys) - SumOver(Awarded, Refunded(k))
    BY <1>3, <2>3, <2>7, <2>8, SumErase
  <2>10. SumOver(Awarded', Keys) = SumOver(before, Keys) - before[k] + Awarded'[k]
    BY <1>1, <1>3, <2>7, <2>8, SumChange
  <2>11. SumOver(Awarded, Keys)' = SumOver(Awarded', Keys) OBVIOUS
  <2>12. /\ SumOver(Awarded, Keys) \in Int /\ SumOver(Awarded, Refunded(k)) \in Int
         /\ SumOver(before, Keys) \in Int
    BY <1>3, <2>3, <2>7, SumType
  <2>13. Refund(k) = -SumOver(Awarded, Refunded(k)) BY <1>3, <2>3, AwardsAre DEF Refund, TypeInv
  <2> DEFINE more == Refund(k) + award
  <2>14. /\ more \in Int /\ total' = total + more
         /\ SumOver(Awarded, Keys)' = SumOver(Awarded, Keys) + more
    BY <1>1, <2>1, <2>2, <2>8, <2>9, <2>10, <2>11, <2>12, <2>13
  <2> HIDE DEF more
  <2> QED BY <1>1, <1>3, <2>6, <2>14, TotalFollows
<1> QED BY <1>4, <1>5

LEMMA AwardsStep ==
  ASSUME Inv, TypeInv', [Next]_vars
  PROVE  AwardsInv'
<1>0. /\ TypeInv /\ ContestInv /\ AwardsInv /\ LegacyOK /\ LegacyOK'
      /\ row \in [Keys -> Rows] /\ total \in Int /\ forgiven \in Nat
      /\ SumOver(Awarded, Keys) \in Int
  <2>1. SumOver(Awarded, Keys) \in Int BY AwardsAre, SumType, ContestAssumption DEF Inv, TypeInv
  <2> QED BY <2>1, TypesAre, LegacyStep DEF Inv, TypeInv, Typed, AwardsInv
<1>a. \A k \in Keys : row[k].points # 0 => row[k].status = "ACCEPTED" \/ k \in Legacy
  BY <1>0 DEF AwardsInv, PointsOK
\* A step that leaves every row its points, and the total.
<1>1. ASSUME UNCHANGED <<contest, forgiven, total>>, PointsOK',
             \A k \in Keys : row'[k].points = row[k].points
      PROVE  AwardsInv'
  <2>1. SumOver(Awarded, Keys)' = SumOver(Awarded, Keys) BY <1>0, <1>1, SumStays
  <2>2. total' = total + 0 /\ SumOver(Awarded, Keys)' = SumOver(Awarded, Keys) + 0
    BY <1>0, <1>1, <2>1
  <2> QED BY <1>0, <1>1, <2>2, TotalFollows
<1>2. ASSUME NEW w \in Workers, Score(w) PROVE AwardsInv' BY <1>0, <1>2, ScoreAwards
<1>3. ASSUME NEW w \in Workers, MarkProcessing(w) PROVE AwardsInv'
  <2>1. /\ worker[w].pc = "start" /\ row' = [row EXCEPT ![worker[w].key].status = "PROCESSING"]
        /\ UNCHANGED <<contest, forgiven, total>>
    BY <1>3 DEF MarkProcessing, At
  <2>2. row[worker[w].key].status # "ACCEPTED" BY <1>0, <2>1, RunIsUnsettled
  <2>3. \A k \in Keys : /\ row'[k].points = row[k].points
                        /\ row'[k].status = row[k].status \/ k = worker[w].key
    BY <1>0, <2>1 DEF Rows
  <2>4. PointsOK'
    <3> SUFFICES ASSUME NEW k \in Keys, row'[k].points # 0
                 PROVE  row'[k].status = "ACCEPTED" \/ k \in Legacy
      BY DEF PointsOK
    <3>1. row[k].status = "ACCEPTED" \/ k \in Legacy BY <1>a, <2>3
    <3> QED BY <2>2, <2>3, <3>1
  <2> QED BY <1>1, <2>1, <2>3, <2>4
<1>4. ASSUME NEW w \in Workers, PersistError(w) PROVE AwardsInv'
  <2> DEFINE new == [status |-> worker[w].status, points |-> 0]
  <2>1. /\ worker[w].pc = "fail" /\ row' = [row EXCEPT ![worker[w].key] = new]
        /\ UNCHANGED <<contest, forgiven, total>>
    BY <1>4 DEF PersistError, At
  <2>2. /\ worker[w].key \in Keys \ Legacy /\ row[worker[w].key].status # "ACCEPTED"
    BY <1>0, <2>1, RunIsUnsettled DEF LegacyOK
  <2>3. row[worker[w].key].points = 0 BY <1>0, <2>2 DEF AwardsInv, PointsOK
  <2>4. \A k \in Keys : /\ row'[k].points = row[k].points
                        /\ row'[k] = row[k] \/ row'[k].points = 0
    BY <1>0, <2>1, <2>3
  <2>5. PointsOK' BY <1>a, <2>4 DEF PointsOK
  <2>6. \A k \in Keys : row'[k].points = row[k].points BY <2>4
  <2> QED BY <1>1, <2>1, <2>5, <2>6
<1>5. ASSUME NEW r \in Requests, Create(r) PROVE AwardsInv'
  <2>1. /\ UNCHANGED <<contest, forgiven, total>>
        /\ \/ row' = row
           \/ /\ ~Exists(request[r].key)
              /\ row' = [row EXCEPT ![request[r].key].status = "QUEUED"]
    BY <1>5 DEF Create
  <2>2. \A k \in Keys : /\ row'[k].points = row[k].points
                        /\ row'[k].status = row[k].status \/ row[k].status = "none"
    BY <1>0, <2>1 DEF Rows, Exists
  <2>3. PointsOK'
    <3> SUFFICES ASSUME NEW k \in Keys, row'[k].points # 0
                 PROVE  row'[k].status = "ACCEPTED" \/ k \in Legacy
      BY DEF PointsOK
    <3>1. row[k].status = "ACCEPTED" \/ k \in Legacy BY <1>a, <2>2
    <3> QED BY <2>2, <3>1
  <2>4. \A k \in Keys : row'[k].points = row[k].points BY <2>2
  <2> QED BY <1>1, <2>1, <2>3, <2>4
<1>6. CASE Clamp
  <2>1. /\ contest = "ENDED" /\ contest' = "CLAMPED" /\ row' = row
        /\ total' = Max({total, 0}) /\ forgiven' = total' - total
    BY <1>6 DEF Clamp
  <2>2. total = SumOver(Awarded, Keys) /\ total' \in Int
    <3>1. forgiven = 0 /\ total = SumOver(Awarded, Keys) + forgiven BY <1>0, <2>1 DEF AwardsInv
    <3>2. total' \in Int
      <4>1. total \in Int BY <1>0
      <4>2. Max({total, 0}) \in Int BY <4>1, LargerIsMax
      <4> QED BY <2>1, <4>2
    <3> QED BY <1>0, <3>1, <3>2
  <2>3. SumOver(Awarded, Keys)' = SumOver(Awarded, Keys) BY <1>0, <2>1, SumStays
  <2>4. total' = SumOver(Awarded, Keys)' + forgiven' BY <1>0, <2>1, <2>2, <2>3
  <2>5. PointsOK' BY <1>0, <2>1 DEF AwardsInv, PointsOK
  <2> QED BY <1>0, <2>1, <2>4, <2>5 DEF AwardsInv
<1>7. CASE EndContest
  <2>1. contest = "ACTIVE" /\ UNCHANGED <<row, total, forgiven>> BY <1>7 DEF EndContest
  <2>2. SumOver(Awarded, Keys)' = SumOver(Awarded, Keys) BY <1>0, <2>1, SumStays
  <2> QED BY <1>0, <2>1, <2>2 DEF AwardsInv, PointsOK
<1>8. ASSUME UNCHANGED <<row, total, forgiven, contest>> PROVE AwardsInv'
  BY <1>0, <1>1, <1>8 DEF AwardsInv, PointsOK
<1>9. ASSUME NEW r \in Requests, Api(r) PROVE AwardsInv'
  <2>1. Create(r) \/ UNCHANGED <<row, total, forgiven, contest>>
    BY <1>9 DEF Api, Submit, DuplicateRead, DuplicateMark, DuplicateUnknown, Busy, Enqueue,
         CutOff, scores
  <2> QED BY <1>5, <1>8, <2>1
<1>10. ASSUME NEW w \in Workers, Run(w) \/ LoseLock(w) \/ \E k \in Keys : TakeJob(w, k)
       PROVE  AwardsInv'
  <2>1. MarkProcessing(w) \/ PersistError(w) \/ Score(w) \/ UNCHANGED <<row, total, forgiven, contest>>
    BY <1>10 DEF Run, Judge, ScoreFails, UpdateBoard, Complete, Throw, Release, LoseLock, TakeJob, scores
  <2> QED BY <1>2, <1>3, <1>4, <1>8, <2>1
<1>11. CASE Forget \/ UNCHANGED vars BY <1>8, <1>11 DEF Forget, vars, scores
<1> QED BY <1>6, <1>7, <1>9, <1>10, <1>11 DEF Next

(* The variables keep their types: the total is a number whatever is       *)
(* scored, refunded or run again, and a job of the queue that is still to  *)
(* run has not used up its attempts (defaultJobOptions in lib/queue.ts).   *)
THEOREM SubmissionTypes == Spec => []TypeOK
<1>1. TypeInv => TypeOK BY DEF TypeInv
<1> QED BY TypeInit, TypeStep, <1>1, PTL DEF Spec

(* finalizeSubmissionScore keeps the total of a participant equal to the   *)
(* sum of the points of the rows of contest_submissions, and to what the   *)
(* end of the contest forgave, through verdicts, refunds, errors, retries  *)
(* and clamping, unless a job is handed out twice.                         *)
THEOREM TotalIsWhatRowsSay == ASSUME NoRedelivery PROVE Spec => []TotalIsTheAwards
<1>1. Init => Inv /\ losses \in Nat BY TypeInit, InitContestInv, AwardsInit DEF Inv
<1>2. Inv /\ losses \in Nat /\ [Next]_vars => (Inv /\ losses \in Nat)'
  <2> SUFFICES ASSUME Inv, losses \in Nat, [Next]_vars PROVE (Inv /\ losses \in Nat)'
    OBVIOUS
  <2>1. TypeInv' BY TypeStep DEF Inv
  <2>2. ContestInv' /\ losses' \in Nat BY NextKeepsInv DEF Inv
  <2>3. AwardsInv' BY <2>1, AwardsStep
  <2> QED BY <2>1, <2>2, <2>3 DEF Inv
<1>3. Inv => TotalIsTheAwards
  <2> SUFFICES ASSUME Inv PROVE TotalIsTheAwards OBVIOUS
  <2>1. Sum(Keys) = SumOver(Awarded, Keys) BY AwardsAre DEF Inv, TypeInv
  <2> QED BY <2>1 DEF Inv, AwardsInv, TotalIsTheAwards
<1> QED BY <1>1, <1>2, <1>3, PTL DEF Spec
================================================================================
