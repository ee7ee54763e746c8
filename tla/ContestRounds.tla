----------------------------- MODULE ContestRounds -----------------------------
(***************************************************************************)
(* One participant of a contest with a round of multiple-choice questions  *)
(* before the coding round: answers and round submission                   *)
(* (apps/contest-service/src/routes/contest-rounds.ts), the submission of  *)
(* the contest (routes/contests.ts) and the scores they write beside the   *)
(* verdicts on coding submissions, which ContestSubmission has in detail.  *)
(*                                                                         *)
(* A call is one request in the contest service.  Statements outside a     *)
(* transaction are steps; the transactions are READ COMMITTED, and their   *)
(* writes appear at the commit, until when they keep others from the rows. *)
(* Every question counts alike.  Reads of the question bank, which is      *)
(* fixed, the current question, warnings and the row of the coding round,  *)
(* which nothing waits for, are left out.                                  *)
(***************************************************************************)
EXTENDS Integers, FiniteSets

CONSTANTS
    Calls, NoCall,
    LastOrder,      \* phase order of the last multiple-choice question
    Points,         \* for a right answer
    Penalty,        \* for a wrong one: the smaller of negative points and cap
    CodePoints,     \* for accepted code
    MaxCalls,       \* bound: calls begun
    MaxPosted,      \* bound: coding submissions
    MaxFaults       \* bound: calls cut off, transactions refused

ASSUME RoundsAssumption ==
    /\ NoCall \notin Calls /\ LastOrder \in Nat
    /\ {Points, Penalty, CodePoints, MaxCalls, MaxPosted, MaxFaults} \subseteq Nat

Questions == 0..LastOrder

\* A row of contest_mcq_answers: its status, and what its option is worth.
\* A blank one was submitted without an option, or without being evaluated.
Drafts == {"rightDraft", "wrongDraft"}
Unsubmitted == {"none"} \cup Drafts
Submitted == {"right", "wrong", "blank"}
Answers == Unsubmitted \cup Submitted

VARIABLES
    sequential,   \* contests.mcq_sequential
    contest,      \* contests.status, and whether its scores were clamped since
    answer,       \* the rows of contest_mcq_answers
    round,        \* contest_round_attempts, round_type mcq: status, score_awarded,
                  \* last_submitted_order
    holder,       \* the call whose transaction has locked that row
    isSubmitted,  \* contest_participants.is_submitted
    total,        \* contest_participants.total_score
    posted,       \* coding submissions made
    pending,      \* and not judged
    coding,       \* the sum of their points_awarded
    call,         \* what each call carries over its awaits
    begun, faults,
    forgiven,     \* history: what clamping has added to the total
    raced         \* history: a write of the total missed another

score == <<isSubmitted, total, forgiven, raced>>
code == <<posted, pending, coding>>
vars == <<sequential, contest, answer, round, holder, call, begun, faults, score, code>>

NoAnswers == [q \in Questions |-> "none"]
Idle == [at |-> "idle", q |-> 0, seen |-> NoAnswers, score |-> 0, other |-> 0]

Init ==
    /\ sequential \in BOOLEAN /\ contest = "ACTIVE"
    /\ answer = NoAnswers
    /\ round = [status |-> "none", score |-> 0, last |-> -1] /\ holder = NoCall
    /\ isSubmitted = FALSE /\ total = 0 /\ posted = 0 /\ pending = 0 /\ coding = 0
    /\ call = [t \in Calls |-> Idle]
    /\ begun = 0 /\ faults = 0 /\ forgiven = 0 /\ raced = FALSE

\* What an evaluation makes of a draft, and what an answer is worth.
Evaluated(a) == IF a = "rightDraft" THEN "right" ELSE "wrong"
Worth(a) == IF a = "right" THEN Points ELSE IF a = "wrong" THEN -Penalty ELSE 0
SumOf(answers) ==
    Points * Cardinality({q \in Questions : answers[q] = "right"})
    - Penalty * Cardinality({q \in Questions : answers[q] = "wrong"})

\* The transaction that submits the contest has filled in what was not
\* submitted when it looked, and keeps other writers from it.
Writable(q) == \A t \in Calls : call[t].at = "finalize" => call[t].seen[q] \in Submitted
RoundFree == holder = NoCall

At(t, from) == call[t].at = from
Begins(t) == At(t, "idle") /\ begun < MaxCalls /\ begun' = begun + 1
Go(t, to) == call' = [call EXCEPT ![t].at = to]
End(t) == call' = [call EXCEPT ![t] = Idle]

----------------------------------------------------------------------------
(* A question: read, saved as a draft, submitted or cleared.               *)

\* requireContestParticipant and the guards before ensureRoundAttempt.
Enter(t) ==
    /\ Begins(t) /\ ~isSubmitted /\ contest = "ACTIVE"
    /\ \E q \in Questions :
         /\ sequential => answer[q] \in Unsubmitted
         /\ call' = [call EXCEPT ![t].at = "entered", ![t].q = q]
    /\ UNCHANGED <<sequential, contest, answer, round, holder, faults, score, code>>

\* ensureRoundAttempt, and the order of a sequential round.
InTurnNotPast(q) == sequential => q > round.last
InTurn(q) == sequential => q = round.last + 1
OpenedAgain(status) == "in_progress"
Opened(status) == IF status = "none" THEN "in_progress" ELSE status
Ensure(t) ==
    /\ At(t, "entered") /\ RoundFree
    /\ round' = [round EXCEPT !.status = Opened(@)]
    /\ IF InTurn(call[t].q) THEN Go(t, "open") ELSE End(t)
    /\ UNCHANGED <<sequential, contest, answer, holder, begun, faults, score, code>>

\* GET, POST /rounds/mcq/start, or an option that does not exist.
Leave(t) ==
    /\ At(t, "open") /\ End(t)
    /\ UNCHANGED <<sequential, contest, answer, round, holder, begun, faults, score, code>>

\* The upsert of evaluateAndStoreMcqAnswer.
StoredAlways(q, a, overwrite) == [answer EXCEPT ![q] = a]
Stored(q, a, overwrite) ==
    IF overwrite \/ answer[q] \in Unsubmitted THEN [answer EXCEPT ![q] = a] ELSE answer

SaveDraft(t) ==
    LET q == call[t].q IN
    /\ At(t, "open") /\ Writable(q) /\ End(t)
    /\ \E a \in Drafts : answer' = Stored(q, a, FALSE)
    /\ UNCHANGED <<sequential, contest, round, holder, begun, faults, score, code>>

SubmitAnswer(t) ==
    LET q == call[t].q IN
    /\ At(t, "open") /\ Writable(q) /\ Go(t, "advance")
    /\ \E a \in {"right", "wrong"} : answer' = Stored(q, a, ~sequential)
    /\ UNCHANGED <<sequential, contest, round, holder, begun, faults, score, code>>

ClearAnswer(t) ==
    LET q == call[t].q IN
    /\ At(t, "open") /\ ~sequential /\ (Writable(q) \/ answer[q] = "none") /\ End(t)
    /\ answer' = [answer EXCEPT ![q] = "none"]
    /\ UNCHANGED <<sequential, contest, round, holder, begun, faults, score, code>>

\* last_submitted_order, a statement of its own after the answer.
Advance(t) ==
    /\ At(t, "advance") /\ RoundFree /\ Go(t, "count")
    /\ round' = [round EXCEPT !.last = IF call[t].q > @ THEN call[t].q ELSE @]
    /\ UNCHANGED <<sequential, contest, answer, holder, begun, faults, score, code>>

\* The last answer of a sequential round submits the round.
AllSubmittedTooMany == Cardinality({q \in Questions : answer[q] \in Submitted}) > LastOrder + 1
AllSubmitted == \A q \in Questions : answer[q] \in Submitted
Count(t) ==
    /\ At(t, "count")
    /\ IF sequential /\ AllSubmitted THEN Go(t, "read") ELSE End(t)
    /\ UNCHANGED <<sequential, contest, answer, round, holder, begun, faults, score, code>>

----------------------------------------------------------------------------
(* submitMcqRound.                                                         *)

\* POST /rounds/mcq/submit; a browser may also call it when time is up.
SubmitRound(t) ==
    /\ Begins(t) /\ ~isSubmitted /\ Go(t, "read")
    /\ UNCHANGED <<sequential, contest, answer, round, holder, faults, score, code>>

ReadAnswers(t) ==
    /\ At(t, "read")
    /\ call' = [call EXCEPT ![t] = [Idle EXCEPT !.at = "settle", !.seen = answer]]
    /\ UNCHANGED <<sequential, contest, answer, round, holder, begun, faults, score, code>>

\* One question: a draft is evaluated, one without an answer gets a blank row.
Settled(a) == IF a \in Drafts THEN Evaluated(a) ELSE IF a = "none" THEN "blank" ELSE a
Settle(t) ==
    LET q == call[t].q
        seen == call[t].seen[q]
    IN
    /\ At(t, "settle")
    /\ seen \in Unsubmitted => Writable(q)
    /\ answer' = IF seen \in Drafts THEN Stored(q, Evaluated(seen), FALSE)
                 ELSE IF seen = "none" /\ answer[q] = "none"
                      THEN [answer EXCEPT ![q] = "blank"]
                      ELSE answer
    /\ call' = [call EXCEPT ![t].score = @ + Worth(Settled(seen)),
                            ![t].q = IF q = LastOrder THEN 0 ELSE q + 1,
                            ![t].at = IF q = LastOrder THEN "lock" ELSE "settle"]
    /\ UNCHANGED <<sequential, contest, round, holder, begun, faults, score, code>>

\* SELECT ... FOR UPDATE: a row that is not there cannot be locked.
LockRound(t) ==
    /\ At(t, "lock") /\ RoundFree
    /\ holder' = IF round.status = "none" THEN NoCall ELSE t
    /\ call' = [call EXCEPT ![t].at = "close", ![t].other = round.score,
                            ![t].seen = NoAnswers]
    /\ UNCHANGED <<sequential, contest, answer, round, begun, faults, score, code>>

\* The rest of the transaction; the total moves by what the round changes by.
DeltaWhole(t) == call[t].score
Delta(t) == call[t].score - call[t].other
CloseRound(t) ==
    /\ At(t, "close") /\ holder \in {t, NoCall} /\ End(t)
    /\ round' = [status |-> "submitted", score |-> call[t].score, last |-> LastOrder]
    /\ total' = total + Delta(t)
    /\ raced' = (raced \/ (holder = NoCall /\ call[t].other # round.score))
    /\ holder' = NoCall
    /\ UNCHANGED <<sequential, contest, answer, isSubmitted, forgiven, begun, faults, code>>

----------------------------------------------------------------------------
(* POST /contests/:id/submit.                                              *)

Claim(t) ==
    /\ Begins(t) /\ ~isSubmitted /\ Go(t, "claimed")
    /\ isSubmitted' = TRUE
    /\ UNCHANGED <<sequential, contest, answer, round, holder, total, forgiven, raced, faults, code>>

\* finalizeParticipantCurrentContestScore fills in the answers (drafts get no
\* points) and reads both sums.
FinalizeRead(t) ==
    /\ At(t, "claimed")
    /\ call' = [call EXCEPT ![t] = [at |-> "finalize", q |-> 0, seen |-> answer,
                                    score |-> SumOf(answer), other |-> coding]]
    /\ UNCHANGED <<sequential, contest, answer, round, holder, begun, faults, score, code>>

\* It writes the round and sets the total.
Finalize(t) ==
    /\ At(t, "finalize") /\ RoundFree /\ Go(t, "clamp")
    /\ answer' = [q \in Questions |->
                    IF call[t].seen[q] \in Unsubmitted THEN "blank" ELSE answer[q]]
    /\ round' = [status |-> "submitted", score |-> call[t].score, last |-> LastOrder]
    /\ total' = call[t].score + call[t].other
    /\ forgiven' = 0 /\ raced' = (call[t].other # coding)
    /\ UNCHANGED <<sequential, contest, holder, isSubmitted, begun, faults, code>>

\* The transaction fails, and the claim is given back for another try.
FinalizeFails(t) ==
    /\ faults < MaxFaults /\ faults' = faults + 1
    /\ call[t].at \in {"claimed", "finalize"}
    /\ call' = [call EXCEPT ![t] = [Idle EXCEPT !.at = "unclaim"]]
    /\ UNCHANGED <<sequential, contest, answer, round, holder, begun, score, code>>

Unclaim(t) ==
    /\ At(t, "unclaim") /\ End(t) /\ isSubmitted' = FALSE
    /\ UNCHANGED <<sequential, contest, answer, round, holder, total, forgiven, raced, begun, faults, code>>

NotBelowZeroAlways == total' = 0 /\ forgiven' = forgiven - total
NotBelowZero ==
    /\ total' = IF total < 0 THEN 0 ELSE total
    /\ forgiven' = forgiven + total' - total

\* clampParticipantFinalScore, after the transaction and at each look at the score.
Clamp(t) ==
    /\ At(t, "clamp") /\ End(t) /\ NotBelowZero
    /\ UNCHANGED <<sequential, contest, answer, round, holder, isSubmitted, raced, begun, faults, code>>

ShowScore ==
    /\ isSubmitted /\ total < 0 /\ NotBelowZero
    /\ UNCHANGED <<sequential, contest, answer, round, holder, isSubmitted, raced, call, begun, faults, code>>

----------------------------------------------------------------------------
(* The coding round, the end of the contest, and failures.                 *)

\* POST /execute/submit: validateDsaRoundUnlockedForSubmission.
Unlocked == round.status = "submitted"
PostCode ==
    /\ posted < MaxPosted /\ contest = "ACTIVE" /\ Unlocked
    /\ posted' = posted + 1 /\ pending' = pending + 1
    /\ UNCHANGED <<sequential, contest, answer, round, holder, call, begun, faults, score, coding>>

\* finalizeSubmissionScore: one transaction for the row and the total.
Verdict ==
    /\ pending > 0 /\ pending' = pending - 1
    /\ \E p \in {0, CodePoints} : coding' = coding + p /\ total' = total + p
    /\ UNCHANGED <<sequential, contest, answer, round, holder, call, begun, faults, isSubmitted, forgiven,
                   raced, posted>>

\* An integrity event of a participant who has not begun.
Warn ==
    /\ round.status = "none" /\ round' = [round EXCEPT !.status = "in_progress"]
    /\ UNCHANGED <<sequential, contest, answer, holder, call, begun, faults, score, code>>

EndContest ==
    /\ contest = "ACTIVE" /\ contest' = "ENDED"
    /\ UNCHANGED <<sequential, answer, round, holder, call, begun, faults, score, code>>

ClampContest ==
    /\ contest = "ENDED" /\ contest' = "clamped" /\ NotBelowZero
    /\ UNCHANGED <<sequential, answer, round, holder, call, begun, faults, isSubmitted, raced, code>>

\* The instance stops, or the database refuses a statement.
Abort(t) ==
    /\ ~At(t, "idle") /\ faults < MaxFaults /\ faults' = faults + 1 /\ End(t)
    /\ holder' = IF holder = t THEN NoCall ELSE holder
    /\ UNCHANGED <<sequential, contest, answer, round, begun, score, code>>

----------------------------------------------------------------------------
Question(t) ==
    Ensure(t) \/ Leave(t) \/ SaveDraft(t) \/ SubmitAnswer(t) \/ ClearAnswer(t)
    \/ Advance(t) \/ Count(t)
Round(t) == ReadAnswers(t) \/ Settle(t) \/ LockRound(t) \/ CloseRound(t)
Contest(t) == FinalizeRead(t) \/ Finalize(t) \/ Unclaim(t) \/ Clamp(t)
Step(t) == Question(t) \/ Round(t) \/ Contest(t)
Begin(t) == Enter(t) \/ SubmitRound(t) \/ Claim(t)
Fail(t) == FinalizeFails(t) \/ Abort(t)

Next ==
    \/ \E t \in Calls : Begin(t) \/ Step(t) \/ Fail(t)
    \/ ShowScore \/ PostCode \/ Verdict \/ Warn \/ EndContest \/ ClampContest

Spec == Init /\ [][Next]_vars

\* A call that is under way goes on.
FairSpec == Spec /\ \A t \in Calls : WF_vars(Step(t))

----------------------------------------------------------------------------
(* Properties.                                                             *)

Places == {"idle", "entered", "open", "advance", "count", "read", "settle", "lock", "close",
           "claimed", "finalize", "unclaim", "clamp"}
CallType == [at : Places, q : Questions, seen : [Questions -> Answers], score : Int, other : Int]

(* Counts and orders stay in range, and a lock has a call that holds it.   *)
TypeOK ==
    /\ sequential \in BOOLEAN /\ contest \in {"ACTIVE", "ENDED", "clamped"}
    /\ answer \in [Questions -> Answers]
    /\ round \in [status : {"none", "in_progress", "submitted"}, score : Int,
                  last : -1..LastOrder]
    /\ holder \in Calls \cup {NoCall}
    /\ isSubmitted \in BOOLEAN /\ total \in Int /\ forgiven \in Nat /\ raced \in BOOLEAN
    /\ posted \in 0..MaxPosted /\ pending \in 0..posted /\ coding \in Int
    /\ call \in [Calls -> CallType]
    /\ begun \in 0..MaxCalls /\ faults \in 0..MaxFaults

(* In a sequential round an answer that was submitted is final: neither a  *)
(* draft or submission that was already under way, nor the submission of   *)
(* the round or the contest changes it ("Sequential answers are final once *)
(* submitted").                                                            *)
AnswerIsFinal ==
    [][\A q \in Questions :
         sequential /\ answer[q] \in Submitted => answer'[q] = answer[q]]_vars

(* And it is answered in order: a question has an option only when those   *)
(* before it were submitted, whatever calls overlap or are cut off.        *)
AnsweredInOrder ==
    sequential => \A q \in Questions : answer[q] \in Drafts \cup {"right", "wrong"}
                     => \A p \in 0..(q - 1) : answer[p] \in Submitted

(* Code is judged only once the round of questions was submitted, and the  *)
(* round stays so: no call that was under way opens it again.              *)
CodingAfterQuestions == posted > 0 => round.status = "submitted"

(* The total is what the two rounds were given, whichever of the calls     *)
(* that submit the round, the contest or a verdict comes first, except for *)
(* what clamping forgave, and unless a verdict came between the reads and  *)
(* the writes of the contest's submission, or two calls submitted a round  *)
(* whose row the first of them did not find.                               *)
TotalIsTheRounds == raced \/ total = round.score + coding + forgiven

(* A candidate of a sequential round is never stuck: after a question is   *)
(* submitted the next one opens, after the last the round is submitted,    *)
(* unless a call is cut off.                                               *)
CandidateGoesOn ==
    \A q \in Questions :
        sequential /\ answer[q] \in Submitted ~>
            \/ faults > 0
            \/ q < LastOrder /\ round.last >= q
            \/ round.status = "submitted"
=============================================================================
