-------------------------- MODULE ContestRoundsProofs --------------------------
(***************************************************************************)
(* Proofs about ContestRounds: the answers of a sequential round are final *)
(* and in order, and the total is what the rounds were given, for any      *)
(* number of questions, calls, points and failures.                        *)
(***************************************************************************)
EXTENDS ContestRounds, FiniteSetTheorems, TLAPS

\* Where a call has the claim of the contest's submission.
Claimers == {"claimed", "finalize", "unclaim"}

(* One call at a time has it; a lock is held over the score that was read. *)
Alone ==
    \A t \in Calls : call[t].at \in Claimers =>
        isSubmitted /\ \A u \in Calls : call[u].at \in Claimers => u = t

Locked ==
    holder # NoCall =>
        holder \in Calls /\ call[holder].at = "close" /\ call[holder].other = round.score

\* What a transaction fills in is not submitted behind its back.
Kept(t) ==
    call[t].at = "finalize" => \A q \in Questions :
        call[t].seen[q] \in Unsubmitted => answer[q] \in Unsubmitted

\* The questions before q, of a sequential round.
Before(q) == \A p \in Questions : p < q => answer[p] \in Submitted

Passed == sequential => round.last = LastOrder \/ Before(round.last + 1)

InOrder(t) ==
    sequential =>
        /\ call[t].at = "open" => Before(call[t].q)
        /\ call[t].at = "advance" => Before(call[t].q + 1)
        /\ call[t].at = "settle" =>
             \A q \in Questions : call[t].seen[q] \in Drafts => Before(q)

CallsOK == \A t \in Calls : Kept(t) /\ InOrder(t)

RoundsInv ==
    /\ TypeOK /\ Alone /\ Locked /\ CallsOK /\ Passed
    /\ AnsweredInOrder /\ CodingAfterQuestions /\ TotalIsTheRounds

-----------------------------------------------------------------------------
LEMMA SumIsInt == \A answers \in [Questions -> Answers] : SumOf(answers) \in Int
<1> TAKE answers \in [Questions -> Answers]
<1>1. IsFiniteSet(Questions) BY RoundsAssumption, FS_Interval DEF Questions
<1>2. /\ Cardinality({q \in Questions : answers[q] = "right"}) \in Nat
      /\ Cardinality({q \in Questions : answers[q] = "wrong"}) \in Nat
  BY <1>1, FS_Subset, FS_CardinalityType
<1> QED BY <1>2, RoundsAssumption DEF SumOf

(* What a call that goes on, or ends, leaves of the calls.                 *)
LEMMA GoOK ==
    ASSUME TypeOK, NEW t \in Calls, NEW to \in Places, Go(t, to)
    PROVE  /\ call' \in [Calls -> CallType]
           /\ call'[t].at = to /\ call'[t].q = call[t].q
           /\ call'[t].other = call[t].other /\ call'[t].seen = call[t].seen
           /\ \A u \in Calls : u # t => call'[u] = call[u]
  BY DEF TypeOK, CallType, Go

LEMMA IdleOK == Idle \in CallType /\ Idle.at = "idle"
  BY RoundsAssumption
  DEF Idle, CallType, Places, NoAnswers, Questions, Answers, Unsubmitted

LEMMA PutOK ==
    ASSUME TypeOK, NEW t \in Calls, NEW c \in CallType, call' = [call EXCEPT ![t] = c]
    PROVE  /\ call' \in [Calls -> CallType] /\ call'[t] = c
           /\ \A u \in Calls : u # t => call'[u] = call[u]
  BY DEF TypeOK

LEMMA EndOK ==
    ASSUME TypeOK, NEW t \in Calls, End(t)
    PROVE  /\ call' \in [Calls -> CallType]
           /\ call'[t].at = "idle"
           /\ \A u \in Calls : u # t => call'[u] = call[u]
  BY IdleOK DEF TypeOK, End

-----------------------------------------------------------------------------
(* In a sequential round what was submitted stays.                         *)
LEMMA FinalOK ==
    ASSUME TypeOK, CallsOK, [Next]_vars, sequential, NEW q \in Questions, answer[q] \in Submitted
    PROVE  answer'[q] = answer[q]
<1>1. ASSUME NEW t \in Calls, SaveDraft(t) PROVE answer'[q] = answer[q]
  BY <1>1 DEF SaveDraft, Stored, Submitted, Unsubmitted, Drafts, TypeOK
<1>2. ASSUME NEW t \in Calls, SubmitAnswer(t) PROVE answer'[q] = answer[q]
  BY <1>2 DEF SubmitAnswer, Stored, Submitted, Unsubmitted, Drafts, TypeOK
<1>3. ASSUME NEW t \in Calls, ClearAnswer(t) PROVE answer'[q] = answer[q]
  BY <1>3 DEF ClearAnswer, TypeOK
<1>4. ASSUME NEW t \in Calls, Settle(t) PROVE answer'[q] = answer[q]
  BY <1>4 DEF Settle, Stored, Submitted, Unsubmitted, Drafts, TypeOK
<1>5. ASSUME NEW t \in Calls, Finalize(t) PROVE answer'[q] = answer[q]
  BY <1>5 DEF Finalize, CallsOK, Kept, At, Submitted, Unsubmitted, Drafts, TypeOK
<1> QED
  BY <1>1, <1>2, <1>3, <1>4, <1>5
  DEF Next, Begin, Step, Fail, Question, Round, Contest, vars, Enter, Ensure, Leave, Advance, Count,
     SubmitRound, ReadAnswers, LockRound, CloseRound, Claim, FinalizeRead, FinalizeFails, Unclaim,
     Clamp, Abort, ShowScore, PostCode, Verdict, Warn, EndContest, ClampContest

(* What holds of a call that does not move goes on holding.                *)
LEMMA InOrderOK ==
    ASSUME CallsOK, sequential' = sequential,
           sequential => \A q \in Questions : answer[q] \in Submitted => answer'[q] \in Submitted,
           NEW t \in Calls, call'[t] = call[t]
    PROVE  InOrder(t)'
  BY DEF CallsOK, InOrder, Before

LEMMA KeptOK ==
    ASSUME CallsOK, answer' = answer, NEW t \in Calls,
           call'[t].at # "finalize" \/ call'[t] = call[t]
    PROVE  Kept(t)'
  BY DEF CallsOK, Kept

LEMMA OrderOK ==
    ASSUME AnsweredInOrder, sequential' = sequential,
           sequential => \A q \in Questions : answer[q] \in Submitted => answer'[q] \in Submitted,
           sequential => \A q \in Questions :
               answer'[q] = answer[q] \/ answer'[q] \in {"none", "blank"} \/ Before(q)
    PROVE  AnsweredInOrder'
<1> SUFFICES ASSUME sequential, NEW q \in Questions, answer'[q] \in Drafts \cup {"right", "wrong"},
                    NEW p \in 0..(q - 1)
             PROVE  answer'[p] \in Submitted
  BY DEF AnsweredInOrder, Questions
<1>1. p \in Questions /\ p < q BY RoundsAssumption DEF Questions
<1>2. answer'[q] \notin {"none", "blank"} BY DEF Drafts
<1>3. answer[p] \in Submitted
  <2>1. CASE answer'[q] = answer[q] BY <2>1 DEF AnsweredInOrder
  <2>2. CASE Before(q) BY <2>2, <1>1 DEF Before
  <2> QED BY <2>1, <2>2, <1>2
<1> QED BY <1>1, <1>3

LEMMA InitOK == Init => RoundsInv
<1> SUFFICES ASSUME Init PROVE RoundsInv OBVIOUS
<1>1. TypeOK
  <2>1. call \in [Calls -> CallType] BY IdleOK DEF Init
  <2>2. answer \in [Questions -> Answers] BY DEF Init, NoAnswers, Answers, Unsubmitted
  <2>3. /\ round \in [status : {"none", "in_progress", "submitted"}, score : Int,
                      last : -1..LastOrder]
        /\ begun \in 0..MaxCalls /\ faults \in 0..MaxFaults /\ posted \in 0..MaxPosted
        /\ pending \in 0..posted
    BY RoundsAssumption DEF Init
  <2> QED BY <2>1, <2>2, <2>3 DEF Init, TypeOK
<1>2. \A t \in Calls : call[t].at = "idle" BY IdleOK DEF Init
<1>3. Alone /\ Locked /\ CallsOK BY <1>2 DEF Init, Alone, Locked, CallsOK, Kept, InOrder, Claimers
<1>4. Passed BY RoundsAssumption DEF Init, Passed, Before, Questions
<1>5. AnsweredInOrder BY DEF Init, AnsweredInOrder, NoAnswers, Drafts
<1>6. CodingAfterQuestions /\ TotalIsTheRounds BY DEF Init, CodingAfterQuestions, TotalIsTheRounds
<1> QED BY <1>1, <1>3, <1>4, <1>5, <1>6 DEF RoundsInv

LEMMA StepOK == RoundsInv /\ [Next]_vars => RoundsInv'
<1> SUFFICES ASSUME RoundsInv, [Next]_vars PROVE RoundsInv' OBVIOUS
<1> USE RoundsAssumption DEF RoundsInv, At, Begins, score, code
<1>0. sequential => \A q \in Questions : answer[q] \in Submitted => answer'[q] \in Submitted
  BY FinalOK
<1>1. ASSUME NEW t \in Calls, Enter(t) PROVE RoundsInv'
  <2>1. /\ call' \in [Calls -> CallType] /\ \A u \in Calls : u # t => call'[u] = call[u]
        /\ call'[t].at = "entered"
    <3>1. PICK q \in Questions : call' = [call EXCEPT ![t].at = "entered", ![t].q = q]
      BY <1>1 DEF Enter
    <3>2. [call[t] EXCEPT !.at = "entered", !.q = q] \in CallType
      BY DEF TypeOK, CallType, Places
    <3>3. call' = [call EXCEPT ![t] = [call[t] EXCEPT !.at = "entered", !.q = q]]
      BY <3>1 DEF TypeOK
    <3> QED BY <3>2, <3>3, PutOK DEF TypeOK, CallType
  <2>2. answer' = answer BY <1>1 DEF Enter
  <2>3. TypeOK' BY <1>1, <2>1, <2>2 DEF Enter, TypeOK
  <2>4. Alone' BY <1>1, <2>1 DEF Enter, Alone, Claimers
  <2>5. Locked' BY <1>1, <2>1 DEF Enter, TypeOK, Locked, RoundFree
  <2>6. CallsOK'
    <3>1. sequential' = sequential BY <1>1 DEF Enter
    <3>2. \A u \in Calls : u # t => InOrder(u)' BY <1>0, <2>1, <3>1, InOrderOK
    <3>3. InOrder(t)' BY <2>1 DEF InOrder
    <3>4. \A u \in Calls : Kept(u)' BY <2>1, <2>2, KeptOK
    <3> QED BY <3>2, <3>3, <3>4 DEF CallsOK
  <2>7. Passed' BY <1>1, <1>0, <2>2 DEF Enter, Passed, Before
  <2>8. AnsweredInOrder' BY <1>1, <1>0, <2>2 DEF Enter, AnsweredInOrder
  <2>9. CodingAfterQuestions' /\ TotalIsTheRounds'
    BY <1>1 DEF Enter, CodingAfterQuestions, TotalIsTheRounds
  <2> QED BY <2>3, <2>4, <2>5, <2>6, <2>7, <2>8, <2>9
<1>2. ASSUME NEW t \in Calls, Ensure(t) PROVE RoundsInv'
  <2>1. /\ call' \in [Calls -> CallType] /\ \A u \in Calls : u # t => call'[u] = call[u]
        /\ (call'[t].at = "open" \/ call'[t].at = "idle")
        /\ (call'[t].at = "open" => call'[t].q = call[t].q /\ InTurn(call[t].q))
    <3>1. CASE InTurn(call[t].q) BY <1>2, <3>1, GoOK DEF Ensure, Places
    <3>2. CASE ~InTurn(call[t].q) BY <1>2, <3>2, EndOK DEF Ensure
    <3> QED BY <3>1, <3>2
  <2>2. answer' = answer BY <1>2 DEF Ensure
  <2>3. TypeOK' BY <1>2, <2>1, <2>2 DEF Ensure, TypeOK, Opened
  <2>4. Alone' BY <1>2, <2>1 DEF Ensure, Alone, Claimers
  <2>5. Locked' BY <1>2, <2>1 DEF Ensure, TypeOK, Locked, RoundFree
  <2>6. CallsOK'
    <3>1. sequential' = sequential BY <1>2 DEF Ensure
    <3>2. \A u \in Calls : u # t => InOrder(u)' BY <1>0, <2>1, <3>1, InOrderOK
    <3>3. ASSUME sequential, InTurn(call[t].q) PROVE Before(call[t].q)
      BY <3>3 DEF InTurn, Passed, TypeOK, CallType, Questions
    <3>4. InOrder(t)' BY <2>1, <2>2, <3>1, <3>3 DEF InOrder, Before
    <3>5. \A u \in Calls : Kept(u)' BY <2>1, <2>2, KeptOK
    <3> QED BY <3>2, <3>4, <3>5 DEF CallsOK
  <2>7. Passed' BY <1>2, <1>0, <2>2 DEF Ensure, Passed, Before
  <2>8. AnsweredInOrder' BY <1>2, <1>0, <2>2 DEF Ensure, AnsweredInOrder
  <2>9. CodingAfterQuestions' /\ TotalIsTheRounds'
    BY <1>2 DEF Ensure, CodingAfterQuestions, TotalIsTheRounds, TypeOK, Opened
  <2> QED BY <2>3, <2>4, <2>5, <2>6, <2>7, <2>8, <2>9
<1>3. ASSUME NEW t \in Calls, Leave(t) PROVE RoundsInv'
  <2>1. /\ call' \in [Calls -> CallType] /\ \A u \in Calls : u # t => call'[u] = call[u]
        /\ call'[t].at = "idle"
    BY <1>3, EndOK DEF Leave
  <2>2. answer' = answer BY <1>3 DEF Leave
  <2>3. TypeOK' BY <1>3, <2>1, <2>2 DEF Leave, TypeOK
  <2>4. Alone' BY <1>3, <2>1 DEF Leave, Alone, Claimers
  <2>5. Locked' BY <1>3, <2>1 DEF Leave, TypeOK, Locked, RoundFree
  <2>6. CallsOK'
    <3>1. sequential' = sequential BY <1>3 DEF Leave
    <3>2. \A u \in Calls : u # t => InOrder(u)' BY <1>0, <2>1, <3>1, InOrderOK
    <3>3. InOrder(t)' BY <2>1 DEF InOrder
    <3>4. \A u \in Calls : Kept(u)' BY <2>1, <2>2, KeptOK
    <3> QED BY <3>2, <3>3, <3>4 DEF CallsOK
  <2>7. Passed' BY <1>3, <1>0, <2>2 DEF Leave, Passed, Before
  <2>8. AnsweredInOrder' BY <1>3, <1>0, <2>2 DEF Leave, AnsweredInOrder
  <2>9. CodingAfterQuestions' /\ TotalIsTheRounds'
    BY <1>3 DEF Leave, CodingAfterQuestions, TotalIsTheRounds
  <2> QED BY <2>3, <2>4, <2>5, <2>6, <2>7, <2>8, <2>9
<1>4. ASSUME NEW t \in Calls, SaveDraft(t) PROVE RoundsInv'
  <2>1. /\ call' \in [Calls -> CallType] /\ \A u \in Calls : u # t => call'[u] = call[u]
        /\ call'[t].at = "idle"
    BY <1>4, EndOK DEF SaveDraft
  <2>2. answer' \in [Questions -> Answers]
    BY <1>4 DEF SaveDraft, TypeOK, CallType, Stored, Answers, Unsubmitted, Drafts, Submitted
  <2>3. TypeOK' BY <1>4, <2>1, <2>2 DEF SaveDraft, TypeOK
  <2>4. Alone' BY <1>4, <2>1 DEF SaveDraft, Alone, Claimers
  <2>5. Locked' BY <1>4, <2>1 DEF SaveDraft, TypeOK, Locked, RoundFree
  <2>6. CallsOK'
    <3>1. sequential' = sequential BY <1>4 DEF SaveDraft
    <3>2. \A u \in Calls : u # t => InOrder(u)' BY <1>0, <2>1, <3>1, InOrderOK
    <3>3. InOrder(t)' BY <2>1 DEF InOrder
    <3>4. \A u \in Calls : Kept(u)'
      BY <1>4, <2>1 DEF SaveDraft, Writable, CallsOK, Kept, TypeOK, CallType, Stored, Answers,
         Unsubmitted, Drafts, Submitted
    <3> QED BY <3>2, <3>3, <3>4 DEF CallsOK
  <2>7. Passed' BY <1>4, <1>0, <2>2 DEF SaveDraft, Passed, Before
  <2>8. AnsweredInOrder'
    <3>1. sequential => \A q \in Questions :
              answer'[q] = answer[q] \/ answer'[q] \in {"none", "blank"} \/ Before(q)
      BY <1>4 DEF SaveDraft, CallsOK, InOrder, TypeOK, CallType, Stored
    <3> QED BY <1>0, <1>4, <3>1, OrderOK DEF SaveDraft
  <2>9. CodingAfterQuestions' /\ TotalIsTheRounds'
    BY <1>4 DEF SaveDraft, CodingAfterQuestions, TotalIsTheRounds
  <2> QED BY <2>3, <2>4, <2>5, <2>6, <2>7, <2>8, <2>9
<1>5. ASSUME NEW t \in Calls, SubmitAnswer(t) PROVE RoundsInv'
  <2>1. /\ call' \in [Calls -> CallType] /\ \A u \in Calls : u # t => call'[u] = call[u]
        /\ call'[t].at = "advance"
        /\ call'[t].q = call[t].q
    BY <1>5, GoOK DEF SubmitAnswer, Places
  <2>2. answer' \in [Questions -> Answers]
    BY <1>5 DEF SubmitAnswer, TypeOK, CallType, Stored, Answers, Unsubmitted, Drafts, Submitted
  <2>3. TypeOK' BY <1>5, <2>1, <2>2 DEF SubmitAnswer, TypeOK
  <2>4. Alone' BY <1>5, <2>1 DEF SubmitAnswer, Alone, Claimers
  <2>5. Locked' BY <1>5, <2>1 DEF SubmitAnswer, TypeOK, Locked, RoundFree
  <2>6. CallsOK'
    <3>1. sequential' = sequential BY <1>5 DEF SubmitAnswer
    <3>2. \A u \in Calls : u # t => InOrder(u)' BY <1>0, <2>1, <3>1, InOrderOK
    <3>3. InOrder(t)'
      BY <1>5, <2>1, <1>0, <3>1 DEF SubmitAnswer, CallsOK, InOrder, Before, Stored, TypeOK,
         CallType, Answers, Unsubmitted, Drafts, Submitted, Questions
    <3>4. \A u \in Calls : Kept(u)'
      BY <1>5, <2>1 DEF SubmitAnswer, Writable, CallsOK, Kept, TypeOK, CallType, Stored, Answers,
         Unsubmitted, Drafts, Submitted
    <3> QED BY <3>2, <3>3, <3>4 DEF CallsOK
  <2>7. Passed' BY <1>5, <1>0, <2>2 DEF SubmitAnswer, Passed, Before
  <2>8. AnsweredInOrder'
    <3>1. sequential => \A q \in Questions :
              answer'[q] = answer[q] \/ answer'[q] \in {"none", "blank"} \/ Before(q)
      BY <1>5 DEF SubmitAnswer, CallsOK, InOrder, TypeOK, CallType, Stored
    <3> QED BY <1>0, <1>5, <3>1, OrderOK DEF SubmitAnswer
  <2>9. CodingAfterQuestions' /\ TotalIsTheRounds'
    BY <1>5 DEF SubmitAnswer, CodingAfterQuestions, TotalIsTheRounds
  <2> QED BY <2>3, <2>4, <2>5, <2>6, <2>7, <2>8, <2>9
<1>6. ASSUME NEW t \in Calls, ClearAnswer(t) PROVE RoundsInv'
  <2>1. /\ call' \in [Calls -> CallType] /\ \A u \in Calls : u # t => call'[u] = call[u]
        /\ call'[t].at = "idle"
    BY <1>6, EndOK DEF ClearAnswer
  <2>2. answer' \in [Questions -> Answers]
    BY <1>6 DEF ClearAnswer, TypeOK, CallType, Stored, Answers, Unsubmitted, Drafts, Submitted
  <2>3. TypeOK' BY <1>6, <2>1, <2>2 DEF ClearAnswer, TypeOK
  <2>4. Alone' BY <1>6, <2>1 DEF ClearAnswer, Alone, Claimers
  <2>5. Locked' BY <1>6, <2>1 DEF ClearAnswer, TypeOK, Locked, RoundFree
  <2>6. CallsOK'
    <3>1. sequential' = sequential BY <1>6 DEF ClearAnswer
    <3>2. \A u \in Calls : u # t => InOrder(u)' BY <1>0, <2>1, <3>1, InOrderOK
    <3>3. InOrder(t)' BY <2>1 DEF InOrder
    <3>4. \A u \in Calls : Kept(u)'
      BY <1>6, <2>1 DEF ClearAnswer, Writable, CallsOK, Kept, TypeOK, CallType, Stored, Answers,
         Unsubmitted, Drafts, Submitted
    <3> QED BY <3>2, <3>3, <3>4 DEF CallsOK
  <2>7. Passed' BY <1>6, <1>0, <2>2 DEF ClearAnswer, Passed, Before
  <2>8. AnsweredInOrder' BY <1>6, <1>0, <2>2 DEF ClearAnswer, AnsweredInOrder
  <2>9. CodingAfterQuestions' /\ TotalIsTheRounds'
    BY <1>6 DEF ClearAnswer, CodingAfterQuestions, TotalIsTheRounds
  <2> QED BY <2>3, <2>4, <2>5, <2>6, <2>7, <2>8, <2>9
<1>7. ASSUME NEW t \in Calls, Advance(t) PROVE RoundsInv'
  <2>1. /\ call' \in [Calls -> CallType] /\ \A u \in Calls : u # t => call'[u] = call[u]
        /\ call'[t].at = "count"
    BY <1>7, GoOK DEF Advance, Places
  <2>2. answer' = answer BY <1>7 DEF Advance
  <2>3. TypeOK'
    <3>1. call[t].q \in Questions BY DEF TypeOK, CallType
    <3>2. round' \in [status : {"none", "in_progress", "submitted"}, score : Int,
                      last : -1..LastOrder]
      <4>1. (IF call[t].q > round.last THEN call[t].q ELSE round.last) \in -1..LastOrder
        BY <3>1 DEF TypeOK, Questions
      <4>2. round' = [round EXCEPT !.last = IF call[t].q > @ THEN call[t].q ELSE @]
        BY <1>7 DEF Advance
      <4> QED BY <4>1, <4>2 DEF TypeOK
    <3> QED BY <1>7, <2>1, <2>2, <3>2 DEF Advance, TypeOK
  <2>4. Alone' BY <1>7, <2>1 DEF Advance, Alone, Claimers
  <2>5. Locked' BY <1>7, <2>1 DEF Advance, TypeOK, Locked, RoundFree
  <2>6. CallsOK'
    <3>1. sequential' = sequential BY <1>7 DEF Advance
    <3>2. \A u \in Calls : u # t => InOrder(u)' BY <1>0, <2>1, <3>1, InOrderOK
    <3>3. InOrder(t)' BY <2>1 DEF InOrder
    <3>4. \A u \in Calls : Kept(u)' BY <2>1, <2>2, KeptOK
    <3> QED BY <3>2, <3>3, <3>4 DEF CallsOK
  <2>7. Passed'
    BY <1>7, <1>0, <2>2 DEF Advance, CallsOK, InOrder, Passed, Before, TypeOK, CallType, Questions
  <2>8. AnsweredInOrder' BY <1>7, <1>0, <2>2 DEF Advance, AnsweredInOrder
  <2>9. CodingAfterQuestions' /\ TotalIsTheRounds'
    BY <1>7 DEF Advance, CodingAfterQuestions, TotalIsTheRounds, TypeOK
  <2> QED BY <2>3, <2>4, <2>5, <2>6, <2>7, <2>8, <2>9
<1>8. ASSUME NEW t \in Calls, Count(t) PROVE RoundsInv'
  <2>1. /\ call' \in [Calls -> CallType] /\ \A u \in Calls : u # t => call'[u] = call[u]
        /\ (call'[t].at = "read" \/ call'[t].at = "idle")
    <3>1. CASE sequential /\ AllSubmitted BY <1>8, <3>1, GoOK DEF Count, Places
    <3>2. CASE ~(sequential /\ AllSubmitted) BY <1>8, <3>2, EndOK DEF Count
    <3> QED BY <3>1, <3>2
  <2>2. answer' = answer BY <1>8 DEF Count
  <2>3. TypeOK' BY <1>8, <2>1, <2>2 DEF Count, TypeOK
  <2>4. Alone' BY <1>8, <2>1 DEF Count, Alone, Claimers
  <2>5. Locked' BY <1>8, <2>1 DEF Count, TypeOK, Locked, RoundFree
  <2>6. CallsOK'
    <3>1. sequential' = sequential BY <1>8 DEF Count
    <3>2. \A u \in Calls : u # t => InOrder(u)' BY <1>0, <2>1, <3>1, InOrderOK
    <3>3. InOrder(t)' BY <2>1 DEF InOrder
    <3>4. \A u \in Calls : Kept(u)' BY <2>1, <2>2, KeptOK
    <3> QED BY <3>2, <3>3, <3>4 DEF CallsOK
  <2>7. Passed' BY <1>8, <1>0, <2>2 DEF Count, Passed, Before
  <2>8. AnsweredInOrder' BY <1>8, <1>0, <2>2 DEF Count, AnsweredInOrder
  <2>9. CodingAfterQuestions' /\ TotalIsTheRounds'
    BY <1>8 DEF Count, CodingAfterQuestions, TotalIsTheRounds
  <2> QED BY <2>3, <2>4, <2>5, <2>6, <2>7, <2>8, <2>9
<1>9. ASSUME NEW t \in Calls, SubmitRound(t) PROVE RoundsInv'
  <2>1. /\ call' \in [Calls -> CallType] /\ \A u \in Calls : u # t => call'[u] = call[u]
        /\ call'[t].at = "read"
    BY <1>9, GoOK DEF SubmitRound, Places
  <2>2. answer' = answer BY <1>9 DEF SubmitRound
  <2>3. TypeOK' BY <1>9, <2>1, <2>2 DEF SubmitRound, TypeOK
  <2>4. Alone' BY <1>9, <2>1 DEF SubmitRound, Alone, Claimers
  <2>5. Locked' BY <1>9, <2>1 DEF SubmitRound, TypeOK, Locked, RoundFree
  <2>6. CallsOK'
    <3>1. sequential' = sequential BY <1>9 DEF SubmitRound
    <3>2. \A u \in Calls : u # t => InOrder(u)' BY <1>0, <2>1, <3>1, InOrderOK
    <3>3. InOrder(t)' BY <2>1 DEF InOrder
    <3>4. \A u \in Calls : Kept(u)' BY <2>1, <2>2, KeptOK
    <3> QED BY <3>2, <3>3, <3>4 DEF CallsOK
  <2>7. Passed' BY <1>9, <1>0, <2>2 DEF SubmitRound, Passed, Before
  <2>8. AnsweredInOrder' BY <1>9, <1>0, <2>2 DEF SubmitRound, AnsweredInOrder
  <2>9. CodingAfterQuestions' /\ TotalIsTheRounds'
    BY <1>9 DEF SubmitRound, CodingAfterQuestions, TotalIsTheRounds
  <2> QED BY <2>3, <2>4, <2>5, <2>6, <2>7, <2>8, <2>9
<1>10. ASSUME NEW t \in Calls, ReadAnswers(t) PROVE RoundsInv'
  <2>1. /\ call' \in [Calls -> CallType] /\ \A u \in Calls : u # t => call'[u] = call[u]
        /\ call'[t].at = "settle"
        /\ call'[t].seen = answer
    <3>1. [Idle EXCEPT !.at = "settle", !.seen = answer] \in CallType
      BY IdleOK DEF TypeOK, CallType, Places
    <3> QED BY <1>10, <3>1, PutOK DEF ReadAnswers, Idle
  <2>2. answer' = answer BY <1>10 DEF ReadAnswers
  <2>3. TypeOK' BY <1>10, <2>1, <2>2 DEF ReadAnswers, TypeOK
  <2>4. Alone' BY <1>10, <2>1 DEF ReadAnswers, Alone, Claimers
  <2>5. Locked' BY <1>10, <2>1 DEF ReadAnswers, TypeOK, Locked, RoundFree
  <2>6. CallsOK'
    <3>1. sequential' = sequential BY <1>10 DEF ReadAnswers
    <3>2. \A u \in Calls : u # t => InOrder(u)' BY <1>0, <2>1, <3>1, InOrderOK
    <3>3. InOrder(t)'
      BY <1>10, <2>1, <2>2, <3>1 DEF InOrder, Before, AnsweredInOrder, Questions, Drafts
    <3>4. \A u \in Calls : Kept(u)' BY <2>1, <2>2, KeptOK
    <3> QED BY <3>2, <3>3, <3>4 DEF CallsOK
  <2>7. Passed' BY <1>10, <1>0, <2>2 DEF ReadAnswers, Passed, Before
  <2>8. AnsweredInOrder' BY <1>10, <1>0, <2>2 DEF ReadAnswers, AnsweredInOrder
  <2>9. CodingAfterQuestions' /\ TotalIsTheRounds'
    BY <1>10 DEF ReadAnswers, CodingAfterQuestions, TotalIsTheRounds
  <2> QED BY <2>3, <2>4, <2>5, <2>6, <2>7, <2>8, <2>9
<1>11. ASSUME NEW t \in Calls, Settle(t) PROVE RoundsInv'
  <2>1. /\ call' \in [Calls -> CallType] /\ \A u \in Calls : u # t => call'[u] = call[u]
        /\ (call'[t].at = "settle" \/ call'[t].at = "lock")
        /\ call'[t].seen = call[t].seen
    <3>1. call[t] \in CallType BY DEF TypeOK
    <3>2. Worth(Settled(call[t].seen[call[t].q])) \in Int BY DEF Worth
    <3>3. (IF call[t].q = LastOrder THEN 0 ELSE call[t].q + 1) \in Questions
      BY <3>1 DEF CallType, Questions
    <3> DEFINE c == [call[t] EXCEPT
                       !.score = @ + Worth(Settled(call[t].seen[call[t].q])),
                       !.q = IF call[t].q = LastOrder THEN 0 ELSE call[t].q + 1,
                       !.at = IF call[t].q = LastOrder THEN "lock" ELSE "settle"]
    <3>4. c \in CallType /\ c.seen = call[t].seen /\ (c.at = "settle" \/ c.at = "lock")
      <4>1. call[t].score + Worth(Settled(call[t].seen[call[t].q])) \in Int
        BY <3>1, <3>2 DEF CallType
      <4>2. CASE call[t].q = LastOrder
        BY <3>1, <3>3, <4>1, <4>2 DEF CallType, Places
      <4>3. CASE call[t].q # LastOrder
        BY <3>1, <3>3, <4>1, <4>3 DEF CallType, Places
      <4> QED BY <4>2, <4>3
    <3>5. call' = [call EXCEPT ![t] = c] BY <1>11 DEF Settle, TypeOK
    <3> HIDE DEF c
    <3> QED BY <3>4, <3>5, PutOK
  <2>2. answer' \in [Questions -> Answers]
    BY <1>11 DEF Settle, TypeOK, CallType, Stored, Evaluated, Answers, Unsubmitted, Drafts,
       Submitted
  <2>3. TypeOK' BY <1>11, <2>1, <2>2 DEF Settle, TypeOK
  <2>4. Alone' BY <1>11, <2>1 DEF Settle, Alone, Claimers
  <2>5. Locked' BY <1>11, <2>1 DEF Settle, TypeOK, Locked, RoundFree
  <2>6. CallsOK'
    <3>1. sequential' = sequential BY <1>11 DEF Settle
    <3>2. \A u \in Calls : u # t => InOrder(u)' BY <1>0, <2>1, <3>1, InOrderOK
    <3>3. InOrder(t)'
      <4>1. call[t].at = "settle" /\ InOrder(t) BY <1>11 DEF Settle, CallsOK
      <4> QED BY <1>0, <2>1, <3>1, <4>1 DEF InOrder, Before
    <3>4. \A u \in Calls : Kept(u)'
      BY <1>11, <2>1 DEF Settle, Writable, CallsOK, Kept, TypeOK, CallType, Stored, Evaluated,
         Answers, Unsubmitted, Drafts, Submitted
    <3> QED BY <3>2, <3>3, <3>4 DEF CallsOK
  <2>7. Passed' BY <1>11, <1>0, <2>2 DEF Settle, Passed, Before
  <2>8. AnsweredInOrder'
    <3>1. sequential => \A q \in Questions :
              answer'[q] = answer[q] \/ answer'[q] \in {"none", "blank"} \/ Before(q)
      BY <1>11 DEF Settle, CallsOK, InOrder, TypeOK, CallType, Stored, Drafts
    <3> QED BY <1>0, <1>11, <3>1, OrderOK DEF Settle
  <2>9. CodingAfterQuestions' /\ TotalIsTheRounds'
    BY <1>11 DEF Settle, CodingAfterQuestions, TotalIsTheRounds
  <2> QED BY <2>3, <2>4, <2>5, <2>6, <2>7, <2>8, <2>9
<1>12. ASSUME NEW t \in Calls, LockRound(t) PROVE RoundsInv'
  <2>1. /\ call' \in [Calls -> CallType] /\ \A u \in Calls : u # t => call'[u] = call[u]
        /\ call'[t].at = "close"
        /\ call'[t].other = round.score
    <3>1. NoAnswers \in [Questions -> Answers] BY DEF NoAnswers, Answers, Unsubmitted
    <3>2. call[t] \in CallType /\ round.score \in Int BY DEF TypeOK
    <3>3. [call[t] EXCEPT !.at = "close", !.other = round.score, !.seen = NoAnswers] \in CallType
      BY <3>1, <3>2 DEF CallType, Places
    <3>4. call' = [call EXCEPT ![t] = [call[t] EXCEPT !.at = "close", !.other = round.score,
                                                       !.seen = NoAnswers]]
      BY <1>12 DEF LockRound
    <3>5. /\ call'[t] = [call[t] EXCEPT !.at = "close", !.other = round.score, !.seen = NoAnswers]
          /\ call' \in [Calls -> CallType] /\ \A u \in Calls : u # t => call'[u] = call[u]
      BY <3>3, <3>4, PutOK
    <3> QED BY <3>2, <3>5 DEF CallType
  <2>2. answer' = answer BY <1>12 DEF LockRound
  <2>3. TypeOK' BY <1>12, <2>1, <2>2 DEF LockRound, TypeOK
  <2>4. Alone' BY <1>12, <2>1 DEF LockRound, Alone, Claimers
  <2>5. Locked' BY <1>12, <2>1 DEF LockRound, TypeOK, Locked, RoundFree
  <2>6. CallsOK'
    <3>1. sequential' = sequential BY <1>12 DEF LockRound
    <3>2. \A u \in Calls : u # t => InOrder(u)' BY <1>0, <2>1, <3>1, InOrderOK
    <3>3. InOrder(t)' BY <2>1 DEF InOrder
    <3>4. \A u \in Calls : Kept(u)' BY <2>1, <2>2, KeptOK
    <3> QED BY <3>2, <3>3, <3>4 DEF CallsOK
  <2>7. Passed' BY <1>12, <1>0, <2>2 DEF LockRound, Passed, Before
  <2>8. AnsweredInOrder' BY <1>12, <1>0, <2>2 DEF LockRound, AnsweredInOrder
  <2>9. CodingAfterQuestions' /\ TotalIsTheRounds'
    BY <1>12 DEF LockRound, CodingAfterQuestions, TotalIsTheRounds
  <2> QED BY <2>3, <2>4, <2>5, <2>6, <2>7, <2>8, <2>9
<1>13. ASSUME NEW t \in Calls, CloseRound(t) PROVE RoundsInv'
  <2>1. /\ call' \in [Calls -> CallType] /\ \A u \in Calls : u # t => call'[u] = call[u]
        /\ call'[t].at = "idle"
    BY <1>13, EndOK DEF CloseRound
  <2>2. answer' = answer BY <1>13 DEF CloseRound
  <2>3. TypeOK'
    <3>1. call[t].score \in Int /\ call[t].other \in Int BY DEF TypeOK, CallType
    <3>2. LastOrder \in -1..LastOrder BY RoundsAssumption
    <3>3. /\ round' \in [status : {"none", "in_progress", "submitted"}, score : Int,
                          last : -1..LastOrder]
          /\ total' \in Int /\ raced' \in BOOLEAN /\ holder' \in Calls \cup {NoCall}
      BY <1>13, <3>1, <3>2 DEF CloseRound, TypeOK, Delta
    <3> QED BY <1>13, <2>1, <2>2, <3>3 DEF CloseRound, TypeOK
  <2>4. Alone' BY <1>13, <2>1 DEF CloseRound, Alone, Claimers
  <2>5. Locked' BY <1>13, <2>1 DEF CloseRound, TypeOK, Locked, RoundFree
  <2>6. CallsOK'
    <3>1. sequential' = sequential BY <1>13 DEF CloseRound
    <3>2. \A u \in Calls : u # t => InOrder(u)' BY <1>0, <2>1, <3>1, InOrderOK
    <3>3. InOrder(t)' BY <2>1 DEF InOrder
    <3>4. \A u \in Calls : Kept(u)' BY <2>1, <2>2, KeptOK
    <3> QED BY <3>2, <3>3, <3>4 DEF CallsOK
  <2>7. Passed' BY <1>13, <1>0, <2>2 DEF CloseRound, Passed
  <2>8. AnsweredInOrder' BY <1>13, <1>0, <2>2 DEF CloseRound, AnsweredInOrder
  <2>9. CodingAfterQuestions' /\ TotalIsTheRounds'
    <3>1. /\ call[t].score \in Int /\ call[t].other \in Int /\ round.score \in Int
          /\ total \in Int /\ coding \in Int /\ forgiven \in Int
      BY DEF TypeOK, CallType
    <3>2. round'.score = call[t].score /\ round'.status = "submitted" BY <1>13 DEF CloseRound
    <3>3. CodingAfterQuestions' BY <3>2 DEF CodingAfterQuestions
    <3>4. CASE raced'
      BY <3>3, <3>4 DEF TotalIsTheRounds
    <3>5. CASE ~raced'
      <4>1. /\ total' = total + (call[t].score - call[t].other)
            /\ coding' = coding /\ forgiven' = forgiven
        BY <1>13 DEF CloseRound, Delta
      <4>2. ~raced /\ call[t].other = round.score
        <5>1. raced' = (raced \/ (holder = NoCall /\ call[t].other # round.score))
              /\ holder \in {t, NoCall}
          BY <1>13 DEF CloseRound
        <5> QED BY <3>5, <5>1 DEF Locked
      <4>3. total = round.score + coding + forgiven BY <4>2 DEF TotalIsTheRounds
      <4>4. total' = round'.score + coding' + forgiven' BY <3>1, <3>2, <4>1, <4>2, <4>3
      <4> QED BY <3>3, <4>4 DEF TotalIsTheRounds
    <3> QED BY <3>3, <3>4, <3>5
  <2> QED BY <2>3, <2>4, <2>5, <2>6, <2>7, <2>8, <2>9
<1>14. ASSUME NEW t \in Calls, Claim(t) PROVE RoundsInv'
  <2>1. /\ call' \in [Calls -> CallType] /\ \A u \in Calls : u # t => call'[u] = call[u]
        /\ call'[t].at = "claimed"
    BY <1>14, GoOK DEF Claim, Places
  <2>2. answer' = answer BY <1>14 DEF Claim
  <2>3. TypeOK' BY <1>14, <2>1, <2>2 DEF Claim, TypeOK
  <2>4. Alone' BY <1>14, <2>1 DEF Claim, Alone, Claimers
  <2>5. Locked' BY <1>14, <2>1 DEF Claim, TypeOK, Locked, RoundFree
  <2>6. CallsOK'
    <3>1. sequential' = sequential BY <1>14 DEF Claim
    <3>2. \A u \in Calls : u # t => InOrder(u)' BY <1>0, <2>1, <3>1, InOrderOK
    <3>3. InOrder(t)' BY <2>1 DEF InOrder
    <3>4. \A u \in Calls : Kept(u)' BY <2>1, <2>2, KeptOK
    <3> QED BY <3>2, <3>3, <3>4 DEF CallsOK
  <2>7. Passed' BY <1>14, <1>0, <2>2 DEF Claim, Passed, Before
  <2>8. AnsweredInOrder' BY <1>14, <1>0, <2>2 DEF Claim, AnsweredInOrder
  <2>9. CodingAfterQuestions' /\ TotalIsTheRounds'
    BY <1>14 DEF Claim, CodingAfterQuestions, TotalIsTheRounds
  <2> QED BY <2>3, <2>4, <2>5, <2>6, <2>7, <2>8, <2>9
<1>15. ASSUME NEW t \in Calls, FinalizeRead(t) PROVE RoundsInv'
  <2>1. /\ call' \in [Calls -> CallType] /\ \A u \in Calls : u # t => call'[u] = call[u]
        /\ call'[t].at = "finalize"
        /\ call'[t].seen = answer
    BY <1>15, SumIsInt DEF FinalizeRead, TypeOK, CallType, Places, Questions
  <2>2. answer' = answer BY <1>15 DEF FinalizeRead
  <2>3. TypeOK' BY <1>15, <2>1, <2>2 DEF FinalizeRead, TypeOK
  <2>4. Alone' BY <1>15, <2>1 DEF FinalizeRead, Alone, Claimers
  <2>5. Locked' BY <1>15, <2>1 DEF FinalizeRead, TypeOK, Locked, RoundFree
  <2>6. CallsOK'
    <3>1. sequential' = sequential BY <1>15 DEF FinalizeRead
    <3>2. \A u \in Calls : u # t => InOrder(u)' BY <1>0, <2>1, <3>1, InOrderOK
    <3>3. InOrder(t)' BY <2>1 DEF InOrder
    <3>4. \A u \in Calls : Kept(u)' BY <2>1, <2>2, KeptOK DEF Kept
    <3> QED BY <3>2, <3>3, <3>4 DEF CallsOK
  <2>7. Passed' BY <1>15, <1>0, <2>2 DEF FinalizeRead, Passed, Before
  <2>8. AnsweredInOrder' BY <1>15, <1>0, <2>2 DEF FinalizeRead, AnsweredInOrder
  <2>9. CodingAfterQuestions' /\ TotalIsTheRounds'
    BY <1>15 DEF FinalizeRead, CodingAfterQuestions, TotalIsTheRounds
  <2> QED BY <2>3, <2>4, <2>5, <2>6, <2>7, <2>8, <2>9
<1>16. ASSUME NEW t \in Calls, Finalize(t) PROVE RoundsInv'
  <2>1. /\ call' \in [Calls -> CallType] /\ \A u \in Calls : u # t => call'[u] = call[u]
        /\ call'[t].at = "clamp"
    BY <1>16, GoOK DEF Finalize, Places
  <2>2. answer' \in [Questions -> Answers]
    BY <1>16 DEF Finalize, TypeOK, Answers, Unsubmitted, Drafts, Submitted
  <2>3. TypeOK' BY <1>16, <2>1, <2>2 DEF Finalize, TypeOK, CallType
  <2>4. Alone' BY <1>16, <2>1 DEF Finalize, Alone, Claimers
  <2>5. Locked' BY <1>16, <2>1 DEF Finalize, TypeOK, Locked, RoundFree
  <2>6. CallsOK'
    <3>1. sequential' = sequential BY <1>16 DEF Finalize
    <3>2. \A u \in Calls : u # t => InOrder(u)' BY <1>0, <2>1, <3>1, InOrderOK
    <3>3. InOrder(t)' BY <2>1 DEF InOrder
    <3>4. \A u \in Calls : Kept(u)' BY <1>16, <2>1 DEF Finalize, Alone, Claimers, Kept, TypeOK
    <3> QED BY <3>2, <3>3, <3>4 DEF CallsOK
  <2>7. Passed' BY <1>16, <1>0, <2>2 DEF Finalize, Passed
  <2>8. AnsweredInOrder'
    <3>1. sequential => \A q \in Questions :
              answer'[q] = answer[q] \/ answer'[q] \in {"none", "blank"} \/ Before(q)
      BY <1>16 DEF Finalize, TypeOK
    <3> QED BY <1>0, <1>16, <3>1, OrderOK DEF Finalize
  <2>9. CodingAfterQuestions' /\ TotalIsTheRounds'
    <3>1. /\ call[t].score \in Int /\ call[t].other \in Int /\ round.score \in Int
          /\ total \in Int /\ coding \in Int /\ forgiven \in Int
      BY DEF TypeOK, CallType
    <3>2. round'.score = call[t].score /\ round'.status = "submitted" BY <1>16 DEF Finalize
    <3>3. CodingAfterQuestions' BY <3>2 DEF CodingAfterQuestions
    <3>4. CASE raced'
      BY <3>3, <3>4 DEF TotalIsTheRounds
    <3>5. CASE ~raced'
      <4>1. call[t].other = coding BY <1>16, <3>5 DEF Finalize
      <4>2. total' = call[t].score + call[t].other /\ coding' = coding /\ forgiven' = 0
        BY <1>16 DEF Finalize
      <4>3. total' = round'.score + coding' + forgiven' BY <3>1, <3>2, <4>1, <4>2
      <4> QED BY <3>3, <4>3 DEF TotalIsTheRounds
    <3> QED BY <3>3, <3>4, <3>5
  <2> QED BY <2>3, <2>4, <2>5, <2>6, <2>7, <2>8, <2>9
<1>17. ASSUME NEW t \in Calls, FinalizeFails(t) PROVE RoundsInv'
  <2>1. /\ call' \in [Calls -> CallType] /\ \A u \in Calls : u # t => call'[u] = call[u]
        /\ call'[t].at = "unclaim"
    <3>1. [Idle EXCEPT !.at = "unclaim"] \in CallType BY IdleOK DEF CallType, Places
    <3> QED BY <1>17, <3>1, PutOK DEF FinalizeFails, Idle
  <2>2. answer' = answer BY <1>17 DEF FinalizeFails
  <2>3. TypeOK' BY <1>17, <2>1, <2>2 DEF FinalizeFails, TypeOK
  <2>4. Alone' BY <1>17, <2>1 DEF FinalizeFails, Alone, Claimers
  <2>5. Locked' BY <1>17, <2>1 DEF FinalizeFails, TypeOK, Locked, RoundFree
  <2>6. CallsOK'
    <3>1. sequential' = sequential BY <1>17 DEF FinalizeFails
    <3>2. \A u \in Calls : u # t => InOrder(u)' BY <1>0, <2>1, <3>1, InOrderOK
    <3>3. InOrder(t)' BY <2>1 DEF InOrder
    <3>4. \A u \in Calls : Kept(u)' BY <2>1, <2>2, KeptOK
    <3> QED BY <3>2, <3>3, <3>4 DEF CallsOK
  <2>7. Passed' BY <1>17, <1>0, <2>2 DEF FinalizeFails, Passed, Before
  <2>8. AnsweredInOrder' BY <1>17, <1>0, <2>2 DEF FinalizeFails, AnsweredInOrder
  <2>9. CodingAfterQuestions' /\ TotalIsTheRounds'
    BY <1>17 DEF FinalizeFails, CodingAfterQuestions, TotalIsTheRounds
  <2> QED BY <2>3, <2>4, <2>5, <2>6, <2>7, <2>8, <2>9
<1>18. ASSUME NEW t \in Calls, Unclaim(t) PROVE RoundsInv'
  <2>1. /\ call' \in [Calls -> CallType] /\ \A u \in Calls : u # t => call'[u] = call[u]
        /\ call'[t].at = "idle"
    BY <1>18, EndOK DEF Unclaim
  <2>2. answer' = answer BY <1>18 DEF Unclaim
  <2>3. TypeOK' BY <1>18, <2>1, <2>2 DEF Unclaim, TypeOK
  <2>4. Alone' BY <1>18, <2>1 DEF Unclaim, Alone, Claimers
  <2>5. Locked' BY <1>18, <2>1 DEF Unclaim, TypeOK, Locked, RoundFree
  <2>6. CallsOK'
    <3>1. sequential' = sequential BY <1>18 DEF Unclaim
    <3>2. \A u \in Calls : u # t => InOrder(u)' BY <1>0, <2>1, <3>1, InOrderOK
    <3>3. InOrder(t)' BY <2>1 DEF InOrder
    <3>4. \A u \in Calls : Kept(u)' BY <2>1, <2>2, KeptOK
    <3> QED BY <3>2, <3>3, <3>4 DEF CallsOK
  <2>7. Passed' BY <1>18, <1>0, <2>2 DEF Unclaim, Passed, Before
  <2>8. AnsweredInOrder' BY <1>18, <1>0, <2>2 DEF Unclaim, AnsweredInOrder
  <2>9. CodingAfterQuestions' /\ TotalIsTheRounds'
    BY <1>18 DEF Unclaim, CodingAfterQuestions, TotalIsTheRounds
  <2> QED BY <2>3, <2>4, <2>5, <2>6, <2>7, <2>8, <2>9
<1>19. ASSUME NEW t \in Calls, Clamp(t) PROVE RoundsInv'
  <2>1. /\ call' \in [Calls -> CallType] /\ \A u \in Calls : u # t => call'[u] = call[u]
        /\ call'[t].at = "idle"
    BY <1>19, EndOK DEF Clamp
  <2>2. answer' = answer BY <1>19 DEF Clamp
  <2>3. TypeOK' BY <1>19, <2>1, <2>2 DEF Clamp, TypeOK, NotBelowZero
  <2>4. Alone' BY <1>19, <2>1 DEF Clamp, Alone, Claimers
  <2>5. Locked' BY <1>19, <2>1 DEF Clamp, TypeOK, Locked, RoundFree
  <2>6. CallsOK'
    <3>1. sequential' = sequential BY <1>19 DEF Clamp
    <3>2. \A u \in Calls : u # t => InOrder(u)' BY <1>0, <2>1, <3>1, InOrderOK
    <3>3. InOrder(t)' BY <2>1 DEF InOrder
    <3>4. \A u \in Calls : Kept(u)' BY <2>1, <2>2, KeptOK
    <3> QED BY <3>2, <3>3, <3>4 DEF CallsOK
  <2>7. Passed' BY <1>19, <1>0, <2>2 DEF Clamp, Passed, Before
  <2>8. AnsweredInOrder' BY <1>19, <1>0, <2>2 DEF Clamp, AnsweredInOrder
  <2>9. CodingAfterQuestions' /\ TotalIsTheRounds'
    BY <1>19 DEF Clamp, CodingAfterQuestions, TotalIsTheRounds, NotBelowZero, TypeOK
  <2> QED BY <2>3, <2>4, <2>5, <2>6, <2>7, <2>8, <2>9
<1>20. ASSUME NEW t \in Calls, Abort(t) PROVE RoundsInv'
  <2>1. /\ call' \in [Calls -> CallType] /\ \A u \in Calls : u # t => call'[u] = call[u]
        /\ call'[t].at = "idle"
    BY <1>20, EndOK DEF Abort
  <2>2. answer' = answer BY <1>20 DEF Abort
  <2>3. TypeOK' BY <1>20, <2>1, <2>2 DEF Abort, TypeOK
  <2>4. Alone' BY <1>20, <2>1 DEF Abort, Alone, Claimers
  <2>5. Locked' BY <1>20, <2>1 DEF Abort, TypeOK, Locked, RoundFree
  <2>6. CallsOK'
    <3>1. sequential' = sequential BY <1>20 DEF Abort
    <3>2. \A u \in Calls : u # t => InOrder(u)' BY <1>0, <2>1, <3>1, InOrderOK
    <3>3. InOrder(t)' BY <2>1 DEF InOrder
    <3>4. \A u \in Calls : Kept(u)' BY <2>1, <2>2, KeptOK
    <3> QED BY <3>2, <3>3, <3>4 DEF CallsOK
  <2>7. Passed' BY <1>20, <1>0, <2>2 DEF Abort, Passed, Before
  <2>8. AnsweredInOrder' BY <1>20, <1>0, <2>2 DEF Abort, AnsweredInOrder
  <2>9. CodingAfterQuestions' /\ TotalIsTheRounds'
    BY <1>20 DEF Abort, CodingAfterQuestions, TotalIsTheRounds
  <2> QED BY <2>3, <2>4, <2>5, <2>6, <2>7, <2>8, <2>9
<1>21. CASE ShowScore
  <2>1. TypeOK' BY <1>21 DEF ShowScore, TypeOK, NotBelowZero
  <2>2. Alone' /\ Locked' /\ CallsOK'
    BY <1>21 DEF ShowScore, TypeOK, Alone, Locked, CallsOK, Kept, InOrder, Before
  <2>3. Passed' /\ AnsweredInOrder' BY <1>21 DEF ShowScore, TypeOK, Passed, Before, AnsweredInOrder
  <2>4. CodingAfterQuestions' /\ TotalIsTheRounds'
    BY <1>21 DEF ShowScore, TypeOK, Unlocked, NotBelowZero, CodingAfterQuestions, TotalIsTheRounds
  <2> QED BY <2>1, <2>2, <2>3, <2>4
<1>22. CASE PostCode
  <2>1. TypeOK' BY <1>22 DEF PostCode, TypeOK, NotBelowZero
  <2>2. Alone' /\ Locked' /\ CallsOK'
    BY <1>22 DEF PostCode, TypeOK, Alone, Locked, CallsOK, Kept, InOrder, Before
  <2>3. Passed' /\ AnsweredInOrder' BY <1>22 DEF PostCode, TypeOK, Passed, Before, AnsweredInOrder
  <2>4. CodingAfterQuestions' /\ TotalIsTheRounds'
    BY <1>22 DEF PostCode, TypeOK, Unlocked, NotBelowZero, CodingAfterQuestions, TotalIsTheRounds
  <2> QED BY <2>1, <2>2, <2>3, <2>4
<1>23. CASE Verdict
  <2>1. TypeOK' BY <1>23 DEF Verdict, TypeOK, NotBelowZero
  <2>2. Alone' /\ Locked' /\ CallsOK'
    BY <1>23 DEF Verdict, TypeOK, Alone, Locked, CallsOK, Kept, InOrder, Before
  <2>3. Passed' /\ AnsweredInOrder' BY <1>23 DEF Verdict, TypeOK, Passed, Before, AnsweredInOrder
  <2>4. CodingAfterQuestions' /\ TotalIsTheRounds'
    BY <1>23 DEF Verdict, TypeOK, Unlocked, NotBelowZero, CodingAfterQuestions, TotalIsTheRounds
  <2> QED BY <2>1, <2>2, <2>3, <2>4
<1>24. CASE Warn
  <2>1. TypeOK' BY <1>24 DEF Warn, TypeOK, NotBelowZero
  <2>2. Alone' /\ Locked' /\ CallsOK'
    BY <1>24 DEF Warn, TypeOK, Alone, Locked, CallsOK, Kept, InOrder, Before
  <2>3. Passed' /\ AnsweredInOrder' BY <1>24 DEF Warn, TypeOK, Passed, Before, AnsweredInOrder
  <2>4. CodingAfterQuestions' /\ TotalIsTheRounds'
    BY <1>24 DEF Warn, TypeOK, Unlocked, NotBelowZero, CodingAfterQuestions, TotalIsTheRounds
  <2> QED BY <2>1, <2>2, <2>3, <2>4
<1>25. CASE EndContest
  <2>1. TypeOK' BY <1>25 DEF EndContest, TypeOK, NotBelowZero
  <2>2. Alone' /\ Locked' /\ CallsOK'
    BY <1>25 DEF EndContest, TypeOK, Alone, Locked, CallsOK, Kept, InOrder, Before
  <2>3. Passed' /\ AnsweredInOrder' BY <1>25 DEF EndContest, TypeOK, Passed, Before, AnsweredInOrder
  <2>4. CodingAfterQuestions' /\ TotalIsTheRounds'
    BY <1>25 DEF EndContest, TypeOK, Unlocked, NotBelowZero, CodingAfterQuestions, TotalIsTheRounds
  <2> QED BY <2>1, <2>2, <2>3, <2>4
<1>26. CASE ClampContest
  <2>1. TypeOK' BY <1>26 DEF ClampContest, TypeOK, NotBelowZero
  <2>2. Alone' /\ Locked' /\ CallsOK'
    BY <1>26 DEF ClampContest, TypeOK, Alone, Locked, CallsOK, Kept, InOrder, Before
  <2>3. Passed' /\ AnsweredInOrder'
    BY <1>26 DEF ClampContest, TypeOK, Passed, Before, AnsweredInOrder
  <2>4. CodingAfterQuestions' /\ TotalIsTheRounds'
    BY <1>26 DEF ClampContest, TypeOK, Unlocked, NotBelowZero, CodingAfterQuestions,
       TotalIsTheRounds
  <2> QED BY <2>1, <2>2, <2>3, <2>4
<1>27. CASE UNCHANGED vars
  <2>1. TypeOK' BY <1>27 DEF vars, TypeOK, NotBelowZero
  <2>2. Alone' /\ Locked' /\ CallsOK'
    BY <1>27 DEF vars, TypeOK, Alone, Locked, CallsOK, Kept, InOrder, Before
  <2>3. Passed' /\ AnsweredInOrder' BY <1>27 DEF vars, TypeOK, Passed, Before, AnsweredInOrder
  <2>4. CodingAfterQuestions' /\ TotalIsTheRounds'
    BY <1>27 DEF vars, TypeOK, Unlocked, NotBelowZero, CodingAfterQuestions, TotalIsTheRounds
  <2> QED BY <2>1, <2>2, <2>3, <2>4
<1> QED
  BY <1>1, <1>2, <1>3, <1>4, <1>5, <1>6, <1>7, <1>8, <1>9, <1>10, <1>11, <1>12, <1>13, <1>14, <1>15,
     <1>16, <1>17, <1>18, <1>19, <1>20, <1>21, <1>22, <1>23, <1>24, <1>25, <1>26, <1>27
  DEF Next, Begin, Step, Fail, Question, Round, Contest

-----------------------------------------------------------------------------
(* The rows, scores and counts keep their types, and a lock has a holder.  *)
THEOREM RoundsTypes == Spec => []TypeOK
<1>1. RoundsInv => TypeOK BY DEF RoundsInv
<1> QED BY InitOK, StepOK, <1>1, PTL DEF Spec

(* A submitted answer of a sequential round is never changed.              *)
THEOREM SubmittedForGood == Spec => AnswerIsFinal
<1>1. RoundsInv /\ [Next]_vars =>
        [\A q \in Questions :
           sequential /\ answer[q] \in Submitted => answer'[q] = answer[q]]_vars
  BY FinalOK DEF RoundsInv
<1> QED BY InitOK, StepOK, <1>1, PTL DEF Spec, AnswerIsFinal

(* And it is answered in the order of its questions.                       *)
THEOREM OneAfterAnother == Spec => []AnsweredInOrder
<1>1. RoundsInv => AnsweredInOrder BY DEF RoundsInv
<1> QED BY InitOK, StepOK, <1>1, PTL DEF Spec

(* Code is judged only after the round of questions.                       *)
THEOREM QuestionsFirst == Spec => []CodingAfterQuestions
<1>1. RoundsInv => CodingAfterQuestions BY DEF RoundsInv
<1> QED BY InitOK, StepOK, <1>1, PTL DEF Spec

(* The total is the sum of the rounds, but for the two races it names.     *)
THEOREM TotalAddsUp == Spec => []TotalIsTheRounds
<1>1. RoundsInv => TotalIsTheRounds BY DEF RoundsInv
<1> QED BY InitOK, StepOK, <1>1, PTL DEF Spec
================================================================================
