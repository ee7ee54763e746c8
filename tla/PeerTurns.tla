------------------------------- MODULE PeerTurns -------------------------------
(***************************************************************************)
(* The two turns of a running peer interview and its shared editor         *)
(* (apps/p2p/src/services/matchmaking.service.ts).                         *)
(*                                                                         *)
(* The runtime state is one JSON value in Redis; editor syncs, the         *)
(* advance to turn 2, the turn timer and the end of the session each read  *)
(* it, await something and write it back whole.  A call is one such        *)
(* handler in progress: its stage, and whether it is still inside          *)
(* ensureActiveRuntimeState, are its program counter.  Time is counted in  *)
(* TURN_DURATION_SECONDS since started_at.  Editor revisions and languages *)
(* are left out: a write here replaces the text whatever they are.         *)
(***************************************************************************)
EXTENDS Naturals

CONSTANTS
    First, Second,  \* the users whose persisted role is interviewer, candidate
    NoOne,          \* no user, and no runtime
    Calls,          \* handlers of user events that may run at once
    Timer,          \* the cron pass over active sessions
    Starter,        \* the activation that is about to write the first runtime
    MaxEvents,      \* bound: user events
    MaxClock,       \* bound: the clock then stands for every later time
    MaxCrashes      \* bound: restarts of the instance

Users == {First, Second}
Threads == Calls \cup {Timer, Starter}

ASSUME TurnsAssumption ==
    /\ First # Second /\ NoOne \notin Users
    /\ Timer # Starter /\ Timer \notin Calls /\ Starter \notin Calls
    /\ {MaxEvents, MaxClock, MaxCrashes} \subseteq Nat

VARIABLES
    status,   \* peer_sessions.status
    saved,    \* final_code of the question assignment of each user
    runtime,  \* peer_session_runtime
    call,     \* what each thread is doing
    clock,    \* turn durations since started_at
    events,   \* user events so far: the n-th sync sends the n-th text
    crashes

vars == <<status, saved, runtime, call, clock, events, crashes>>

Other(u) == IF u = First THEN Second ELSE First

(* A text in the editor, by the user who sent it.                          *)
Blank == [by |-> NoOne, no |-> 0]
Texts == {Blank} \cup [by : Users, no : 1..MaxEvents]

Runtimes == [turn : {1, 2}, interviewer : Users, candidate : Users, ends : Nat, code : Texts]

\* The runtime of a turn that nobody has edited in yet.
InTurn(n, interviewer, ends) ==
    [turn |-> n, interviewer |-> interviewer, candidate |-> Other(interviewer),
     ends |-> ends, code |-> Blank]

Initial == InTurn(1, First, 1)

\* What ensureActiveRuntimeState makes of started_at.
Rebuilt == IF clock >= 1 THEN InTurn(2, Second, 2) ELSE Initial

\* got: the runtime the call has read or built; no: the number of its event.
Idle == [op |-> "none", user |-> NoOne, no |-> 0, stage |-> "idle", at |-> "get", got |-> NoOne]

Stage(c, stage) == call[c].stage = stage
Ensuring == {"check", "again", "internal"}
Inside(c, at) == call[c].stage \in Ensuring /\ call[c].at = at

Enter(c, stage, state) ==
    call' = [call EXCEPT ![c] = [@ EXCEPT !.stage = stage, !.at = "get", !.got = state]]
Return(c) == call' = [call EXCEPT ![c] = Idle]

\* The session has just become ACTIVE: its activation has written the first
\* runtime, or is about to.
Init ==
    /\ status = "ACTIVE"
    /\ saved = [u \in Users |-> Blank]
    /\ \/ /\ runtime = Initial
          /\ call = [c \in Threads |-> Idle]
       \/ /\ runtime = NoOne
          /\ call = [c \in Threads |->
                IF c = Starter THEN [Idle EXCEPT !.op = "start", !.stage = "lookup"] ELSE Idle]
    /\ clock = 0 /\ events = 0 /\ crashes = 0

-----------------------------------------------------------------------------
(* startActiveSession, from the look for a runtime on.                     *)
StartLookup ==
    /\ Stage(Starter, "lookup")
    /\ IF runtime = NoOne THEN Enter(Starter, "write", Initial) ELSE Return(Starter)
    /\ UNCHANGED <<status, saved, runtime, clock, events, crashes>>

-----------------------------------------------------------------------------
(* The calls begin with ensureActiveRuntimeState.                          *)
Begin(c, op, u) ==
    /\ Stage(c, "idle") /\ events < MaxEvents
    /\ events' = events + 1
    /\ call' = [call EXCEPT ![c] =
          [Idle EXCEPT !.op = op, !.user = u, !.no = events', !.stage = "check"]]
    /\ UNCHANGED <<status, saved, runtime, clock, crashes>>

Tick ==
    /\ Stage(Timer, "idle") /\ status = "ACTIVE"
    /\ call' = [call EXCEPT ![Timer] = [Idle EXCEPT !.op = "timer", !.stage = "check"]]
    /\ UNCHANGED <<status, saved, runtime, clock, events, crashes>>

\* Slip: the editor is not bound to a role.
AnyoneEdits(user, state) == TRUE

MayEdit(user, state) == state.candidate = user

\* Slip: a turn never runs out.
NeverOver(state) == FALSE

Over(state) == state.ends <= clock \/ clock = MaxClock

\* Where a call goes with the runtime ensureActiveRuntimeState returns; a
\* thrown error ends the call.
Use(c, state) ==
    LET op == call[c].op   user == call[c].user IN
    CASE Stage(c, "check") /\ op = "sync" /\ MayEdit(user, state) -> Enter(c, "write", state)
      [] Stage(c, "check") /\ op = "advance" /\ state.turn = 1 /\ state.interviewer = user ->
            Enter(c, "internal", NoOne)
      [] Stage(c, "check") /\ op = "end" -> Enter(c, "final", NoOne)
      [] Stage(c, "check") /\ op = "timer" /\ Over(state) -> Enter(c, "again", NoOne)
      [] Stage(c, "again") ->
            Enter(c, IF state.turn = 1 THEN "internal" ELSE "final", NoOne)
      [] Stage(c, "internal") /\ state.turn = 1 -> Enter(c, "save", state)
      [] OTHER -> Return(c)

EnsureGet(c) ==
    /\ Inside(c, "get")
    /\ IF runtime # NoOne THEN Use(c, runtime)
       ELSE call' = [call EXCEPT ![c].at = "session"]
    /\ UNCHANGED <<status, saved, runtime, clock, events, crashes>>

\* A session whose time is over is completed, and the call fails.
EnsureSession(c) ==
    /\ Inside(c, "session")
    /\ CASE status # "ACTIVE" -> Return(c)
         [] status = "ACTIVE" /\ clock >= 2 -> Enter(c, "final", NoOne)
         [] OTHER -> call' = [call EXCEPT ![c] = [@ EXCEPT !.at = "set", !.got = Rebuilt]]
    /\ UNCHANGED <<status, saved, runtime, clock, events, crashes>>

EnsureSet(c) ==
    /\ Inside(c, "set")
    /\ runtime' = call[c].got
    /\ Use(c, call[c].got)
    /\ UNCHANGED <<status, saved, clock, events, crashes>>

-----------------------------------------------------------------------------
\* syncEditorState: the whole state it read, with the new text.
Edited(state, user, n) == [state EXCEPT !.code = [by |-> user, no |-> n]]

SyncWrite(c) ==
    /\ Stage(c, "write") /\ call[c].op = "sync"
    /\ runtime' = Edited(call[c].got, call[c].user, call[c].no)
    /\ Return(c)
    /\ UNCHANGED <<status, saved, clock, events, crashes>>

\* The activation's setRuntimeState.
StartWrite ==
    /\ Stage(Starter, "write")
    /\ runtime' = call[Starter].got
    /\ Return(Starter)
    /\ UNCHANGED <<status, saved, clock, events, crashes>>

\* persistCandidateCode: blank texts are not written.
Saved(state) ==
    IF state.code = Blank THEN saved ELSE [saved EXCEPT ![state.interviewer] = state.code]

\* advanceTurnInternal
AdvanceSave(c) ==
    /\ Stage(c, "save")
    /\ saved' = Saved(call[c].got)
    /\ call' = [call EXCEPT ![c].stage = "next"]
    /\ UNCHANGED <<status, runtime, clock, events, crashes>>

\* Slip: the editor keeps the text of turn 1.
NextTurnKeepsCode(state) ==
    [turn |-> 2, interviewer |-> state.candidate, candidate |-> state.interviewer,
     ends |-> clock + 1, code |-> state.code]

\* Slip: the roles are not swapped.
NextTurnSameRoles(state) == [state EXCEPT !.turn = 2, !.ends = clock + 1, !.code = Blank]

NextTurn(state) ==
    [state EXCEPT !.turn = 2, !.interviewer = state.candidate,
                  !.candidate = state.interviewer, !.ends = clock + 1, !.code = Blank]

AdvanceWrite(c) ==
    /\ Stage(c, "next")
    /\ runtime' = NextTurn(call[c].got)
    /\ Return(c)
    /\ UNCHANGED <<status, saved, clock, events, crashes>>

-----------------------------------------------------------------------------
(* completeSession                                                         *)
FinalGet(c) ==
    /\ Stage(c, "final")
    /\ IF runtime = NoOne THEN Enter(c, "clear", NoOne) ELSE Enter(c, "capture", runtime)
    /\ UNCHANGED <<status, saved, runtime, clock, events, crashes>>

FinalSave(c) ==
    /\ Stage(c, "capture")
    /\ saved' = Saved(call[c].got)
    /\ Enter(c, "clear", NoOne)
    /\ UNCHANGED <<status, runtime, clock, events, crashes>>

FinalClear(c) ==
    /\ Stage(c, "clear")
    /\ runtime' = NoOne
    /\ Enter(c, "finish", NoOne)
    /\ UNCHANGED <<status, saved, clock, events, crashes>>

\* Slip: a status the table does not know.
OutcomeMisspelt == "ENDED"

\* What the reasons given to completeSession make of the session.
Outcome == "COMPLETED"

FinalUpdate(c) ==
    /\ Stage(c, "finish")
    /\ status' = Outcome
    /\ Return(c)
    /\ UNCHANGED <<saved, runtime, clock, events, crashes>>

-----------------------------------------------------------------------------
TimePasses ==
    /\ clock < MaxClock
    /\ clock' = clock + 1
    /\ UNCHANGED <<status, saved, runtime, call, events, crashes>>

\* The instance restarts.
Crash ==
    /\ crashes < MaxCrashes
    /\ crashes' = crashes + 1
    /\ call' = [c \in Threads |-> Idle]
    /\ UNCHANGED <<status, saved, runtime, clock, events>>

Proceed(c) ==
    \/ EnsureGet(c) \/ EnsureSession(c) \/ EnsureSet(c)
    \/ SyncWrite(c) \/ AdvanceSave(c) \/ AdvanceWrite(c)
    \/ FinalGet(c) \/ FinalSave(c) \/ FinalClear(c) \/ FinalUpdate(c)

Start == StartLookup \/ StartWrite

Next ==
    \/ \E c \in Threads : Proceed(c)
    \/ \E c \in Calls, op \in {"sync", "advance", "end", "join"}, u \in Users : Begin(c, op, u)
    \/ Start \/ Tick \/ TimePasses \/ Crash

Spec == Init /\ [][Next]_vars

\* The cron interval keeps running, handlers finish, time passes.
Fairness ==
    /\ \A c \in Threads : WF_vars(Proceed(c))
    /\ WF_vars(Start) /\ WF_vars(Tick) /\ WF_vars(TimePasses)

FairSpec == Spec /\ Fairness

-----------------------------------------------------------------------------
Stages == Ensuring \cup {"idle", "lookup", "write", "save", "next", "final", "capture", "clear", "finish"}
Ops == {"none", "start", "timer", "sync", "advance", "end", "join"}
Records ==
    [op : Ops, user : Users \cup {NoOne}, no : Nat, stage : Stages,
     at : {"get", "session", "set"}, got : Runtimes \cup {NoOne}]

TypeOK ==
    /\ status \in {"ACTIVE", "COMPLETED"}
    /\ saved \in [Users -> Texts]
    /\ runtime \in Runtimes \cup {NoOne}
    /\ call \in [Threads -> Records]
    /\ clock \in 0..MaxClock /\ events \in 0..MaxEvents /\ crashes \in 0..MaxCrashes

(* Whatever the calls overwrite, the runtime is one of a turn of this      *)
(* session: the interviewer of turn 1 is the participant booked as one,    *)
(* the roles are swapped in turn 2, and the text is the candidate's.       *)
Coherent(state) ==
    /\ state.interviewer = IF state.turn = 1 THEN First ELSE Second
    /\ state.candidate = Other(state.interviewer)
    /\ state.code # Blank => state.code.by = state.candidate
RuntimeIsCoherent == runtime # NoOne => Coherent(runtime)

(* A report shows the peer's answer: the code kept with the question a user*)
(* prepared is never the user's own ("The candidate solves the question    *)
(* the INTERVIEWER prepared").                                             *)
ReportsAreThePeers == \A u \in Users : saved[u] # Blank => saved[u].by = Other(u)

(* Whatever calls are lost or repeated, the timer brings the interview to  *)
(* its end.                                                                *)
InterviewEnds == <>(status = "COMPLETED")

(* "Only active candidate can edit the shared editor": a text that enters  *)
(* the editor is by its candidate at that time.                            *)
OnlyCandidateEdits ==
    [][runtime # NoOne /\ runtime' # NoOne /\ runtime'.code \notin {runtime.code, Blank}
          => runtime'.code.by = runtime.candidate]_vars
=============================================================================
