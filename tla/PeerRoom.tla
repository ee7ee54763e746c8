------------------------------- MODULE PeerRoom -------------------------------
(***************************************************************************)
(* One peer session from the pairing to its end                            *)
(* (apps/p2p/src/services/matchmaking.service.ts): the ready calls, the    *)
(* activation that turns it into an interview, the countdown timer and its *)
(* cron backstop, reconnects and disconnects with their grace timers, and  *)
(* the ways it ends.                                                       *)
(*                                                                         *)
(* The session comes from an accepted invite (MATCHED, nobody ready) or    *)
(* from the waiting room (CONNECTING with its countdown armed: where       *)
(* PeerLobby leaves it).  One instance runs it, as apps/p2p/README.md      *)
(* deploys it; a thread is one call, timer or cron pass on it, and a step  *)
(* is the code between two awaits that another thread can tell apart.      *)
(***************************************************************************)
EXTENDS Naturals, FiniteSets

CONSTANTS
    Users,       \* the two participants
    NoOne,       \* an absent key
    Here,        \* those connected at the start
    Origins,     \* where the session may come from: "invite", "lobby"
    MaxReady,    \* bound: ready presses per user
    MaxSockets,  \* bound on socket ids; 1 is everybody's first
    MaxEnds,     \* bound: presses of "end"
    MaxCrashes   \* bound: restarts of the instance

ASSUME RoomAssumption ==
    /\ IsFiniteSet(Users) /\ Cardinality(Users) = 2
    /\ NoOne \notin Users /\ Here \subseteq Users
    /\ Origins \subseteq {"invite", "lobby"}
    /\ {MaxReady, MaxSockets, MaxEnds, MaxCrashes} \subseteq Nat /\ MaxSockets > 0

VARIABLES
    \* Postgres
    status, started,   \* peer_sessions: status, and whether started_at is set
    ready,             \* the participants with is_ready
    \* Redis
    runtime,           \* is there a peer_session_runtime key?
    countdown,         \* is there a peer_countdown_deadline key?
    startLock,         \* peer_start_active_lock: the thread whose token it holds
    socket,            \* peer_socket:<user>, 0 if absent
    room,              \* does peer_user_room:<user> name this session?
    \* memory of the instance
    timer,             \* is the countdown timer armed?
    grace,             \* disconnectTimers: is the user's armed?
    thread,            \* where each thread is, and what it carries
    \* environment
    open,              \* the sockets of a user that are connected
    elapsed,           \* have both turns of the interview run out?
    presses, ends, opened, crashes

db == <<status, started, ready>>
keys == <<runtime, countdown, startLock, socket, room>>
memory == <<timer, grace>>
env == <<open, elapsed, presses, ends, opened, crashes>>
vars == <<status, started, ready, runtime, countdown, startLock, socket, room,
          timer, grace, thread, open, elapsed, presses, ends, opened, crashes>>

Ready(u) == <<"ready", u>>
Join(u) == <<"join", u>>
End(u) == <<"end", u>>
Drop(u) == <<"drop", u>>
Timer == <<"timer", NoOne>>
Cron == <<"cron", NoOne>>
Threads == ({"ready", "join", "end", "drop"} \X Users) \cup {Timer, Cron}

Ended == {"COMPLETED", "ABANDONED"}
Statuses == {"MATCHED", "CONNECTING", "ACTIVE"} \cup Ended

\* Slip: a countdown is not activated.
ActivatableTooFew == {"MATCHED", "ACTIVE"}

\* The states startActiveSession activates, but for PENDING.
Activatable == {"MATCHED", "CONNECTING", "ACTIVE"}

\* Slip: only a session that has not begun is completed.
CompletableTooFew == {"MATCHED", "CONNECTING"}

\* The states completeSession completes, but for PENDING.
Completable == {"MATCHED", "CONNECTING", "ACTIVE"}

\* Slip: a status the table does not know.
OutcomeMisspelt == "ENDED"

\* What both reasons given to completeSession make of the session.
Outcome == "COMPLETED"

(* seen: the status a thread has read; sid: the socket a disconnect is of. *)
Idle == [pc |-> "idle", seen |-> "MATCHED", sid |-> 0]

At(t, label) == thread[t].pc = label
Goto(t, label) == thread' = [thread EXCEPT ![t].pc = label]
Read(t, label) == thread' = [thread EXCEPT ![t] = [@ EXCEPT !.pc = label, !.seen = status]]
Return(t) == thread' = [thread EXCEPT ![t] = Idle]

Init ==
    /\ \E origin \in Origins :
          IF origin = "invite"
          THEN status = "MATCHED" /\ ready = {} /\ countdown = FALSE /\ timer = FALSE
          ELSE status = "CONNECTING" /\ ready = Users /\ countdown = TRUE /\ timer = TRUE
    /\ started = FALSE
    /\ runtime = FALSE
    /\ startLock = NoOne
    /\ socket = [u \in Users |-> IF u \in Here THEN 1 ELSE 0]
    /\ room = [u \in Users |-> TRUE]
    /\ grace = [u \in Users |-> FALSE]
    /\ thread = [t \in Threads |-> Idle]
    /\ open = [u \in Users |-> IF u \in Here THEN {1} ELSE {}]
    /\ elapsed = FALSE
    /\ presses = [u \in Users |-> 0]
    /\ ends = 0
    /\ opened = 1
    /\ crashes = 0

-----------------------------------------------------------------------------
(* startActiveSession, by any thread.                                      *)

\* clearTimeout, then SETNX of the activation lock.
ActivateLock(t) ==
    /\ At(t, "activate")
    /\ timer' = FALSE
    /\ IF startLock = NoOne
       THEN startLock' = t /\ Goto(t, "session")
       ELSE UNCHANGED startLock /\ Return(t)
    /\ UNCHANGED <<db, runtime, countdown, socket, room, grace, env>>

ActivateRead(t) ==
    /\ At(t, "session")
    /\ Read(t, IF status # "ACTIVE" \/ ~ started THEN "update" ELSE "lookup")
    /\ UNCHANGED <<db, keys, memory, env>>

\* updateMany, only from the states the code lists.
ActivateUpdate(t) ==
    /\ At(t, "update")
    /\ IF status \in Activatable
       THEN status' = "ACTIVE" /\ started' = TRUE /\ Goto(t, "lookup")
       ELSE UNCHANGED <<status, started>> /\ Goto(t, "fresh")
    /\ UNCHANGED <<ready, keys, memory, env>>

ActivateFresh(t) ==
    /\ At(t, "fresh")
    /\ Goto(t, IF status = "ACTIVE" THEN "lookup" ELSE "release")
    /\ UNCHANGED <<db, keys, memory, env>>

ActivateLookup(t) ==
    /\ At(t, "lookup")
    /\ Goto(t, IF runtime THEN "unkey" ELSE "setRuntime")
    /\ UNCHANGED <<db, keys, memory, env>>

ActivateRuntime(t) ==
    /\ At(t, "setRuntime")
    /\ runtime' = TRUE
    /\ Goto(t, "unkey")
    /\ UNCHANGED <<db, countdown, startLock, socket, room, memory, env>>

ActivateUnkey(t) ==
    /\ At(t, "unkey")
    /\ countdown' = FALSE
    /\ Goto(t, "release")
    /\ UNCHANGED <<db, runtime, startLock, socket, room, memory, env>>

ActivateRelease(t) ==
    /\ At(t, "release")
    /\ startLock' = IF startLock = t THEN NoOne ELSE startLock
    /\ Return(t)
    /\ UNCHANGED <<db, runtime, countdown, socket, room, memory, env>>

HoldingPcs == {"session", "update", "fresh", "lookup", "setRuntime", "unkey", "release"}

\* The 10 second lease of a lock whose holder is gone.
LeaseEnd ==
    /\ startLock # NoOne
    /\ thread[startLock].pc \notin HoldingPcs
    /\ startLock' = NoOne
    /\ UNCHANGED <<db, runtime, countdown, socket, room, memory, thread, env>>

-----------------------------------------------------------------------------
(* ensureActiveRuntimeState and completeSession, by any thread.            *)

\* Where a thread goes with a runtime in hand: "end" completes the session,
\* cron does so when both turns are over, join has nothing left to do.
WithRuntime(t) ==
    IF t[1] = "end" \/ (t = Cron /\ elapsed) THEN Goto(t, "clear") ELSE Return(t)

EnsureRead(t) ==
    /\ At(t, "ensure")
    /\ IF runtime THEN WithRuntime(t) ELSE Goto(t, "ensureSession")
    /\ UNCHANGED <<db, keys, memory, env>>

InProgress == status = "ACTIVE" /\ started

EnsureSession(t) ==
    /\ At(t, "ensureSession")
    /\ IF InProgress THEN Goto(t, IF elapsed THEN "clear" ELSE "rebuild") ELSE Return(t)
    /\ UNCHANGED <<db, keys, memory, env>>

EnsureRebuild(t) ==
    /\ At(t, "rebuild")
    /\ runtime' = TRUE
    /\ WithRuntime(t)
    /\ UNCHANGED <<db, countdown, startLock, socket, room, memory, env>>

\* clearRuntimeSession: one DEL of both keys.
CompleteClear(t) ==
    /\ At(t, "clear")
    /\ runtime' = FALSE /\ countdown' = FALSE
    /\ Goto(t, "finish")
    /\ UNCHANGED <<db, startLock, socket, room, memory, env>>

CompleteUpdate(t) ==
    /\ At(t, "finish")
    /\ status' = IF status \in Completable THEN Outcome ELSE status
    /\ Return(t)
    /\ UNCHANGED <<started, ready, keys, memory, env>>

-----------------------------------------------------------------------------
(* markSessionReady. Only an invited user can be the first to be ready     *)
(* here, and an invite has no slot: the waiting-room branch is PeerLobby's.*)
ReadyRead(u) ==
    /\ At(Ready(u), "idle") /\ presses[u] < MaxReady /\ open[u] # {}
    /\ presses' = [presses EXCEPT ![u] = @ + 1]
    /\ Read(Ready(u), "mark")
    /\ UNCHANGED <<db, keys, memory, open, elapsed, ends, opened, crashes>>

ReadyMark(u) ==
    /\ At(Ready(u), "mark")
    /\ ready' = ready \cup {u}
    /\ Goto(Ready(u), "count")
    /\ UNCHANGED <<status, started, keys, memory, env>>

\* Slip: one ready user is enough.
EnoughAlone == Cardinality(ready) >= 1

Enough == Cardinality(ready) >= 2

\* The count is fresh, the status it is combined with is not.
ReadyCount(u) ==
    /\ At(Ready(u), "count")
    /\ IF Enough /\ thread[Ready(u)].seen \in {"MATCHED", "CONNECTING"}
       THEN Goto(Ready(u), "connect") ELSE Return(Ready(u))
    /\ UNCHANGED <<db, keys, memory, env>>

ReadyConnect(u) ==
    /\ At(Ready(u), "connect")
    /\ status' = "CONNECTING"
    /\ Goto(Ready(u), "activate")
    /\ UNCHANGED <<started, ready, keys, memory, env>>

-----------------------------------------------------------------------------
(* The countdown timer and the cron pass.                                  *)
TimerFires ==
    /\ timer /\ At(Timer, "idle")
    /\ timer' = FALSE
    /\ Goto(Timer, "activate")
    /\ UNCHANGED <<db, keys, grace, env>>

\* processCountdownTransitions; whether the deadline has passed is left open.
CronCountdown ==
    /\ At(Cron, "idle") /\ status = "CONNECTING"
    /\ Goto(Cron, "deadline")
    /\ UNCHANGED <<db, keys, memory, env>>

CronDeadline ==
    /\ At(Cron, "deadline")
    /\ IF countdown THEN Goto(Cron, "activate") ELSE Return(Cron)
    /\ UNCHANGED <<db, keys, memory, env>>

\* Slip: only interviews with a runtime are looked after.
RunningOnly == status = "ACTIVE" /\ runtime

Running == status = "ACTIVE"

\* processActiveTurnTransitions
CronTurns ==
    /\ At(Cron, "idle") /\ Running
    /\ Goto(Cron, "ensure")
    /\ UNCHANGED <<db, keys, memory, env>>

-----------------------------------------------------------------------------
(* onSocketConnected with the rejoin of the connection handler.            *)
Connect(u) ==
    /\ At(Join(u), "idle") /\ opened < MaxSockets
    /\ opened' = opened + 1
    /\ open' = [open EXCEPT ![u] = @ \cup {opened'}]
    /\ socket' = [socket EXCEPT ![u] = opened']
    /\ thread' = [thread EXCEPT ![Join(u)] = [@ EXCEPT !.pc = "clearTimer", !.sid = opened']]
    /\ UNCHANGED <<db, runtime, countdown, startLock, room, memory, elapsed, presses, ends, crashes>>

ConnectClear(u) ==
    /\ At(Join(u), "clearTimer")
    /\ grace' = [grace EXCEPT ![u] = FALSE]
    /\ IF room[u] THEN Goto(Join(u), "join") ELSE Return(Join(u))
    /\ UNCHANGED <<db, keys, timer, env>>

\* joinSession, on reconnect or sent by the client.
JoinStart(u) ==
    /\ At(Join(u), "idle") /\ open[u] # {} /\ ~ room[u]
    /\ Goto(Join(u), "join")
    /\ UNCHANGED <<db, keys, memory, env>>

JoinRead(u) ==
    /\ At(Join(u), "join")
    /\ Read(Join(u), "enter")
    /\ UNCHANGED <<db, keys, memory, env>>

JoinEnter(u) ==
    /\ At(Join(u), "enter")
    /\ room' = [room EXCEPT ![u] = TRUE]
    /\ IF thread[Join(u)].seen = "ACTIVE" THEN Goto(Join(u), "ensure") ELSE Return(Join(u))
    /\ UNCHANGED <<db, runtime, countdown, startLock, socket, memory, env>>

-----------------------------------------------------------------------------
(* onSocketDisconnected, and finalizeDisconnect 8 seconds later.  The      *)
(* connection handler registers the listener only after its last await.    *)
Listening(u, sid) == At(Join(u), "idle") \/ thread[Join(u)].sid # sid

Unnoticed(u, sid) ==
    /\ ~ Listening(u, sid)
    /\ open' = [open EXCEPT ![u] = @ \ {sid}]
    /\ UNCHANGED <<db, keys, memory, thread, elapsed, presses, ends, opened, crashes>>

Disconnect(u, sid) ==
    /\ At(Drop(u), "idle") /\ Listening(u, sid)
    /\ open' = [open EXCEPT ![u] = @ \ {sid}]
    /\ thread' = [thread EXCEPT ![Drop(u)] = [@ EXCEPT !.pc = "dropped", !.sid = sid]]
    /\ UNCHANGED <<db, keys, memory, elapsed, presses, ends, opened, crashes>>

DropRead(u) ==
    /\ At(Drop(u), "dropped")
    /\ Goto(Drop(u), IF socket[u] = thread[Drop(u)].sid THEN "dropKey" ELSE "dropRoom")
    /\ UNCHANGED <<db, keys, memory, env>>

DropKey(u) ==
    /\ At(Drop(u), "dropKey")
    /\ socket' = [socket EXCEPT ![u] = 0]
    /\ Goto(Drop(u), "dropRoom")
    /\ UNCHANGED <<db, runtime, countdown, startLock, room, memory, env>>

DropRoom(u) ==
    /\ At(Drop(u), "dropRoom")
    /\ IF room[u] THEN Goto(Drop(u), "dropStatus") ELSE Return(Drop(u))
    /\ UNCHANGED <<db, keys, memory, env>>

NotInProgress == status # "ACTIVE"

DropArm(u) ==
    /\ At(Drop(u), "dropStatus")
    /\ grace' = IF NotInProgress THEN [grace EXCEPT ![u] = TRUE] ELSE grace
    /\ Return(Drop(u))
    /\ UNCHANGED <<db, keys, timer, env>>

GraceFires(u) ==
    /\ grace[u] /\ At(Drop(u), "idle")
    /\ grace' = [grace EXCEPT ![u] = FALSE]
    /\ Goto(Drop(u), "finalize")
    /\ UNCHANGED <<db, keys, timer, env>>

FinalizeSocket(u) ==
    /\ At(Drop(u), "finalize")
    /\ IF socket[u] # 0 THEN Return(Drop(u)) ELSE Goto(Drop(u), "finalStatus")
    /\ UNCHANGED <<db, keys, memory, env>>

FinalizeRead(u) ==
    /\ At(Drop(u), "finalStatus")
    /\ Goto(Drop(u), IF status = "ACTIVE" THEN "abandon" ELSE "leave")
    /\ UNCHANGED <<db, keys, memory, env>>

FinalizeAbandon(u) ==
    /\ At(Drop(u), "abandon")
    /\ status' = "ABANDONED"
    /\ Goto(Drop(u), "abandonKeys")
    /\ UNCHANGED <<started, ready, keys, memory, env>>

FinalizeClear(u) ==
    /\ At(Drop(u), "abandonKeys")
    /\ runtime' = FALSE /\ countdown' = FALSE
    /\ Goto(Drop(u), "leave")
    /\ UNCHANGED <<db, startLock, socket, room, memory, env>>

FinalizeLeave(u) ==
    /\ At(Drop(u), "leave")
    /\ room' = [room EXCEPT ![u] = FALSE]
    /\ Return(Drop(u))
    /\ UNCHANGED <<db, runtime, countdown, startLock, socket, memory, env>>

-----------------------------------------------------------------------------
\* endSessionEarly
EndPress(u) ==
    /\ At(End(u), "idle") /\ ends < MaxEnds /\ open[u] # {}
    /\ ends' = ends + 1
    /\ Goto(End(u), "ensure")
    /\ UNCHANGED <<db, keys, memory, open, elapsed, presses, opened, crashes>>

TimePasses ==
    /\ started /\ ~ elapsed
    /\ elapsed' = TRUE
    /\ UNCHANGED <<db, keys, memory, thread, open, presses, ends, opened, crashes>>

\* The instance restarts: threads, timers and sockets are gone, and nobody
\* handles the disconnects.
Crash ==
    /\ crashes < MaxCrashes
    /\ crashes' = crashes + 1
    /\ thread' = [t \in Threads |-> Idle]
    /\ timer' = FALSE
    /\ grace' = [u \in Users |-> FALSE]
    /\ open' = [u \in Users |-> {}]
    /\ UNCHANGED <<db, keys, elapsed, presses, ends, opened>>

Activation(t) ==
    \/ ActivateLock(t) \/ ActivateRead(t) \/ ActivateUpdate(t) \/ ActivateFresh(t)
    \/ ActivateLookup(t) \/ ActivateRuntime(t) \/ ActivateUnkey(t) \/ ActivateRelease(t)

Runtime(t) ==
    EnsureRead(t) \/ EnsureSession(t) \/ EnsureRebuild(t) \/ CompleteClear(t) \/ CompleteUpdate(t)

ReadyCall(u) == ReadyMark(u) \/ ReadyCount(u) \/ ReadyConnect(u)
JoinCall(u) == ConnectClear(u) \/ JoinRead(u) \/ JoinEnter(u)
DropCall(u) ==
    \/ DropRead(u) \/ DropKey(u) \/ DropRoom(u) \/ DropArm(u) \/ FinalizeSocket(u)
    \/ FinalizeRead(u) \/ FinalizeAbandon(u) \/ FinalizeClear(u) \/ FinalizeLeave(u)
CronPass == CronCountdown \/ CronDeadline \/ CronTurns

\* What an instance does by itself: the next step of a thread under way, a
\* timer or the cron interval.
Proceed(t) ==
    \/ Activation(t) \/ Runtime(t)
    \/ \E u \in Users :
          \/ t = Ready(u) /\ ReadyCall(u)
          \/ t = Join(u) /\ JoinCall(u)
          \/ t = Drop(u) /\ (DropCall(u) \/ GraceFires(u))
    \/ t = Timer /\ TimerFires
    \/ t = Cron /\ CronPass

Next ==
    \/ \E t \in Threads : Proceed(t)
    \/ \E u \in Users :
          \/ ReadyRead(u) \/ JoinStart(u) \/ Connect(u) \/ EndPress(u)
          \/ \E sid \in open[u] : Disconnect(u, sid) \/ Unnoticed(u, sid)
    \/ LeaseEnd \/ TimePasses \/ Crash

Spec == Init /\ [][Next]_vars

\* Node runs what is due, leases end and time passes; users need not do
\* anything.
Fairness ==
    /\ \A t \in Threads : WF_vars(Proceed(t))
    /\ WF_vars(LeaseEnd) /\ WF_vars(TimePasses)

FairSpec == Spec /\ Fairness

-----------------------------------------------------------------------------
Pcs == {"idle", "activate", "session", "update", "fresh", "lookup", "setRuntime", "unkey",
        "release", "ensure", "ensureSession", "rebuild", "clear", "finish", "mark", "count",
        "connect", "deadline", "clearTimer", "join", "enter", "dropped", "dropKey", "dropRoom",
        "dropStatus", "finalize", "finalStatus", "abandon", "abandonKeys", "leave"}

TypeOK ==
    /\ status \in Statuses /\ started \in BOOLEAN /\ ready \subseteq Users
    /\ runtime \in BOOLEAN /\ countdown \in BOOLEAN /\ startLock \in Threads \cup {NoOne}
    /\ socket \in [Users -> 0..MaxSockets] /\ room \in [Users -> BOOLEAN]
    /\ timer \in BOOLEAN /\ grace \in [Users -> BOOLEAN]
    /\ thread \in [Threads -> [pc : Pcs, seen : Statuses, sid : 0..MaxSockets]]
    /\ open \in [Users -> SUBSET (1..MaxSockets)] /\ elapsed \in BOOLEAN
    /\ presses \in [Users -> 0..MaxReady] /\ ends \in 0..MaxEnds
    /\ opened \in 1..MaxSockets /\ crashes \in 0..MaxCrashes

(* An interview runs only for two peers who both pressed ready, and with a *)
(* start time, from which its turns are rebuilt (ensureActiveRuntimeState);*)
(* nor is there a runtime before, which endSessionEarly and                *)
(* syncEditorState take for a session in progress.                         *)
ActiveIsReady == status = "ACTIVE" \/ runtime => ready = Users /\ started

(* A countdown ends in an interview: the timer, or the cron pass if the    *)
(* instance restarts, activates the session unless it is ended before      *)
(* ("processCountdownTransitions stays as a backstop").                    *)
CountdownIsPromoted == status = "CONNECTING" /\ countdown ~> status \in {"ACTIVE"} \cup Ended

(* An interview whose runtime was lost half way through its activation     *)
(* gets it back, or is over.                                               *)
ActiveHasRuntime == status = "ACTIVE" ~> runtime \/ status # "ACTIVE"

(* No interview runs for ever: when both turns are over it is completed.   *)
InterviewEnds == status = "ACTIVE" ~> status \in Ended
=============================================================================
