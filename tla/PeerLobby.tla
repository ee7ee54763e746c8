------------------------------ MODULE PeerLobby ------------------------------
(***************************************************************************)
(* The live waiting room of the peer-interview service                     *)
(* (apps/p2p/src/services/matchmaking.service.ts).                         *)
(*                                                                         *)
(* Every user has booked one slot: a scheduled peer_sessions row whose     *)
(* only participant is its owner.  At slot time users press "ready"; the   *)
(* lobby matcher merges two waiting rows into one, which then counts down  *)
(* to an interview; rows nobody could be matched with are cancelled.  The  *)
(* matcher runs inside the orchestrator cycle of every instance and, on    *)
(* demand, inside markSessionReady, behind one Redis lock with a lease.    *)
(*                                                                         *)
(* A row is named by the user who booked it.  An action is the code        *)
(* between two awaits that another process can tell apart; everything a    *)
(* process carries across an await is in its locals.  The model stops at   *)
(* ACTIVE: what happens inside the room is PeerRoom's subject, and so is   *)
(* peer_user_room, which nothing in the lobby reads.                       *)
(***************************************************************************)
EXTENDS Naturals, FiniteSets

CONSTANTS
    Users,           \* users, and the session row each of them booked
    Instances,       \* server processes, each with one orchestrator timer
    Host,            \* the instance a user's socket is connected to
    NoOne,           \* an absent key or value
    Level,           \* skill level of a user
    Slot,            \* the minute a user's booking is for
    SameLevelGrace,  \* LOBBY_SAME_LEVEL_GRACE_MS, in minutes
    GiveUp,          \* LOBBY_GIVE_UP_MS
    NoShow,          \* NO_SHOW_GRACE_MS
    LeaseMayExpire,  \* may the lock's 4 second lease end under a live holder?
    MaxCalls,        \* bound: ready presses of each user
    MaxFaults,       \* bound: crashes of an instance, leases that end under a live holder
    Horizon,         \* bound: last minute at which a user may press ready
    MaxTime          \* bound: the clock stops here

ASSUME LobbyAssumption ==
    /\ NoOne \notin Users \cup Instances
    /\ Users \cap Instances = {}
    /\ Host \in [Users -> Instances]
    /\ Slot \in [Users -> Nat \ {0}]
    /\ {SameLevelGrace, GiveUp, NoShow, MaxFaults, Horizon, MaxTime} \subseteq Nat
    /\ GiveUp > 0
    /\ LeaseMayExpire \in BOOLEAN
    /\ MaxCalls \in [Users -> Nat]
    /\ MaxTime >= Horizon + GiveUp
    /\ \A u \in Users : MaxTime >= Slot[u] + NoShow

VARIABLES
    \* Postgres
    status,      \* peer_sessions.status
    parts,       \* peer_session_participants of a session: its users
    isReady,     \* the participants of a session with is_ready
    ticket,      \* peer_queue_tickets of a user: status and matched_session_id
    \* Redis; 0, FALSE and NoOne stand for an absent key
    lobbySince,  \* peer_lobby_since:<user>
    rematch,     \* peer_lobby_rematch_deadline:<session>
    countdown,   \* peer_countdown_deadline:<session>
    lock,        \* peer_scheduled_orchestrator_lock: the runner whose token it holds
    \* processes: orchestrator cycles (Instances), markSessionReady calls (Users)
    run,         \* where each one is, and its locals
    timer,       \* countdownActivationTimers: the instance that holds one
    \* environment
    now, calls, faults

db == <<status, parts, isReady, ticket>>
keys == <<lobbySince, rematch, countdown>>
env == <<now, calls, faults>>
vars == <<status, parts, isReady, ticket, lobbySince, rematch, countdown, lock,
          run, timer, now, calls, faults>>

Runners == Instances \cup Users
HostOf(r) == IF r \in Instances THEN r ELSE Host[r]

Statuses == {"PENDING", "MATCHED", "CONNECTING", "ACTIVE", "CANCELLED"}
Live == Statuses \ {"CANCELLED"}
Paired == {"MATCHED", "CONNECTING", "ACTIVE"}

MatcherPcs == {"match", "pick", "merge", "mergeKeys", "connectPair", "arm"}
TimeoutPcs == {"timeouts", "timeout", "cancelKeys", "countdown"}
LockedPcs == MatcherPcs \cup TimeoutPcs \cup {"release"}
CallPcs == {"mark", "count", "connect", "activate", "stamp", "tryLock"}
Pcs == {"idle", "unlock"} \cup LockedPcs \cup CallPcs

Lone(s) == parts[s] = {s}
SlotDue(s) == Slot[s] <= now
\* Slip: the query forgets the status.
WaitingAnyStatus(s) == Lone(s) /\ s \in isReady[s]
\* Slip: CONNECTING is left out of the states startActiveSession accepts.
ActivatableTooFew == {"MATCHED", "PENDING", "ACTIVE"}
Activatable == {"MATCHED", "CONNECTING", "PENDING", "ACTIVE"}
Waiting(s) == status[s] = "PENDING" /\ Lone(s) /\ s \in isReady[s]

(* The locals of a process:                                                *)
(*   sess, seen  a ready call's session, and the status it has read        *)
(*   at          Date.now() at the start of the running pass               *)
(*   wait        since when the waiters of the pass wait                   *)
(*   todo        the sessions its loop has not come to                     *)
(*   left        the waiters the pass has not consumed; in the timeout     *)
(*               pass, the rows that were ready when they were read        *)
(*   primary, secondary   the two sessions, or the one, a step works on    *)
Idle == [pc |-> "idle", sess |-> NoOne, seen |-> "PENDING", at |-> 0,
         wait |-> [u \in Users |-> 0], todo |-> {}, left |-> {},
         primary |-> NoOne, secondary |-> NoOne]

At(r, label) == run[r].pc = label
Goto(r, label) == run' = [run EXCEPT ![r].pc = label]
Return(r) == run' = [run EXCEPT ![r] = Idle]

Init ==
    /\ status = [s \in Users |-> "PENDING"]
    /\ parts = [s \in Users |-> {s}]
    /\ isReady = [s \in Users |-> {}]
    /\ ticket = [u \in Users |-> [status |-> "scheduled", session |-> u]]
    /\ lobbySince = [u \in Users |-> 0]
    /\ rematch = [s \in Users |-> 0]
    /\ countdown = [s \in Users |-> FALSE]
    /\ lock = NoOne
    /\ run = [r \in Runners |-> Idle]
    /\ timer = [s \in Users |-> NoOne]
    /\ now = 1
    /\ calls = [u \in Users |-> 0]
    /\ faults = 0

-----------------------------------------------------------------------------
(* startActiveSession, as one step: PeerRoom opens it up. `holder` is the  *)
(* instance that runs it, whose own countdown timer it clears.             *)
Activate(s, holder) ==
    /\ timer' = [timer EXCEPT ![s] = IF @ = holder THEN NoOne ELSE @]
    /\ IF Cardinality(parts[s]) >= 2 /\ status[s] \in Activatable
       THEN /\ status' = [status EXCEPT ![s] = "ACTIVE"]
            /\ countdown' = [countdown EXCEPT ![s] = FALSE]
            /\ rematch' = [rematch EXCEPT ![s] = 0]
       ELSE UNCHANGED <<status, countdown, rematch>>

(* markSessionReady, one await at a time.                                  *)

\* The participant row is read together with its session's status.
ReadyRead(u, s) ==
    /\ At(u, "idle") /\ calls[u] < MaxCalls[u] /\ now <= Horizon
    /\ u \in parts[s]
    /\ run' = [run EXCEPT ![u] = [Idle EXCEPT !.pc = "mark", !.sess = s, !.seen = status[s]]]
    /\ calls' = [calls EXCEPT ![u] = @ + 1]
    /\ UNCHANGED <<db, keys, lock, timer, now, faults>>

ReadyMark(u) ==
    /\ At(u, "mark")
    /\ isReady' = [isReady EXCEPT ![run[u].sess] = @ \cup {u}]
    /\ Goto(u, "count")
    /\ UNCHANGED <<status, parts, ticket, keys, lock, timer, env>>

\* readyCount is fresh, the status it is combined with is not.
ReadyCount(u) ==
    /\ At(u, "count")
    /\ LET readyCount == Cardinality(isReady[run[u].sess])
           statusRead == run[u].seen
       IN IF readyCount >= 2 /\ statusRead \in {"MATCHED", "CONNECTING"}
          THEN Goto(u, "connect")
          ELSE IF readyCount = 1 /\ statusRead \in {"PENDING", "MATCHED"} /\ SlotDue(run[u].sess)
          THEN Goto(u, "stamp")
          ELSE Return(u)
    /\ UNCHANGED <<db, keys, lock, timer, env>>

ReadyConnect(u) ==
    /\ At(u, "connect")
    /\ status' = [status EXCEPT ![run[u].sess] = "CONNECTING"]
    /\ Goto(u, "activate")
    /\ UNCHANGED <<parts, isReady, ticket, keys, lock, timer, env>>

ReadyActivate(u) ==
    /\ At(u, "activate")
    /\ Activate(run[u].sess, Host[u])
    /\ Return(u)
    /\ UNCHANGED <<parts, isReady, ticket, lobbySince, lock, env>>

ReadyStamp(u) ==
    /\ At(u, "stamp")
    /\ lobbySince' = [lobbySince EXCEPT ![u] = IF @ = 0 THEN now ELSE @]
    /\ rematch' = [rematch EXCEPT ![run[u].sess] = IF @ = 0 THEN now + GiveUp ELSE @]
    /\ Goto(u, "tryLock")
    /\ UNCHANGED <<db, countdown, lock, timer, env>>

\* "Give the lobby matcher an immediate chance": only if the lock is free.
ReadyTryLock(u) ==
    /\ At(u, "tryLock")
    /\ \/ lock = NoOne /\ lock' = u /\ Goto(u, "match")
       \/ lock # NoOne /\ UNCHANGED lock /\ Return(u)
    /\ UNCHANGED <<db, keys, timer, env>>

-----------------------------------------------------------------------------
(* The lock and the orchestrator cycle.                                    *)

\* acquireOrchestratorLock by an interval tick. processLobbyNoShows comes
\* first; its loop has a body only for a MATCHED pair with one member not
\* ready, which PairsAreReady shows never exists.
CycleStart(i) ==
    /\ At(i, "idle") /\ lock = NoOne
    /\ lock' = i
    /\ Goto(i, "match")
    /\ UNCHANGED <<db, keys, timer, env>>

\* releaseOrchestratorLock reads the token, then deletes whatever is there.
ReleaseRead(r) ==
    /\ At(r, "release")
    /\ IF lock = r THEN Goto(r, "unlock") ELSE Return(r)
    /\ UNCHANGED <<db, keys, lock, timer, env>>

ReleaseDelete(r) ==
    /\ At(r, "unlock")
    /\ lock' = NoOne
    /\ Return(r)
    /\ UNCHANGED <<db, keys, timer, env>>

LeaseEnd ==
    /\ lock # NoOne
    /\ \/ At(lock, "idle") /\ UNCHANGED faults
       \/ LeaseMayExpire /\ faults < MaxFaults /\ faults' = faults + 1
    /\ lock' = NoOne
    /\ UNCHANGED <<db, keys, run, timer, now, calls>>

-----------------------------------------------------------------------------
(* runLobbyMatcher.                                                        *)

\* Where a runner goes when its pass is over, and with fresh locals.
AfterMatcher(r) ==
    run' = [run EXCEPT ![r] = [Idle EXCEPT !.pc = IF r \in Instances THEN "timeouts" ELSE "release"]]

\* The waiting rows, and since when their users wait: a user whose stamp is
\* not written yet counts from the slot.
MatchSnapshot(r) ==
    /\ At(r, "match")
    /\ LET ready == {s \in Users : Waiting(s) /\ SlotDue(s)}
           since == [s \in Users |-> IF s \notin ready THEN 0
                                     ELSE IF lobbySince[s] # 0 THEN lobbySince[s] ELSE Slot[s]]
       IN IF Cardinality(ready) < 2
          THEN AfterMatcher(r)
          ELSE run' = [run EXCEPT ![r] = [@ EXCEPT !.pc = "pick", !.at = now, !.wait = since,
                                                  !.todo = ready, !.left = ready]]
    /\ UNCHANGED <<db, keys, lock, timer, env>>

\* Slip: ordered by most recent arrival.
LongestReversed(r, S) == {c \in S : \A d \in S : run[r].wait[c] >= run[r].wait[d]}

\* The waiters of S who have waited longest. The code breaks ties by score.
Longest(r, S) == {c \in S : \A d \in S : run[r].wait[c] <= run[r].wait[d]}

\* Slip: off by one at the end of the grace.
PastGraceLate(r, u) == run[r].at - run[r].wait[u] > SameLevelGrace

PastGrace(r, u) == run[r].at - run[r].wait[u] >= SameLevelGrace

\* The partners the pass allows for cur, the next waiter in order of arrival.
Partners(r, cur) ==
    LET available == run[r].left \ {cur}
        sameLevel == {c \in available : Level[c] = Level[cur]}
    IN IF sameLevel # {} THEN Longest(r, sameLevel)
       ELSE IF PastGrace(r, cur) THEN Longest(r, available)
       ELSE {}

\* Slip: only the current waiter is marked consumed.
ConsumedHalf(cur, partner) == {cur}

\* consumed: what one match takes out of the pass.
Consumed(cur, partner) == {cur, partner}

\* The row with the earlier slot is kept, the current waiter's on a tie.
Earlier(cur, partner) == IF Slot[cur] <= Slot[partner] THEN cur ELSE partner

MatchSkip(r, cur) ==
    /\ At(r, "pick") /\ cur \in Longest(r, run[r].todo)
    /\ Partners(r, cur) = {}
    /\ run' = [run EXCEPT ![r].todo = @ \ {cur}]
    /\ UNCHANGED <<db, keys, lock, timer, env>>

MatchPick(r, cur, partner) ==
    /\ At(r, "pick") /\ cur \in Longest(r, run[r].todo)
    /\ partner \in Partners(r, cur)
    /\ LET kept == Earlier(cur, partner)
       IN run' = [run EXCEPT ![r] = [@ EXCEPT !.pc = "merge",
              !.todo = run[r].todo \ Consumed(cur, partner),
              !.left = run[r].left \ Consumed(cur, partner),
              !.primary = kept, !.secondary = IF kept = cur THEN partner ELSE cur]]
    /\ UNCHANGED <<db, keys, lock, timer, env>>

MatchDone(r) ==
    /\ At(r, "pick") /\ run[r].todo = {}
    /\ AfterMatcher(r)
    /\ UNCHANGED <<db, keys, lock, timer, env>>

\* Slip: the copied participant row takes the column's default, not ready.
ReadyNotCarried(primary, secondary) == {primary}

\* Both participants keep the is_ready they were read with, which is true.
ReadyCarried(primary, secondary) == {primary, secondary}

\* Slip: only the ticket of the kept row is moved.
MergedTicketPrimaryOnly(t, primary, secondary) ==
    IF t.status = "scheduled" /\ t.session = primary
    THEN [status |-> "matched", session |-> primary] ELSE t

\* The open tickets of both rows now point to the merged one.
MergedTicket(t, primary, secondary) ==
    IF t.status = "scheduled" /\ t.session \in {primary, secondary}
    THEN [status |-> "matched", session |-> primary] ELSE t

\* Slip: the emptied row is left open.
MergedStatusOpen(primary, secondary) == [status EXCEPT ![primary] = "MATCHED"]

MergedStatus(primary, secondary) ==
    [status EXCEPT ![primary] = "MATCHED", ![secondary] = "CANCELLED"]

\* matchScheduledSessions: one transaction.
Merge(r) ==
    /\ At(r, "merge")
    /\ LET primary == run[r].primary
           secondary == run[r].secondary
       IN /\ secondary \notin parts[primary]
          /\ parts' = [parts EXCEPT ![primary] = @ \cup {secondary}]
          /\ isReady' = [isReady EXCEPT ![primary] = @ \cup ReadyCarried(primary, secondary)]
          /\ status' = MergedStatus(primary, secondary)
          /\ ticket' = [u \in Users |-> MergedTicket(ticket[u], primary, secondary)]
    /\ Goto(r, "mergeKeys")
    /\ UNCHANGED <<keys, lock, timer, env>>

\* The unique key on (session_id, user_id) makes it fail; an exception ends
\* the cycle, whatever it still had to do.
MergeFails(r) ==
    /\ At(r, "merge") /\ run[r].secondary \in parts[run[r].primary]
    /\ run' = [run EXCEPT ![r] = [Idle EXCEPT !.pc = "release"]]
    /\ UNCHANGED <<db, keys, lock, timer, env>>

MergeKeys(r) ==
    /\ At(r, "mergeKeys")
    /\ LET both == {run[r].primary, run[r].secondary}
       IN /\ rematch' = [s \in Users |-> IF s \in both THEN 0 ELSE rematch[s]]
          /\ lobbySince' = [u \in Users |-> IF u \in both THEN 0 ELSE lobbySince[u]]
    /\ Goto(r, "connectPair")
    /\ UNCHANGED <<db, countdown, lock, timer, env>>

\* startLobbyAutostartCountdown: both peers are in the lobby.
ConnectPair(r) ==
    /\ At(r, "connectPair")
    /\ status' = [status EXCEPT ![run[r].primary] =
                      IF @ \in {"MATCHED", "PENDING"} THEN "CONNECTING" ELSE @]
    /\ Goto(r, "arm")
    /\ UNCHANGED <<parts, isReady, ticket, keys, lock, timer, env>>

\* The deadline key, then this instance's own timer.
ArmCountdown(r) ==
    /\ At(r, "arm")
    /\ countdown' = [countdown EXCEPT ![run[r].primary] = TRUE]
    /\ timer' = [timer EXCEPT ![run[r].primary] = HostOf(r)]
    /\ run' = [run EXCEPT ![r] = [@ EXCEPT !.pc = "pick", !.primary = NoOne, !.secondary = NoOne]]
    /\ UNCHANGED <<db, lobbySince, rematch, lock, env>>

\* scheduleCountdownActivation: the timer goes off.
TimerFires(s) ==
    /\ timer[s] # NoOne
    /\ Activate(s, timer[s])
    /\ UNCHANGED <<parts, isReady, ticket, lobbySince, lock, run, env>>

-----------------------------------------------------------------------------
(* processPendingLobbyTimeouts and processCountdownTransitions.            *)

\* left keeps which of the rows were ready when they were read.
TimeoutSnapshot(i) ==
    /\ At(i, "timeouts")
    /\ LET pending == {s \in Users : status[s] = "PENDING" /\ Lone(s) /\ SlotDue(s)}
       IN run' = [run EXCEPT ![i] = [@ EXCEPT !.pc = "timeout", !.at = now, !.todo = pending,
                                             !.left = {s \in pending : s \in isReady[s]}]]
    /\ UNCHANGED <<db, keys, lock, timer, env>>

InTimeouts(i, s) == At(i, "timeout") /\ s \in run[i].todo
Entered(i, s) == s \in run[i].left

\* A waiter without a deadline gets one.
ArmGiveUp(i, s) ==
    /\ InTimeouts(i, s) /\ Entered(i, s) /\ rematch[s] = 0
    /\ rematch' = [rematch EXCEPT ![s] =
           (IF lobbySince[s] # 0 THEN lobbySince[s] ELSE run[i].at) + GiveUp]
    /\ run' = [run EXCEPT ![i].todo = @ \ {s}]
    /\ UNCHANGED <<db, lobbySince, countdown, lock, timer, env>>

NotYet(i, s) ==
    /\ InTimeouts(i, s)
    /\ IF Entered(i, s) THEN rematch[s] > run[i].at ELSE run[i].at < Slot[s] + NoShow
    /\ run' = [run EXCEPT ![i].todo = @ \ {s}]
    /\ UNCHANGED <<db, keys, lock, timer, env>>

\* Slip: only users who never came time out.
TimedOutNoShowOnly(i, s) == ~ Entered(i, s) /\ run[i].at >= Slot[s] + NoShow

\* A waiter past its deadline ("no_match_found"), a user who never came
\* ("no_show").
TimedOut(i, s) ==
    IF Entered(i, s) THEN rematch[s] # 0 /\ rematch[s] <= run[i].at
                     ELSE run[i].at >= Slot[s] + NoShow

\* Slip: a misspelt status.
CancelledTicketMisspelt(t, s) ==
    IF t.status = "scheduled" /\ t.session = s THEN [t EXCEPT !.status = "canceled"] ELSE t

CancelledTicket(t, s) ==
    IF t.status = "scheduled" /\ t.session = s THEN [t EXCEPT !.status = "cancelled"] ELSE t

\* cancelLoneLobbySession's transaction.
CancelLone(i, s) ==
    /\ InTimeouts(i, s) /\ TimedOut(i, s)
    /\ status' = [status EXCEPT ![s] = "CANCELLED"]
    /\ ticket' = [u \in Users |-> CancelledTicket(ticket[u], s)]
    /\ run' = [run EXCEPT ![i] = [@ EXCEPT !.pc = "cancelKeys", !.primary = s,
                                             !.todo = run[i].todo \ {s}]]
    /\ UNCHANGED <<parts, isReady, keys, lock, timer, env>>

CancelKeys(i) ==
    /\ At(i, "cancelKeys")
    /\ rematch' = [rematch EXCEPT ![run[i].primary] = 0]
    /\ lobbySince' = [lobbySince EXCEPT ![run[i].primary] = 0]
    /\ run' = [run EXCEPT ![i] = [@ EXCEPT !.pc = "timeout", !.primary = NoOne]]
    /\ UNCHANGED <<db, countdown, lock, timer, env>>

CountdownSnapshot(i) ==
    /\ At(i, "timeout") /\ run[i].todo = {}
    /\ run' = [run EXCEPT ![i] = [Idle EXCEPT !.pc = "countdown",
                                             !.todo = {s \in Users : status[s] = "CONNECTING"}]]
    /\ UNCHANGED <<db, keys, lock, timer, env>>

\* The countdown takes seconds: whether it is over is left open.
CountdownSkip(i, s) ==
    /\ At(i, "countdown") /\ s \in run[i].todo
    /\ run' = [run EXCEPT ![i].todo = @ \ {s}]
    /\ UNCHANGED <<db, keys, lock, timer, env>>

CountdownDue(i, s) ==
    /\ At(i, "countdown") /\ s \in run[i].todo /\ countdown[s]
    /\ run' = [run EXCEPT ![i].todo = @ \ {s}]
    /\ Activate(s, i)
    /\ UNCHANGED <<parts, isReady, ticket, lobbySince, lock, env>>

CycleEnd(i) ==
    /\ At(i, "countdown") /\ run[i].todo = {}
    /\ Goto(i, "release")
    /\ UNCHANGED <<db, keys, lock, timer, env>>

-----------------------------------------------------------------------------
\* An instance dies with its cycle, the calls it served and its timers; the
\* database and the Redis keys stay.
Crash(i) ==
    /\ faults < MaxFaults
    /\ faults' = faults + 1
    /\ run' = [r \in Runners |-> IF HostOf(r) = i THEN Idle ELSE run[r]]
    /\ timer' = [s \in Users |-> IF timer[s] = i THEN NoOne ELSE timer[s]]
    /\ UNCHANGED <<db, keys, lock, now, calls>>

\* Past the horizon the clock only lets the deadlines pass that are set.
Tick ==
    /\ now < MaxTime
    /\ now >= Horizon => /\ \A u \in Users : At(u, "idle")
                         /\ \A s \in Users : Waiting(s) => rematch[s] # 0
    /\ now' = now + 1
    /\ UNCHANGED <<db, keys, lock, run, timer, calls, faults>>

ReadyCall(u) ==
    \/ ReadyMark(u) \/ ReadyCount(u) \/ ReadyConnect(u) \/ ReadyActivate(u)
    \/ ReadyStamp(u) \/ ReadyTryLock(u)

Matcher(r) ==
    \/ MatchSnapshot(r) \/ MatchDone(r)
    \/ \E cur \in Users : MatchSkip(r, cur) \/ \E partner \in Users : MatchPick(r, cur, partner)
    \/ Merge(r) \/ MergeFails(r) \/ MergeKeys(r) \/ ConnectPair(r) \/ ArmCountdown(r)
    \/ ReleaseRead(r) \/ ReleaseDelete(r)

Timeouts(i) ==
    \/ TimeoutSnapshot(i) \/ CancelKeys(i) \/ CountdownSnapshot(i) \/ CycleEnd(i)
    \/ \E s \in Users : \/ ArmGiveUp(i, s) \/ NotYet(i, s) \/ CancelLone(i, s)
                        \/ CountdownSkip(i, s) \/ CountdownDue(i, s)

Next ==
    \/ \E u, s \in Users : ReadyRead(u, s)
    \/ \E u \in Users : ReadyCall(u)
    \/ \E r \in Runners : Matcher(r)
    \/ \E i \in Instances : CycleStart(i) \/ Timeouts(i) \/ Crash(i)
    \/ \E s \in Users : TimerFires(s)
    \/ LeaseEnd \/ Tick

Spec == Init /\ [][Next]_vars

\* Node runs what is due: an interval tick, a timer, the continuation of an
\* await. A countdown of seconds is over by one of the next cycles, so it is
\* not found running for ever. Users need not press ready, and instances need
\* not crash.
Fairness ==
    /\ \A i \in Instances : WF_vars(CycleStart(i)) /\ WF_vars(Timeouts(i))
    /\ \A r \in Runners : WF_vars(Matcher(r))
    /\ \A u \in Users : WF_vars(ReadyCall(u))
    /\ \A s \in Users : WF_vars(TimerFires(s))
    /\ \A i \in Instances, s \in Users : SF_vars(CountdownDue(i, s))
    /\ WF_vars(LeaseEnd) /\ WF_vars(Tick)

FairSpec == Spec /\ Fairness

-----------------------------------------------------------------------------
(* Types: what each table, key and local may hold.                         *)
Locals ==
    [pc : Pcs,
     sess : Users \cup {NoOne}, seen : Statuses,
     at : Nat, wait : [Users -> Nat], todo : SUBSET Users, left : SUBSET Users,
     primary : Users \cup {NoOne}, secondary : Users \cup {NoOne}]

DataOK ==
    /\ status \in [Users -> Statuses]
    /\ parts \in [Users -> SUBSET Users]
    /\ isReady \in [Users -> SUBSET Users]
    /\ ticket \in [Users -> [status : {"scheduled", "matched", "cancelled"}, session : Users]]
    /\ lobbySince \in [Users -> Nat]
    /\ rematch \in [Users -> Nat]
    /\ countdown \in [Users -> BOOLEAN]
    /\ lock \in Runners \cup {NoOne}
    /\ timer \in [Users -> Instances \cup {NoOne}]
    /\ now \in Nat /\ faults \in Nat /\ calls \in [Users -> Nat]

TypeOK == DataOK /\ run \in [Runners -> Locals]

(* "No double-matching" (markSessionReady): nobody sits in two sessions    *)
(* that can still become an interview, whatever the matcher, the timeouts  *)
(* and the ready calls interleave to.                                      *)
NoDoubleMatching ==
    \A s, t \in Users : status[s] \in Live /\ status[t] \in Live /\ parts[s] \cap parts[t] # {} => s = t

(* What the tables say about a user, as Pairing's partner.                 *)
SeatedWith(u, v) == \E s \in Users : status[s] \in Paired /\ u # v /\ parts[s] = {u, v}
PartnerOf(u) ==
    IF status[u] = "PENDING" THEN "waiting"
    ELSE IF \E v \in Users : SeatedWith(u, v) THEN CHOOSE v \in Users : SeatedWith(u, v)
    ELSE "gone"

Promise == INSTANCE Pairing WITH
    partner <- [u \in Users |-> PartnerOf(u)], Unpaired <- "waiting", Gone <- "gone"

(* The lobby implements Pairing: across all its rows, keys and runners a   *)
(* user is matched once, with one partner, at one stroke, and for good     *)
(* (matchScheduledSessions, cancelLoneLobbySession).                       *)
RefinesPairing == Promise!Spec

(* A session that left PENDING for a match has exactly its two peers, and  *)
(* both had entered the lobby: processLobbyNoShows has nothing to undo.    *)
PairsAreReady ==
    \A s \in Users : status[s] \in Paired => Cardinality(parts[s]) = 2 /\ isReady[s] = parts[s]

(* The same without the count: true even if two matchers run at once.      *)
PeersEnteredTheLobby ==
    \A s \in Users : status[s] \in Paired => Cardinality(parts[s]) >= 2 /\ isReady[s] = parts[s]

(* The ticket table tells the same story as the session table: an open     *)
(* ticket has a PENDING row, a matched one a session its user sits in and  *)
(* that was not cancelled, a cancelled one a cancelled row.                *)
TicketAgrees ==
    \A u \in Users : LET t == ticket[u] IN
        CASE t.status = "scheduled" -> t.session = u /\ status[u] = "PENDING"
          [] t.status = "matched" -> u \in parts[t.session] /\ status[t.session] \in Paired
          [] t.status = "cancelled" -> t.session = u /\ status[u] = "CANCELLED"

(* A cancelled row stays cancelled: the unconditional status writes of     *)
(* matchScheduledSessions and markSessionReady, made from a status read    *)
(* awaits earlier, never bring one back.                                   *)
CancelledIsFinal == [][\A s \in Users : status[s] = "CANCELLED" => status'[s] = "CANCELLED"]_vars

(* When a pass is over it leaves no match behind: the waiters it has not   *)
(* consumed have different levels, and one that was past the grace is the  *)
(* only one (runLobbyMatcher).                                             *)
NoPairLeftBehind ==
    \A r \in Runners : At(r, "pick") /\ run[r].todo = {} =>
        \A a, b \in run[r].left : a # b =>
            Level[a] # Level[b] /\ run[r].at - run[r].wait[a] < SameLevelGrace

(* "Same level first (longest-waiting first)": a match takes no one while  *)
(* somebody of the taker's level who waited longer than both goes free,    *)
(* and levels mix only for a waiter past the grace.                        *)
LongestWaitFirst ==
    \A r \in Runners : At(r, "merge") =>
        LET pair == {run[r].primary, run[r].secondary}
            since == run[r].wait
        IN /\ \E a \in pair : \A c \in run[r].left :
                 (\E b \in pair : Level[c] = Level[b]) => since[a] <= since[c]
           /\ \A a, b \in pair : Level[a] # Level[b] =>
                 \E c \in pair : run[r].at - since[c] >= SameLevelGrace

(* Every booking is resolved: matched, or cancelled by the give-up or the  *)
(* no-show deadline, even if an instance crashes holding the lock.         *)
PendingIsResolved == \A s \in Users : status[s] = "PENDING" ~> status[s] # "PENDING"

(* "processCountdownTransitions stays as a backstop": a countdown that is  *)
(* armed comes to an end, even if the instance with the timer crashes.     *)
(* Without an overlap of two matchers the session is ACTIVE then, as       *)
(* RefinesPairing has no way back; with one, it may have been cancelled.   *)
CountdownEnds ==
    \A s \in Users : status[s] = "CONNECTING" /\ countdown[s] ~> status[s] # "CONNECTING"
=============================================================================
