---------------------------- MODULE PeerRoomProofs ----------------------------
(***************************************************************************)
(* Proofs about one peer session (PeerRoom), from either origin and for    *)
(* any number of ready presses, sockets, ends and restarts.                *)
(***************************************************************************)
EXTENDS PeerRoom, FiniteSetTheorems, TLAPS

-----------------------------------------------------------------------------
(* Type correctness: the locals of the threads, and everything else.       *)
Locals == [pc : Pcs, seen : Statuses, sid : 0..MaxSockets]

ThreadsOK == thread \in [Threads -> Locals]

DataOK ==
    /\ status \in Statuses /\ started \in BOOLEAN /\ ready \subseteq Users
    /\ runtime \in BOOLEAN /\ countdown \in BOOLEAN /\ startLock \in Threads \cup {NoOne}
    /\ socket \in [Users -> 0..MaxSockets] /\ room \in [Users -> BOOLEAN]
    /\ timer \in BOOLEAN /\ grace \in [Users -> BOOLEAN]
    /\ open \in [Users -> SUBSET (1..MaxSockets)] /\ elapsed \in BOOLEAN
    /\ presses \in [Users -> 0..MaxReady] /\ ends \in 0..MaxEnds
    /\ opened \in 1..MaxSockets /\ crashes \in 0..MaxCrashes

LEMMA TypeParts == TypeOK <=> DataOK /\ ThreadsOK
BY DEF TypeOK, DataOK, ThreadsOK, Locals

LEMMA ThreadFacts ==
    /\ \A u \in Users : {Ready(u), Join(u), End(u), Drop(u)} \subseteq Threads
    /\ Timer \in Threads /\ Cron \in Threads
BY DEF Threads, Ready, Join, End, Drop, Timer, Cron

LEMMA IdleType == Idle \in Locals /\ Idle.pc = "idle" /\ "idle" \in Pcs
BY RoomAssumption DEF Idle, Locals, Pcs, Statuses

(* Thread t goes on at label.                                              *)
Moves(t, label) == Goto(t, label) \/ Read(t, label) \/ (label = "idle" /\ Return(t))

LEMMA MoveStep ==
    ASSUME DataOK, ThreadsOK, NEW t \in Threads, NEW label \in Pcs, Moves(t, label)
    PROVE  /\ ThreadsOK'
           /\ \A q \in Threads : q # t => thread'[q] = thread[q]
           /\ thread'[t].pc = label
<1>1. thread[t] \in Locals /\ status \in Statuses
  BY DEF ThreadsOK, DataOK
<1>2. CASE Goto(t, label)
  <2> DEFINE l == [thread[t] EXCEPT !.pc = label]
  <2>1. thread' = [thread EXCEPT ![t] = l]
    BY <1>2 DEF Goto
  <2>2. l \in Locals /\ l.pc = label
    BY <1>1 DEF Locals
  <2> HIDE DEF l
  <2> QED BY <2>1, <2>2 DEF ThreadsOK
<1>3. CASE Read(t, label)
  <2> DEFINE l == [thread[t] EXCEPT !.pc = label, !.seen = status]
  <2>1. thread' = [thread EXCEPT ![t] = l]
    BY <1>3 DEF Read
  <2>2. l \in Locals /\ l.pc = label
    BY <1>1 DEF Locals
  <2> HIDE DEF l
  <2> QED BY <2>1, <2>2 DEF ThreadsOK
<1>4. CASE label = "idle" /\ Return(t)
  BY <1>4, IdleType DEF Return, ThreadsOK
<1> QED BY <1>2, <1>3, <1>4 DEF Moves

(* Every step of a thread under way is such a move.                        *)
LEMMA ActivationMoves ==
    ASSUME NEW t \in Threads, Activation(t)
    PROVE  \E label \in Pcs : Moves(t, label)
<1> {"idle", "session", "update", "lookup", "fresh", "release", "setRuntime", "unkey"} \subseteq Pcs
  BY DEF Pcs
<1>1. CASE ActivateLock(t)
  BY <1>1 DEF ActivateLock, Moves
<1>2. CASE ActivateRead(t)
  BY <1>2 DEF ActivateRead, Moves
<1>3. CASE ActivateUpdate(t)
  BY <1>3 DEF ActivateUpdate, Moves
<1>4. CASE ActivateFresh(t) \/ ActivateLookup(t)
  BY <1>4 DEF ActivateFresh, ActivateLookup, Moves
<1>5. CASE ActivateRuntime(t) \/ ActivateUnkey(t) \/ ActivateRelease(t)
  BY <1>5 DEF ActivateRuntime, ActivateUnkey, ActivateRelease, Moves
<1> QED BY <1>1, <1>2, <1>3, <1>4, <1>5 DEF Activation

LEMMA RuntimeMoves ==
    ASSUME NEW t \in Threads, Runtime(t)
    PROVE  \E label \in Pcs : Moves(t, label)
<1> {"idle", "clear", "ensureSession", "rebuild", "finish"} \subseteq Pcs
  BY DEF Pcs
<1>1. CASE EnsureRead(t)
  BY <1>1 DEF EnsureRead, WithRuntime, Moves
<1>2. CASE EnsureSession(t)
  BY <1>2 DEF EnsureSession, Moves
<1>3. CASE EnsureRebuild(t)
  BY <1>3 DEF EnsureRebuild, WithRuntime, Moves
<1>4. CASE CompleteClear(t) \/ CompleteUpdate(t)
  BY <1>4 DEF CompleteClear, CompleteUpdate, Moves
<1> QED BY <1>1, <1>2, <1>3, <1>4 DEF Runtime

LEMMA CallMoves ==
    ASSUME NEW u \in Users
    PROVE  /\ ReadyCall(u) => \E label \in Pcs : Moves(Ready(u), label)
           /\ JoinCall(u) => \E label \in Pcs : Moves(Join(u), label)
           /\ DropCall(u) \/ GraceFires(u) => \E label \in Pcs : Moves(Drop(u), label)
<1> {"idle", "count", "connect", "activate", "join", "enter", "ensure", "dropKey", "dropRoom",
     "dropStatus", "finalize", "finalStatus", "abandon", "abandonKeys", "leave"} \subseteq Pcs
  BY DEF Pcs
<1>1. ReadyCall(u) => \E label \in Pcs : Moves(Ready(u), label)
  BY DEF ReadyCall, ReadyMark, ReadyCount, ReadyConnect, Moves
<1>2. JoinCall(u) => \E label \in Pcs : Moves(Join(u), label)
  BY DEF JoinCall, ConnectClear, JoinRead, JoinEnter, Moves
<1>3. DropRead(u) \/ DropKey(u) \/ DropRoom(u) \/ DropArm(u) => \E label \in Pcs : Moves(Drop(u), label)
  BY DEF DropRead, DropKey, DropRoom, DropArm, Moves
<1>4. FinalizeSocket(u) \/ FinalizeRead(u) \/ FinalizeAbandon(u) \/ FinalizeClear(u) \/ FinalizeLeave(u)
         => \E label \in Pcs : Moves(Drop(u), label)
  BY DEF FinalizeSocket, FinalizeRead, FinalizeAbandon, FinalizeClear, FinalizeLeave, Moves
<1>5. GraceFires(u) => \E label \in Pcs : Moves(Drop(u), label)
  BY DEF GraceFires, Moves
<1> QED BY <1>1, <1>2, <1>3, <1>4, <1>5 DEF DropCall

LEMMA TimedMoves ==
    /\ TimerFires => \E label \in Pcs : Moves(Timer, label)
    /\ CronPass => \E label \in Pcs : Moves(Cron, label)
<1> {"idle", "activate", "deadline", "ensure"} \subseteq Pcs
  BY DEF Pcs
<1> QED BY DEF TimerFires, CronPass, CronCountdown, CronDeadline, CronTurns, Moves

LEMMA ProceedMoves ==
    ASSUME NEW t \in Threads, Proceed(t)
    PROVE  \E label \in Pcs : Moves(t, label)
BY ActivationMoves, RuntimeMoves, CallMoves, TimedMoves DEF Proceed

(* What a thread writes keeps its type.                                    *)
LEMMA ActivationData ==
    ASSUME DataOK, NEW t \in Threads, Activation(t)
    PROVE  DataOK'
<1>1. CASE ActivateLock(t) \/ ActivateRelease(t)
  BY <1>1 DEF DataOK, ActivateLock, ActivateRelease, db, keys, memory, env
<1>2. CASE ActivateUpdate(t)
  BY <1>2 DEF DataOK, ActivateUpdate, Statuses, db, keys, memory, env
<1>3. CASE ActivateRead(t) \/ ActivateFresh(t) \/ ActivateLookup(t)
  BY <1>3 DEF DataOK, ActivateRead, ActivateFresh, ActivateLookup, db, keys, memory, env
<1>4. CASE ActivateRuntime(t) \/ ActivateUnkey(t)
  BY <1>4 DEF DataOK, ActivateRuntime, ActivateUnkey, db, keys, memory, env
<1> QED BY <1>1, <1>2, <1>3, <1>4 DEF Activation

LEMMA RuntimeData ==
    ASSUME DataOK, NEW t \in Threads, Runtime(t)
    PROVE  DataOK'
<1>1. CASE EnsureRead(t) \/ EnsureSession(t)
  BY <1>1 DEF DataOK, EnsureRead, EnsureSession, db, keys, memory, env
<1>2. CASE EnsureRebuild(t) \/ CompleteClear(t)
  BY <1>2 DEF DataOK, EnsureRebuild, CompleteClear, db, keys, memory, env
<1>3. CASE CompleteUpdate(t)
  BY <1>3 DEF DataOK, CompleteUpdate, Outcome, Statuses, Ended, db, keys, memory, env
<1> QED BY <1>1, <1>2, <1>3 DEF Runtime

LEMMA CallData ==
    ASSUME DataOK, NEW u \in Users, ReadyCall(u) \/ JoinCall(u) \/ DropCall(u) \/ GraceFires(u)
    PROVE  DataOK'
<1>1. CASE ReadyMark(u) \/ ReadyCount(u)
  BY <1>1 DEF DataOK, ReadyMark, ReadyCount, db, keys, memory, env
<1>2. CASE ReadyConnect(u)
  BY <1>2 DEF DataOK, ReadyConnect, Statuses, keys, memory, env
<1>3. CASE ConnectClear(u)
  BY <1>3 DEF DataOK, ConnectClear, db, keys, env
<1>4. CASE JoinRead(u) \/ JoinEnter(u)
  BY <1>4 DEF DataOK, JoinRead, JoinEnter, db, keys, memory, env
<1>5. CASE DropRead(u) \/ DropKey(u) \/ DropRoom(u)
  BY <1>5, RoomAssumption DEF DataOK, DropRead, DropKey, DropRoom, db, keys, memory, env
<1>6. CASE DropArm(u) \/ GraceFires(u)
  BY <1>6 DEF DataOK, DropArm, GraceFires, db, keys, env
<1>7. CASE FinalizeSocket(u) \/ FinalizeRead(u) \/ FinalizeClear(u) \/ FinalizeLeave(u)
  BY <1>7 DEF DataOK, FinalizeSocket, FinalizeRead, FinalizeClear, FinalizeLeave, db, keys, memory, env
<1>8. CASE FinalizeAbandon(u)
  BY <1>8 DEF DataOK, FinalizeAbandon, Statuses, Ended, keys, memory, env
<1> QED BY <1>1, <1>2, <1>3, <1>4, <1>5, <1>6, <1>7, <1>8 DEF ReadyCall, JoinCall, DropCall

LEMMA ProceedData ==
    ASSUME DataOK, NEW t \in Threads, Proceed(t)
    PROVE  DataOK'
<1>1. CASE TimerFires \/ CronPass
  BY <1>1 DEF DataOK, TimerFires, CronPass, CronCountdown, CronDeadline, CronTurns, db, keys, memory, env
<1> QED BY <1>1, ActivationData, RuntimeData, CallData DEF Proceed

LEMMA TypeStep == TypeOK /\ [Next]_vars => TypeOK'
<1> SUFFICES ASSUME DataOK, ThreadsOK, [Next]_vars PROVE DataOK' /\ ThreadsOK'
    BY DEF TypeOK, DataOK, ThreadsOK, Locals
<1>1. ASSUME NEW t \in Threads, Proceed(t) PROVE DataOK' /\ ThreadsOK'
  BY <1>1, ProceedMoves, ProceedData, MoveStep
<1>2. ASSUME NEW u \in Users, ReadyRead(u) PROVE DataOK' /\ ThreadsOK'
  <2>1. DataOK'
    BY <1>2, RoomAssumption DEF DataOK, ReadyRead, db, keys, memory
  <2>2. Moves(Ready(u), "mark") /\ "mark" \in Pcs
    BY <1>2 DEF ReadyRead, Moves, Pcs
  <2> QED BY <2>1, <2>2, MoveStep, ThreadFacts
<1>3. ASSUME NEW u \in Users, JoinStart(u) PROVE DataOK' /\ ThreadsOK'
  <2>1. DataOK'
    BY <1>3 DEF DataOK, JoinStart, db, keys, memory, env
  <2>2. Moves(Join(u), "join") /\ "join" \in Pcs
    BY <1>3 DEF JoinStart, Moves, Pcs
  <2> QED BY <2>1, <2>2, MoveStep, ThreadFacts
<1>4. ASSUME NEW u \in Users, EndPress(u) PROVE DataOK' /\ ThreadsOK'
  <2>1. DataOK'
    BY <1>4, RoomAssumption DEF DataOK, EndPress, db, keys, memory
  <2>2. Moves(End(u), "ensure") /\ "ensure" \in Pcs
    BY <1>4 DEF EndPress, Moves, Pcs
  <2> QED BY <2>1, <2>2, MoveStep, ThreadFacts
<1>5. ASSUME NEW u \in Users, Connect(u) PROVE DataOK' /\ ThreadsOK'
  <2>1. opened' \in 1..MaxSockets
    BY <1>5, RoomAssumption DEF DataOK, Connect
  <2>2. DataOK'
    BY <1>5, <2>1 DEF DataOK, Connect, db, memory
  <2>3. ThreadsOK'
    <3> DEFINE l == [thread[Join(u)] EXCEPT !.pc = "clearTimer", !.sid = opened']
    <3>1. thread' = [thread EXCEPT ![Join(u)] = l]
      BY <1>5 DEF Connect
    <3>2. thread[Join(u)] \in Locals /\ opened' \in 0..MaxSockets /\ "clearTimer" \in Pcs
      BY <2>1, ThreadFacts DEF ThreadsOK, Pcs
    <3>3. l \in Locals
      BY <3>2 DEF Locals
    <3> HIDE DEF l
    <3> QED BY <3>1, <3>3 DEF ThreadsOK
  <2> QED BY <2>2, <2>3
<1>6. ASSUME NEW u \in Users, NEW sid \in open[u], Disconnect(u, sid) \/ Unnoticed(u, sid) PROVE DataOK' /\ ThreadsOK'
  <2>1. sid \in 0..MaxSockets /\ open' \in [Users -> SUBSET (1..MaxSockets)]
    BY <1>6 DEF DataOK, Disconnect, Unnoticed
  <2>2. DataOK'
    BY <1>6, <2>1 DEF DataOK, Disconnect, Unnoticed, db, keys, memory
  <2>3. CASE Disconnect(u, sid)
    <3> DEFINE l == [thread[Drop(u)] EXCEPT !.pc = "dropped", !.sid = sid]
    <3>1. thread' = [thread EXCEPT ![Drop(u)] = l]
      BY <2>3 DEF Disconnect
    <3>2. thread[Drop(u)] \in Locals /\ "dropped" \in Pcs
      BY ThreadFacts DEF ThreadsOK, Pcs
    <3>3. l \in Locals
      BY <2>1, <3>2 DEF Locals
    <3> HIDE DEF l
    <3> QED BY <2>2, <3>1, <3>3 DEF ThreadsOK
  <2>4. CASE Unnoticed(u, sid)
    BY <2>2, <2>4 DEF Unnoticed, ThreadsOK
  <2> QED BY <1>6, <2>3, <2>4
<1>7. CASE LeaseEnd \/ TimePasses
  BY <1>7 DEF LeaseEnd, TimePasses, DataOK, ThreadsOK, db, keys, memory, env
<1>8. CASE Crash
  <2>1. crashes' \in 0..MaxCrashes
    BY <1>8, RoomAssumption DEF Crash, DataOK
  <2>2. open' \in [Users -> SUBSET (1..MaxSockets)] /\ grace' \in [Users -> BOOLEAN] /\ timer' \in BOOLEAN
    BY <1>8 DEF Crash
  <2>3. DataOK'
    BY <1>8, <2>1, <2>2 DEF Crash, DataOK, db, keys
  <2>4. ThreadsOK'
    BY <1>8, IdleType DEF Crash, ThreadsOK
  <2> QED BY <2>3, <2>4
<1>9. CASE UNCHANGED vars
  BY <1>9 DEF vars, DataOK, ThreadsOK
<1> QED BY <1>1, <1>2, <1>3, <1>4, <1>5, <1>6, <1>7, <1>8, <1>9 DEF Next

LEMMA TypeInit == Init => TypeOK
<1> SUFFICES ASSUME Init PROVE DataOK /\ ThreadsOK
    BY TypeParts
<1>1. DataOK
  <2>1. /\ status \in Statuses /\ started = FALSE /\ ready \subseteq Users
        /\ countdown \in BOOLEAN /\ timer \in BOOLEAN
    BY DEF Init, Statuses
  <2>2. /\ socket \in [Users -> 0..MaxSockets] /\ open \in [Users -> SUBSET (1..MaxSockets)]
        /\ opened \in 1..MaxSockets /\ ends \in 0..MaxEnds /\ crashes \in 0..MaxCrashes
        /\ presses \in [Users -> 0..MaxReady]
    BY RoomAssumption DEF Init
  <2>3. /\ runtime = FALSE /\ startLock = NoOne /\ elapsed = FALSE
        /\ room \in [Users -> BOOLEAN] /\ grace \in [Users -> BOOLEAN]
    BY DEF Init
  <2> QED BY <2>1, <2>2, <2>3 DEF DataOK
<1>2. ThreadsOK
  BY IdleType DEF Init, ThreadsOK
<1> QED BY <1>1, <1>2

(* Type correctness of the room: in particular no status outside the       *)
(* table's, and no call that outlives its place in the code, whatever the  *)
(* calls, timers, cron passes and restarts interleave to.                  *)
THEOREM RoomTypes == Spec => []TypeOK
BY TypeInit, TypeStep, PTL DEF Spec

-----------------------------------------------------------------------------
(* ActiveIsReady needs what the threads carry: one that is about to        *)
(* activate, or has read that the countdown runs, knows that both are      *)
(* ready; one that goes for the runtime, that the session has begun.       *)
Agreed == ready = Users

ActivePcs == {"connect", "activate", "session", "update", "fresh", "lookup", "setRuntime",
              "unkey", "deadline", "rebuild"}
BegunPcs == {"lookup", "setRuntime", "rebuild"}

SessionOK ==
    /\ status \in {"CONNECTING", "ACTIVE"} \/ timer \/ runtime => Agreed
    /\ status = "ACTIVE" \/ runtime => started

ThreadOK(t) ==
    /\ thread[t].pc \in ActivePcs => Agreed
    /\ thread[t].pc \in BegunPcs => started

RoomInv == SessionOK /\ \A t \in Threads : ThreadOK(t)

(* Nobody takes back a ready press or a start.                             *)
Grows == (Agreed => Agreed') /\ (started => started')

(* A move of one thread, whose new place must be justified.                *)
LEMMA MoveKeeps ==
    ASSUME DataOK, ThreadsOK, RoomInv, Grows, SessionOK', NEW t \in Threads, NEW label \in Pcs,
           Moves(t, label), label \in ActivePcs => Agreed', label \in BegunPcs => started'
    PROVE  RoomInv'
<1>1. thread'[t].pc = label /\ \A q \in Threads : q # t => thread'[q] = thread[q]
  BY MoveStep
<1> QED BY <1>1 DEF RoomInv, ThreadOK, Grows

(* Two ready participants are all of them.                                 *)
LEMMA EnoughIsAll == DataOK /\ Enough => Agreed
<1> SUFFICES ASSUME DataOK, Enough PROVE Agreed
    OBVIOUS
<1>1. ready \in SUBSET Users /\ IsFiniteSet(Users) /\ Cardinality(Users) = 2
  BY RoomAssumption DEF DataOK
<1>2. Cardinality(ready) <= 2 /\ (2 = Cardinality(ready) => Users = ready)
  BY <1>1, FS_Subset
<1>3. Cardinality(ready) \in Nat
  BY <1>1, FS_Subset, FS_CardinalityType
<1> QED BY <1>2, <1>3 DEF Enough, Agreed

(* Most steps touch neither the session's row nor the runtime.             *)
SameSession ==
    UNCHANGED <<status, started, ready>> /\ (runtime' => runtime) /\ (timer' => timer)

LEMMA SameKeeps ==
    ASSUME SessionOK, SameSession
    PROVE  SessionOK' /\ Grows
BY DEF SessionOK, SameSession, Grows, Agreed

LEMMA ActivationKeeps ==
    ASSUME DataOK, ThreadsOK, RoomInv, NEW t \in Threads, Activation(t)
    PROVE  RoomInv'
<1> {"idle", "session", "update", "lookup", "fresh", "release", "setRuntime", "unkey"} \subseteq Pcs
  BY DEF Pcs
<1>1. SessionOK /\ ThreadOK(t)
  BY DEF RoomInv
<1>2. Agreed \/ At(t, "release")
  BY <1>1 DEF Activation, ActivateLock, ActivateRead, ActivateUpdate, ActivateFresh,
              ActivateLookup, ActivateRuntime, ActivateUnkey, ActivateRelease, At, ThreadOK, ActivePcs
<1>3. ready' = ready
  BY DEF Activation, ActivateLock, ActivateRead, ActivateUpdate, ActivateFresh,
         ActivateLookup, ActivateRuntime, ActivateUnkey, ActivateRelease, db
<1>4. CASE ActivateLock(t)
  <2>1. SameSession
    BY <1>4 DEF ActivateLock, SameSession, db
  <2>2. \E label \in {"session", "idle"} : Moves(t, label)
    BY <1>4 DEF ActivateLock, Moves
  <2>3. Agreed /\ Agreed'
    BY <1>2, <1>3, <1>4 DEF ActivateLock, At, Agreed
  <2> QED BY <1>1, <2>1, <2>2, <2>3, SameKeeps, MoveKeeps DEF BegunPcs
<1>5. CASE ActivateRead(t)
  <2>1. SameSession
    BY <1>5 DEF ActivateRead, SameSession, db, keys, memory
  <2>2. Moves(t, "update") \/ (started /\ Moves(t, "lookup"))
    BY <1>5 DEF ActivateRead, Moves
  <2>3. Agreed /\ Agreed'
    BY <1>2, <1>3, <1>5 DEF ActivateRead, At, Agreed
  <2>4. started' = started
    BY <2>1 DEF SameSession
  <2> QED BY <1>1, <2>1, <2>2, <2>3, <2>4, SameKeeps, MoveKeeps DEF BegunPcs
<1>6. CASE ActivateUpdate(t)
  <2>1. Agreed /\ Agreed'
    BY <1>2, <1>3, <1>6 DEF ActivateUpdate, At, Agreed
  <2>2. \/ status' = "ACTIVE" /\ started' = TRUE /\ Moves(t, "lookup")
        \/ UNCHANGED <<status, started>> /\ Moves(t, "fresh")
    BY <1>6 DEF ActivateUpdate, Moves
  <2>3. runtime' = runtime /\ timer' = timer
    BY <1>6 DEF ActivateUpdate, keys, memory
  <2>4. SessionOK' /\ Grows
    BY <1>1, <2>1, <2>2, <2>3 DEF SessionOK, Grows
  <2> QED BY <2>1, <2>2, <2>4, MoveKeeps DEF BegunPcs
<1>7. CASE ActivateFresh(t)
  <2>1. SameSession
    BY <1>7 DEF ActivateFresh, SameSession, db, keys, memory
  <2>2. (status = "ACTIVE" /\ Moves(t, "lookup")) \/ Moves(t, "release")
    BY <1>7 DEF ActivateFresh, Moves
  <2>3. Agreed'
    BY <1>2, <1>3, <1>7 DEF ActivateFresh, At, Agreed
  <2>4. status = "ACTIVE" => started'
    BY <1>1, <2>1 DEF SameSession, SessionOK
  <2> QED BY <1>1, <2>1, <2>2, <2>3, <2>4, SameKeeps, MoveKeeps DEF BegunPcs
<1>8. CASE ActivateLookup(t)
  <2>1. SameSession
    BY <1>8 DEF ActivateLookup, SameSession, db, keys, memory
  <2>2. Moves(t, "unkey") \/ Moves(t, "setRuntime")
    BY <1>8 DEF ActivateLookup, Moves
  <2>3. Agreed' /\ started'
    BY <1>1, <1>2, <1>3, <1>8, <2>1 DEF ActivateLookup, At, Agreed, ThreadOK, BegunPcs, SameSession
  <2> QED BY <1>1, <2>1, <2>2, <2>3, SameKeeps, MoveKeeps
<1>9. CASE ActivateRuntime(t)
  <2>1. Agreed /\ Agreed' /\ started
    BY <1>1, <1>2, <1>3, <1>9 DEF ActivateRuntime, At, Agreed, ThreadOK, BegunPcs
  <2>2. UNCHANGED <<status, started, timer>> /\ Moves(t, "unkey")
    BY <1>9 DEF ActivateRuntime, db, memory, Moves
  <2>3. SessionOK' /\ Grows
    BY <2>1, <2>2 DEF SessionOK, Grows
  <2> QED BY <2>1, <2>2, <2>3, MoveKeeps
<1>10. CASE ActivateUnkey(t) \/ ActivateRelease(t)
  <2>1. SameSession
    BY <1>10 DEF ActivateUnkey, ActivateRelease, SameSession, db, memory
  <2>2. Moves(t, "release") \/ Moves(t, "idle")
    BY <1>10 DEF ActivateUnkey, ActivateRelease, Moves
  <2>3. {"release", "idle"} \cap (ActivePcs \cup BegunPcs) = {}
    BY DEF ActivePcs, BegunPcs
  <2> QED BY <1>1, <2>1, <2>2, <2>3, SameKeeps, MoveKeeps
<1> QED BY <1>4, <1>5, <1>6, <1>7, <1>8, <1>9, <1>10 DEF Activation

LEMMA RuntimeKeeps ==
    ASSUME DataOK, ThreadsOK, RoomInv, NEW t \in Threads, Runtime(t)
    PROVE  RoomInv'
<1> {"idle", "clear", "ensureSession", "rebuild", "finish"} \subseteq Pcs
  BY DEF Pcs
<1>1. SessionOK /\ ThreadOK(t)
  BY DEF RoomInv
<1>2. {"idle", "clear", "ensureSession", "finish"} \cap (ActivePcs \cup BegunPcs) = {}
  BY DEF ActivePcs, BegunPcs
<1>3. WithRuntime(t) => \E label \in {"clear", "idle"} : Moves(t, label)
  BY DEF WithRuntime, Moves
<1>4. CASE EnsureRead(t)
  <2>1. SameSession
    BY <1>4 DEF EnsureRead, SameSession, db, keys, memory
  <2>2. \E label \in {"idle", "clear", "ensureSession"} : Moves(t, label)
    BY <1>3, <1>4 DEF EnsureRead, Moves
  <2> QED BY <1>1, <1>2, <2>1, <2>2, SameKeeps, MoveKeeps
<1>5. CASE EnsureSession(t)
  <2>1. SameSession
    BY <1>5 DEF EnsureSession, SameSession, db, keys, memory
  <2>2. \/ \E label \in {"idle", "clear"} : Moves(t, label)
        \/ InProgress /\ Moves(t, "rebuild")
    BY <1>5 DEF EnsureSession, Moves
  <2>3. InProgress => Agreed' /\ started'
    BY <1>1, <2>1 DEF InProgress, SessionOK, SameSession, Agreed
  <2> QED BY <1>1, <1>2, <2>1, <2>2, <2>3, SameKeeps, MoveKeeps
<1>6. CASE EnsureRebuild(t)
  <2>1. Agreed /\ started
    BY <1>1, <1>6 DEF EnsureRebuild, At, ThreadOK, ActivePcs, BegunPcs
  <2>2. UNCHANGED <<status, started, ready, timer>>
    BY <1>6 DEF EnsureRebuild, db, memory
  <2>3. SessionOK' /\ Grows
    BY <2>1, <2>2 DEF SessionOK, Grows, Agreed
  <2>4. \E label \in {"clear", "idle"} : Moves(t, label)
    BY <1>3, <1>6 DEF EnsureRebuild
  <2> QED BY <1>2, <2>3, <2>4, MoveKeeps
<1>7. CASE CompleteClear(t)
  <2>1. SameSession
    BY <1>7 DEF CompleteClear, SameSession, db, memory
  <2>2. Moves(t, "finish")
    BY <1>7 DEF CompleteClear, Moves
  <2> QED BY <1>1, <1>2, <2>1, <2>2, SameKeeps, MoveKeeps
<1>8. CASE CompleteUpdate(t)
  <2>1. UNCHANGED <<started, ready, runtime, timer>> /\ status' \in {status, "COMPLETED"}
    BY <1>8 DEF CompleteUpdate, Outcome, keys, memory
  <2>2. SessionOK' /\ Grows
    BY <1>1, <2>1 DEF SessionOK, Grows, Agreed
  <2>3. Moves(t, "idle")
    BY <1>8 DEF CompleteUpdate, Moves
  <2> QED BY <1>2, <2>2, <2>3, MoveKeeps
<1> QED BY <1>4, <1>5, <1>6, <1>7, <1>8 DEF Runtime

(* A ready call connects only when both are ready, now.                    *)
LEMMA ReadyKeeps ==
    ASSUME DataOK, ThreadsOK, RoomInv, NEW u \in Users, ReadyCall(u)
    PROVE  RoomInv'
<1> {"idle", "count", "connect", "activate"} \subseteq Pcs
  BY DEF Pcs
<1>1. Ready(u) \in Threads /\ SessionOK /\ ThreadOK(Ready(u))
  BY ThreadFacts DEF RoomInv
<1>2. CASE ReadyMark(u)
  <2>1. /\ UNCHANGED <<status, started, runtime, timer>> /\ ready' = ready \cup {u}
        /\ Moves(Ready(u), "count")
    BY <1>2 DEF ReadyMark, keys, memory, Moves
  <2>2. Agreed => Agreed'
    BY <2>1 DEF Agreed
  <2>3. SessionOK' /\ Grows
    BY <1>1, <2>1, <2>2 DEF SessionOK, Grows
  <2>4. "count" \notin ActivePcs \cup BegunPcs
    BY DEF ActivePcs, BegunPcs
  <2> QED BY <1>1, <2>1, <2>3, <2>4, MoveKeeps
<1>3. CASE ReadyCount(u)
  <2>1. SameSession
    BY <1>3 DEF ReadyCount, SameSession, db, keys, memory
  <2>2. (Agreed /\ Moves(Ready(u), "connect")) \/ Moves(Ready(u), "idle")
    BY <1>3, EnoughIsAll DEF ReadyCount, Moves
  <2>3. "connect" \notin BegunPcs /\ "idle" \notin ActivePcs \cup BegunPcs
    BY DEF ActivePcs, BegunPcs
  <2>4. Agreed => Agreed'
    BY <2>1 DEF SameSession, Agreed
  <2> QED BY <1>1, <2>1, <2>2, <2>3, <2>4, SameKeeps, MoveKeeps
<1>4. CASE ReadyConnect(u)
  <2>1. Agreed
    BY <1>1, <1>4 DEF ReadyConnect, At, ThreadOK, ActivePcs
  <2>2. /\ status' = "CONNECTING" /\ UNCHANGED <<started, ready, runtime, timer>>
        /\ Moves(Ready(u), "activate")
    BY <1>4 DEF ReadyConnect, keys, memory, Moves
  <2>3. SessionOK' /\ Grows /\ Agreed'
    BY <1>1, <2>1, <2>2 DEF SessionOK, Grows, Agreed
  <2>4. "activate" \notin BegunPcs
    BY DEF BegunPcs
  <2> QED BY <1>1, <2>2, <2>3, <2>4, MoveKeeps
<1> QED BY <1>2, <1>3, <1>4 DEF ReadyCall

(* Joins, disconnects and their grace timers at most end a session.        *)
LEMMA ConnectionKeeps ==
    ASSUME DataOK, ThreadsOK, RoomInv, NEW u \in Users, JoinCall(u) \/ DropCall(u) \/ GraceFires(u)
    PROVE  RoomInv'
<1> DEFINE Places == {"idle", "join", "enter", "ensure", "dropKey", "dropRoom", "dropStatus",
                      "finalize", "finalStatus", "abandon", "abandonKeys", "leave"}
<1>1. Places \subseteq Pcs /\ Places \cap (ActivePcs \cup BegunPcs) = {}
  BY DEF Pcs, ActivePcs, BegunPcs
<1>2. SessionOK /\ Join(u) \in Threads /\ Drop(u) \in Threads
  BY ThreadFacts DEF RoomInv
<1>3. ASSUME JoinCall(u) PROVE \E label \in Places : Moves(Join(u), label)
  BY <1>3 DEF JoinCall, ConnectClear, JoinRead, JoinEnter, Moves
<1>4. ASSUME DropCall(u) \/ GraceFires(u) PROVE \E label \in Places : Moves(Drop(u), label)
  <2>1. CASE DropRead(u) \/ DropKey(u) \/ DropRoom(u) \/ DropArm(u) \/ GraceFires(u)
    BY <2>1 DEF DropRead, DropKey, DropRoom, DropArm, GraceFires, Moves
  <2>2. CASE \/ FinalizeSocket(u) \/ FinalizeRead(u) \/ FinalizeAbandon(u) \/ FinalizeClear(u)
             \/ FinalizeLeave(u)
    BY <2>2 DEF FinalizeSocket, FinalizeRead, FinalizeAbandon, FinalizeClear, FinalizeLeave, Moves
  <2> QED BY <1>4, <2>1, <2>2 DEF DropCall
<1>5. SessionOK' /\ Grows
  <2>1. CASE FinalizeAbandon(u)
    <3>1. status' = "ABANDONED" /\ UNCHANGED <<started, ready, runtime, timer>>
      BY <2>1 DEF FinalizeAbandon, keys, memory
    <3> QED BY <1>2, <3>1 DEF SessionOK, Grows, Agreed
  <2>2. CASE JoinCall(u) \/ GraceFires(u)
    <3>1. SameSession
      BY <2>2 DEF JoinCall, ConnectClear, JoinRead, JoinEnter, GraceFires, SameSession, db, keys, memory
    <3> QED BY <1>2, <3>1, SameKeeps
  <2>3. CASE DropCall(u) /\ ~ FinalizeAbandon(u)
    <3>1. SameSession
      BY <2>3 DEF DropCall, DropRead, DropKey, DropRoom, DropArm, FinalizeSocket, FinalizeRead,
                  FinalizeClear, FinalizeLeave, SameSession, db, keys, memory
    <3> QED BY <1>2, <3>1, SameKeeps
  <2> QED BY <2>1, <2>2, <2>3
<1> HIDE DEF Places
<1> QED BY <1>1, <1>2, <1>3, <1>4, <1>5, MoveKeeps

(* The timer and the cron pass activate what counts down: both are ready.  *)
LEMMA TimedKeeps ==
    ASSUME DataOK, ThreadsOK, RoomInv, TimerFires \/ CronPass
    PROVE  RoomInv'
<1> {"idle", "activate", "deadline", "ensure"} \subseteq Pcs
  BY DEF Pcs
<1>1. SessionOK /\ ThreadOK(Cron) /\ Timer \in Threads /\ Cron \in Threads
  BY ThreadFacts DEF RoomInv
<1>2. SameSession
  BY DEF TimerFires, CronPass, CronCountdown, CronDeadline, CronTurns, SameSession, db, keys, memory
<1>3. Agreed => Agreed'
  BY <1>2 DEF SameSession, Agreed
<1>4. SessionOK' /\ Grows
  BY <1>1, <1>2, SameKeeps
<1>5. {"idle", "ensure"} \cap ActivePcs = {} /\ {"idle", "activate", "deadline", "ensure"} \cap BegunPcs = {}
  BY DEF ActivePcs, BegunPcs
<1>6. CASE TimerFires
  <2>1. Agreed /\ Moves(Timer, "activate")
    BY <1>1, <1>6 DEF TimerFires, SessionOK, Moves
  <2> QED BY <1>1, <1>3, <1>4, <1>5, <2>1, MoveKeeps
<1>7. CASE CronCountdown
  <2>1. Agreed /\ Moves(Cron, "deadline")
    BY <1>1, <1>7 DEF CronCountdown, SessionOK, Moves
  <2> QED BY <1>1, <1>3, <1>4, <1>5, <2>1, MoveKeeps
<1>8. CASE CronDeadline
  <2>1. Agreed /\ (Moves(Cron, "activate") \/ Moves(Cron, "idle"))
    BY <1>1, <1>8 DEF CronDeadline, At, ThreadOK, ActivePcs, Moves
  <2> QED BY <1>1, <1>3, <1>4, <1>5, <2>1, MoveKeeps
<1>9. CASE CronTurns
  <2>1. Moves(Cron, "ensure")
    BY <1>9 DEF CronTurns, Moves
  <2> QED BY <1>1, <1>4, <1>5, <2>1, MoveKeeps
<1> QED BY <1>6, <1>7, <1>8, <1>9 DEF CronPass

LEMMA RoomStep == TypeOK /\ RoomInv /\ [Next]_vars => RoomInv'
<1> SUFFICES ASSUME DataOK, ThreadsOK, RoomInv, [Next]_vars PROVE RoomInv'
    BY TypeParts
<1>a. SessionOK
  BY DEF RoomInv
<1>1. ASSUME NEW t \in Threads, Proceed(t) PROVE RoomInv'
  BY <1>1, ActivationKeeps, RuntimeKeeps, ReadyKeeps, ConnectionKeeps, TimedKeeps DEF Proceed
<1>2. ASSUME NEW u \in Users, ReadyRead(u) \/ JoinStart(u) \/ EndPress(u) PROVE RoomInv'
  <2>1. SameSession
    BY <1>2 DEF ReadyRead, JoinStart, EndPress, SameSession, db, keys, memory
  <2>2. \E t \in Threads, label \in {"mark", "join", "ensure"} : Moves(t, label)
    BY <1>2, ThreadFacts DEF ReadyRead, JoinStart, EndPress, Moves
  <2>3. {"mark", "join", "ensure"} \subseteq Pcs /\ {"mark", "join", "ensure"} \cap (ActivePcs \cup BegunPcs) = {}
    BY DEF Pcs, ActivePcs, BegunPcs
  <2> QED BY <1>a, <2>1, <2>2, <2>3, SameKeeps, MoveKeeps
<1>3. ASSUME SameSession, \A t \in Threads : thread'[t].pc \in {thread[t].pc, "idle", "clearTimer", "dropped"}
      PROVE  RoomInv'
  <2>1. SessionOK' /\ Grows
    BY <1>3, <1>a, SameKeeps
  <2>2. ASSUME NEW t \in Threads PROVE ThreadOK(t)'
    <3>1. CASE thread'[t].pc = thread[t].pc
      BY <2>1, <3>1 DEF RoomInv, ThreadOK, Grows
    <3>2. CASE thread'[t].pc \in {"idle", "clearTimer", "dropped"}
      BY <3>2 DEF ThreadOK, ActivePcs, BegunPcs
    <3> QED BY <1>3, <3>1, <3>2
  <2> QED BY <2>1, <2>2 DEF RoomInv
<1>4. ASSUME NEW u \in Users, Connect(u) PROVE RoomInv'
  <2>1. SameSession
    BY <1>4 DEF Connect, SameSession, db, memory
  <2>2. \A t \in Threads : thread'[t].pc \in {thread[t].pc, "clearTimer"}
    BY <1>4 DEF Connect, ThreadsOK, Locals
  <2> QED BY <1>3, <2>1, <2>2
<1>5. ASSUME NEW u \in Users, NEW sid, Disconnect(u, sid) \/ Unnoticed(u, sid) PROVE RoomInv'
  <2>1. SameSession
    BY <1>5 DEF Disconnect, Unnoticed, SameSession, db, keys, memory
  <2>2. \A t \in Threads : thread'[t].pc \in {thread[t].pc, "dropped"}
    BY <1>5 DEF Disconnect, Unnoticed, ThreadsOK, Locals
  <2> QED BY <1>3, <2>1, <2>2
<1>6. CASE LeaseEnd \/ TimePasses \/ UNCHANGED vars
  <2>1. SameSession /\ thread' = thread
    BY <1>6 DEF LeaseEnd, TimePasses, vars, SameSession, db, keys, memory
  <2> QED BY <1>3, <2>1
<1>7. CASE Crash
  <2>1. SameSession
    BY <1>7 DEF Crash, SameSession, db, keys
  <2>2. \A t \in Threads : thread'[t].pc = "idle"
    BY <1>7, IdleType DEF Crash
  <2> QED BY <1>3, <2>1, <2>2
<1> QED BY <1>1, <1>2, <1>4, <1>5, <1>6, <1>7 DEF Next

(* An interview runs only for two peers who both pressed ready, and with a *)
(* start time from which its turns can be rebuilt, whatever the ready      *)
(* calls, the countdown timer, the cron backstop, disconnects, ends and    *)
(* restarts interleave to (startActiveSession, ensureActiveRuntimeState).  *)
THEOREM InterviewAgreed == Spec => []ActiveIsReady
<1>1. Init => RoomInv
  <2> SUFFICES ASSUME Init PROVE RoomInv
    OBVIOUS
  <2>1. SessionOK
    BY DEF Init, SessionOK, Agreed
  <2>2. \A t \in Threads : ThreadOK(t)
    BY IdleType DEF Init, ThreadOK, ActivePcs, BegunPcs
  <2> QED BY <2>1, <2>2 DEF RoomInv
<1>2. RoomInv => ActiveIsReady
  BY DEF RoomInv, SessionOK, Agreed, ActiveIsReady
<1> QED BY <1>1, <1>2, TypeInit, TypeStep, RoomStep, PTL DEF Spec
=============================================================================
