--------------------------- MODULE PeerLobbyProofs ---------------------------
(***************************************************************************)
(* Proofs about the waiting room (PeerLobby), for any users, instances,    *)
(* levels, slots and deadlines.                                            *)
(*                                                                         *)
(* Four inductive invariants.  TypeInv: the types, and whose rows a        *)
(* process may hold.  LobbyInv, as long as no lease ends under a live      *)
(* holder of the lock: one runner only rewrites rows that are PENDING      *)
(* (Exclusive), so the rows a pass carries across its awaits are still as  *)
(* it read them (PassOK); a ready call only writes the status of a row     *)
(* that was matched when it read it, and such a row stays matched          *)
(* (CallOK); a user who sits in another's row has lost the own one and     *)
(* sits in no third (RowsOK).  PassesFair: whoever a pass has gone by had  *)
(* nobody to be paired with.  EnteredInv: what the rows promise even if    *)
(* the lease ends under a matcher and two of them run at once.             *)
(***************************************************************************)
EXTENDS PeerLobby, FiniteSums, TLAPS

-----------------------------------------------------------------------------
(* Type correctness.  TypeOK alone is not inductive: a step that writes    *)
(* the row of a process's primary, secondary or sess needs it to be a row. *)
PairPcs == {"merge", "mergeKeys", "connectPair", "arm"}

JobOK(r) ==
    /\ run[r].pc \in CallPcs => run[r].sess \in Users
    /\ run[r].pc \in PairPcs \cup {"cancelKeys"} => run[r].primary \in Users
    /\ run[r].pc \in PairPcs => run[r].secondary \in Users

JobsOK == \A r \in Runners : JobOK(r)

RunOK == run \in [Runners -> Locals]

TypeInv == DataOK /\ RunOK /\ JobsOK

(* Every user and every instance runs something, on an instance.           *)
LEMMA RunnersFacts ==
    /\ Users \subseteq Runners /\ Instances \subseteq Runners
    /\ \A r \in Runners : HostOf(r) \in Instances
BY LobbyAssumption DEF Runners, HostOf

LEMMA PcFacts ==
    /\ Pcs = {"idle", "unlock"} \cup LockedPcs \cup CallPcs
    /\ LockedPcs = MatcherPcs \cup TimeoutPcs \cup {"release"}
    /\ "idle" \notin CallPcs \cup PairPcs \cup LockedPcs
    /\ "unlock" \notin CallPcs \cup PairPcs \cup LockedPcs
    /\ CallPcs \cap LockedPcs = {} /\ PairPcs \subseteq MatcherPcs
BY DEF Pcs, LockedPcs, CallPcs, PairPcs, MatcherPcs, TimeoutPcs

(* A process without work, and where it is.                                *)
LEMMA IdleType == Idle \in Locals /\ Idle.pc = "idle"
BY DEF Idle, Locals, Statuses, Pcs

(* What a step of one process does to the locals of all.                   *)
LEMMA RunStep ==
    ASSUME RunOK, NEW r \in Runners, NEW l \in Locals, run' = [run EXCEPT ![r] = l]
    PROVE  /\ RunOK'
           /\ \A q \in Runners : run'[q] = IF q = r THEN l ELSE run[q]
BY DEF RunOK

LEMMA GotoStep ==
    ASSUME RunOK, NEW r \in Runners, NEW label \in Pcs, Goto(r, label)
    PROVE  /\ RunOK'
           /\ \A q \in Runners : q # r => run'[q] = run[q]
           /\ run'[r] = [run[r] EXCEPT !.pc = label]
           /\ run'[r].pc = label
           /\ run'[r].sess = run[r].sess /\ run'[r].seen = run[r].seen
           /\ run'[r].primary = run[r].primary /\ run'[r].secondary = run[r].secondary
           /\ run'[r].todo = run[r].todo /\ run'[r].left = run[r].left
BY DEF RunOK, Goto, Locals

LEMMA ReturnStep ==
    ASSUME RunOK, NEW r \in Runners, Return(r)
    PROVE  /\ RunOK'
           /\ \A q \in Runners : q # r => run'[q] = run[q]
           /\ run'[r].pc = "idle" /\ run'[r] = Idle
BY IdleType DEF RunOK, Return

LEMMA AfterMatcherStep ==
    ASSUME RunOK, NEW r \in Runners, AfterMatcher(r)
    PROVE  /\ RunOK'
           /\ \A q \in Runners : q # r => run'[q] = run[q]
           /\ run'[r].pc \in {"timeouts", "release"}
BY IdleType, PcFacts DEF RunOK, AfterMatcher, Locals, TimeoutPcs

LEMMA TodoStep ==
    ASSUME RunOK, NEW r \in Runners, NEW s, run' = [run EXCEPT ![r].todo = @ \ {s}]
    PROVE  /\ RunOK'
           /\ \A q \in Runners : q # r => run'[q] = run[q]
           /\ run'[r].pc = run[r].pc
           /\ run'[r].sess = run[r].sess /\ run'[r].seen = run[r].seen
           /\ run'[r].primary = run[r].primary /\ run'[r].secondary = run[r].secondary
           /\ run'[r].todo = run[r].todo \ {s} /\ run'[r].left = run[r].left
BY DEF RunOK, Locals

(* Only the process that moved can break its own obligations.              *)
LEMMA JobsStep ==
    ASSUME JobsOK, NEW r \in Runners, \A q \in Runners : q # r => run'[q] = run[q], JobOK(r)'
    PROVE  JobsOK'
BY DEF JobsOK, JobOK

LEMMA ActivateType ==
    ASSUME DataOK, NEW s \in Users, NEW holder, Activate(s, holder)
    PROVE  /\ status' \in [Users -> Statuses] /\ countdown' \in [Users -> BOOLEAN]
           /\ rematch' \in [Users -> Nat] /\ timer' \in [Users -> Instances \cup {NoOne}]
<1>1. status' \in [Users -> Statuses]
  BY DEF DataOK, Activate, Statuses
<1>2. rematch' \in [Users -> Nat] /\ timer' \in [Users -> Instances \cup {NoOne}]
  BY DEF DataOK, Activate
<1>3. countdown' \in [Users -> BOOLEAN]
  <2>1. countdown' = countdown \/ countdown' = [countdown EXCEPT ![s] = FALSE]
    BY DEF Activate
  <2>2. [countdown EXCEPT ![s] = FALSE] \in [Users -> BOOLEAN]
    BY DEF DataOK
  <2> QED BY <2>1, <2>2 DEF DataOK
<1> QED BY <1>1, <1>2, <1>3

(* Every step keeps the types.                                             *)
LEMMA TypeInvStep == TypeInv /\ [Next]_vars => TypeInv'
<1> SUFFICES ASSUME DataOK, RunOK, JobsOK, [Next]_vars PROVE TypeInv'
    BY DEF TypeInv
<1>1. ASSUME NEW u \in Users, NEW s \in Users, ReadyRead(u, s)
     PROVE  TypeInv'
  <2>1. DataOK'
    BY <1>1, LobbyAssumption, RunnersFacts DEF DataOK, ReadyRead, db, keys, env
  <2> DEFINE l == [Idle EXCEPT !.pc = "mark", !.sess = s, !.seen = status[s]]
  <2>2. run' = [run EXCEPT ![u] = l]
    BY <1>1 DEF ReadyRead
  <2>3. l \in Locals
    BY IdleType, RunnersFacts, PcFacts DEF RunOK, DataOK, Locals, CallPcs
  <2>4. JobOK(u)'
    BY <2>2, <2>3, RunStep, IdleType, RunnersFacts DEF RunOK, Locals, JobOK, CallPcs, PairPcs
  <2> HIDE DEF l
  <2>5. RunOK' /\ \A q \in Runners : q # u => run'[q] = run[q]
    BY <2>2, <2>3, RunnersFacts DEF RunOK
  <2> QED BY <2>1, <2>4, <2>5, JobsStep, RunnersFacts DEF TypeInv
<1>2. ASSUME NEW u \in Users, ReadyMark(u)
     PROVE  TypeInv'
  <2>1. DataOK'
    BY <1>2, LobbyAssumption, RunnersFacts DEF DataOK, ReadyMark, db, keys, env, JobsOK, JobOK, At, CallPcs
  <2>2. Goto(u, "count") /\ "count" \in Pcs
    BY <1>2, PcFacts DEF ReadyMark, CallPcs, MatcherPcs
  <2>3. JobOK(u)'
    BY <1>2, <2>2, GotoStep, RunnersFacts DEF ReadyMark, JobsOK, JobOK, At, CallPcs, PairPcs
  <2> QED BY <2>1, <2>2, <2>3, GotoStep, JobsStep, RunnersFacts DEF TypeInv
<1>3. ASSUME NEW u \in Users, ReadyCount(u)
     PROVE  TypeInv'
  <2>1. DataOK'
    BY <1>3 DEF DataOK, ReadyCount, db, keys, env
  <2>2. \/ Goto(u, "connect")
        \/ Goto(u, "stamp")
        \/ Return(u)
    BY <1>3 DEF ReadyCount
  <2>3. run[u].sess \in Users /\ {"connect", "stamp"} \subseteq Pcs
    BY <1>3, RunnersFacts, PcFacts DEF ReadyCount, At, JobsOK, JobOK, CallPcs
  <2>4. CASE Return(u)
    BY <2>1, <2>4, ReturnStep, JobsStep, RunnersFacts DEF TypeInv, JobOK, CallPcs, PairPcs
  <2>5. CASE Goto(u, "connect")
    <3>1. JobOK(u)'
      BY <2>3, <2>5, GotoStep, RunnersFacts DEF JobOK, CallPcs, PairPcs
    <3> QED BY <2>1, <2>3, <2>5, <3>1, GotoStep, JobsStep, RunnersFacts DEF TypeInv
  <2>6. CASE Goto(u, "stamp")
    <3>1. JobOK(u)'
      BY <2>3, <2>6, GotoStep, RunnersFacts DEF JobOK, CallPcs, PairPcs
    <3> QED BY <2>1, <2>3, <2>6, <3>1, GotoStep, JobsStep, RunnersFacts DEF TypeInv
  <2> QED BY <2>2, <2>4, <2>5, <2>6
<1>4. ASSUME NEW u \in Users, ReadyConnect(u)
     PROVE  TypeInv'
  <2>1. DataOK'
    BY <1>4, LobbyAssumption, RunnersFacts DEF DataOK, ReadyConnect, db, keys, env, Statuses, JobsOK, JobOK, At, CallPcs
  <2>2. Goto(u, "activate") /\ "activate" \in Pcs
    BY <1>4, PcFacts DEF ReadyConnect, CallPcs, MatcherPcs
  <2>3. JobOK(u)'
    BY <1>4, <2>2, GotoStep, RunnersFacts DEF ReadyConnect, JobsOK, JobOK, At, CallPcs, PairPcs
  <2> QED BY <2>1, <2>2, <2>3, GotoStep, JobsStep, RunnersFacts DEF TypeInv
<1>5. ASSUME NEW u \in Users, ReadyActivate(u)
     PROVE  TypeInv'
  <2>1. DataOK'
    BY <1>5, ActivateType, RunnersFacts DEF ReadyActivate, DataOK, env, JobsOK, JobOK, At, CallPcs
  <2>2. Return(u)
    BY <1>5 DEF ReadyActivate
  <2> QED BY <2>1, <2>2, ReturnStep, JobsStep, RunnersFacts DEF TypeInv, JobOK, CallPcs, PairPcs
<1>6. ASSUME NEW u \in Users, ReadyStamp(u)
     PROVE  TypeInv'
  <2>1. DataOK'
    BY <1>6, LobbyAssumption, RunnersFacts DEF DataOK, ReadyStamp, db, keys, env, JobsOK, JobOK, At, CallPcs
  <2>2. Goto(u, "tryLock") /\ "tryLock" \in Pcs
    BY <1>6, PcFacts DEF ReadyStamp, CallPcs, MatcherPcs
  <2>3. JobOK(u)'
    BY <1>6, <2>2, GotoStep, RunnersFacts DEF ReadyStamp, JobsOK, JobOK, At, CallPcs, PairPcs
  <2> QED BY <2>1, <2>2, <2>3, GotoStep, JobsStep, RunnersFacts DEF TypeInv
<1>7. ASSUME NEW u \in Users, ReadyTryLock(u)
     PROVE  TypeInv'
  <2>1. DataOK'
    BY <1>7, LobbyAssumption, RunnersFacts DEF DataOK, ReadyTryLock, db, keys, env
  <2>2. Goto(u, "match") \/ Return(u)
    BY <1>7 DEF ReadyTryLock
  <2>3. CASE Goto(u, "match")
    <3>1. "match" \in Pcs
      BY PcFacts DEF MatcherPcs
    <3>2. JobOK(u)'
      BY <2>3, <3>1, GotoStep, RunnersFacts DEF JobOK, CallPcs, PairPcs
    <3> QED BY <2>1, <2>3, <3>1, <3>2, GotoStep, JobsStep, RunnersFacts DEF TypeInv
  <2>4. CASE Return(u)
    BY <2>1, <2>4, ReturnStep, JobsStep, RunnersFacts DEF TypeInv, JobOK, CallPcs, PairPcs
  <2> QED BY <2>2, <2>3, <2>4
<1>9. ASSUME NEW i \in Instances, CycleStart(i)
     PROVE  TypeInv'
  <2>1. DataOK'
    BY <1>9, LobbyAssumption, RunnersFacts DEF DataOK, CycleStart, db, keys, env
  <2>2. Goto(i, "match") /\ "match" \in Pcs
    BY <1>9, PcFacts DEF CycleStart, CallPcs, MatcherPcs
  <2>3. JobOK(i)'
    BY <1>9, <2>2, GotoStep, RunnersFacts DEF CycleStart, JobsOK, JobOK, At, CallPcs, PairPcs
  <2> QED BY <2>1, <2>2, <2>3, GotoStep, JobsStep, RunnersFacts DEF TypeInv
<1>10. ASSUME NEW r \in Runners, ReleaseRead(r)
     PROVE  TypeInv'
  <2>1. DataOK'
    BY <1>10, LobbyAssumption, RunnersFacts DEF DataOK, ReleaseRead, db, keys, env
  <2>2. Goto(r, "unlock") \/ Return(r)
    BY <1>10 DEF ReleaseRead
  <2>3. CASE Goto(r, "unlock")
    <3>1. "unlock" \in Pcs
      BY PcFacts DEF MatcherPcs
    <3>2. JobOK(r)'
      BY <2>3, <3>1, GotoStep, RunnersFacts DEF JobOK, CallPcs, PairPcs
    <3> QED BY <2>1, <2>3, <3>1, <3>2, GotoStep, JobsStep, RunnersFacts DEF TypeInv
  <2>4. CASE Return(r)
    BY <2>1, <2>4, ReturnStep, JobsStep, RunnersFacts DEF TypeInv, JobOK, CallPcs, PairPcs
  <2> QED BY <2>2, <2>3, <2>4
<1>11. ASSUME NEW r \in Runners, ReleaseDelete(r)
     PROVE  TypeInv'
  <2>1. DataOK'
    BY <1>11, LobbyAssumption, RunnersFacts DEF DataOK, ReleaseDelete, db, keys, env
  <2>2. Return(r)
    BY <1>11 DEF ReleaseDelete
  <2> QED BY <2>1, <2>2, ReturnStep, JobsStep, RunnersFacts DEF TypeInv, JobOK, CallPcs, PairPcs
<1>12. ASSUME LeaseEnd
     PROVE  TypeInv'
  BY <1>12 DEF LeaseEnd, db, keys, env, TypeInv, DataOK, RunOK, JobsOK, JobOK
<1>13. ASSUME NEW r \in Runners, MatchSnapshot(r)
     PROVE  TypeInv'
  <2>1. DataOK'
    BY <1>13 DEF DataOK, MatchSnapshot, db, keys, env
  <2> DEFINE ready == {s \in Users : Waiting(s) /\ SlotDue(s)}
             since == [s \in Users |-> IF s \notin ready THEN 0
                                       ELSE IF lobbySince[s] # 0 THEN lobbySince[s] ELSE Slot[s]]
             l == [run[r] EXCEPT !.pc = "pick", !.at = now, !.wait = since,
                                 !.todo = ready, !.left = ready]
  <2>2. AfterMatcher(r) \/ run' = [run EXCEPT ![r] = l]
    BY <1>13 DEF MatchSnapshot
  <2>3. CASE AfterMatcher(r)
    BY <2>1, <2>3, AfterMatcherStep, JobsStep, PcFacts DEF TypeInv, JobOK, CallPcs, PairPcs
  <2>4. CASE run' = [run EXCEPT ![r] = l]
    <3>1. since \in [Users -> Nat]
      BY LobbyAssumption DEF DataOK
    <3>2. now \in Nat /\ ready \subseteq Users /\ "pick" \in Pcs
      BY PcFacts DEF DataOK, MatcherPcs
    <3> HIDE DEF ready, since
    <3>3. l \in Locals /\ l.pc = "pick"
      BY <3>1, <3>2 DEF RunOK, Locals
    <3> HIDE DEF l
    <3>4. RunOK' /\ run'[r] = l /\ \A q \in Runners : q # r => run'[q] = run[q]
      BY <2>4, <3>3 DEF RunOK
    <3>5. JobOK(r)'
      BY <3>3, <3>4 DEF JobOK, CallPcs, PairPcs
    <3> QED BY <2>1, <3>4, <3>5, JobsStep DEF TypeInv
  <2> QED BY <2>2, <2>3, <2>4
<1>14. ASSUME NEW r \in Runners, NEW cur \in Users, MatchSkip(r, cur)
     PROVE  TypeInv'
  <2>1. DataOK'
    BY <1>14, LobbyAssumption, RunnersFacts DEF DataOK, MatchSkip, db, keys, env
  <2>2. run' = [run EXCEPT ![r].todo = @ \ {cur}]
    BY <1>14 DEF MatchSkip
  <2>3. JobOK(r)'
    BY <2>2, TodoStep, RunnersFacts DEF JobsOK, JobOK
  <2> QED BY <2>1, <2>2, <2>3, TodoStep, JobsStep, RunnersFacts DEF TypeInv
<1>15. ASSUME NEW r \in Runners, NEW cur \in Users, NEW partner \in Users, MatchPick(r, cur, partner)
     PROVE  TypeInv'
  <2>1. DataOK'
    BY <1>15 DEF DataOK, MatchPick, db, keys, env
  <2> DEFINE kept == Earlier(cur, partner)
             other == IF kept = cur THEN partner ELSE cur
             l == [run[r] EXCEPT !.pc = "merge", !.todo = run[r].todo \ Consumed(cur, partner),
                                 !.left = run[r].left \ Consumed(cur, partner),
                                 !.primary = kept, !.secondary = other]
  <2>2. run' = [run EXCEPT ![r] = l]
    BY <1>15 DEF MatchPick
  <2>3. kept \in Users /\ other \in Users /\ "merge" \in Pcs
    BY PcFacts DEF Earlier, MatcherPcs
  <2> HIDE DEF kept, other
  <2>4. l \in Locals /\ l.pc = "merge" /\ l.primary = kept /\ l.secondary = other
    BY <2>3 DEF RunOK, Locals
  <2> HIDE DEF l
  <2>5. RunOK' /\ run'[r] = l /\ \A q \in Runners : q # r => run'[q] = run[q]
    BY <2>2, <2>4 DEF RunOK
  <2>6. JobOK(r)'
    BY <2>3, <2>4, <2>5 DEF JobOK, CallPcs
  <2> QED BY <2>1, <2>5, <2>6, JobsStep DEF TypeInv
<1>16. ASSUME NEW r \in Runners, MatchDone(r)
     PROVE  TypeInv'
  <2>1. DataOK'
    BY <1>16 DEF DataOK, MatchDone, db, keys, env
  <2>2. AfterMatcher(r)
    BY <1>16 DEF MatchDone
  <2> QED BY <2>1, <2>2, AfterMatcherStep, JobsStep DEF TypeInv, JobOK, CallPcs, PairPcs
<1>17. ASSUME NEW r \in Runners, Merge(r)
     PROVE  TypeInv'
  <2>1. DataOK'
    <3>1. run[r].primary \in Users /\ run[r].secondary \in Users
      BY <1>17 DEF Merge, At, JobsOK, JobOK, PairPcs
    <3>2. status' \in [Users -> Statuses] /\ parts' \in [Users -> SUBSET Users]
          /\ isReady' \in [Users -> SUBSET Users]
      BY <1>17, <3>1 DEF Merge, MergedStatus, ReadyCarried, DataOK, Statuses
    <3>3. \A t \in [status : {"scheduled", "matched", "cancelled"}, session : Users] :
             MergedTicket(t, run[r].primary, run[r].secondary)
                \in [status : {"scheduled", "matched", "cancelled"}, session : Users]
      BY <3>1 DEF MergedTicket
    <3>4. ticket' \in [Users -> [status : {"scheduled", "matched", "cancelled"}, session : Users]]
      BY <1>17, <3>3 DEF Merge, DataOK
    <3> QED BY <1>17, <3>2, <3>4 DEF Merge, DataOK, keys, env
  <2>2. Goto(r, "mergeKeys") /\ "mergeKeys" \in Pcs
    BY <1>17, PcFacts DEF Merge, CallPcs, MatcherPcs
  <2>3. JobOK(r)'
    BY <1>17, <2>2, GotoStep, RunnersFacts DEF Merge, JobsOK, JobOK, At, CallPcs, PairPcs
  <2> QED BY <2>1, <2>2, <2>3, GotoStep, JobsStep, RunnersFacts DEF TypeInv
<1>18. ASSUME NEW r \in Runners, MergeFails(r)
     PROVE  TypeInv'
  <2>1. DataOK'
    BY <1>18, LobbyAssumption, RunnersFacts DEF DataOK, MergeFails, db, keys, env
  <2> DEFINE l == [Idle EXCEPT !.pc = "release"]
  <2>2. run' = [run EXCEPT ![r] = l]
    BY <1>18 DEF MergeFails
  <2>3. l \in Locals
    BY IdleType, RunnersFacts, PcFacts DEF RunOK, DataOK, Locals
  <2>4. JobOK(r)'
    BY <2>2, <2>3, RunStep, IdleType, RunnersFacts DEF RunOK, Locals, JobOK, CallPcs, PairPcs
  <2> HIDE DEF l
  <2>5. RunOK' /\ \A q \in Runners : q # r => run'[q] = run[q]
    BY <2>2, <2>3, RunnersFacts DEF RunOK
  <2> QED BY <2>1, <2>4, <2>5, JobsStep, RunnersFacts DEF TypeInv
<1>19. ASSUME NEW r \in Runners, MergeKeys(r)
     PROVE  TypeInv'
  <2>1. DataOK'
    BY <1>19, LobbyAssumption, RunnersFacts DEF DataOK, MergeKeys, db, keys, env, JobsOK, JobOK, At, PairPcs
  <2>2. Goto(r, "connectPair") /\ "connectPair" \in Pcs
    BY <1>19, PcFacts DEF MergeKeys, CallPcs, MatcherPcs
  <2>3. JobOK(r)'
    BY <1>19, <2>2, GotoStep, RunnersFacts DEF MergeKeys, JobsOK, JobOK, At, CallPcs, PairPcs
  <2> QED BY <2>1, <2>2, <2>3, GotoStep, JobsStep, RunnersFacts DEF TypeInv
<1>20. ASSUME NEW r \in Runners, ConnectPair(r)
     PROVE  TypeInv'
  <2>1. DataOK'
    BY <1>20, LobbyAssumption, RunnersFacts DEF DataOK, ConnectPair, db, keys, env, Statuses
  <2>2. Goto(r, "arm") /\ "arm" \in Pcs
    BY <1>20, PcFacts DEF ConnectPair, CallPcs, MatcherPcs
  <2>3. JobOK(r)'
    BY <1>20, <2>2, GotoStep, RunnersFacts DEF ConnectPair, JobsOK, JobOK, At, CallPcs, PairPcs
  <2> QED BY <2>1, <2>2, <2>3, GotoStep, JobsStep, RunnersFacts DEF TypeInv
<1>21. ASSUME NEW r \in Runners, ArmCountdown(r)
     PROVE  TypeInv'
  <2>1. DataOK'
    BY <1>21, LobbyAssumption, RunnersFacts DEF DataOK, ArmCountdown, db, keys, env
  <2> DEFINE l == [run[r] EXCEPT !.pc = "pick", !.primary = NoOne, !.secondary = NoOne]
  <2>2. run' = [run EXCEPT ![r] = l]
    BY <1>21 DEF ArmCountdown
  <2>3. l \in Locals
    BY IdleType, RunnersFacts, PcFacts DEF RunOK, DataOK, Locals, MatcherPcs
  <2>4. JobOK(r)'
    BY <2>2, <2>3, RunStep, IdleType, RunnersFacts DEF RunOK, Locals, JobOK, CallPcs, PairPcs
  <2> HIDE DEF l
  <2>5. RunOK' /\ \A q \in Runners : q # r => run'[q] = run[q]
    BY <2>2, <2>3, RunnersFacts DEF RunOK
  <2> QED BY <2>1, <2>4, <2>5, JobsStep, RunnersFacts DEF TypeInv
<1>22. ASSUME NEW s \in Users, TimerFires(s)
     PROVE  TypeInv'
  <2>1. DataOK'
    BY <1>22, ActivateType DEF TimerFires, DataOK, env
  <2>2. RunOK' /\ JobsOK'
    BY <1>22 DEF TimerFires, RunOK, JobsOK, JobOK
  <2> QED BY <2>1, <2>2 DEF TypeInv
<1>23. ASSUME NEW i \in Instances, TimeoutSnapshot(i)
     PROVE  TypeInv'
  <2>1. DataOK'
    BY <1>23 DEF DataOK, TimeoutSnapshot, db, keys, env
  <2> DEFINE pending == {s \in Users : status[s] = "PENDING" /\ Lone(s) /\ SlotDue(s)}
             entered == {s \in pending : s \in isReady[s]}
             l == [run[i] EXCEPT !.pc = "timeout", !.at = now, !.todo = pending, !.left = entered]
  <2>2. run' = [run EXCEPT ![i] = l]
    BY <1>23 DEF TimeoutSnapshot
  <2>3. now \in Nat /\ pending \subseteq Users /\ entered \subseteq Users /\ "timeout" \in Pcs
        /\ run[i] \in Locals
    BY PcFacts, RunnersFacts DEF DataOK, RunOK, TimeoutPcs
  <2> HIDE DEF pending, entered
  <2>4. l \in Locals /\ l.pc = "timeout"
    BY <2>3 DEF Locals
  <2> HIDE DEF l
  <2>5. RunOK' /\ run'[i] = l /\ \A q \in Runners : q # i => run'[q] = run[q]
    BY <2>2, <2>4, RunnersFacts DEF RunOK
  <2>6. JobOK(i)'
    BY <2>4, <2>5 DEF JobOK, CallPcs, PairPcs
  <2> QED BY <2>1, <2>5, <2>6, JobsStep, RunnersFacts DEF TypeInv
<1>24. ASSUME NEW i \in Instances, NEW s \in Users, ArmGiveUp(i, s)
     PROVE  TypeInv'
  <2>1. DataOK'
    <3>1. run[i].at \in Nat /\ GiveUp \in Nat
      BY LobbyAssumption, RunnersFacts DEF RunOK, Locals
    <3>2. rematch' \in [Users -> Nat]
      BY <1>24, <3>1 DEF ArmGiveUp, DataOK
    <3> QED BY <1>24, <3>2 DEF ArmGiveUp, DataOK, db, env
  <2>2. run' = [run EXCEPT ![i].todo = @ \ {s}]
    BY <1>24 DEF ArmGiveUp
  <2>3. JobOK(i)'
    BY <2>2, TodoStep, RunnersFacts DEF JobsOK, JobOK
  <2> QED BY <2>1, <2>2, <2>3, TodoStep, JobsStep, RunnersFacts DEF TypeInv
<1>25. ASSUME NEW i \in Instances, NEW s \in Users, NotYet(i, s)
     PROVE  TypeInv'
  <2>1. DataOK'
    BY <1>25, LobbyAssumption, RunnersFacts DEF DataOK, NotYet, db, keys, env
  <2>2. run' = [run EXCEPT ![i].todo = @ \ {s}]
    BY <1>25 DEF NotYet
  <2>3. JobOK(i)'
    BY <2>2, TodoStep, RunnersFacts DEF JobsOK, JobOK
  <2> QED BY <2>1, <2>2, <2>3, TodoStep, JobsStep, RunnersFacts DEF TypeInv
<1>26. ASSUME NEW i \in Instances, NEW s \in Users, CancelLone(i, s)
     PROVE  TypeInv'
  <2>1. DataOK'
    <3>1. \A t \in [status : {"scheduled", "matched", "cancelled"}, session : Users] :
             CancelledTicket(t, s) \in [status : {"scheduled", "matched", "cancelled"}, session : Users]
      BY DEF CancelledTicket
    <3>2. ticket' \in [Users -> [status : {"scheduled", "matched", "cancelled"}, session : Users]]
      BY <1>26, <3>1 DEF CancelLone, DataOK
    <3> QED BY <1>26, <3>2 DEF CancelLone, DataOK, keys, env, Statuses
  <2> DEFINE l == [run[i] EXCEPT !.pc = "cancelKeys", !.primary = s, !.todo = run[i].todo \ {s}]
  <2>2. run' = [run EXCEPT ![i] = l]
    BY <1>26 DEF CancelLone
  <2>3. l \in Locals
    BY IdleType, RunnersFacts, PcFacts DEF RunOK, DataOK, Locals, TimeoutPcs
  <2>4. JobOK(i)'
    BY <2>2, <2>3, RunStep, IdleType, RunnersFacts DEF RunOK, Locals, JobOK, CallPcs, PairPcs
  <2> HIDE DEF l
  <2>5. RunOK' /\ \A q \in Runners : q # i => run'[q] = run[q]
    BY <2>2, <2>3, RunnersFacts DEF RunOK
  <2> QED BY <2>1, <2>4, <2>5, JobsStep, RunnersFacts DEF TypeInv
<1>27. ASSUME NEW i \in Instances, CancelKeys(i)
     PROVE  TypeInv'
  <2>1. DataOK'
    BY <1>27, LobbyAssumption, RunnersFacts DEF DataOK, CancelKeys, db, keys, env
  <2> DEFINE l == [run[i] EXCEPT !.pc = "timeout", !.primary = NoOne]
  <2>2. run' = [run EXCEPT ![i] = l]
    BY <1>27 DEF CancelKeys
  <2>3. l \in Locals
    BY IdleType, RunnersFacts, PcFacts DEF RunOK, DataOK, Locals, TimeoutPcs
  <2>4. JobOK(i)'
    BY <2>2, <2>3, RunStep, IdleType, RunnersFacts DEF RunOK, Locals, JobOK, CallPcs, PairPcs
  <2> HIDE DEF l
  <2>5. RunOK' /\ \A q \in Runners : q # i => run'[q] = run[q]
    BY <2>2, <2>3, RunnersFacts DEF RunOK
  <2> QED BY <2>1, <2>4, <2>5, JobsStep, RunnersFacts DEF TypeInv
<1>28. ASSUME NEW i \in Instances, CountdownSnapshot(i)
     PROVE  TypeInv'
  <2>1. DataOK'
    BY <1>28, LobbyAssumption, RunnersFacts DEF DataOK, CountdownSnapshot, db, keys, env
  <2> DEFINE l == [Idle EXCEPT !.pc = "countdown", !.todo = {s \in Users : status[s] = "CONNECTING"}]
  <2>2. run' = [run EXCEPT ![i] = l]
    BY <1>28 DEF CountdownSnapshot
  <2>3. l \in Locals
    BY IdleType, RunnersFacts, PcFacts DEF RunOK, DataOK, Locals, TimeoutPcs
  <2>4. JobOK(i)'
    BY <2>2, <2>3, RunStep, IdleType, RunnersFacts DEF RunOK, Locals, JobOK, CallPcs, PairPcs
  <2> HIDE DEF l
  <2>5. RunOK' /\ \A q \in Runners : q # i => run'[q] = run[q]
    BY <2>2, <2>3, RunnersFacts DEF RunOK
  <2> QED BY <2>1, <2>4, <2>5, JobsStep, RunnersFacts DEF TypeInv
<1>29. ASSUME NEW i \in Instances, NEW s \in Users, CountdownSkip(i, s)
     PROVE  TypeInv'
  <2>1. DataOK'
    BY <1>29, LobbyAssumption, RunnersFacts DEF DataOK, CountdownSkip, db, keys, env
  <2>2. run' = [run EXCEPT ![i].todo = @ \ {s}]
    BY <1>29 DEF CountdownSkip
  <2>3. JobOK(i)'
    BY <2>2, TodoStep, RunnersFacts DEF JobsOK, JobOK
  <2> QED BY <2>1, <2>2, <2>3, TodoStep, JobsStep, RunnersFacts DEF TypeInv
<1>30. ASSUME NEW i \in Instances, NEW s \in Users, CountdownDue(i, s)
     PROVE  TypeInv'
  <2>1. DataOK'
    BY <1>30, ActivateType, RunnersFacts DEF CountdownDue, DataOK, env
  <2>2. run' = [run EXCEPT ![i].todo = @ \ {s}]
    BY <1>30 DEF CountdownDue
  <2>3. JobOK(i)'
    BY <2>2, TodoStep, RunnersFacts DEF JobsOK, JobOK
  <2> QED BY <2>1, <2>2, <2>3, TodoStep, JobsStep, RunnersFacts DEF TypeInv
<1>31. ASSUME NEW i \in Instances, CycleEnd(i)
     PROVE  TypeInv'
  <2>1. DataOK'
    BY <1>31, LobbyAssumption, RunnersFacts DEF DataOK, CycleEnd, db, keys, env
  <2>2. Goto(i, "release") /\ "release" \in Pcs
    BY <1>31, PcFacts DEF CycleEnd, CallPcs, MatcherPcs
  <2>3. JobOK(i)'
    BY <1>31, <2>2, GotoStep, RunnersFacts DEF CycleEnd, JobsOK, JobOK, At, CallPcs, PairPcs
  <2> QED BY <2>1, <2>2, <2>3, GotoStep, JobsStep, RunnersFacts DEF TypeInv
<1>32. ASSUME NEW i \in Instances, Crash(i)
     PROVE  TypeInv'
  <2>1. DataOK'
    BY <1>32 DEF DataOK, Crash, db, keys
  <2>2. RunOK' /\ JobsOK'
    BY <1>32, IdleType DEF Crash, RunOK, JobsOK, JobOK, CallPcs, PairPcs
  <2> QED BY <2>1, <2>2 DEF TypeInv
<1>33. ASSUME Tick
     PROVE  TypeInv'
  BY <1>33 DEF Tick, db, keys, TypeInv, DataOK, RunOK, JobsOK, JobOK
<1>34. CASE UNCHANGED vars
  BY <1>34 DEF vars, TypeInv, DataOK, RunOK, JobsOK, JobOK
<1> QED BY <1>1, <1>2, <1>3, <1>4, <1>5, <1>6, <1>7, <1>9, <1>10, <1>11, <1>12, <1>13, <1>14, <1>15, <1>16, <1>17, <1>18, <1>19, <1>20, <1>21, <1>22, <1>23, <1>24, <1>25, <1>26, <1>27, <1>28, <1>29, <1>30, <1>31, <1>32, <1>33, <1>34 DEF Next, ReadyCall, Matcher, Timeouts

LEMMA InitTypeInv == Init => TypeInv
<1> SUFFICES ASSUME Init PROVE TypeInv
    OBVIOUS
<1>1. DataOK
    BY LobbyAssumption DEF Init, DataOK, Statuses
<1>2. RunOK /\ JobsOK
    BY IdleType DEF Init, RunOK, JobsOK, JobOK, CallPcs, PairPcs
<1> QED BY <1>1, <1>2 DEF TypeInv

LEMMA SpecTypeInv == Spec => []TypeInv
BY InitTypeInv, TypeInvStep, PTL DEF Spec

(* TypeOK: every table, key and local keeps its type.                      *)
THEOREM TypeCorrect == Spec => []TypeOK
<1>1. TypeInv => TypeOK
  BY DEF TypeInv, TypeOK, RunOK
<1> QED BY <1>1, SpecTypeInv, PTL

-----------------------------------------------------------------------------
(* The rows, the lock and the passes.                                      *)
Locked == LockedPcs \cup {"unlock"}

Exclusive == \A r \in Runners : run[r].pc \in Locked => lock = r

RowOK(s) ==
    /\ s \in parts[s] /\ isReady[s] \subseteq parts[s]
    /\ status[s] = "PENDING" => parts[s] = {s}
    /\ status[s] \in Paired => isReady[s] = parts[s] /\ \E v \in Users \ {s} : parts[s] = {s, v}

RowsOK ==
    /\ \A s \in Users : RowOK(s)
    /\ \A s, v \in Users : v # s /\ v \in parts[s] => status[v] = "CANCELLED"
    /\ \A s, t, v \in Users : v # s /\ v # t /\ v \in parts[s] /\ v \in parts[t] => s = t

Waits(s) == status[s] = "PENDING" /\ s \in isReady[s]

PassOK(r) ==
    /\ run[r].pc \in MatcherPcs \ {"match"} =>
          run[r].todo \subseteq run[r].left /\ \A s \in run[r].left : Waits(s)
    /\ run[r].pc = "merge" =>
          /\ run[r].primary # run[r].secondary
          /\ Waits(run[r].primary) /\ Waits(run[r].secondary)
          /\ run[r].primary \notin run[r].left /\ run[r].secondary \notin run[r].left
    /\ run[r].pc \in PairPcs \ {"merge"} => status[run[r].primary] \in Paired
    /\ run[r].pc \in {"timeout", "cancelKeys"} => \A s \in run[r].todo : status[s] = "PENDING"

CallOK(r) ==
    /\ run[r].pc = "mark" => r \in parts[run[r].sess]
    /\ run[r].pc \in CallPcs /\ run[r].seen \in {"MATCHED", "CONNECTING"} =>
          status[run[r].sess] \in Paired
    /\ run[r].pc \in {"connect", "activate"} => status[run[r].sess] \in Paired

RunsOK == \A r \in Runners : PassOK(r) /\ CallOK(r)

LobbyInv == TypeInv /\ Exclusive /\ RowsOK /\ RunsOK

-----------------------------------------------------------------------------
(* Steps that leave every row the side of PENDING and Paired it is on.     *)
Stable ==
    /\ parts' = parts
    /\ \A s \in Users :
          /\ isReady[s] \subseteq isReady'[s] /\ isReady'[s] \subseteq parts[s]
          /\ status'[s] = status[s] \/ {status[s], status'[s]} \subseteq Paired

LEMMA QuietStable == ASSUME RowsOK, UNCHANGED <<status, parts, isReady>> PROVE Stable
BY DEF RowsOK, RowOK, Stable

LEMMA StableRows == ASSUME RowsOK, Stable PROVE RowsOK'
<1>1. ASSUME NEW s \in Users PROVE RowOK(s)'
  <2>1. RowOK(s) /\ parts'[s] = parts[s]
    BY DEF RowsOK, Stable
  <2>2. status'[s] = "PENDING" => status[s] = "PENDING"
    BY DEF Stable, Paired
  <2>3. status'[s] \in Paired => status[s] \in Paired /\ isReady'[s] = parts[s]
    BY <2>1 DEF Stable, RowOK
  <2>4. isReady'[s] \subseteq parts[s]
    BY DEF Stable
  <2> QED BY <2>1, <2>2, <2>3, <2>4 DEF RowOK
<1>2. \A s, v \in Users : v # s /\ v \in parts'[s] => status'[v] = "CANCELLED"
  BY DEF RowsOK, Stable, Paired
<1>3. \A s, t, v \in Users : v # s /\ v # t /\ v \in parts'[s] /\ v \in parts'[t] => s = t
  BY DEF RowsOK, Stable
<1> QED BY <1>1, <1>2, <1>3 DEF RowsOK

(* A process that did not move still knows what it knew.                   *)
LEMMA CallKept ==
    ASSUME JobsOK, NEW r \in Runners, run'[r] = run[r], CallOK(r),
           \A s \in Users : parts[s] \subseteq parts'[s] /\ (status[s] \in Paired => status'[s] \in Paired)
    PROVE  CallOK(r)'
BY DEF JobsOK, JobOK, CallOK, CallPcs

LEMMA PassKept ==
    ASSUME RunOK, JobsOK, NEW r \in Runners, run'[r] = run[r], PassOK(r), Stable
    PROVE  PassOK(r)'
<1>1. run[r].todo \subseteq Users /\ run[r].left \subseteq Users
  BY DEF RunOK, Locals
<1>2. \A s \in Users : /\ Waits(s) => Waits(s)'
                       /\ status[s] = "PENDING" => status'[s] = "PENDING"
                       /\ status[s] \in Paired => status'[s] \in Paired
  BY DEF Stable, Waits, Paired
<1>3. /\ run[r].pc \in PairPcs => run[r].primary \in Users /\ run[r].secondary \in Users
  BY DEF JobsOK, JobOK
<1>4. "merge" \in PairPcs
  BY DEF PairPcs
<1> QED BY <1>1, <1>2, <1>3, <1>4 DEF PassOK

LEMMA StableKept ==
    ASSUME LobbyInv, NEW r \in Runners, run'[r] = run[r], Stable
    PROVE  PassOK(r)' /\ CallOK(r)'
<1>1. \A s \in Users : parts[s] \subseteq parts'[s] /\ (status[s] \in Paired => status'[s] \in Paired)
  BY DEF Stable
<1> QED BY <1>1, CallKept, PassKept DEF LobbyInv, TypeInv, RunsOK

(* A step of one process that takes no lock and leaves the rows stable.    *)
LEMMA OneMoves ==
    ASSUME LobbyInv, TypeInv', Stable, lock' = lock, NEW r \in Runners,
           \A q \in Runners : q # r => run'[q] = run[q],
           run'[r].pc \in Locked => run[r].pc \in Locked,
           PassOK(r)', CallOK(r)'
    PROVE  LobbyInv'
<1>1. Exclusive'
  BY DEF LobbyInv, Exclusive
<1>2. RowsOK'
  BY StableRows DEF LobbyInv
<1>3. RunsOK'
  BY StableKept DEF RunsOK
<1> QED BY <1>1, <1>2, <1>3 DEF LobbyInv

LEMMA NoneMoves == ASSUME LobbyInv, TypeInv', Stable, lock' = lock, run' = run PROVE LobbyInv'
<1>1. Exclusive' /\ RowsOK'
  BY StableRows DEF LobbyInv, Exclusive
<1>2. RunsOK'
  BY StableKept DEF RunsOK
<1> QED BY <1>1, <1>2 DEF LobbyInv

(* A process that holds nothing and is in no ready call owes nothing.      *)
LEMMA RestOK ==
    ASSUME NEW r \in Runners, run'[r].pc \in {"idle", "match", "timeouts", "release", "unlock"}
    PROVE  PassOK(r)' /\ CallOK(r)'
BY DEF PassOK, CallOK, MatcherPcs, CallPcs, PairPcs

(* startActiveSession leaves a waiting row alone: it has one participant.  *)
LEMMA ActivateStable ==
    ASSUME TypeInv, RowsOK, NEW s \in Users, NEW holder, Activate(s, holder),
           UNCHANGED <<parts, isReady>>
    PROVE  Stable
<1>1. status[s] = "PENDING" => Cardinality(parts[s]) = 1
  <2>1. status[s] = "PENDING" => parts[s] = {s}
    BY DEF RowsOK, RowOK
  <2> QED BY <2>1, FS_Singleton
<1>2. \/ status' = status
      \/ status' = [status EXCEPT ![s] = "ACTIVE"] /\ status[s] \in Paired
  <2>1. CASE Cardinality(parts[s]) >= 2 /\ status[s] \in Activatable
    <3>1. status[s] # "PENDING"
      BY <1>1, <2>1
    <3> QED BY <2>1, <3>1 DEF Activate, Activatable, Paired
  <2>2. CASE ~ (Cardinality(parts[s]) >= 2 /\ status[s] \in Activatable)
    BY <2>2 DEF Activate
  <2> QED BY <2>1, <2>2
<1>3. status \in [Users -> Statuses]
  BY DEF TypeInv, DataOK
<1> QED BY <1>2, <1>3 DEF Stable, RowsOK, RowOK, Paired

(* Taking the lock.                                                        *)
LEMMA TakesLock ==
    ASSUME LobbyInv, lock = NoOne, NEW r \in Runners, lock' = r,
           \A q \in Runners : q # r => run'[q] = run[q]
    PROVE  Exclusive'
<1>1. NoOne \notin Runners
  BY LobbyAssumption DEF Runners
<1> QED BY <1>1 DEF LobbyInv, Exclusive

(* TodoKept: the loop of a pass moves on.                                  *)
LEMMA TodoKept ==
    ASSUME LobbyInv, Stable, NEW r \in Runners, NEW s, run' = [run EXCEPT ![r].todo = @ \ {s}]
    PROVE  PassOK(r)' /\ CallOK(r)'
<1> USE DEF LobbyInv, TypeInv
<1>1. /\ run'[r].pc = run[r].pc /\ run'[r].sess = run[r].sess /\ run'[r].seen = run[r].seen
      /\ run'[r].primary = run[r].primary /\ run'[r].secondary = run[r].secondary
      /\ run'[r].todo = run[r].todo \ {s} /\ run'[r].left = run[r].left
  BY TodoStep
<1>2. run[r].todo \subseteq Users /\ run[r].left \subseteq Users
  BY DEF RunOK, Locals
<1>3. \A t \in Users : /\ Waits(t) => Waits(t)'
                       /\ status[t] = "PENDING" => status'[t] = "PENDING"
                       /\ status[t] \in Paired => status'[t] \in Paired
  BY DEF Stable, Waits, Paired
<1>4. /\ run[r].pc \in PairPcs => run[r].primary \in Users /\ run[r].secondary \in Users
      /\ run[r].pc \in CallPcs => run[r].sess \in Users
  BY DEF JobsOK, JobOK
<1>5. "merge" \in PairPcs /\ {"mark", "connect", "activate"} \subseteq CallPcs
  BY DEF PairPcs, CallPcs
<1>6. PassOK(r) /\ CallOK(r) /\ parts' = parts
  BY DEF RunsOK, Stable
<1>7. PassOK(r)'
  BY <1>1, <1>2, <1>3, <1>4, <1>5, <1>6 DEF PassOK
<1>8. CallOK(r)'
  BY <1>1, <1>3, <1>4, <1>5, <1>6 DEF CallOK
<1> QED BY <1>7, <1>8

(* Only four kinds of steps write a status, none of a cancelled row.       *)
LEMMA CancelledStep ==
    ASSUME LobbyInv, [Next]_vars, NEW s \in Users, status[s] = "CANCELLED"
    PROVE  status'[s] = "CANCELLED"
<1> USE DEF LobbyInv, TypeInv
<1>1. ASSUME NEW t \in Users, NEW h, Activate(t, h) PROVE status'[s] = "CANCELLED"
  <2>1. status' = status \/ (status' = [status EXCEPT ![t] = "ACTIVE"] /\ status[t] \in Activatable)
    BY <1>1 DEF Activate
  <2> QED BY <2>1 DEF Activatable, DataOK
<1>2. ASSUME NEW u \in Users, ReadyConnect(u) PROVE status'[s] = "CANCELLED"
  <2>1. run[u].sess \in Users /\ status[run[u].sess] \in Paired
    BY <1>2, RunnersFacts DEF ReadyConnect, At, RunsOK, CallOK, JobsOK, JobOK, CallPcs
  <2> QED BY <1>2, <2>1 DEF ReadyConnect, DataOK, Paired
<1>3. ASSUME NEW u \in Users, ReadyActivate(u) PROVE status'[s] = "CANCELLED"
  BY <1>1, <1>3, RunnersFacts DEF ReadyActivate, At, JobsOK, JobOK, CallPcs
<1>4. ASSUME NEW r \in Runners, Merge(r) PROVE status'[s] = "CANCELLED"
  <2>1. run[r].primary \in Users /\ run[r].secondary \in Users /\ Waits(run[r].primary)
    BY <1>4 DEF Merge, At, JobsOK, JobOK, RunsOK, PassOK, PairPcs
  <2> QED BY <1>4, <2>1 DEF Merge, MergedStatus, DataOK, Waits
<1>5. ASSUME NEW r \in Runners, ConnectPair(r) PROVE status'[s] = "CANCELLED"
  BY <1>5 DEF ConnectPair, DataOK
<1>6. ASSUME NEW i \in Instances, NEW t \in Users, CancelLone(i, t) PROVE status'[s] = "CANCELLED"
  BY <1>6 DEF CancelLone, DataOK
<1>7. ASSUME status' = status PROVE status'[s] = "CANCELLED"
  BY <1>7
<1>8. ASSUME NEW u \in Users, ReadyCall(u) PROVE status'[s] = "CANCELLED"
  BY <1>2, <1>3, <1>7, <1>8 DEF ReadyCall, ReadyMark, ReadyCount, ReadyStamp, ReadyTryLock, db
<1>9. ASSUME NEW r \in Runners, Matcher(r) PROVE status'[s] = "CANCELLED"
  BY <1>4, <1>5, <1>7, <1>9 DEF Matcher, MatchSnapshot, MatchDone, MatchSkip, MatchPick, MergeFails,
       MergeKeys, ArmCountdown, ReleaseRead, ReleaseDelete, db
<1>10. ASSUME NEW i \in Instances, Timeouts(i) PROVE status'[s] = "CANCELLED"
  BY <1>1, <1>6, <1>7, <1>10 DEF Timeouts, TimeoutSnapshot, CancelKeys, CountdownSnapshot, CycleEnd,
       ArmGiveUp, NotYet, CountdownSkip, CountdownDue, db
<1>11. ASSUME NEW t \in Users, TimerFires(t) PROVE status'[s] = "CANCELLED"
  BY <1>1, <1>11 DEF TimerFires
<1> QED BY <1>7, <1>8, <1>9, <1>10, <1>11
        DEF Next, ReadyRead, CycleStart, Crash, LeaseEnd, Tick, vars, db

(* Every step keeps the invariant.                                         *)
LEMMA LobbyInvStep == ASSUME ~ LeaseMayExpire PROVE LobbyInv /\ [Next]_vars => LobbyInv'
<1> SUFFICES ASSUME LobbyInv, [Next]_vars PROVE LobbyInv'
    OBVIOUS
<1>a. /\ DataOK /\ RunOK /\ JobsOK /\ TypeInv /\ Exclusive /\ RowsOK /\ RunsOK
  BY DEF LobbyInv, TypeInv
<1>b. TypeInv'
  BY <1>a, TypeInvStep
<1> USE <1>a, <1>b
<1>1. ASSUME NEW u \in Users, NEW s \in Users, ReadyRead(u, s)
     PROVE  LobbyInv'
  <2>1. Stable
    BY <1>1, QuietStable DEF ReadyRead, db
  <2> DEFINE l == [Idle EXCEPT !.pc = "mark", !.sess = s, !.seen = status[s]]
  <2>2. run' = [run EXCEPT ![u] = l]
    BY <1>1 DEF ReadyRead
  <2>3. l.pc = "mark" /\ l.sess = s /\ l.seen = status[s]
    BY IdleType, RunnersFacts DEF RunOK, Locals
  <2> HIDE DEF l
  <2>4. run'[u] = l /\ \A q \in Runners : q # u => run'[q] = run[q]
    BY <2>2, RunnersFacts DEF RunOK
  <2>5. PassOK(u)' /\ CallOK(u)'
    BY <1>1, <2>1, <2>3, <2>4 DEF ReadyRead, Stable, PassOK, CallOK, Paired, PairPcs, MatcherPcs, CallPcs
  <2>6. run'[u].pc \in Locked => run[u].pc \in Locked
    BY <1>1, <2>3, <2>4 DEF ReadyRead, InTimeouts, At, Locked, LockedPcs, MatcherPcs, TimeoutPcs, CallPcs
  <2> QED BY <1>1, <2>1, <2>4, <2>5, <2>6, OneMoves, RunnersFacts DEF ReadyRead
<1>2. ASSUME NEW u \in Users, ReadyMark(u)
     PROVE  LobbyInv'
  <2>1. Stable
    <3>1. run[u].sess \in Users /\ u \in parts[run[u].sess]
      BY <1>2, RunnersFacts DEF ReadyMark, At, RunsOK, CallOK, JobsOK, JobOK, CallPcs
    <3>2. isReady \in [Users -> SUBSET Users]
      BY DEF DataOK
    <3> QED BY <1>2, <3>1, <3>2 DEF ReadyMark, Stable, RowsOK, RowOK
  <2>2. Goto(u, "count") /\ "count" \in Pcs
    BY <1>2, PcFacts DEF ReadyMark, CallPcs, MatcherPcs
  <2>3. PassOK(u)' /\ CallOK(u)'
    <3>1. CallOK(u) /\ At(u, "mark")
      BY <1>2, RunnersFacts DEF ReadyMark, RunsOK
    <3>2. run[u].sess \in Users
      BY <3>1, RunnersFacts DEF JobsOK, JobOK, At, CallPcs
    <3>3. run'[u].pc = "count" /\ run'[u].seen = run[u].seen /\ run'[u].sess = run[u].sess
      BY <2>2, GotoStep, RunnersFacts
    <3> QED BY <2>1, <3>1, <3>2, <3>3 DEF Stable, At, PassOK, CallOK, PairPcs, MatcherPcs, CallPcs
  <2>4. run'[u].pc \in Locked => run[u].pc \in Locked
    BY <1>2, <2>2, GotoStep, RunnersFacts DEF ReadyMark, At, Locked, LockedPcs, MatcherPcs, TimeoutPcs
  <2> QED BY <1>2, <2>1, <2>2, <2>3, <2>4, GotoStep, OneMoves, RunnersFacts DEF ReadyMark
<1>3. ASSUME NEW u \in Users, ReadyCount(u)
     PROVE  LobbyInv'
  <2>1. Stable
    BY <1>3, QuietStable DEF ReadyCount, db
  <2>2. /\ run[u].pc = "count" /\ run[u].sess \in Users
        /\ {"connect", "stamp"} \subseteq Pcs
        /\ run[u].seen \in {"MATCHED", "CONNECTING"} => status[run[u].sess] \in Paired
    BY <1>3, RunnersFacts, PcFacts DEF ReadyCount, At, RunsOK, CallOK, JobsOK, JobOK, CallPcs
  <2>3. CASE Return(u)
    <3>1. PassOK(u)' /\ CallOK(u)'
      BY <2>3, ReturnStep, RestOK, RunnersFacts
    <3>2. run'[u].pc \notin Locked
      BY <2>3, ReturnStep, RunnersFacts, PcFacts DEF Locked
    <3> QED BY <1>3, <2>1, <2>3, <3>1, <3>2, ReturnStep, OneMoves, RunnersFacts DEF ReadyCount
  <2>4. CASE Goto(u, "connect") /\ run[u].seen \in {"MATCHED", "CONNECTING"}
    <3>1. run'[u].pc = "connect" /\ run'[u].sess = run[u].sess
      BY <2>2, <2>4, GotoStep, RunnersFacts
    <3>2. PassOK(u)' /\ CallOK(u)'
      BY <2>1, <2>2, <2>4, <3>1 DEF Stable, PassOK, CallOK, PairPcs, MatcherPcs, CallPcs
    <3>3. run'[u].pc \notin Locked
      BY <3>1 DEF Locked, LockedPcs, MatcherPcs, TimeoutPcs
    <3> QED BY <1>3, <2>1, <2>2, <2>4, <3>2, <3>3, GotoStep, OneMoves, RunnersFacts DEF ReadyCount
  <2>5. CASE Goto(u, "stamp")
    <3>1. run'[u].pc = "stamp" /\ run'[u].sess = run[u].sess /\ run'[u].seen = run[u].seen
      BY <2>2, <2>5, GotoStep, RunnersFacts
    <3>2. PassOK(u)' /\ CallOK(u)'
      BY <2>1, <2>2, <3>1 DEF Stable, PassOK, CallOK, PairPcs, MatcherPcs, CallPcs
    <3>3. run'[u].pc \notin Locked
      BY <3>1 DEF Locked, LockedPcs, MatcherPcs, TimeoutPcs
    <3> QED BY <1>3, <2>1, <2>2, <2>5, <3>2, <3>3, GotoStep, OneMoves, RunnersFacts DEF ReadyCount
  <2> QED BY <1>3, <2>3, <2>4, <2>5 DEF ReadyCount
<1>4. ASSUME NEW u \in Users, ReadyConnect(u)
     PROVE  LobbyInv'
  <2>0. run[u].sess \in Users /\ status[run[u].sess] \in Paired
    BY <1>4, RunnersFacts DEF ReadyConnect, At, RunsOK, CallOK, JobsOK, JobOK, CallPcs
  <2>1. Stable
    BY <1>4, <2>0 DEF ReadyConnect, Stable, RowsOK, RowOK, DataOK, Paired
  <2>2. Goto(u, "activate") /\ "activate" \in Pcs
    BY <1>4, PcFacts DEF ReadyConnect, CallPcs, MatcherPcs
  <2>3. PassOK(u)' /\ CallOK(u)'
    <3>1. run'[u].pc = "activate" /\ run'[u].sess = run[u].sess
      BY <2>2, GotoStep, RunnersFacts
    <3>2. status'[run'[u].sess] \in Paired
      BY <2>0, <3>1, <2>1 DEF Stable, Paired
    <3> QED BY <3>1, <3>2 DEF PassOK, CallOK, PairPcs, MatcherPcs, CallPcs
  <2>4. run'[u].pc \in Locked => run[u].pc \in Locked
    BY <1>4, <2>2, GotoStep, RunnersFacts DEF ReadyConnect, At, Locked, LockedPcs, MatcherPcs, TimeoutPcs
  <2> QED BY <1>4, <2>1, <2>2, <2>3, <2>4, GotoStep, OneMoves, RunnersFacts DEF ReadyConnect
<1>5. ASSUME NEW u \in Users, ReadyActivate(u)
     PROVE  LobbyInv'
  <2>0. run[u].sess \in Users
    BY <1>5, RunnersFacts DEF ReadyActivate, At, JobsOK, JobOK, CallPcs
  <2>1. Stable
    BY <1>5, <2>0, ActivateStable DEF ReadyActivate
  <2>2. Return(u)
    BY <1>5 DEF ReadyActivate
  <2>3. PassOK(u)' /\ CallOK(u)'
    BY <2>2, ReturnStep, RestOK, RunnersFacts
  <2>4. run'[u].pc \notin Locked
    BY <2>2, ReturnStep, RunnersFacts, PcFacts DEF Locked
  <2> QED BY <1>5, <2>1, <2>2, <2>3, <2>4, ReturnStep, OneMoves, RunnersFacts DEF ReadyActivate
<1>6. ASSUME NEW u \in Users, ReadyStamp(u)
     PROVE  LobbyInv'
  <2>1. Stable
    BY <1>6, QuietStable DEF ReadyStamp, db
  <2>2. Goto(u, "tryLock") /\ "tryLock" \in Pcs
    BY <1>6, PcFacts DEF ReadyStamp, CallPcs, MatcherPcs
  <2>3. PassOK(u)' /\ CallOK(u)'
    <3>1. run'[u].pc = "tryLock" /\ run'[u].sess = run[u].sess /\ run'[u].seen = run[u].seen
      BY <2>2, GotoStep, RunnersFacts
    <3>2. CallOK(u) /\ run[u].pc = "stamp" /\ run[u].sess \in Users
      BY <1>6, RunnersFacts DEF ReadyStamp, At, RunsOK, JobsOK, JobOK, CallPcs
    <3> QED BY <2>1, <3>1, <3>2 DEF Stable, PassOK, CallOK, PairPcs, MatcherPcs, CallPcs
  <2>4. run'[u].pc \in Locked => run[u].pc \in Locked
    BY <1>6, <2>2, GotoStep, RunnersFacts DEF ReadyStamp, At, Locked, LockedPcs, MatcherPcs, TimeoutPcs
  <2> QED BY <1>6, <2>1, <2>2, <2>3, <2>4, GotoStep, OneMoves, RunnersFacts DEF ReadyStamp
<1>7. ASSUME NEW u \in Users, ReadyTryLock(u)
     PROVE  LobbyInv'
  <2>1. Stable
    BY <1>7, QuietStable DEF ReadyTryLock, db
  <2>2. "match" \in Pcs
    BY PcFacts DEF MatcherPcs
  <2>3. CASE lock = NoOne /\ lock' = u /\ Goto(u, "match")
    <3>1. run'[u].pc = "match" /\ \A q \in Runners : q # u => run'[q] = run[q]
      BY <2>2, <2>3, GotoStep, RunnersFacts
    <3>2. Exclusive'
      BY <2>3, <3>1, TakesLock, RunnersFacts
    <3>3. RowsOK'
      BY <2>1, StableRows
    <3>4. RunsOK'
      BY <2>1, <3>1, StableKept, RestOK, RunnersFacts DEF RunsOK
    <3> QED BY <3>2, <3>3, <3>4 DEF LobbyInv
  <2>4. CASE lock' = lock /\ Return(u)
    <3>1. PassOK(u)' /\ CallOK(u)'
      BY <2>4, ReturnStep, RestOK, RunnersFacts
    <3>2. run'[u].pc \notin Locked
      BY <2>4, ReturnStep, RunnersFacts, PcFacts DEF Locked
    <3> QED BY <2>1, <2>4, <3>1, <3>2, ReturnStep, OneMoves, RunnersFacts
  <2> QED BY <1>7, <2>3, <2>4 DEF ReadyTryLock
<1>9. ASSUME NEW i \in Instances, CycleStart(i)
     PROVE  LobbyInv'
  <2>1. Stable
    BY <1>9, QuietStable DEF CycleStart, db
  <2>2. "match" \in Pcs
    BY PcFacts DEF MatcherPcs
  <2>3. run'[i].pc = "match" /\ \A q \in Runners : q # i => run'[q] = run[q]
    BY <1>9, <2>2, GotoStep, RunnersFacts DEF CycleStart
  <2>4. Exclusive'
    BY <1>9, <2>3, TakesLock, RunnersFacts DEF CycleStart
  <2>5. RowsOK'
    BY <2>1, StableRows
  <2>6. RunsOK'
    BY <2>1, <2>3, StableKept, RestOK, RunnersFacts DEF RunsOK
  <2> QED BY <2>4, <2>5, <2>6 DEF LobbyInv
<1>10. ASSUME NEW r \in Runners, ReleaseRead(r)
     PROVE  LobbyInv'
  <2>1. Stable
    BY <1>10, QuietStable DEF ReleaseRead, db
  <2>2. /\ \A q \in Runners : q # r => run'[q] = run[q]
        /\ run'[r].pc \in {"idle", "unlock"}
    BY <1>10, PcFacts, GotoStep, ReturnStep DEF ReleaseRead
  <2>3. PassOK(r)' /\ CallOK(r)'
    BY <2>2, RestOK
  <2> QED BY <1>10, <2>1, <2>2, <2>3, OneMoves DEF ReleaseRead, At, Locked, LockedPcs
<1>11. ASSUME NEW r \in Runners, ReleaseDelete(r)
     PROVE  LobbyInv'
  <2>1. Stable
    BY <1>11, QuietStable DEF ReleaseDelete, db
  <2>2. run'[r].pc = "idle" /\ \A q \in Runners : q # r => run'[q] = run[q]
    BY <1>11, ReturnStep DEF ReleaseDelete
  <2>3. Exclusive'
    <3>1. lock = r
      BY <1>11 DEF ReleaseDelete, At, Exclusive, Locked
    <3> QED BY <2>2, <3>1, PcFacts DEF Exclusive, Locked
  <2>4. RowsOK'
    BY <2>1, StableRows
  <2>5. RunsOK'
    BY <2>1, <2>2, StableKept, RestOK DEF RunsOK
  <2> QED BY <2>3, <2>4, <2>5 DEF LobbyInv
<1>12. ASSUME LeaseEnd
     PROVE  LobbyInv'
  <2>1. Stable
    BY <1>12, QuietStable DEF LeaseEnd, db
  <2>2. Exclusive'
    <3>1. run[lock].pc = "idle" /\ run' = run
      BY <1>12 DEF LeaseEnd, At
    <3> QED BY <3>1, PcFacts DEF Exclusive, Locked
  <2>3. RowsOK'
    BY <2>1, StableRows
  <2>4. RunsOK'
    BY <1>12, <2>1, StableKept DEF LeaseEnd, RunsOK
  <2> QED BY <2>2, <2>3, <2>4 DEF LobbyInv
<1>13. ASSUME NEW r \in Runners, MatchSnapshot(r)
     PROVE  LobbyInv'
  <2>1. Stable
    BY <1>13, QuietStable DEF MatchSnapshot, db
  <2> DEFINE ready == {s \in Users : Waiting(s) /\ SlotDue(s)}
             since == [s \in Users |-> IF s \notin ready THEN 0
                                       ELSE IF lobbySince[s] # 0 THEN lobbySince[s] ELSE Slot[s]]
             l == [run[r] EXCEPT !.pc = "pick", !.at = now, !.wait = since,
                                 !.todo = ready, !.left = ready]
  <2>2. AfterMatcher(r) \/ run' = [run EXCEPT ![r] = l]
    BY <1>13 DEF MatchSnapshot
  <2>3. run[r].pc \in Locked
    BY <1>13 DEF MatchSnapshot, At, Locked, LockedPcs, MatcherPcs
  <2>4. CASE AfterMatcher(r)
    <3>1. /\ \A q \in Runners : q # r => run'[q] = run[q]
          /\ run'[r].pc \in {"timeouts", "release"}
      BY <2>4, AfterMatcherStep
    <3>2. PassOK(r)' /\ CallOK(r)'
      BY <3>1, RestOK
    <3> QED BY <1>13, <2>1, <2>3, <3>1, <3>2, OneMoves DEF MatchSnapshot
  <2>5. CASE run' = [run EXCEPT ![r] = l]
    <3>1. \A s \in ready : Waits(s)'
      BY <1>13 DEF MatchSnapshot, Waiting, Waits, db
    <3> HIDE DEF ready, since
    <3>2. l.pc = "pick" /\ l.todo = ready /\ l.left = ready
      BY DEF RunOK, Locals
    <3> HIDE DEF l
    <3>3. run'[r] = l /\ \A q \in Runners : q # r => run'[q] = run[q]
      BY <2>5 DEF RunOK
    <3>4. PassOK(r)' /\ CallOK(r)'
      BY <3>1, <3>2, <3>3 DEF PassOK, CallOK, PairPcs, CallPcs
    <3> QED BY <1>13, <2>1, <2>3, <3>3, <3>4, OneMoves DEF MatchSnapshot
  <2> QED BY <2>2, <2>4, <2>5
<1>14. ASSUME NEW r \in Runners, NEW cur \in Users, MatchSkip(r, cur)
     PROVE  LobbyInv'
  <2>1. Stable
    BY <1>14, QuietStable DEF MatchSkip, db
  <2>2. run' = [run EXCEPT ![r].todo = @ \ {cur}]
    BY <1>14 DEF MatchSkip
  <2>3. PassOK(r)' /\ CallOK(r)'
    BY <2>1, <2>2, TodoKept, RunnersFacts
  <2> QED BY <1>14, <2>1, <2>2, <2>3, TodoStep, OneMoves, RunnersFacts DEF MatchSkip
<1>15. ASSUME NEW r \in Runners, NEW cur \in Users, NEW partner \in Users, MatchPick(r, cur, partner)
     PROVE  LobbyInv'
  <2>1. Stable
    BY <1>15, QuietStable DEF MatchPick, db
  <2> DEFINE kept == Earlier(cur, partner)
             other == IF kept = cur THEN partner ELSE cur
             l == [run[r] EXCEPT !.pc = "merge", !.todo = run[r].todo \ Consumed(cur, partner),
                                 !.left = run[r].left \ Consumed(cur, partner),
                                 !.primary = kept, !.secondary = other]
  <2>2. run' = [run EXCEPT ![r] = l]
    BY <1>15 DEF MatchPick
  <2>3. run[r].pc = "pick" /\ PassOK(r)
    BY <1>15 DEF MatchPick, At, RunsOK
  <2>4. cur \in run[r].left /\ partner \in run[r].left /\ cur # partner
    BY <1>15, <2>3 DEF MatchPick, Partners, Longest, PassOK, MatcherPcs
  <2>5. {kept, other} = {cur, partner} /\ kept # other
    BY <2>4 DEF Earlier
  <2> HIDE DEF kept, other
  <2>6. /\ l.pc = "merge" /\ l.primary = kept /\ l.secondary = other
        /\ l.todo = run[r].todo \ {cur, partner} /\ l.left = run[r].left \ {cur, partner}
    BY DEF RunOK, Locals, Consumed
  <2> HIDE DEF l
  <2>7. run'[r] = l /\ \A q \in Runners : q # r => run'[q] = run[q]
    BY <2>2 DEF RunOK
  <2>8. \A s \in run[r].left : Waits(s)'
    BY <1>15, <2>3 DEF MatchPick, PassOK, MatcherPcs, Waits, db
  <2>9. PassOK(r)' /\ CallOK(r)'
    <3>1. l.todo \subseteq l.left /\ l.left \subseteq run[r].left
      BY <2>3, <2>6 DEF PassOK, MatcherPcs
    <3>2. kept \in run[r].left /\ other \in run[r].left /\ kept \notin l.left /\ other \notin l.left
      BY <2>4, <2>5, <2>6
    <3> QED BY <2>5, <2>6, <2>7, <2>8, <3>1, <3>2 DEF PassOK, CallOK, PairPcs, CallPcs
  <2> QED BY <1>15, <2>1, <2>3, <2>7, <2>9, OneMoves DEF MatchPick, Locked, LockedPcs, MatcherPcs
<1>16. ASSUME NEW r \in Runners, MatchDone(r)
     PROVE  LobbyInv'
  <2>1. Stable
    BY <1>16, QuietStable DEF MatchDone, db
  <2>2. /\ \A q \in Runners : q # r => run'[q] = run[q]
        /\ run'[r].pc \in {"timeouts", "release"}
    BY <1>16, AfterMatcherStep DEF MatchDone
  <2>3. PassOK(r)' /\ CallOK(r)'
    BY <2>2, RestOK
  <2> QED BY <1>16, <2>1, <2>2, <2>3, OneMoves DEF MatchDone, At, Locked, LockedPcs, MatcherPcs
<1>17. ASSUME NEW r \in Runners, Merge(r)
     PROVE  LobbyInv'
  <2> DEFINE primary == run[r].primary
             secondary == run[r].secondary
  <2>1. /\ primary \in Users /\ secondary \in Users /\ primary # secondary
        /\ Waits(primary) /\ Waits(secondary)
        /\ primary \notin run[r].left /\ secondary \notin run[r].left
        /\ run[r].todo \subseteq run[r].left /\ run[r].left \subseteq Users
        /\ \A s \in run[r].left : Waits(s)
    BY <1>17 DEF Merge, At, JobsOK, JobOK, RunsOK, PassOK, PairPcs, MatcherPcs, RunOK, Locals
  <2>2. /\ parts' = [parts EXCEPT ![primary] = @ \cup {secondary}]
        /\ isReady' = [isReady EXCEPT ![primary] = @ \cup {primary, secondary}]
        /\ status' = [status EXCEPT ![primary] = "MATCHED", ![secondary] = "CANCELLED"]
        /\ lock' = lock
    BY <1>17 DEF Merge, ReadyCarried, MergedStatus
  <2>3. /\ \A q \in Runners : q # r => run'[q] = run[q]
        /\ run'[r].pc = "mergeKeys" /\ run'[r].primary = primary
        /\ run'[r].todo = run[r].todo /\ run'[r].left = run[r].left
    <3>1. "mergeKeys" \in Pcs
      BY PcFacts DEF MatcherPcs
    <3> QED BY <1>17, <3>1, GotoStep DEF Merge
  <2>4. /\ \A s \in Users : status'[s] = IF s = secondary THEN "CANCELLED"
                                         ELSE IF s = primary THEN "MATCHED" ELSE status[s]
        /\ \A s \in Users : s # primary => parts'[s] = parts[s] /\ isReady'[s] = isReady[s]
        /\ parts'[primary] = parts[primary] \cup {secondary}
        /\ isReady'[primary] = isReady[primary] \cup {primary, secondary}
    BY <2>1, <2>2 DEF DataOK
  <2>5. parts[primary] = {primary} /\ status[primary] = "PENDING" /\ status[secondary] = "PENDING"
        /\ isReady[primary] = {primary}
    BY <2>1 DEF RowsOK, RowOK, Waits
  <2> HIDE DEF primary, secondary
  <2>6. RowsOK'
    <3>1. ASSUME NEW s \in Users PROVE RowOK(s)'
      <4>1. CASE s = primary
        BY <2>1, <2>4, <2>5, <4>1 DEF RowOK
      <4>2. CASE s # primary
        BY <2>4, <4>2 DEF RowsOK, RowOK, Paired
      <4> QED BY <4>1, <4>2
    <3>2. \A s, v \in Users : v # s /\ v \in parts'[s] => status'[v] = "CANCELLED"
      BY <2>1, <2>4, <2>5 DEF RowsOK
    <3>3. \A s, t, v \in Users : v # s /\ v # t /\ v \in parts'[s] /\ v \in parts'[t] => s = t
      BY <2>1, <2>4, <2>5 DEF RowsOK
    <3> QED BY <3>1, <3>2, <3>3 DEF RowsOK
  <2>7. \A q \in Runners : q # r => run[q].pc \notin Locked
    BY <1>17 DEF Merge, At, Exclusive, Locked, LockedPcs, MatcherPcs
  <2>8. Exclusive'
    BY <1>17, <2>2, <2>3, <2>7 DEF Merge, At, Exclusive, Locked, LockedPcs, MatcherPcs
  <2>9. RunsOK'
    <3>1. ASSUME NEW q \in Runners, q # r PROVE PassOK(q)' /\ CallOK(q)'
      <4>1. PassOK(q)'
        BY <2>3, <2>7, <3>1 DEF PassOK, Locked, LockedPcs, MatcherPcs, TimeoutPcs, PairPcs
      <4>2. \A s \in Users : /\ parts[s] \subseteq parts'[s]
                             /\ status[s] \in Paired => status'[s] \in Paired
        BY <2>4, <2>5 DEF Paired
      <4> QED BY <2>3, <3>1, <4>1, <4>2, CallKept DEF RunsOK
    <3>2. \A s \in run[r].left : Waits(s)'
      BY <2>1, <2>4 DEF Waits
    <3>3. status'[primary] \in Paired
      BY <2>1, <2>4 DEF Paired
    <3>4. PassOK(r)' /\ CallOK(r)'
      BY <2>1, <2>3, <3>2, <3>3 DEF PassOK, CallOK, PairPcs, CallPcs
    <3> QED BY <3>1, <3>4 DEF RunsOK
  <2> QED BY <2>6, <2>8, <2>9 DEF LobbyInv
<1>18. ASSUME NEW r \in Runners, MergeFails(r)
     PROVE  LobbyInv'
  <2>1. Stable
    BY <1>18, QuietStable DEF MergeFails, db
  <2> DEFINE l == [Idle EXCEPT !.pc = "release"]
  <2>2. run' = [run EXCEPT ![r] = l]
    BY <1>18 DEF MergeFails
  <2>3. l.pc = "release"
    BY IdleType, RunnersFacts DEF RunOK, Locals
  <2> HIDE DEF l
  <2>4. run'[r] = l /\ \A q \in Runners : q # r => run'[q] = run[q]
    BY <2>2, RunnersFacts DEF RunOK
  <2>5. PassOK(r)' /\ CallOK(r)'
    BY <2>3, <2>4, RestOK
  <2>6. run'[r].pc \in Locked => run[r].pc \in Locked
    BY <1>18, <2>3, <2>4 DEF MergeFails, InTimeouts, At, Locked, LockedPcs, MatcherPcs, TimeoutPcs, CallPcs
  <2> QED BY <1>18, <2>1, <2>4, <2>5, <2>6, OneMoves, RunnersFacts DEF MergeFails
<1>19. ASSUME NEW r \in Runners, MergeKeys(r)
     PROVE  LobbyInv'
  <2>1. Stable
    BY <1>19, QuietStable DEF MergeKeys, db
  <2>2. Goto(r, "connectPair") /\ "connectPair" \in Pcs
    BY <1>19, PcFacts DEF MergeKeys, CallPcs, MatcherPcs
  <2>3. PassOK(r)' /\ CallOK(r)'
    <3>1. /\ run'[r].pc = "connectPair" /\ run'[r].primary = run[r].primary
          /\ run'[r].todo = run[r].todo /\ run'[r].left = run[r].left
      BY <2>2, GotoStep
    <3>2. run[r].left \subseteq Users /\ run[r].primary \in Users
      BY <1>19 DEF MergeKeys, At, RunOK, Locals, JobsOK, JobOK, PairPcs
    <3>3. /\ run[r].todo \subseteq run[r].left /\ \A s \in run[r].left : Waits(s)'
          /\ status'[run[r].primary] \in Paired
      BY <1>19, <2>1, <3>2 DEF MergeKeys, At, Stable, Waits, RunsOK, PassOK, PairPcs, MatcherPcs, Paired
    <3> QED BY <3>1, <3>3 DEF PassOK, CallOK, PairPcs, MatcherPcs, CallPcs
  <2>4. run'[r].pc \in Locked => run[r].pc \in Locked
    BY <1>19, <2>2, GotoStep, RunnersFacts DEF MergeKeys, At, Locked, LockedPcs, MatcherPcs, TimeoutPcs
  <2> QED BY <1>19, <2>1, <2>2, <2>3, <2>4, GotoStep, OneMoves, RunnersFacts DEF MergeKeys
<1>20. ASSUME NEW r \in Runners, ConnectPair(r)
     PROVE  LobbyInv'
  <2>1. Stable
    <3>1. run[r].primary \in Users /\ status[run[r].primary] \in Paired
      BY <1>20 DEF ConnectPair, At, JobsOK, JobOK, RunsOK, PassOK, PairPcs
    <3> QED BY <1>20, <3>1 DEF ConnectPair, Stable, RowsOK, RowOK, DataOK, Paired
  <2>2. Goto(r, "arm") /\ "arm" \in Pcs
    BY <1>20, PcFacts DEF ConnectPair, CallPcs, MatcherPcs
  <2>3. PassOK(r)' /\ CallOK(r)'
    <3>1. /\ run'[r].pc = "arm" /\ run'[r].primary = run[r].primary
          /\ run'[r].todo = run[r].todo /\ run'[r].left = run[r].left
      BY <2>2, GotoStep
    <3>2. run[r].left \subseteq Users /\ run[r].primary \in Users
      BY <1>20 DEF ConnectPair, At, RunOK, Locals, JobsOK, JobOK, PairPcs
    <3>3. /\ run[r].todo \subseteq run[r].left /\ \A s \in run[r].left : Waits(s)'
          /\ status'[run[r].primary] \in Paired
      BY <1>20, <2>1, <3>2 DEF ConnectPair, At, Stable, Waits, RunsOK, PassOK, PairPcs, MatcherPcs, Paired
    <3> QED BY <3>1, <3>3 DEF PassOK, CallOK, PairPcs, MatcherPcs, CallPcs
  <2>4. run'[r].pc \in Locked => run[r].pc \in Locked
    BY <1>20, <2>2, GotoStep, RunnersFacts DEF ConnectPair, At, Locked, LockedPcs, MatcherPcs, TimeoutPcs
  <2> QED BY <1>20, <2>1, <2>2, <2>3, <2>4, GotoStep, OneMoves, RunnersFacts DEF ConnectPair
<1>21. ASSUME NEW r \in Runners, ArmCountdown(r)
     PROVE  LobbyInv'
  <2>1. Stable
    BY <1>21, QuietStable DEF ArmCountdown, db
  <2> DEFINE l == [run[r] EXCEPT !.pc = "pick", !.primary = NoOne, !.secondary = NoOne]
  <2>2. run' = [run EXCEPT ![r] = l]
    BY <1>21 DEF ArmCountdown
  <2>3. l.pc = "pick" /\ l.todo = run[r].todo /\ l.left = run[r].left
    BY DEF RunOK, Locals
  <2> HIDE DEF l
  <2>4. run'[r] = l /\ \A q \in Runners : q # r => run'[q] = run[q]
    BY <2>2 DEF RunOK
  <2>5. PassOK(r)' /\ CallOK(r)'
    <3>1. run[r].left \subseteq Users
      BY DEF RunOK, Locals
    <3>2. run[r].todo \subseteq run[r].left /\ \A s \in run[r].left : Waits(s)'
      BY <1>21, <2>1, <3>1 DEF ArmCountdown, At, Stable, Waits, RunsOK, PassOK, PairPcs, MatcherPcs, Paired
    <3> QED BY <2>3, <2>4, <3>2 DEF PassOK, CallOK, PairPcs, CallPcs
  <2> QED BY <1>21, <2>1, <2>4, <2>5, OneMoves DEF ArmCountdown, At, Locked, LockedPcs, MatcherPcs
<1>22. ASSUME NEW s \in Users, TimerFires(s)
     PROVE  LobbyInv'
  <2>1. Stable
    BY <1>22, ActivateStable DEF TimerFires
  <2> QED BY <1>22, <2>1, NoneMoves DEF TimerFires
<1>23. ASSUME NEW i \in Instances, TimeoutSnapshot(i)
     PROVE  LobbyInv'
  <2>1. Stable
    BY <1>23, QuietStable DEF TimeoutSnapshot, db
  <2> DEFINE pending == {s \in Users : status[s] = "PENDING" /\ Lone(s) /\ SlotDue(s)}
             entered == {s \in pending : s \in isReady[s]}
             l == [run[i] EXCEPT !.pc = "timeout", !.at = now, !.todo = pending, !.left = entered]
  <2>2. run' = [run EXCEPT ![i] = l]
    BY <1>23 DEF TimeoutSnapshot
  <2>3. \A s \in pending : status'[s] = "PENDING"
    BY <1>23 DEF TimeoutSnapshot, db
  <2> HIDE DEF pending, entered
  <2>4. l.pc = "timeout" /\ l.todo = pending
    BY RunnersFacts DEF RunOK, Locals
  <2> HIDE DEF l
  <2>5. run'[i] = l /\ \A q \in Runners : q # i => run'[q] = run[q]
    BY <2>2, RunnersFacts DEF RunOK
  <2>6. PassOK(i)' /\ CallOK(i)'
    BY <2>3, <2>4, <2>5 DEF PassOK, CallOK, PairPcs, MatcherPcs, CallPcs
  <2> QED BY <1>23, <2>1, <2>5, <2>6, OneMoves, RunnersFacts
          DEF TimeoutSnapshot, At, Locked, LockedPcs, TimeoutPcs
<1>24. ASSUME NEW i \in Instances, NEW s \in Users, ArmGiveUp(i, s)
     PROVE  LobbyInv'
  <2>1. Stable
    BY <1>24, QuietStable DEF ArmGiveUp, db
  <2>2. run' = [run EXCEPT ![i].todo = @ \ {s}]
    BY <1>24 DEF ArmGiveUp
  <2>3. PassOK(i)' /\ CallOK(i)'
    BY <2>1, <2>2, TodoKept, RunnersFacts
  <2> QED BY <1>24, <2>1, <2>2, <2>3, TodoStep, OneMoves, RunnersFacts DEF ArmGiveUp
<1>25. ASSUME NEW i \in Instances, NEW s \in Users, NotYet(i, s)
     PROVE  LobbyInv'
  <2>1. Stable
    BY <1>25, QuietStable DEF NotYet, db
  <2>2. run' = [run EXCEPT ![i].todo = @ \ {s}]
    BY <1>25 DEF NotYet
  <2>3. PassOK(i)' /\ CallOK(i)'
    BY <2>1, <2>2, TodoKept, RunnersFacts
  <2> QED BY <1>25, <2>1, <2>2, <2>3, TodoStep, OneMoves, RunnersFacts DEF NotYet
<1>26. ASSUME NEW i \in Instances, NEW s \in Users, CancelLone(i, s)
     PROVE  LobbyInv'
  <2> DEFINE l == [run[i] EXCEPT !.pc = "cancelKeys", !.primary = s, !.todo = run[i].todo \ {s}]
  <2>1. run' = [run EXCEPT ![i] = l] /\ lock' = lock /\ UNCHANGED <<parts, isReady>>
    BY <1>26 DEF CancelLone
  <2>2. l.pc = "cancelKeys" /\ l.todo = run[i].todo \ {s}
    BY RunnersFacts DEF RunOK, Locals
  <2> HIDE DEF l
  <2>3. run'[i] = l /\ \A q \in Runners : q # i => run'[q] = run[q]
    BY <2>1, RunnersFacts DEF RunOK
  <2>4. /\ run[i].pc = "timeout" /\ s \in run[i].todo /\ run[i].todo \subseteq Users
        /\ \A t \in run[i].todo : status[t] = "PENDING"
    BY <1>26, RunnersFacts DEF CancelLone, InTimeouts, At, RunsOK, PassOK, RunOK, Locals
  <2>5. \A t \in Users : status'[t] = IF t = s THEN "CANCELLED" ELSE status[t]
    BY <1>26 DEF CancelLone, DataOK
  <2>6. RowsOK'
    <3>1. ASSUME NEW t \in Users PROVE RowOK(t)'
      BY <2>1, <2>5 DEF RowsOK, RowOK, Paired
    <3>2. \A t, v \in Users : v # t /\ v \in parts'[t] => status'[v] = "CANCELLED"
      BY <2>1, <2>5 DEF RowsOK
    <3>3. \A t, x, v \in Users : v # t /\ v # x /\ v \in parts'[t] /\ v \in parts'[x] => t = x
      BY <2>1 DEF RowsOK
    <3> QED BY <3>1, <3>2, <3>3 DEF RowsOK
  <2>7. \A q \in Runners : q # i => run[q].pc \notin Locked
    BY <2>4, RunnersFacts DEF Exclusive, Locked, LockedPcs, TimeoutPcs
  <2>8. Exclusive'
    BY <2>1, <2>3, <2>4, <2>7, RunnersFacts DEF Exclusive, Locked, LockedPcs, TimeoutPcs
  <2>9. RunsOK'
    <3>1. ASSUME NEW q \in Runners, q # i PROVE PassOK(q)' /\ CallOK(q)'
      <4>1. PassOK(q)'
        BY <2>3, <2>7, <3>1 DEF PassOK, Locked, LockedPcs, MatcherPcs, TimeoutPcs, PairPcs
      <4>2. \A t \in Users : /\ parts[t] \subseteq parts'[t]
                             /\ status[t] \in Paired => status'[t] \in Paired
        BY <2>1, <2>4, <2>5 DEF Paired
      <4> QED BY <2>3, <3>1, <4>1, <4>2, CallKept DEF RunsOK
    <3>2. PassOK(i)' /\ CallOK(i)'
      BY <2>2, <2>3, <2>4, <2>5 DEF PassOK, CallOK, PairPcs, MatcherPcs, CallPcs
    <3> QED BY <3>1, <3>2, RunnersFacts DEF RunsOK
  <2> QED BY <2>6, <2>8, <2>9 DEF LobbyInv
<1>27. ASSUME NEW i \in Instances, CancelKeys(i)
     PROVE  LobbyInv'
  <2>1. Stable
    BY <1>27, QuietStable DEF CancelKeys, db
  <2> DEFINE l == [run[i] EXCEPT !.pc = "timeout", !.primary = NoOne]
  <2>2. run' = [run EXCEPT ![i] = l]
    BY <1>27 DEF CancelKeys
  <2>3. l.pc = "timeout" /\ l.todo = run[i].todo
    BY RunnersFacts DEF RunOK, Locals
  <2> HIDE DEF l
  <2>4. run'[i] = l /\ \A q \in Runners : q # i => run'[q] = run[q]
    BY <2>2, RunnersFacts DEF RunOK
  <2>5. \A s \in run[i].todo : status'[s] = "PENDING"
    BY <1>27, RunnersFacts DEF CancelKeys, At, RunsOK, PassOK, db
  <2>6. PassOK(i)' /\ CallOK(i)'
    BY <2>3, <2>4, <2>5 DEF PassOK, CallOK, PairPcs, MatcherPcs, CallPcs
  <2> QED BY <1>27, <2>1, <2>4, <2>6, OneMoves, RunnersFacts
          DEF CancelKeys, At, Locked, LockedPcs, TimeoutPcs
<1>28. ASSUME NEW i \in Instances, CountdownSnapshot(i)
     PROVE  LobbyInv'
  <2>1. Stable
    BY <1>28, QuietStable DEF CountdownSnapshot, db
  <2> DEFINE l == [Idle EXCEPT !.pc = "countdown", !.todo = {s \in Users : status[s] = "CONNECTING"}]
  <2>2. run' = [run EXCEPT ![i] = l]
    BY <1>28 DEF CountdownSnapshot
  <2>3. l.pc = "countdown"
    BY IdleType DEF Locals
  <2> HIDE DEF l
  <2>4. run'[i] = l /\ \A q \in Runners : q # i => run'[q] = run[q]
    BY <2>2, RunnersFacts DEF RunOK
  <2>5. PassOK(i)' /\ CallOK(i)'
    BY <2>3, <2>4 DEF PassOK, CallOK, PairPcs, MatcherPcs, CallPcs
  <2> QED BY <1>28, <2>1, <2>4, <2>5, OneMoves, RunnersFacts
          DEF CountdownSnapshot, At, Locked, LockedPcs, TimeoutPcs
<1>29. ASSUME NEW i \in Instances, NEW s \in Users, CountdownSkip(i, s)
     PROVE  LobbyInv'
  <2>1. Stable
    BY <1>29, QuietStable DEF CountdownSkip, db
  <2>2. run' = [run EXCEPT ![i].todo = @ \ {s}]
    BY <1>29 DEF CountdownSkip
  <2>3. PassOK(i)' /\ CallOK(i)'
    BY <2>1, <2>2, TodoKept, RunnersFacts
  <2> QED BY <1>29, <2>1, <2>2, <2>3, TodoStep, OneMoves, RunnersFacts DEF CountdownSkip
<1>30. ASSUME NEW i \in Instances, NEW s \in Users, CountdownDue(i, s)
     PROVE  LobbyInv'
  <2>1. Stable
    BY <1>30, ActivateStable DEF CountdownDue
  <2>2. run' = [run EXCEPT ![i].todo = @ \ {s}]
    BY <1>30 DEF CountdownDue
  <2>3. PassOK(i)' /\ CallOK(i)'
    BY <2>1, <2>2, TodoKept, RunnersFacts
  <2> QED BY <1>30, <2>1, <2>2, <2>3, TodoStep, OneMoves, RunnersFacts DEF CountdownDue
<1>31. ASSUME NEW i \in Instances, CycleEnd(i)
     PROVE  LobbyInv'
  <2>1. Stable
    BY <1>31, QuietStable DEF CycleEnd, db
  <2>2. Goto(i, "release") /\ "release" \in Pcs
    BY <1>31, PcFacts DEF CycleEnd, CallPcs, MatcherPcs
  <2>3. PassOK(i)' /\ CallOK(i)'
    BY <2>2, GotoStep, RestOK, RunnersFacts
  <2>4. run'[i].pc \in Locked => run[i].pc \in Locked
    BY <1>31, <2>2, GotoStep, RunnersFacts DEF CycleEnd, At, Locked, LockedPcs, MatcherPcs, TimeoutPcs
  <2> QED BY <1>31, <2>1, <2>2, <2>3, <2>4, GotoStep, OneMoves, RunnersFacts DEF CycleEnd
<1>32. ASSUME NEW i \in Instances, Crash(i)
     PROVE  LobbyInv'
  <2>1. Stable
    BY <1>32, QuietStable DEF Crash, db
  <2>2. lock' = lock /\ \A q \in Runners : run'[q] = run[q] \/ run'[q] = Idle
    BY <1>32 DEF Crash
  <2>3. Exclusive'
    BY <2>2, IdleType, PcFacts DEF Exclusive, Locked
  <2>4. RowsOK'
    BY <2>1, StableRows
  <2>5. ASSUME NEW q \in Runners PROVE PassOK(q)' /\ CallOK(q)'
    <3>1. CASE run'[q] = run[q]
      BY <2>1, <3>1, StableKept
    <3>2. CASE run'[q] = Idle
      BY <3>2, IdleType, RestOK
    <3> QED BY <2>2, <3>1, <3>2
  <2> QED BY <2>3, <2>4, <2>5 DEF LobbyInv, RunsOK
<1>33. ASSUME Tick
     PROVE  LobbyInv'
  <2>1. Stable
    BY <1>33, QuietStable DEF Tick, db
  <2> QED BY <1>33, <2>1, NoneMoves DEF Tick
<1>34. CASE UNCHANGED vars
  <2>1. Stable
    BY <1>34, QuietStable DEF vars
  <2> QED BY <1>34, <2>1, NoneMoves DEF vars
<1> QED BY <1>1, <1>2, <1>3, <1>4, <1>5, <1>6, <1>7, <1>9, <1>10, <1>11, <1>12, <1>13, <1>14, <1>15, <1>16, <1>17, <1>18, <1>19, <1>20, <1>21, <1>22, <1>23, <1>24, <1>25, <1>26, <1>27, <1>28, <1>29, <1>30, <1>31, <1>32, <1>33, <1>34 DEF Next, ReadyCall, Matcher, Timeouts

LEMMA InitLobbyInv == Init => LobbyInv
<1> SUFFICES ASSUME Init PROVE LobbyInv
    OBVIOUS
<1>1. TypeInv
  BY InitTypeInv
<1>2. Exclusive
  BY IdleType, PcFacts DEF Init, Exclusive, Locked
<1>3. RowsOK
  BY DEF Init, RowsOK, RowOK, Paired
<1>4. RunsOK
  BY IdleType DEF Init, RunsOK, PassOK, CallOK, MatcherPcs, PairPcs, CallPcs
<1> QED BY <1>1, <1>2, <1>3, <1>4 DEF LobbyInv

LEMMA SpecLobbyInv == ASSUME ~ LeaseMayExpire PROVE Spec => []LobbyInv
BY InitLobbyInv, LobbyInvStep, PTL DEF Spec

(* NoDoubleMatching ("Reuse the orchestrator lock so the matcher stays     *)
(* single-runner (no double-matching)", markSessionReady).                 *)
THEOREM NobodyTwice == ASSUME ~ LeaseMayExpire PROVE Spec => []NoDoubleMatching
<1>1. LobbyInv => NoDoubleMatching
  <2> SUFFICES ASSUME RowsOK, NEW s \in Users, NEW t \in Users, status[s] \in Live, status[t] \in Live,
                      NEW u \in parts[s] \cap parts[t], parts[s] \subseteq Users
               PROVE  s = t
    BY DEF LobbyInv, TypeInv, DataOK, NoDoubleMatching
  <2>1. u # s => status[u] = "CANCELLED"
    BY DEF RowsOK
  <2>2. u # t => status[u] = "CANCELLED"
    BY DEF RowsOK
  <2> QED BY <2>1, <2>2 DEF RowsOK, Live
<1> QED BY <1>1, SpecLobbyInv, PTL

(* PairsAreReady: a session that left PENDING for a match has exactly two  *)
(* peers, and both had pressed ready.                                      *)
THEOREM PairsComplete == ASSUME ~ LeaseMayExpire PROVE Spec => []PairsAreReady
<1>1. LobbyInv => PairsAreReady
  <2> SUFFICES ASSUME RowsOK, NEW s \in Users, status[s] \in Paired
               PROVE  Cardinality(parts[s]) = 2 /\ isReady[s] = parts[s]
    BY DEF LobbyInv, PairsAreReady
  <2>1. PICK v \in Users \ {s} : parts[s] = {s, v}
    BY DEF RowsOK, RowOK
  <2>2. Cardinality({s} \cup {v}) = 2
    <3>1. IsFiniteSet({s}) /\ Cardinality({s}) = 1 /\ v \notin {s}
      BY <2>1, FS_Singleton
    <3>2. Cardinality({s} \cup {v}) = Cardinality({s}) + 1
      BY <3>1, FS_AddElement
    <3> QED BY <3>1, <3>2
  <2>3. {s} \cup {v} = {s, v}
    OBVIOUS
  <2> QED BY <2>1, <2>2, <2>3 DEF RowsOK, RowOK
<1> QED BY <1>1, SpecLobbyInv, PTL

(* CancelledIsFinal: no write made from a status read awaits earlier ever  *)
(* brings a cancelled session back.                                        *)
THEOREM CancelledForGood == ASSUME ~ LeaseMayExpire PROVE Spec => CancelledIsFinal
<1>1. ASSUME LobbyInv, [Next]_vars, NEW s \in Users, status[s] = "CANCELLED"
      PROVE  status'[s] = "CANCELLED"
  BY <1>1, CancelledStep
<1>2. LobbyInv /\ [Next]_vars => [\A s \in Users : status[s] = "CANCELLED" => status'[s] = "CANCELLED"]_vars
  BY <1>1
<1> QED BY <1>2, SpecLobbyInv, PTL DEF Spec, CancelledIsFinal

-----------------------------------------------------------------------------
(* What a step does to the rows: only a match and a cancellation do more   *)
(* than move a row from one paired status to the next.                     *)
LEMMA RowSteps ==
    ASSUME LobbyInv, [Next]_vars
    PROVE  \/ Stable /\ ticket' = ticket
           \/ \E r \in Runners : Merge(r)
           \/ \E i \in Instances, s \in Users : CancelLone(i, s)
<1> USE DEF LobbyInv, TypeInv
<1>1. ASSUME UNCHANGED db PROVE Stable /\ ticket' = ticket
  BY <1>1, QuietStable DEF db
<1>2. ASSUME NEW u \in Users, ReadyMark(u) PROVE Stable /\ ticket' = ticket
  <2>1. run[u].sess \in Users /\ u \in parts[run[u].sess]
    BY <1>2, RunnersFacts DEF ReadyMark, At, RunsOK, CallOK, JobsOK, JobOK, CallPcs
  <2>2. isReady \in [Users -> SUBSET Users]
    BY DEF DataOK
  <2> QED BY <1>2, <2>1, <2>2 DEF ReadyMark, Stable, RowsOK, RowOK
<1>3. ASSUME NEW u \in Users, ReadyConnect(u) PROVE Stable /\ ticket' = ticket
  <2>1. run[u].sess \in Users /\ status[run[u].sess] \in Paired
    BY <1>3, RunnersFacts DEF ReadyConnect, At, RunsOK, CallOK, JobsOK, JobOK, CallPcs
  <2> QED BY <1>3, <2>1 DEF ReadyConnect, Stable, RowsOK, RowOK, DataOK, Paired
<1>4. ASSUME NEW u \in Users, ReadyActivate(u) PROVE Stable /\ ticket' = ticket
  <2>1. run[u].sess \in Users
    BY <1>4, RunnersFacts DEF ReadyActivate, At, JobsOK, JobOK, CallPcs
  <2> QED BY <1>4, <2>1, ActivateStable DEF ReadyActivate
<1>5. ASSUME NEW r \in Runners, ConnectPair(r) PROVE Stable /\ ticket' = ticket
  <2>1. run[r].primary \in Users /\ status[run[r].primary] \in Paired
    BY <1>5 DEF ConnectPair, At, JobsOK, JobOK, RunsOK, PassOK, PairPcs
  <2> QED BY <1>5, <2>1 DEF ConnectPair, Stable, RowsOK, RowOK, DataOK, Paired
<1>6. ASSUME NEW i \in Instances, NEW s \in Users, CountdownDue(i, s) PROVE Stable /\ ticket' = ticket
  BY <1>6, ActivateStable DEF CountdownDue
<1>7. ASSUME NEW s \in Users, TimerFires(s) PROVE Stable /\ ticket' = ticket
  BY <1>7, ActivateStable DEF TimerFires
<1>8. ASSUME NEW u \in Users, ReadyCall(u) PROVE Stable /\ ticket' = ticket
  BY <1>1, <1>2, <1>3, <1>4, <1>8 DEF ReadyCall, ReadyCount, ReadyStamp, ReadyTryLock
<1>9. ASSUME NEW r \in Runners, Matcher(r) PROVE (Stable /\ ticket' = ticket) \/ Merge(r)
  BY <1>1, <1>5, <1>9 DEF Matcher, MatchSnapshot, MatchDone, MatchSkip, MatchPick, MergeFails,
       MergeKeys, ArmCountdown, ReleaseRead, ReleaseDelete
<1>10. ASSUME NEW i \in Instances, Timeouts(i)
       PROVE  (Stable /\ ticket' = ticket) \/ \E s \in Users : CancelLone(i, s)
  BY <1>1, <1>6, <1>10 DEF Timeouts, TimeoutSnapshot, CancelKeys, CountdownSnapshot, CycleEnd,
       ArmGiveUp, NotYet, CountdownSkip
<1>11. ASSUME UNCHANGED vars PROVE UNCHANGED db
  BY <1>11 DEF vars, db
<1> QED BY <1>1, <1>7, <1>8, <1>9, <1>10, <1>11 DEF Next, ReadyRead, CycleStart, Crash, LeaseEnd, Tick

(* A match: two waiting rows become one pair and one cancelled row.        *)
LEMMA MergeRows ==
    ASSUME LobbyInv, NEW r \in Runners, Merge(r)
    PROVE  \E p, s \in Users :
              /\ p # s /\ status[p] = "PENDING" /\ status[s] = "PENDING"
              /\ p = run[r].primary /\ s = run[r].secondary
              /\ \A t \in Users :
                    /\ status'[t] = IF t = p THEN "MATCHED" ELSE IF t = s THEN "CANCELLED" ELSE status[t]
                    /\ parts'[t] = IF t = p THEN {p, s} ELSE parts[t]
              /\ ticket' = [u \in Users |-> MergedTicket(ticket[u], p, s)]
<1> DEFINE p == run[r].primary
           s == run[r].secondary
<1> USE DEF LobbyInv, TypeInv
<1>1. p \in Users /\ s \in Users
  BY DEF Merge, At, JobsOK, JobOK, PairPcs
<1>2. p # s /\ status[p] = "PENDING" /\ status[s] = "PENDING"
  BY DEF Merge, At, RunsOK, PassOK, Waits
<1>3. parts[p] = {p}
  BY <1>1, <1>2 DEF RowsOK, RowOK
<1>4. \A t \in Users : status'[t] = IF t = p THEN "MATCHED" ELSE IF t = s THEN "CANCELLED" ELSE status[t]
  BY <1>1, <1>2 DEF Merge, MergedStatus, DataOK
<1>5. \A t \in Users : parts'[t] = IF t = p THEN {p, s} ELSE parts[t]
  BY <1>1, <1>3 DEF Merge, DataOK
<1>6. ticket' = [u \in Users |-> MergedTicket(ticket[u], p, s)]
  BY DEF Merge
<1> QED BY <1>1, <1>2, <1>4, <1>5, <1>6

(* A cancellation: one waiting row is closed.                              *)
LEMMA CancelRows ==
    ASSUME LobbyInv, NEW i \in Instances, NEW s \in Users, CancelLone(i, s)
    PROVE  /\ status[s] = "PENDING" /\ parts' = parts
           /\ \A t \in Users : status'[t] = IF t = s THEN "CANCELLED" ELSE status[t]
           /\ ticket' = [u \in Users |-> CancelledTicket(ticket[u], s)]
<1> USE DEF LobbyInv, TypeInv
<1>1. status[s] = "PENDING"
  BY RunnersFacts DEF CancelLone, InTimeouts, At, RunsOK, PassOK
<1>2. \A t \in Users : status'[t] = IF t = s THEN "CANCELLED" ELSE status[t]
  BY DEF CancelLone, DataOK
<1> QED BY <1>1, <1>2 DEF CancelLone

-----------------------------------------------------------------------------
(* Tickets.                                                                *)
LEMMA TicketStep ==
    ASSUME LobbyInv, TicketAgrees, [Next]_vars
    PROVE  TicketAgrees'
<1> DEFINE T(t, u) ==
       CASE t.status = "scheduled" -> t.session = u /\ status[u] = "PENDING"
         [] t.status = "matched" -> u \in parts[t.session] /\ status[t.session] \in Paired
         [] t.status = "cancelled" -> t.session = u /\ status[u] = "CANCELLED"
<1>1. \A u \in Users :
        /\ ticket[u].session \in Users
        /\ ticket[u].status \in {"scheduled", "matched", "cancelled"}
  BY DEF LobbyInv, TypeInv, DataOK
<1>2. CASE Stable /\ ticket' = ticket
  <2> SUFFICES ASSUME NEW u \in Users PROVE T(ticket[u], u)'
    BY DEF TicketAgrees
  <2>1. T(ticket[u], u) /\ ticket'[u] = ticket[u] /\ parts' = parts
    BY <1>2 DEF TicketAgrees, Stable
  <2>2. CASE ticket[u].status = "scheduled"
    BY <1>2, <2>1, <2>2 DEF Stable, Paired
  <2>3. CASE ticket[u].status = "matched"
    BY <1>1, <1>2, <2>1, <2>3 DEF Stable, Paired
  <2>4. CASE ticket[u].status = "cancelled"
    BY <1>2, <2>1, <2>4 DEF Stable, Paired
  <2> QED BY <1>1, <2>2, <2>3, <2>4
<1>3. ASSUME NEW r \in Runners, Merge(r) PROVE TicketAgrees'
  <2>1. PICK p \in Users, s \in Users :
              /\ p # s /\ status[p] = "PENDING" /\ status[s] = "PENDING"
              /\ p = run[r].primary /\ s = run[r].secondary
              /\ \A t \in Users :
                    /\ status'[t] = IF t = p THEN "MATCHED" ELSE IF t = s THEN "CANCELLED" ELSE status[t]
                    /\ parts'[t] = IF t = p THEN {p, s} ELSE parts[t]
              /\ ticket' = [u \in Users |-> MergedTicket(ticket[u], p, s)]
    BY <1>3, MergeRows
  <2> SUFFICES ASSUME NEW u \in Users PROVE T(ticket[u], u)'
    BY DEF TicketAgrees
  <2>2. T(ticket[u], u) /\ ticket'[u] = MergedTicket(ticket[u], p, s)
    BY <2>1 DEF TicketAgrees
  <2>3. CASE ticket[u].status = "scheduled" /\ u \in {p, s}
    BY <2>1, <2>2, <2>3 DEF MergedTicket, Paired
  <2>4. CASE ticket[u].status = "scheduled" /\ u \notin {p, s}
    BY <2>1, <2>2, <2>4 DEF MergedTicket
  <2>5. CASE ticket[u].status = "matched"
    BY <1>1, <2>1, <2>2, <2>5 DEF MergedTicket, Paired
  <2>6. CASE ticket[u].status = "cancelled"
    BY <2>1, <2>2, <2>6 DEF MergedTicket
  <2> QED BY <1>1, <2>3, <2>4, <2>5, <2>6
<1>4. ASSUME NEW i \in Instances, NEW s \in Users, CancelLone(i, s) PROVE TicketAgrees'
  <2>1. /\ status[s] = "PENDING" /\ parts' = parts
        /\ \A t \in Users : status'[t] = IF t = s THEN "CANCELLED" ELSE status[t]
        /\ ticket' = [u \in Users |-> CancelledTicket(ticket[u], s)]
    BY <1>4, CancelRows
  <2> SUFFICES ASSUME NEW u \in Users PROVE T(ticket[u], u)'
    BY DEF TicketAgrees
  <2>2. T(ticket[u], u) /\ ticket'[u] = CancelledTicket(ticket[u], s)
    BY <2>1 DEF TicketAgrees
  <2>3. CASE ticket[u].status = "scheduled" /\ u = s
    <3>1. ticket'[u].status = "cancelled" /\ ticket'[u].session = u
      BY <2>2, <2>3, <1>1 DEF CancelledTicket, LobbyInv, TypeInv, DataOK
    <3> QED BY <2>1, <2>3, <3>1
  <2>4. CASE ticket[u].status = "scheduled" /\ u # s
    BY <2>1, <2>2, <2>4 DEF CancelledTicket
  <2>5. CASE ticket[u].status = "matched"
    BY <1>1, <2>1, <2>2, <2>5 DEF CancelledTicket, Paired
  <2>6. CASE ticket[u].status = "cancelled"
    BY <2>1, <2>2, <2>6 DEF CancelledTicket
  <2> QED BY <1>1, <2>3, <2>4, <2>5, <2>6
<1> QED BY <1>2, <1>3, <1>4, RowSteps

(* The tickets agree with the rows: the transactions of                    *)
(* matchScheduledSessions and cancelLoneLobbySession write both tables at  *)
(* once, and no later step moves a row away from its tickets.              *)
THEOREM TicketsAgree == ASSUME ~ LeaseMayExpire PROVE Spec => []TicketAgrees
<1>1. Init => TicketAgrees
  <2> SUFFICES ASSUME Init, NEW u \in Users
               PROVE  /\ ticket[u].status = "scheduled" /\ ticket[u].session = u
                      /\ status[u] = "PENDING"
    BY DEF TicketAgrees
  <2> QED BY DEF Init
<1>2. LobbyInv /\ TicketAgrees /\ [Next]_vars => TicketAgrees'
  BY TicketStep
<1> QED BY <1>1, <1>2, SpecLobbyInv, PTL DEF Spec

-----------------------------------------------------------------------------
(* The mapping.                                                            *)
Seats == [u \in Users |-> PartnerOf(u)]

\* Who sits where, from the two tables it depends on.
SeatsOK ==
    \A u \in Users :
       /\ status[u] = "PENDING" => PartnerOf(u) = "waiting"
       /\ status[u] # "PENDING" =>
             /\ \A v \in Users : SeatedWith(u, v) => PartnerOf(u) = v
             /\ (\A v \in Users : ~ SeatedWith(u, v)) => PartnerOf(u) = "gone"

LEMMA SeatFacts == RowsOK => SeatsOK
<1> SUFFICES ASSUME RowsOK, NEW u \in Users, status[u] # "PENDING", NEW v \in Users, SeatedWith(u, v)
             PROVE  PartnerOf(u) = v
    BY DEF SeatsOK, PartnerOf
<1>1. ASSUME NEW w \in Users, SeatedWith(u, w) PROVE w = v
  <2>1. PICK s \in Users : status[s] \in Paired /\ u # v /\ parts[s] = {u, v}
    BY DEF SeatedWith
  <2>2. PICK t \in Users : status[t] \in Paired /\ u # w /\ parts[t] = {u, w}
    BY <1>1 DEF SeatedWith
  <2>3. s = t
    BY <2>1, <2>2 DEF RowsOK, Paired
  <2> QED BY <2>1, <2>2, <2>3
<1>2. PartnerOf(u) = CHOOSE w \in Users : SeatedWith(u, w)
  BY DEF PartnerOf
<1> HIDE DEF SeatedWith
<1>3. SeatedWith(u, CHOOSE w \in Users : SeatedWith(u, w)) /\ (CHOOSE w \in Users : SeatedWith(u, w)) \in Users
  OBVIOUS
<1> QED BY <1>1, <1>2, <1>3

(* A user whose row and whose seats stay keeps the partner.                *)
LEMMA SeatKept ==
    ASSUME SeatsOK, SeatsOK', NEW u \in Users,
           status[u] = "PENDING" <=> status'[u] = "PENDING",
           \A v \in Users : SeatedWith(u, v) <=> SeatedWith(u, v)'
    PROVE  PartnerOf(u)' = PartnerOf(u)
<1> USE DEF SeatsOK
<1> HIDE DEF PartnerOf, SeatedWith
<1>1. CASE status[u] = "PENDING"
  BY <1>1
<1>2. CASE status[u] # "PENDING" /\ \A v \in Users : ~ SeatedWith(u, v)
  BY <1>2
<1>3. ASSUME status[u] # "PENDING", NEW v \in Users, SeatedWith(u, v) PROVE PartnerOf(u)' = PartnerOf(u)
  BY <1>3
<1> QED BY <1>1, <1>2, <1>3

LEMMA StableSeats == ASSUME LobbyInv, SeatsOK, SeatsOK', Stable PROVE Seats' = Seats
<1>1. ASSUME NEW u \in Users PROVE PartnerOf(u)' = PartnerOf(u)
  <2>1. status[u] = "PENDING" <=> status'[u] = "PENDING"
    BY DEF Stable, Paired
  <2>2. \A v \in Users : SeatedWith(u, v) <=> SeatedWith(u, v)'
    BY DEF Stable, SeatedWith, Paired
  <2> QED BY <2>1, <2>2, SeatKept
<1> QED BY <1>1 DEF Seats

LEMMA MergeSeats ==
    ASSUME LobbyInv, SeatsOK, SeatsOK', NEW r \in Runners, Merge(r)
    PROVE  \E a, b \in Users :
              /\ a # b /\ Seats[a] = "waiting" /\ Seats[b] = "waiting"
              /\ Seats' = [Seats EXCEPT ![a] = b, ![b] = a]
<1>1. PICK p \in Users, s \in Users :
          /\ p # s /\ status[p] = "PENDING" /\ status[s] = "PENDING"
          /\ \A t \in Users :
                /\ status'[t] = IF t = p THEN "MATCHED" ELSE IF t = s THEN "CANCELLED" ELSE status[t]
                /\ parts'[t] = IF t = p THEN {p, s} ELSE parts[t]
  BY MergeRows
<1>2. PartnerOf(p) = "waiting" /\ PartnerOf(s) = "waiting"
  BY <1>1 DEF SeatsOK
<1>3. PartnerOf(p)' = s /\ PartnerOf(s)' = p
  <2>1. SeatedWith(p, s)' /\ SeatedWith(s, p)'
    BY <1>1 DEF SeatedWith, Paired
  <2>2. status'[p] # "PENDING" /\ status'[s] # "PENDING"
    BY <1>1
  <2> HIDE DEF PartnerOf, SeatedWith
  <2> QED BY <2>1, <2>2 DEF SeatsOK
<1>4. ASSUME NEW u \in Users \ {p, s} PROVE PartnerOf(u)' = PartnerOf(u)
  <2>1. \A v \in Users : SeatedWith(u, v) <=> SeatedWith(u, v)'
    BY <1>1 DEF SeatedWith, Paired
  <2>2. status'[u] = status[u]
    BY <1>1
  <2> HIDE DEF PartnerOf, SeatedWith
  <2> QED BY <2>1, <2>2, SeatKept
<1> HIDE DEF PartnerOf
<1>5. Seats' = [Seats EXCEPT ![p] = s, ![s] = p]
  BY <1>1, <1>3, <1>4 DEF Seats
<1> QED BY <1>1, <1>2, <1>5 DEF Seats

LEMMA CancelSeats ==
    ASSUME LobbyInv, SeatsOK, SeatsOK', NEW i \in Instances, NEW s \in Users, CancelLone(i, s)
    PROVE  Seats[s] = "waiting" /\ Seats' = [Seats EXCEPT ![s] = "gone"]
<1>1. /\ status[s] = "PENDING" /\ parts' = parts
      /\ \A t \in Users : status'[t] = IF t = s THEN "CANCELLED" ELSE status[t]
  BY CancelRows
<1>2. PartnerOf(s) = "waiting"
  BY <1>1 DEF SeatsOK
<1>3. PartnerOf(s)' = "gone"
  <2>1. ASSUME NEW v \in Users, NEW t \in Users, status'[t] \in Paired, s # v, parts'[t] = {s, v}
        PROVE  FALSE
    BY <1>1, <2>1 DEF LobbyInv, RowsOK, RowOK, Paired
  <2>2. \A v \in Users : ~ SeatedWith(s, v)'
    BY <2>1 DEF SeatedWith
  <2>3. status'[s] # "PENDING"
    BY <1>1
  <2> HIDE DEF PartnerOf, SeatedWith
  <2> QED BY <2>2, <2>3 DEF SeatsOK
<1>4. ASSUME NEW u \in Users \ {s} PROVE PartnerOf(u)' = PartnerOf(u)
  <2>1. \A v \in Users : SeatedWith(u, v) <=> SeatedWith(u, v)'
    BY <1>1 DEF SeatedWith, Paired
  <2>2. status'[u] = status[u]
    BY <1>1
  <2> HIDE DEF PartnerOf, SeatedWith
  <2> QED BY <2>1, <2>2, SeatKept
<1> HIDE DEF PartnerOf
<1>5. Seats' = [Seats EXCEPT ![s] = "gone"]
  BY <1>1, <1>3, <1>4 DEF Seats
<1> QED BY <1>2, <1>5 DEF Seats

(* The waiting room keeps the promise of Pairing: whatever the matchers,   *)
(* the calls, the timers and the crashes do, a user goes from waiting to a *)
(* partner who takes the user in return, or to gone, and stays there.      *)
THEOREM LobbyRefinesPairing == ASSUME ~ LeaseMayExpire PROVE Spec => RefinesPairing
<1>1. Init => Promise!Init
  <2> SUFFICES ASSUME Init PROVE \A u \in Users : PartnerOf(u) = "waiting"
    BY DEF Promise!Init
  <2> QED BY DEF Init, PartnerOf
<1>2. LobbyInv => SeatsOK
  BY SeatFacts DEF LobbyInv
<1>3. LobbyInv /\ SeatsOK /\ SeatsOK' /\ [Next]_vars => [Promise!Next]_[u \in Users |-> PartnerOf(u)]
  <2> SUFFICES ASSUME LobbyInv, SeatsOK, SeatsOK', [Next]_vars PROVE [Promise!Next]_Seats
    BY DEF Seats
  <2>1. CASE Stable
    BY <2>1, StableSeats
  <2>2. ASSUME NEW r \in Runners, Merge(r) PROVE Promise!Next
    BY <2>2, MergeSeats DEF Promise!Next, Promise!Pair, Seats
  <2>3. ASSUME NEW i \in Instances, NEW s \in Users, CancelLone(i, s) PROVE Promise!Next
    BY <2>3, CancelSeats DEF Promise!Next, Promise!LetGo, Seats
  <2> QED BY <2>1, <2>2, <2>3, RowSteps
<1> QED BY <1>1, <1>2, <1>3, SpecLobbyInv, PTL DEF Spec, RefinesPairing, Promise!Spec

-----------------------------------------------------------------------------
(* A non-empty set of waiters has one who waited longest.                  *)
LEMMA SomebodyWaitedLongest ==
    ASSUME RunOK, NEW r \in Runners, NEW S \in SUBSET Users, S # {}
    PROVE  Longest(r, S) # {}
<1> DEFINE wait == run[r].wait
           T == {wait[c] : c \in S}
<1>1. wait \in [Users -> Nat]
  BY DEF RunOK, Locals
<1>2. T \subseteq Nat /\ T # {}
  BY <1>1
<1>3. PICK n \in T : \A m \in T : n <= m
  <2> HIDE DEF T
  <2> QED BY <1>2, LeastNat
<1>4. PICK c \in S : n = wait[c]
  OBVIOUS
<1>5. \A d \in S : wait[c] <= wait[d]
  BY <1>3, <1>4
<1> QED BY <1>4, <1>5 DEF Longest

-----------------------------------------------------------------------------
(* A pass of the matcher, which reads nothing but its own locals.          *)
Ahead(r, a) ==
    \A b \in run[r].left \ {a} :
        Level[a] # Level[b] /\ run[r].at - run[r].wait[a] < SameLevelGrace

FairPair(r) ==
    LET pair == {run[r].primary, run[r].secondary}
        since == run[r].wait
    IN /\ \E a \in pair : \A c \in run[r].left :
             (\E b \in pair : Level[c] = Level[b]) => since[a] <= since[c]
       /\ \A a, b \in pair : Level[a] # Level[b] =>
             \E c \in pair : run[r].at - since[c] >= SameLevelGrace

FairPass(r) ==
    /\ run[r].pc \in MatcherPcs \ {"match"} =>
          /\ run[r].todo \subseteq run[r].left
          /\ \A a \in run[r].left \ run[r].todo : Ahead(r, a)
    /\ run[r].pc = "merge" => FairPair(r)

PassesFair == \A r \in Runners : FairPass(r)

\* What a step may do to the locals of a process, as far as its pass goes.
Forth(r) ==
    /\ run'[r].todo = run[r].todo /\ run'[r].left = run[r].left
    /\ run'[r].at = run[r].at /\ run'[r].wait = run[r].wait

LEMMA ForthStep ==
    ASSUME NEW r \in Runners, FairPass(r), Forth(r), run[r].pc \in MatcherPcs \ {"match"},
           run'[r].pc # "merge"
    PROVE  FairPass(r)'
BY DEF FairPass, Forth, Ahead

LEMMA OutsideStep ==
    ASSUME NEW r \in Runners, run'[r].pc \notin MatcherPcs \ {"match"}
    PROVE  FairPass(r)'
BY DEF FairPass, MatcherPcs

LEMMA GotoForth ==
    ASSUME RunOK, NEW r \in Runners, NEW label, Goto(r, label)
    PROVE  Forth(r) /\ run'[r].pc = label /\ \A q \in Runners : q # r => run'[q] = run[q]
BY DEF RunOK, Goto, Locals, Forth

LEMMA SkipFair ==
    ASSUME TypeInv, NEW r \in Runners, FairPass(r), NEW cur \in Users, MatchSkip(r, cur)
    PROVE  FairPass(r)'
<1>1. /\ run[r].pc = "pick" /\ cur \in run[r].todo /\ Partners(r, cur) = {}
      /\ run[r].todo \subseteq run[r].left
      /\ \A a \in run[r].left \ run[r].todo : Ahead(r, a)
  BY DEF MatchSkip, At, Longest, FairPass, MatcherPcs
<1>2. /\ run'[r].todo = run[r].todo \ {cur} /\ run'[r].left = run[r].left
      /\ run'[r].at = run[r].at /\ run'[r].wait = run[r].wait /\ run'[r].pc = "pick"
  BY <1>1 DEF TypeInv, RunOK, Locals, MatchSkip
<1>3. run[r].left \subseteq Users /\ run[r].wait \in [Users -> Nat] /\ run[r].at \in Nat
  BY DEF TypeInv, RunOK, Locals
<1> DEFINE available == run[r].left \ {cur}
           sameLevel == {c \in available : Level[c] = Level[cur]}
<1>4. sameLevel = {}
  <2>1. sameLevel # {} => Longest(r, sameLevel) = {}
    BY <1>1 DEF Partners
  <2>2. sameLevel \subseteq Users
    BY <1>3
  <2> HIDE DEF sameLevel
  <2> QED BY <2>1, <2>2, SomebodyWaitedLongest DEF TypeInv
<1>5. PastGrace(r, cur) => available = {}
  <2>1. PastGrace(r, cur) => Longest(r, available) = {}
    BY <1>1, <1>4 DEF Partners
  <2>2. available \subseteq Users
    BY <1>3
  <2> HIDE DEF available, sameLevel
  <2> QED BY <2>1, <2>2, SomebodyWaitedLongest DEF TypeInv
<1>6. Ahead(r, cur)
  <2>1. available # {} => run[r].at - run[r].wait[cur] < SameLevelGrace
    BY <1>3, <1>5, LobbyAssumption DEF PastGrace
  <2> QED BY <1>4, <2>1 DEF Ahead
<1>7. \A a \in run[r].left \ (run[r].todo \ {cur}) : Ahead(r, a)
  BY <1>1, <1>6
<1> QED BY <1>1, <1>2, <1>7 DEF FairPass, Ahead, MatcherPcs

LEMMA PickFair ==
    ASSUME TypeInv, NEW r \in Runners, FairPass(r), NEW cur \in Users, NEW partner \in Users,
           MatchPick(r, cur, partner)
    PROVE  FairPass(r)'
<1>1. /\ run[r].pc = "pick" /\ cur \in Longest(r, run[r].todo)
      /\ run[r].todo \subseteq run[r].left
      /\ \A a \in run[r].left \ run[r].todo : Ahead(r, a)
  BY DEF MatchPick, At, FairPass, MatcherPcs
<1> DEFINE kept == Earlier(cur, partner)
           l == [run[r] EXCEPT !.pc = "merge",
              !.todo = run[r].todo \ Consumed(cur, partner),
              !.left = run[r].left \ Consumed(cur, partner),
              !.primary = kept, !.secondary = IF kept = cur THEN partner ELSE cur]
<1>2. run' = [run EXCEPT ![r] = l]
  BY DEF MatchPick
<1>3. /\ l.pc = "merge" /\ l.todo = run[r].todo \ {cur, partner} /\ l.left = run[r].left \ {cur, partner}
      /\ l.at = run[r].at /\ l.wait = run[r].wait /\ {l.primary, l.secondary} = {cur, partner}
  <2>1. kept \in {cur, partner}
    BY DEF Earlier
  <2> QED BY <2>1 DEF TypeInv, RunOK, Locals, Consumed
<1> HIDE DEF l
<1>4. run'[r] = l
  BY <1>2 DEF TypeInv, RunOK
<1>5. partner \in run[r].left \ {cur}
  BY DEF MatchPick, Partners, Longest
<1>6. run[r].left \subseteq Users /\ run[r].wait \in [Users -> Nat] /\ run[r].at \in Nat
  BY DEF TypeInv, RunOK, Locals
<1>7. ASSUME NEW c \in run[r].left \ {cur, partner}, Level[c] = Level[cur] \/ Level[c] = Level[partner]
      PROVE  run[r].wait[cur] <= run[r].wait[c]
  <2>1. c \in run[r].todo
    <3>1. ~ Ahead(r, c)
      BY <1>1, <1>5, <1>7 DEF Ahead, Longest
    <3> QED BY <1>1, <3>1
  <2> QED BY <1>1, <2>1 DEF Longest
<1>8. Level[cur] # Level[partner] => run[r].at - run[r].wait[cur] >= SameLevelGrace
  <2>1. PICK S \in SUBSET (run[r].left \ {cur}) : 
          /\ partner \in Longest(r, S)
          /\ (\A c \in S : Level[c] = Level[cur]) \/ PastGrace(r, cur)
    BY DEF MatchPick, Partners
  <2> QED BY <2>1 DEF Longest, PastGrace
<1>9. \A a \in l.left \ l.todo : Ahead(r, a)
  BY <1>1, <1>3
<1>10. FairPass(r)'
  <2>1. l.todo \subseteq l.left /\ \A a \in run'[r].left \ run'[r].todo : Ahead(r, a)'
    BY <1>1, <1>3, <1>4, <1>9 DEF Ahead
  <2>2. FairPair(r)'
    BY <1>3, <1>4, <1>7, <1>8 DEF FairPair
  <2> QED BY <1>3, <1>4, <2>1, <2>2 DEF FairPass
<1> QED BY <1>10

LEMMA PassesFairStep == TypeInv /\ PassesFair /\ [Next]_vars => PassesFair'
<1> SUFFICES ASSUME TypeInv, PassesFair, [Next]_vars, NEW r \in Runners PROVE FairPass(r)'
    BY DEF PassesFair
<1>a. FairPass(r) /\ RunOK
  BY DEF PassesFair, TypeInv
<1>1. CASE run'[r] = run[r]
  BY <1>1, <1>a DEF FairPass, Ahead, FairPair
<1>2. ASSUME run'[r].pc \notin MatcherPcs \ {"match"} PROVE FairPass(r)'
  BY <1>2, OutsideStep
<1>3. ASSUME NEW u \in Users, NEW s \in Users, ReadyRead(u, s) PROVE FairPass(r)'
  <2>1. run'[u].pc = "mark" /\ \A q \in Runners : q # u => run'[q] = run[q]
    BY <1>3, <1>a, IdleType, RunnersFacts DEF ReadyRead, RunOK, Locals
  <2> QED BY <1>1, <1>2, <2>1 DEF MatcherPcs
<1>4. ASSUME NEW q \in Runners, q # r, \A p \in Runners : p # q => run'[p] = run[p] PROVE FairPass(r)'
  BY <1>1, <1>4
<1>5. ASSUME NEW q \in Runners, Return(q) PROVE FairPass(r)'
  BY <1>1, <1>2, <1>5, <1>a, ReturnStep DEF MatcherPcs
<1>6. ASSUME NEW q \in Runners, NEW label, label \notin MatcherPcs \ {"match"}, Goto(q, label) PROVE FairPass(r)'
  BY <1>1, <1>2, <1>6, <1>a, GotoForth
<1>7. ASSUME NEW q \in Runners, NEW label \in {"mergeKeys", "connectPair", "arm"}, Goto(q, label), q # r \/ run[q].pc \in MatcherPcs \ {"match"}
      PROVE FairPass(r)'
  <2>1. Forth(q) /\ run'[q].pc = label /\ \A p \in Runners : p # q => run'[p] = run[p]
    BY <1>7, <1>a, GotoForth
  <2>2. label # "merge"
    BY <1>7
  <2> QED BY <1>1, <1>7, <1>a, <2>1, <2>2, ForthStep
<1>8. ASSUME NEW q \in Runners, NEW s \in Users, run' = [run EXCEPT ![q].todo = @ \ {s}], run[q].pc \notin MatcherPcs
      PROVE FairPass(r)'
  BY <1>1, <1>2, <1>8, <1>a, TodoStep
<1>9. ASSUME NEW u \in Users, ReadyCall(u) PROVE FairPass(r)'
  <2>1. u \in Runners /\ {"count", "connect", "stamp", "activate", "tryLock", "match"} \cap (MatcherPcs \ {"match"}) = {}
    BY RunnersFacts DEF MatcherPcs
  <2>2. \/ Return(u)
        \/ \E label \in {"count", "connect", "stamp", "activate", "tryLock", "match"} : Goto(u, label)
    BY <1>9 DEF ReadyCall, ReadyMark, ReadyCount, ReadyConnect, ReadyActivate, ReadyStamp, ReadyTryLock
  <2> QED BY <2>1, <2>2, <1>5, <1>6
<1>10. ASSUME NEW q \in Runners, MatchSnapshot(q) PROVE FairPass(r)'
  <2>1. CASE AfterMatcher(q)
    BY <1>1, <1>2, <2>1, <1>a, AfterMatcherStep DEF MatcherPcs
  <2>2. CASE ~ AfterMatcher(q)
    <3> DEFINE ready == {s \in Users : Waiting(s) /\ SlotDue(s)}
               since == [s \in Users |-> IF s \notin ready THEN 0
                                         ELSE IF lobbySince[s] # 0 THEN lobbySince[s] ELSE Slot[s]]
               l == [run[q] EXCEPT !.pc = "pick", !.at = now, !.wait = since, !.todo = ready, !.left = ready]
    <3>1. run' = [run EXCEPT ![q] = l]
      BY <1>10, <2>2 DEF MatchSnapshot
    <3> HIDE DEF ready, since
    <3>2. l.pc = "pick" /\ l.todo = ready /\ l.left = ready
      BY <1>a DEF RunOK, Locals
    <3> HIDE DEF l
    <3>3. run'[q] = l /\ \A p \in Runners : p # q => run'[p] = run[p]
      BY <3>1, <1>a DEF RunOK
    <3> QED BY <1>1, <3>2, <3>3 DEF FairPass
  <2> QED BY <2>1, <2>2
<1>11. ASSUME NEW q \in Runners, Matcher(q) PROVE FairPass(r)'
  <2>1. CASE MatchDone(q)
    BY <1>1, <1>2, <2>1, <1>a, AfterMatcherStep DEF MatchDone, MatcherPcs
  <2>2. ASSUME NEW cur \in Users, MatchSkip(q, cur) PROVE FairPass(r)'
    <3>1. \A p \in Runners : p # q => run'[p] = run[p]
      BY <2>2, <1>a, TodoStep DEF MatchSkip
    <3> QED BY <1>1, <2>2, <3>1, <1>a, SkipFair
  <2>3. ASSUME NEW cur \in Users, NEW partner \in Users, MatchPick(q, cur, partner) PROVE FairPass(r)'
    <3>1. \A p \in Runners : p # q => run'[p] = run[p]
      BY <2>3, <1>a DEF MatchPick, RunOK
    <3> QED BY <1>1, <2>3, <3>1, <1>a, PickFair
  <2>4. CASE Merge(q) \/ MergeKeys(q) \/ ConnectPair(q)
    <3>1. run[q].pc \in MatcherPcs \ {"match"}
      BY <2>4 DEF Merge, MergeKeys, ConnectPair, At, MatcherPcs
    <3>2. \E label \in {"mergeKeys", "connectPair", "arm"} : Goto(q, label)
      BY <2>4 DEF Merge, MergeKeys, ConnectPair
    <3> QED BY <1>7, <3>1, <3>2
  <2>5. CASE MergeFails(q)
    <3>1. run'[q].pc = "release" /\ \A p \in Runners : p # q => run'[p] = run[p]
      BY <2>5, <1>a, IdleType DEF MergeFails, RunOK, Locals
    <3> QED BY <1>1, <1>2, <3>1 DEF MatcherPcs
  <2>6. CASE ArmCountdown(q)
    <3>1. /\ run[q].pc \in MatcherPcs \ {"match"} /\ Forth(q) /\ run'[q].pc = "pick"
          /\ \A p \in Runners : p # q => run'[p] = run[p]
      BY <2>6, <1>a DEF ArmCountdown, At, MatcherPcs, RunOK, Locals, Forth
    <3> QED BY <1>1, <3>1, <1>a, ForthStep
  <2>7. CASE ReleaseRead(q) \/ ReleaseDelete(q)
    <3>1. Return(q) \/ Goto(q, "unlock")
      BY <2>7 DEF ReleaseRead, ReleaseDelete
    <3> QED BY <3>1, <1>5, <1>6 DEF MatcherPcs
  <2> QED BY <1>10, <1>11, <2>1, <2>2, <2>3, <2>4, <2>5, <2>6, <2>7 DEF Matcher
<1>12. ASSUME NEW i \in Instances, Timeouts(i) PROVE FairPass(r)'
  <2>1. i \in Runners /\ {"timeouts", "timeout", "cancelKeys", "countdown", "release"} \cap MatcherPcs = {}
    BY RunnersFacts DEF MatcherPcs
  <2>2. ASSUME NEW s \in Users, ArmGiveUp(i, s) \/ NotYet(i, s) \/ CountdownSkip(i, s) \/ CountdownDue(i, s)
        PROVE  FairPass(r)'
    <3>1. run' = [run EXCEPT ![i].todo = @ \ {s}] /\ run[i].pc \in {"timeout", "countdown"}
      BY <2>2 DEF ArmGiveUp, NotYet, CountdownSkip, CountdownDue, InTimeouts, At
    <3> QED BY <2>1, <3>1, <1>8
  <2>3. ASSUME NEW l, run' = [run EXCEPT ![i] = l], l.pc \in {"timeout", "cancelKeys", "countdown"}
        PROVE  FairPass(r)'
    <3>1. run'[i] = l /\ \A p \in Runners : p # i => run'[p] = run[p]
      BY <2>1, <2>3, <1>a DEF RunOK
    <3> QED BY <1>1, <1>2, <2>1, <2>3, <3>1
  <2>4. CASE TimeoutSnapshot(i) \/ CancelKeys(i) \/ CountdownSnapshot(i) \/ \E s \in Users : CancelLone(i, s)
    <3>1. run[i] \in Locals
      BY <2>1, <1>a DEF RunOK
    <3>2. CASE TimeoutSnapshot(i)
      <4> DEFINE pending == {s \in Users : status[s] = "PENDING" /\ Lone(s) /\ SlotDue(s)}
                 l == [run[i] EXCEPT !.pc = "timeout", !.at = now, !.todo = pending,
                                     !.left = {s \in pending : s \in isReady[s]}]
      <4>1. run' = [run EXCEPT ![i] = l]
        BY <3>2 DEF TimeoutSnapshot
      <4>2. l.pc = "timeout"
        BY <3>1 DEF Locals
      <4> HIDE DEF l
      <4> QED BY <4>1, <4>2, <2>3
    <3>3. CASE CancelKeys(i)
      <4> DEFINE l == [run[i] EXCEPT !.pc = "timeout", !.primary = NoOne]
      <4>1. run' = [run EXCEPT ![i] = l]
        BY <3>3 DEF CancelKeys
      <4>2. l.pc = "timeout"
        BY <3>1 DEF Locals
      <4> HIDE DEF l
      <4> QED BY <4>1, <4>2, <2>3
    <3>4. CASE CountdownSnapshot(i)
      <4> DEFINE l == [Idle EXCEPT !.pc = "countdown",
                                   !.todo = {s \in Users : status[s] = "CONNECTING"}]
      <4>1. run' = [run EXCEPT ![i] = l]
        BY <3>4 DEF CountdownSnapshot
      <4>2. l.pc = "countdown"
        BY DEF Idle
      <4> HIDE DEF l
      <4> QED BY <4>1, <4>2, <2>3
    <3>5. ASSUME NEW s \in Users, CancelLone(i, s) PROVE FairPass(r)'
      <4> DEFINE l == [run[i] EXCEPT !.pc = "cancelKeys", !.primary = s, !.todo = run[i].todo \ {s}]
      <4>1. run' = [run EXCEPT ![i] = l]
        BY <3>5 DEF CancelLone
      <4>2. l.pc = "cancelKeys"
        BY <3>1 DEF Locals
      <4> HIDE DEF l
      <4> QED BY <4>1, <4>2, <2>3
    <3> QED BY <2>4, <3>2, <3>3, <3>4, <3>5
  <2>5. CASE CycleEnd(i)
    BY <2>1, <2>5, <1>6 DEF CycleEnd
  <2> QED BY <1>12, <2>2, <2>4, <2>5 DEF Timeouts
<1>13. ASSUME NEW i \in Instances, CycleStart(i) PROVE FairPass(r)'
  BY <1>13, <1>6, RunnersFacts DEF CycleStart, MatcherPcs
<1>14. ASSUME NEW i \in Instances, Crash(i) PROVE FairPass(r)'
  BY <1>1, <1>2, <1>14, IdleType DEF Crash, MatcherPcs
<1>15. CASE run' = run
  BY <1>1, <1>15
<1> QED BY <1>3, <1>9, <1>11, <1>12, <1>13, <1>14, <1>15 DEF Next, TimerFires, LeaseEnd, Tick, vars

LEMMA SpecPassesFair == Spec => [](TypeInv /\ PassesFair)
<1>1. Init => PassesFair
  BY IdleType DEF Init, PassesFair, FairPass, MatcherPcs
<1>2. TypeInv /\ [Next]_vars => TypeInv'
  BY TypeInvStep
<1> QED BY <1>1, <1>2, InitTypeInv, PassesFairStep, PTL DEF Spec

(* matchScheduledSessions: at the end of a pass no two of those it leaves  *)
(* could have been paired under its own rules, even if the lease ends      *)
(* under it.                                                               *)
THEOREM NobodyLeftBehind == Spec => []NoPairLeftBehind
<1>1. TypeInv /\ PassesFair => NoPairLeftBehind
  BY DEF PassesFair, FairPass, Ahead, NoPairLeftBehind, At, MatcherPcs
<1> QED BY <1>1, SpecPassesFair, PTL

(* matchScheduledSessions: nobody of the level of a pair has waited longer *)
(* than the one the pair was made for, and two levels are paired only when *)
(* one of them has waited for SameLevelGrace.                              *)
THEOREM LongestWaiterFirst == Spec => []LongestWaitFirst
<1>1. TypeInv /\ PassesFair => LongestWaitFirst
  BY DEF PassesFair, FairPass, FairPair, LongestWaitFirst, At
<1> QED BY <1>1, SpecPassesFair, PTL

-----------------------------------------------------------------------------
(* What the tables alone promise, even if the lease ends under a matcher   *)
(* and two of them run at once.                                            *)
RowEntered(s) ==
    /\ s \in parts[s] /\ IsFiniteSet(parts[s])
    /\ isReady[s] \subseteq parts[s]
    /\ parts[s] = {s} \/ isReady[s] = parts[s]
    /\ status[s] \in Paired => parts[s] # {s}

HandEntered(r) ==
    /\ run[r].pc = "mark" => r \in parts[run[r].sess]
    /\ run[r].pc = "connect" => parts[run[r].sess] # {run[r].sess}
    /\ run[r].pc \in {"mergeKeys", "connectPair"} => parts[run[r].primary] # {run[r].primary}

EnteredInv ==
    /\ \A s \in Users : RowEntered(s)
    /\ \A r \in Runners : HandEntered(r)

\* The rows keep who sits in them, and none is paired that was alone.
Settled ==
    /\ UNCHANGED <<parts, isReady>>
    /\ \A s \in Users : status'[s] \in Paired => status[s] \in Paired \/ parts[s] # {s}

LEMMA SettledRows ==
    ASSUME EnteredInv, Settled
    PROVE  \A s \in Users : RowEntered(s)'
BY DEF EnteredInv, Settled, RowEntered

(* A pair is never undone: seats are only added.                           *)
LEMMA HandKept ==
    ASSUME TypeInv, EnteredInv, NEW r \in Runners, run'[r] = run[r],
           \A s \in Users : parts[s] \subseteq parts'[s]
    PROVE  HandEntered(r)'
<1>1. \A s \in Users : parts[s] # {s} => parts'[s] # {s}
  BY DEF EnteredInv, RowEntered
<1>2. /\ run[r].pc = "mark" => run[r].sess \in Users
      /\ run[r].pc = "connect" => run[r].sess \in Users
      /\ run[r].pc \in {"mergeKeys", "connectPair"} => run[r].primary \in Users
  BY DEF TypeInv, JobsOK, JobOK, CallPcs, PairPcs
<1> QED BY <1>1, <1>2 DEF EnteredInv, HandEntered

LEMMA SettledStep ==
    ASSUME TypeInv, EnteredInv, Settled, NEW q \in Runners,
           \A p \in Runners : p # q => run'[p] = run[p], HandEntered(q)'
    PROVE  EnteredInv'
<1>1. \A s \in Users : parts[s] \subseteq parts'[s]
  BY DEF Settled
<1> QED BY <1>1, SettledRows, HandKept DEF EnteredInv

LEMMA QuietEntered ==
    ASSUME TypeInv, EnteredInv, UNCHANGED <<status, parts, isReady>>, NEW q \in Runners,
           \A p \in Runners : p # q => run'[p] = run[p],
           run'[q].pc \notin {"mark", "connect", "mergeKeys", "connectPair"}
    PROVE  EnteredInv'
BY SettledStep DEF Settled, HandEntered

LEMMA ActivateSettled ==
    ASSUME TypeInv, NEW s \in Users, NEW holder, Activate(s, holder), UNCHANGED <<parts, isReady>>
    PROVE  Settled
<1>1. CASE Cardinality(parts[s]) >= 2
  <2>1. parts[s] # {s}
    BY <1>1, FS_Singleton
  <2>2. \A t \in Users : t # s => status'[t] = status[t]
    BY DEF Activate, TypeInv, DataOK
  <2> QED BY <2>1, <2>2 DEF Settled
<1>2. CASE ~ (Cardinality(parts[s]) >= 2)
  BY <1>2 DEF Activate, Settled
<1> QED BY <1>1, <1>2

LEMMA MergeEntered ==
    ASSUME TypeInv, EnteredInv, NEW q \in Runners, Merge(q)
    PROVE  EnteredInv'
<1> DEFINE a == run[q].primary
           b == run[q].secondary
<1>1. a \in Users /\ b \in Users /\ b \notin parts[a] /\ run[q] \in Locals
  BY DEF Merge, At, TypeInv, RunOK, JobsOK, JobOK, PairPcs
<1>2. /\ parts' = [parts EXCEPT ![a] = @ \cup {b}]
      /\ isReady' = [isReady EXCEPT ![a] = @ \cup {a, b}]
      /\ status' = [status EXCEPT ![a] = "MATCHED", ![b] = "CANCELLED"]
  BY DEF Merge, ReadyCarried, MergedStatus
<1>3. /\ parts \in [Users -> SUBSET Users] /\ isReady \in [Users -> SUBSET Users]
      /\ status \in [Users -> Statuses]
  BY DEF TypeInv, DataOK
<1>4. RunOK /\ Goto(q, "mergeKeys") /\ "mergeKeys" \in Pcs
  BY PcFacts DEF Merge, TypeInv, MatcherPcs
<1>5. /\ \A p \in Runners : p # q => run'[p] = run[p]
      /\ run'[q].pc = "mergeKeys" /\ run'[q].primary = a
  BY <1>4, GotoStep
<1> HIDE DEF a, b
<1>6. a \in parts[a] /\ a # b
  BY <1>1 DEF EnteredInv, RowEntered
<1>7. ASSUME NEW s \in Users PROVE RowEntered(s)'
  <2>1. CASE s = a
    <3>1. parts'[s] = parts[a] \cup {b} /\ isReady'[s] = isReady[a] \cup {a, b}
      BY <1>2, <1>3, <2>1
    <3>2. RowEntered(a)
      BY <1>1 DEF EnteredInv
    <3>3. IsFiniteSet(parts'[s])
      BY <3>1, <3>2, FS_AddElement DEF RowEntered
    <3>4. isReady'[s] = parts'[s] /\ s \in parts'[s] /\ parts'[s] # {s}
      BY <1>6, <2>1, <3>1, <3>2 DEF RowEntered
    <3> QED BY <3>3, <3>4 DEF RowEntered
  <2>2. CASE s = b
    <3>1. parts'[s] = parts[s] /\ isReady'[s] = isReady[s] /\ status'[s] = "CANCELLED"
      BY <1>2, <1>3, <1>6, <2>2
    <3> QED BY <3>1 DEF EnteredInv, RowEntered, Paired
  <2>3. CASE s # a /\ s # b
    <3>1. parts'[s] = parts[s] /\ isReady'[s] = isReady[s] /\ status'[s] = status[s]
      BY <1>2, <1>3, <2>3
    <3> QED BY <3>1 DEF EnteredInv, RowEntered
  <2> QED BY <2>1, <2>2, <2>3
<1>8. HandEntered(q)'
  BY <1>1, <1>2, <1>3, <1>5, <1>6 DEF HandEntered
<1>9. \A s \in Users : parts[s] \subseteq parts'[s]
  BY <1>1, <1>2, <1>3
<1> QED BY <1>5, <1>7, <1>8, <1>9, HandKept DEF EnteredInv

LEMMA EnteredStep == TypeInv /\ EnteredInv /\ [Next]_vars => EnteredInv'
<1> SUFFICES ASSUME TypeInv, EnteredInv, [Next]_vars PROVE EnteredInv'
    OBVIOUS
<1>a. RunOK /\ {"mark", "connect", "mergeKeys", "connectPair"} \subseteq Pcs
  BY PcFacts DEF TypeInv, CallPcs, MatcherPcs
<1>1. ASSUME NEW q \in Runners, UNCHANGED <<status, parts, isReady>>,
             Return(q) \/ \E label \in Pcs \ {"mark", "connect", "mergeKeys", "connectPair"} : Goto(q, label)
      PROVE  EnteredInv'
  BY <1>1, <1>a, ReturnStep, GotoStep, QuietEntered
<1>3. ASSUME Settled, run' = run PROVE EnteredInv'
  <2>1. \A s \in Users : parts[s] \subseteq parts'[s]
    BY <1>3 DEF Settled
  <2> QED BY <1>3, <2>1, SettledRows, HandKept DEF EnteredInv
<1>4. ASSUME NEW u \in Users, NEW s \in Users, ReadyRead(u, s) PROVE EnteredInv'
  <2> DEFINE l == [Idle EXCEPT !.pc = "mark", !.sess = s, !.seen = status[s]]
  <2>1. l.pc = "mark" /\ l.sess = s
    BY DEF Idle
  <2>2. u \in Runners /\ run' = [run EXCEPT ![u] = l] /\ u \in parts[s] /\ UNCHANGED <<status, parts, isReady>>
    BY <1>4, RunnersFacts DEF ReadyRead, db
  <2> HIDE DEF l
  <2>3. run'[u] = l /\ \A p \in Runners : p # u => run'[p] = run[p]
    BY <1>a, <2>2 DEF RunOK
  <2>4. HandEntered(u)'
    BY <2>1, <2>2, <2>3 DEF HandEntered
  <2> QED BY <2>2, <2>3, <2>4, SettledStep DEF Settled
<1>5. ASSUME NEW u \in Users, ReadyMark(u) PROVE EnteredInv'
  <2> DEFINE s == run[u].sess
  <2>1. u \in Runners /\ s \in Users /\ u \in parts[s]
    BY <1>5, RunnersFacts DEF ReadyMark, At, EnteredInv, HandEntered, TypeInv, JobsOK, JobOK, CallPcs
  <2>2. isReady' = [isReady EXCEPT ![s] = @ \cup {u}] /\ UNCHANGED <<status, parts>>
    BY <1>5 DEF ReadyMark
  <2>3. Goto(u, "count") /\ "count" \in Pcs
    BY <1>5, PcFacts DEF ReadyMark, CallPcs
  <2>4. run'[u].pc = "count" /\ \A p \in Runners : p # u => run'[p] = run[p]
    BY <1>a, <2>1, <2>3, GotoStep
  <2> HIDE DEF s
  <2>5. ASSUME NEW t \in Users PROVE RowEntered(t)'
    <3>1. isReady'[t] = IF t = s THEN isReady[s] \cup {u} ELSE isReady[t]
      BY <2>1, <2>2 DEF TypeInv, DataOK
    <3>2. RowEntered(t)
      BY DEF EnteredInv
    <3> QED BY <2>1, <2>2, <3>1, <3>2 DEF RowEntered
  <2>6. \A t \in Users : parts[t] \subseteq parts'[t]
    BY <2>2
  <2> QED BY <2>1, <2>4, <2>5, <2>6, HandKept DEF EnteredInv, HandEntered
<1>6. ASSUME NEW u \in Users, ReadyCount(u) PROVE EnteredInv'
  <2> DEFINE s == run[u].sess
  <2>1. u \in Runners /\ s \in Users /\ UNCHANGED <<status, parts, isReady>>
    BY <1>6, RunnersFacts DEF ReadyCount, At, TypeInv, JobsOK, JobOK, CallPcs, db
  <2>2. CASE Goto(u, "connect") /\ Cardinality(isReady[s]) >= 2
    <3> DEFINE n == Cardinality(isReady[s])
    <3>0. n >= 2
      BY <2>2
    <3>1. isReady[s] # {s} /\ isReady[s] # {}
      <4>1. isReady[s] = {s} => n = 1
        BY FS_Singleton
      <4>2. isReady[s] = {} => n = 0
        BY FS_EmptySet
      <4> HIDE DEF n
      <4> QED BY <3>0, <4>1, <4>2
    <3>2. RowEntered(s)
      BY <2>1 DEF EnteredInv
    <3>3. parts[s] # {s}
      BY <3>1, <3>2 DEF RowEntered
    <3>4. run'[u].pc = "connect" /\ run'[u].sess = s /\ \A p \in Runners : p # u => run'[p] = run[p]
      BY <1>a, <2>1, <2>2, GotoStep
    <3> HIDE DEF s
    <3>5. HandEntered(u)'
      BY <2>1, <3>3, <3>4 DEF HandEntered
    <3> QED BY <2>1, <3>4, <3>5, SettledStep DEF Settled
  <2>3. CASE Return(u) \/ Goto(u, "stamp")
    <3>1. "stamp" \in Pcs
      BY PcFacts DEF CallPcs
    <3> QED BY <1>1, <2>1, <2>3, <3>1
  <2> QED BY <1>6, <2>2, <2>3 DEF ReadyCount
<1>7. ASSUME NEW u \in Users, ReadyConnect(u) PROVE EnteredInv'
  <2> DEFINE s == run[u].sess
  <2>1. u \in Runners /\ s \in Users /\ UNCHANGED <<parts, isReady>> /\ parts[s] # {s}
    BY <1>7, RunnersFacts DEF ReadyConnect, At, TypeInv, JobsOK, JobOK, CallPcs, EnteredInv, HandEntered
  <2>2. status' = [status EXCEPT ![s] = "CONNECTING"] /\ Goto(u, "activate") /\ "activate" \in Pcs
    BY <1>7, PcFacts DEF ReadyConnect, CallPcs
  <2>3. run'[u].pc = "activate" /\ \A p \in Runners : p # u => run'[p] = run[p]
    BY <1>a, <2>1, <2>2, GotoStep
  <2> HIDE DEF s
  <2>4. Settled
    BY <2>1, <2>2 DEF Settled, TypeInv, DataOK
  <2> QED BY <2>1, <2>3, <2>4, SettledStep DEF HandEntered
<1>8. ASSUME NEW u \in Users, ReadyActivate(u) PROVE EnteredInv'
  <2>1. u \in Runners /\ run[u].sess \in Users /\ Activate(run[u].sess, Host[u]) /\ UNCHANGED <<parts, isReady>>
    BY <1>8, RunnersFacts DEF ReadyActivate, At, TypeInv, JobsOK, JobOK, CallPcs
  <2>2. run'[u].pc = "idle" /\ \A p \in Runners : p # u => run'[p] = run[p]
    BY <1>8, <1>a, <2>1, ReturnStep DEF ReadyActivate
  <2> QED BY <2>1, <2>2, ActivateSettled, SettledStep DEF HandEntered
<1>9. ASSUME NEW u \in Users, ReadyStamp(u) \/ ReadyTryLock(u) PROVE EnteredInv'
  <2>1. u \in Runners /\ UNCHANGED <<status, parts, isReady>> /\ {"tryLock", "match"} \subseteq Pcs
    BY <1>9, RunnersFacts, PcFacts DEF ReadyStamp, ReadyTryLock, db, CallPcs, MatcherPcs
  <2>2. Return(u) \/ Goto(u, "tryLock") \/ Goto(u, "match")
    BY <1>9 DEF ReadyStamp, ReadyTryLock
  <2> QED BY <1>1, <2>1, <2>2
<1>10. ASSUME NEW i \in Instances, CycleStart(i) PROVE EnteredInv'
  <2>1. i \in Runners /\ "match" \in Pcs
    BY RunnersFacts, PcFacts DEF MatcherPcs
  <2> QED BY <1>1, <1>10, <2>1 DEF CycleStart, db
<1>11. ASSUME NEW q \in Runners, MatchSnapshot(q) \/ MatchDone(q) PROVE EnteredInv'
  <2>1. UNCHANGED <<status, parts, isReady>>
    BY <1>11 DEF MatchSnapshot, MatchDone, db
  <2>2. CASE AfterMatcher(q)
    BY <1>a, <2>1, <2>2, AfterMatcherStep, QuietEntered
  <2>3. CASE ~ AfterMatcher(q)
    <3> DEFINE ready == {s \in Users : Waiting(s) /\ SlotDue(s)}
               since == [s \in Users |-> IF s \notin ready THEN 0
                                         ELSE IF lobbySince[s] # 0 THEN lobbySince[s] ELSE Slot[s]]
               l == [run[q] EXCEPT !.pc = "pick", !.at = now, !.wait = since, !.todo = ready, !.left = ready]
    <3>1. run' = [run EXCEPT ![q] = l]
      BY <1>11, <2>3 DEF MatchSnapshot, MatchDone
    <3> HIDE DEF ready, since
    <3>2. l.pc = "pick"
      BY <1>a DEF RunOK, Locals
    <3> HIDE DEF l
    <3>3. run'[q] = l /\ \A p \in Runners : p # q => run'[p] = run[p]
      BY <3>1, <1>a DEF RunOK
    <3> QED BY <2>1, <3>2, <3>3, QuietEntered
  <2> QED BY <2>2, <2>3
<1>12. ASSUME NEW q \in Runners, NEW s \in Users, run' = [run EXCEPT ![q].todo = @ \ {s}],
              UNCHANGED <<parts, isReady>>, Settled, run[q].pc \in {"pick", "timeout", "countdown"}
      PROVE  EnteredInv'
  <2>1. run'[q].pc = run[q].pc /\ \A p \in Runners : p # q => run'[p] = run[p]
    BY <1>12, <1>a, TodoStep
  <2> QED BY <1>12, <2>1, SettledStep DEF HandEntered
<1>13. ASSUME NEW q \in Runners, NEW cur \in Users, MatchSkip(q, cur) PROVE EnteredInv'
  BY <1>12, <1>13 DEF MatchSkip, At, db, Settled
<1>14. ASSUME NEW q \in Runners, NEW cur \in Users, NEW partner \in Users, MatchPick(q, cur, partner) PROVE EnteredInv'
  <2> DEFINE kept == Earlier(cur, partner)
             l == [run[q] EXCEPT !.pc = "merge",
              !.todo = run[q].todo \ Consumed(cur, partner),
              !.left = run[q].left \ Consumed(cur, partner),
              !.primary = kept, !.secondary = IF kept = cur THEN partner ELSE cur]
  <2>1. run' = [run EXCEPT ![q] = l] /\ UNCHANGED <<status, parts, isReady>>
    BY <1>14 DEF MatchPick, db
  <2>2. l.pc = "merge"
    BY <1>a DEF RunOK, Locals
  <2> HIDE DEF l
  <2>3. run'[q] = l /\ \A p \in Runners : p # q => run'[p] = run[p]
    BY <2>1, <1>a DEF RunOK
  <2> QED BY <2>1, <2>2, <2>3, QuietEntered
<1>15. ASSUME NEW q \in Runners, MergeFails(q) PROVE EnteredInv'
  <2>1. run'[q].pc = "release" /\ UNCHANGED <<status, parts, isReady>>
        /\ \A p \in Runners : p # q => run'[p] = run[p]
    BY <1>15, <1>a, IdleType DEF MergeFails, RunOK, Locals, db
  <2> QED BY <2>1, QuietEntered
<1>16. ASSUME NEW q \in Runners, MergeKeys(q) \/ ConnectPair(q) PROVE EnteredInv'
  <2> DEFINE a == run[q].primary
  <2>1. a \in Users /\ parts[a] # {a} /\ UNCHANGED <<parts, isReady>>
    BY <1>16 DEF MergeKeys, ConnectPair, At, db, TypeInv, JobsOK, JobOK, PairPcs, EnteredInv, HandEntered
  <2>2. Settled
    BY <1>16, <2>1 DEF MergeKeys, ConnectPair, db, Settled, TypeInv, DataOK
  <2>3. PICK label \in {"connectPair", "arm"} : Goto(q, label)
    BY <1>16 DEF MergeKeys, ConnectPair
  <2>4. label \in Pcs
    BY PcFacts DEF MatcherPcs
  <2>5. /\ run'[q].pc = label /\ run'[q].primary = a
        /\ \A p \in Runners : p # q => run'[p] = run[p]
    BY <1>a, <2>3, <2>4, GotoStep
  <2> HIDE DEF a
  <2>6. HandEntered(q)'
    BY <2>1, <2>5 DEF HandEntered
  <2> QED BY <2>2, <2>5, <2>6, SettledStep
<1>17. ASSUME NEW q \in Runners, ArmCountdown(q) PROVE EnteredInv'
  <2> DEFINE l == [run[q] EXCEPT !.pc = "pick", !.primary = NoOne, !.secondary = NoOne]
  <2>1. run' = [run EXCEPT ![q] = l] /\ UNCHANGED <<status, parts, isReady>>
    BY <1>17 DEF ArmCountdown, db
  <2>2. l.pc = "pick"
    BY <1>a DEF RunOK, Locals
  <2> HIDE DEF l
  <2>3. run'[q] = l /\ \A p \in Runners : p # q => run'[p] = run[p]
    BY <2>1, <1>a DEF RunOK
  <2> QED BY <2>1, <2>2, <2>3, QuietEntered
<1>18. ASSUME NEW q \in Runners, ReleaseRead(q) \/ ReleaseDelete(q) PROVE EnteredInv'
  <2>1. (Return(q) \/ Goto(q, "unlock")) /\ UNCHANGED <<status, parts, isReady>> /\ "unlock" \in Pcs
    BY <1>18, PcFacts DEF ReleaseRead, ReleaseDelete, db
  <2> QED BY <1>1, <2>1
<1>19. ASSUME NEW i \in Instances, Timeouts(i) PROVE EnteredInv'
  <2>1. i \in Runners /\ run[i] \in Locals
    BY <1>a, RunnersFacts DEF RunOK
  <2>2. ASSUME NEW l, run' = [run EXCEPT ![i] = l], l.pc \in {"timeout", "cancelKeys", "countdown"},
               Settled
        PROVE  EnteredInv'
    <3>1. run'[i] = l /\ \A p \in Runners : p # i => run'[p] = run[p]
      BY <2>1, <2>2, <1>a DEF RunOK
    <3> QED BY <2>1, <2>2, <3>1, SettledStep DEF HandEntered
  <2>3. CASE TimeoutSnapshot(i)
    <3> DEFINE pending == {s \in Users : status[s] = "PENDING" /\ Lone(s) /\ SlotDue(s)}
               l == [run[i] EXCEPT !.pc = "timeout", !.at = now, !.todo = pending,
                                   !.left = {s \in pending : s \in isReady[s]}]
    <3>1. run' = [run EXCEPT ![i] = l] /\ Settled
      BY <2>3 DEF TimeoutSnapshot, db, Settled
    <3>2. l.pc = "timeout"
      BY <2>1 DEF Locals
    <3> HIDE DEF l
    <3> QED BY <3>1, <3>2, <2>2
  <2>4. CASE CancelKeys(i)
    <3> DEFINE l == [run[i] EXCEPT !.pc = "timeout", !.primary = NoOne]
    <3>1. run' = [run EXCEPT ![i] = l] /\ Settled
      BY <2>4 DEF CancelKeys, db, Settled
    <3>2. l.pc = "timeout"
      BY <2>1 DEF Locals
    <3> HIDE DEF l
    <3> QED BY <3>1, <3>2, <2>2
  <2>5. CASE CountdownSnapshot(i)
    <3> DEFINE l == [Idle EXCEPT !.pc = "countdown",
                                 !.todo = {s \in Users : status[s] = "CONNECTING"}]
    <3>1. run' = [run EXCEPT ![i] = l] /\ Settled
      BY <2>5 DEF CountdownSnapshot, db, Settled
    <3>2. l.pc = "countdown"
      BY DEF Idle
    <3> HIDE DEF l
    <3> QED BY <3>1, <3>2, <2>2
  <2>6. ASSUME NEW s \in Users, CancelLone(i, s) PROVE EnteredInv'
    <3> DEFINE l == [run[i] EXCEPT !.pc = "cancelKeys", !.primary = s, !.todo = run[i].todo \ {s}]
    <3>1. run' = [run EXCEPT ![i] = l]
      BY <2>6 DEF CancelLone
    <3>2. l.pc = "cancelKeys"
      BY <2>1 DEF Locals
    <3>3. Settled
      BY <2>6 DEF CancelLone, Settled, TypeInv, DataOK, Paired
    <3> HIDE DEF l
    <3> QED BY <3>1, <3>2, <3>3, <2>2
  <2>7. ASSUME NEW s \in Users, ArmGiveUp(i, s) \/ NotYet(i, s) \/ CountdownSkip(i, s) PROVE EnteredInv'
    <3>1. /\ run' = [run EXCEPT ![i].todo = @ \ {s}] /\ UNCHANGED <<parts, isReady>> /\ Settled
          /\ run[i].pc \in {"pick", "timeout", "countdown"}
      BY <2>7 DEF ArmGiveUp, NotYet, CountdownSkip, InTimeouts, At, db, Settled
    <3> QED BY <2>1, <3>1, <1>12
  <2>8. ASSUME NEW s \in Users, CountdownDue(i, s) PROVE EnteredInv'
    <3>1. /\ run' = [run EXCEPT ![i].todo = @ \ {s}] /\ UNCHANGED <<parts, isReady>>
          /\ run[i].pc = "countdown" /\ Activate(s, i)
      BY <2>8 DEF CountdownDue, At
    <3> QED BY <2>1, <3>1, <1>12, ActivateSettled
  <2>9. CASE CycleEnd(i)
    <3>1. Goto(i, "release") /\ UNCHANGED <<status, parts, isReady>> /\ "release" \in Pcs
      BY <2>9, PcFacts DEF CycleEnd, db
    <3> QED BY <1>1, <2>1, <3>1
  <2> QED BY <1>19, <2>3, <2>4, <2>5, <2>6, <2>7, <2>8, <2>9 DEF Timeouts
<1>20. ASSUME NEW i \in Instances, Crash(i) PROVE EnteredInv'
  <2>1. \A r \in Runners : run'[r] = run[r] \/ run'[r].pc = "idle"
    BY <1>20, IdleType DEF Crash
  <2>2. Settled
    BY <1>20 DEF Crash, db, Settled
  <2>3. \A s \in Users : parts[s] \subseteq parts'[s]
    BY <2>2 DEF Settled
  <2>4. \A r \in Runners : HandEntered(r)'
    BY <2>1, <2>3, HandKept DEF HandEntered
  <2> QED BY <2>2, <2>4, SettledRows DEF EnteredInv
<1>21. ASSUME NEW s \in Users, TimerFires(s) PROVE EnteredInv'
  BY <1>3, <1>21, ActivateSettled DEF TimerFires
<1>22. CASE LeaseEnd \/ Tick \/ UNCHANGED vars
  <2>1. run' = run /\ Settled
    BY <1>22 DEF LeaseEnd, Tick, vars, db, Settled
  <2> QED BY <1>3, <2>1
<1> QED
  <2>1. CASE \E q \in Runners : Matcher(q)
    BY <1>11, <1>13, <1>14, <1>15, <1>16, <1>17, <1>18, <2>1, MergeEntered DEF Matcher
  <2>2. CASE \E u \in Users : ReadyCall(u)
    BY <1>5, <1>6, <1>7, <1>8, <1>9, <2>2 DEF ReadyCall
  <2> QED BY <1>4, <1>10, <1>19, <1>20, <1>21, <1>22, <2>1, <2>2 DEF Next

(* A pair is made of users who had entered the lobby, and a row that is    *)
(* connecting, active or matched has two of them, even if the lease ends   *)
(* under a matcher.                                                        *)
THEOREM EverybodyEntered == Spec => []PeersEnteredTheLobby
<1>1. Init => EnteredInv
  <2> SUFFICES ASSUME Init PROVE EnteredInv
    OBVIOUS
  <2>1. \A s \in Users : RowEntered(s)
    BY FS_Singleton DEF Init, RowEntered, Paired
  <2>2. \A r \in Runners : HandEntered(r)
    BY IdleType DEF Init, HandEntered
  <2> QED BY <2>1, <2>2 DEF EnteredInv
<1>2. TypeInv /\ EnteredInv => PeersEnteredTheLobby
  <2> SUFFICES ASSUME EnteredInv, NEW s \in Users, status[s] \in Paired
               PROVE  Cardinality(parts[s]) >= 2 /\ isReady[s] = parts[s]
    BY DEF PeersEnteredTheLobby
  <2>1. RowEntered(s)
    BY DEF EnteredInv
  <2>2. PICK v \in parts[s] : v # s
    BY <2>1 DEF RowEntered
  <2>3. {s, v} \subseteq parts[s] /\ IsFiniteSet(parts[s])
    BY <2>1, <2>2 DEF RowEntered
  <2>4. Cardinality({s, v}) = 2
    <3>1. IsFiniteSet({s}) /\ Cardinality({s}) = 1
      BY FS_Singleton
    <3>2. Cardinality({s} \cup {v}) = Cardinality({s}) + 1
      BY <2>2, <3>1, FS_AddElement
    <3>3. {s, v} = {s} \cup {v}
      OBVIOUS
    <3> QED BY <3>1, <3>2, <3>3
  <2>5. Cardinality(parts[s]) \in Nat /\ Cardinality({s, v}) <= Cardinality(parts[s])
    BY <2>3, FS_Subset, FS_CardinalityType
  <2> QED BY <2>1, <2>4, <2>5 DEF RowEntered
<1>3. TypeInv /\ [Next]_vars => TypeInv'
  BY TypeInvStep
<1> QED BY <1>1, <1>2, <1>3, InitTypeInv, EnteredStep, PTL DEF Spec
=============================================================================
