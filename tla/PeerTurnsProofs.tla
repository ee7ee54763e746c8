---------------------------- MODULE PeerTurnsProofs ----------------------------
(***************************************************************************)
(* Proofs about PeerTurns: whatever the calls overwrite, the runtime is one*)
(* of a turn of the session and the reports show the peer's code.          *)
(***************************************************************************)
EXTENDS PeerTurns, TLAPS

(* What a call holds: a coherent runtime between the read and the write, of*)
(* turn 1 if it is to be advanced, and its candidate's if it is to be      *)
(* edited.                                                                 *)
Holds(r) ==
    r.stage \in {"write", "save", "next", "capture"} \/ (r.stage \in Ensuring /\ r.at = "set")

CallOK(r) ==
    /\ r.op \in {"sync", "advance", "end", "join"} => r.user \in Users /\ r.no \in 1..MaxEvents
    /\ Holds(r) => r.got \in Runtimes /\ Coherent(r.got)
    /\ r.stage \in {"save", "next"} => r.got.turn = 1
    /\ r.stage = "write" /\ r.op = "sync" => r.got.candidate = r.user
    /\ r.stage = "lookup" => r.op = "start"

CallsOK == \A c \in Threads : CallOK(call[c])

TurnsInv == TypeOK /\ RuntimeIsCoherent /\ ReportsAreThePeers /\ CallsOK

-----------------------------------------------------------------------------
LEMMA InitialOK == Initial \in Runtimes /\ Coherent(Initial)
  BY TurnsAssumption DEF Initial, InTurn, Runtimes, Coherent, Other, Users, Texts, Blank

LEMMA RebuiltOK ==
    ASSUME clock \in Nat
    PROVE  Rebuilt \in Runtimes /\ Coherent(Rebuilt)
  BY TurnsAssumption
  DEF Rebuilt, Initial, InTurn, Runtimes, Coherent, Other, Users, Texts, Blank

LEMMA EditedOK ==
    ASSUME NEW s \in Runtimes, Coherent(s), NEW n \in 1..MaxEvents
    PROVE  Edited(s, s.candidate, n) \in Runtimes /\ Coherent(Edited(s, s.candidate, n))
  BY DEF Edited, Runtimes, Coherent, Texts, Blank

LEMMA NextTurnOK ==
    ASSUME clock \in Nat, NEW s \in Runtimes, Coherent(s), s.turn = 1
    PROVE  NextTurn(s) \in Runtimes /\ Coherent(NextTurn(s))
<1> DEFINE t == NextTurn(s)
<1>1. s.candidate \in Users /\ s.interviewer \in Users BY DEF Runtimes
<1>2. t \in Runtimes
  <2>1. Blank \in Texts /\ clock + 1 \in Nat BY DEF Texts
  <2>2. s \in [turn : {1, 2}, interviewer : Users, candidate : Users, ends : Nat, code : Texts]
    BY DEF Runtimes
  <2> QED BY <1>1, <2>1, <2>2 DEF NextTurn, Runtimes
<1>3. t.turn = 2 /\ t.interviewer = s.candidate /\ t.candidate = s.interviewer /\ t.code = Blank
  BY DEF NextTurn, Runtimes
<1>4. Coherent(t) BY <1>3, TurnsAssumption DEF Coherent, Other
<1> QED BY <1>2, <1>4

\* Keeping a coherent runtime's text leaves the reports right.
LEMMA SavedOK ==
    ASSUME saved \in [Users -> Texts], ReportsAreThePeers, NEW s \in Runtimes, Coherent(s),
           saved' = Saved(s)
    PROVE  saved' \in [Users -> Texts] /\ ReportsAreThePeers'
<1>1. s.interviewer \in Users /\ s.code \in Texts BY DEF Runtimes
<1>2. CASE s.code = Blank BY <1>2 DEF Saved, ReportsAreThePeers
<1>3. CASE s.code # Blank
  <2>1. saved' = [saved EXCEPT ![s.interviewer] = s.code] BY <1>3 DEF Saved
  <2>2. s.code.by = Other(s.interviewer) BY <1>3 DEF Coherent
  <2> QED BY <1>1, <2>1, <2>2 DEF ReportsAreThePeers
<1> QED BY <1>2, <1>3

\* One call changes, to a record that is all right.
LEMMA CallChange ==
    ASSUME call \in [Threads -> Records], CallsOK, NEW c \in Threads,
           NEW r \in Records, CallOK(r), call' = [call EXCEPT ![c] = r]
    PROVE  call' \in [Threads -> Records] /\ CallsOK'
<1>1. \A d \in Threads : call'[d] = IF d = c THEN r ELSE call[d] OBVIOUS
<1>2. \A d \in Threads : CallOK(call[d]) BY DEF CallsOK
<1>3. \A d \in Threads : CallOK(call'[d]) BY <1>1, <1>2
<1>4. CallsOK' BY <1>3 DEF CallsOK, CallOK, Holds, Coherent, Other, Blank
<1> QED BY <1>4

LEMMA IdleOK == Idle \in Records /\ CallOK(Idle)
  BY DEF Idle, Records, CallOK, Holds, Ops, Stages, Ensuring

LEMMA ReturnOK ==
    ASSUME call \in [Threads -> Records], CallsOK, NEW c \in Threads, Return(c)
    PROVE  call' \in [Threads -> Records] /\ CallsOK'
  BY IdleOK, CallChange DEF Return

\* A call enters a stage with a runtime that is right for it.
LEMMA EnterOK ==
    ASSUME call \in [Threads -> Records], CallsOK, NEW c \in Threads,
           NEW stage \in Stages \ {"lookup"}, NEW s \in Runtimes \cup {NoOne}, Enter(c, stage, s),
           stage \in {"write", "save", "next", "capture"} => s \in Runtimes /\ Coherent(s),
           stage \in {"save", "next"} => s.turn = 1,
           stage = "write" /\ call[c].op = "sync" => s.candidate = call[c].user
    PROVE  call' \in [Threads -> Records] /\ CallsOK'
<1> DEFINE r == [call[c] EXCEPT !.stage = stage, !.at = "get", !.got = s]
<1>1. call[c] \in Records /\ CallOK(call[c]) BY DEF CallsOK
<1>2. r \in Records BY <1>1 DEF Records
<1>3. r.op = call[c].op /\ r.user = call[c].user /\ r.no = call[c].no
      /\ r.stage = stage /\ r.at = "get" /\ r.got = s BY <1>1 DEF Records
<1>4. CallOK(r) BY <1>1, <1>3 DEF CallOK, Holds
<1>5. call' = [call EXCEPT ![c] = r] BY DEF Enter
<1> QED BY <1>2, <1>4, <1>5, CallChange

LEMMA UseOK ==
    ASSUME call \in [Threads -> Records], CallsOK, NEW c \in Threads,
           NEW s \in Runtimes, Coherent(s), Use(c, s)
    PROVE  call' \in [Threads -> Records] /\ CallsOK'
<1>1. CASE Stage(c, "check") /\ call[c].op = "sync" /\ MayEdit(call[c].user, s)
  <2>1. Enter(c, "write", s) BY <1>1 DEF Use, Stage
  <2> QED BY <1>1, <2>1, EnterOK DEF Stages, MayEdit
<1>2. CASE Enter(c, "internal", NoOne) \/ Enter(c, "final", NoOne) \/ Enter(c, "again", NoOne)
  BY <1>2, EnterOK DEF Stages, Ensuring
<1>3. CASE s.turn = 1 /\ Enter(c, "save", s) BY <1>3, EnterOK DEF Stages
<1>4. CASE Return(c) BY <1>4, ReturnOK
<1> QED BY <1>1, <1>2, <1>3, <1>4 DEF Use
-----------------------------------------------------------------------------
LEMMA InitInv == Init => TurnsInv
<1> SUFFICES ASSUME Init PROVE TurnsInv OBVIOUS
<1>1. Blank \in Texts BY DEF Texts
<1>2. [Idle EXCEPT !.op = "start", !.stage = "lookup"] \in Records
      /\ CallOK([Idle EXCEPT !.op = "start", !.stage = "lookup"])
  BY DEF Idle, Records, CallOK, Holds, Ops, Stages, Ensuring
<1>3. call \in [Threads -> Records] /\ CallsOK
  <2>1. CASE call = [c \in Threads |-> Idle] BY <2>1, IdleOK DEF CallsOK
  <2>2. CASE call = [c \in Threads |->
                 IF c = Starter THEN [Idle EXCEPT !.op = "start", !.stage = "lookup"] ELSE Idle]
    BY <2>2, <1>2, IdleOK DEF CallsOK
  <2> QED BY <2>1, <2>2 DEF Init
<1>4. TypeOK BY <1>1, <1>3, InitialOK, TurnsAssumption DEF Init, TypeOK
<1>5. RuntimeIsCoherent BY InitialOK DEF Init, RuntimeIsCoherent
<1>6. ReportsAreThePeers BY DEF Init, ReportsAreThePeers
<1> QED BY <1>3, <1>4, <1>5, <1>6 DEF TurnsInv

LEMMA StepInv == TurnsInv /\ [Next]_vars => TurnsInv'
<1> SUFFICES ASSUME TurnsInv, [Next]_vars PROVE TurnsInv' OBVIOUS
<1> USE DEF TurnsInv
<1>c. call \in [Threads -> Records] /\ CallsOK /\ clock \in Nat BY TurnsAssumption DEF TypeOK
<1>r. runtime # NoOne => runtime \in Runtimes /\ Coherent(runtime) BY DEF TypeOK, RuntimeIsCoherent
\* Steps that change neither the runtime nor the reports.
<1>k. ASSUME UNCHANGED <<status, saved, runtime, clock, crashes>>, events' \in 0..MaxEvents,
             call' \in [Threads -> Records], CallsOK'
      PROVE  TurnsInv'
  BY <1>k DEF TypeOK, RuntimeIsCoherent, ReportsAreThePeers, Coherent
\* Steps that write the runtime.
<1>w. ASSUME UNCHANGED <<status, saved, clock, events, crashes>>,
             runtime' = NoOne \/ (runtime' \in Runtimes /\ Coherent(runtime')),
             call' \in [Threads -> Records], CallsOK'
      PROVE  TurnsInv'
  <2>1. RuntimeIsCoherent' BY <1>w DEF RuntimeIsCoherent, Coherent
  <2> QED BY <1>w, <2>1 DEF TypeOK, ReportsAreThePeers
<1>1. ASSUME NEW c \in Threads, Proceed(c) PROVE TurnsInv'
  <2>c. call[c] \in Records /\ CallOK(call[c]) BY <1>c DEF CallsOK
  <2>1. CASE EnsureGet(c)
    <3>1. CASE runtime # NoOne BY <2>1, <3>1, <1>c, <1>r, <1>k, UseOK DEF EnsureGet, TypeOK
    <3>2. CASE runtime = NoOne
      <4> DEFINE r == [call[c] EXCEPT !.at = "session"]
      <4>1. r \in Records BY <2>c DEF Records
      <4>2. r.op = call[c].op /\ r.user = call[c].user /\ r.no = call[c].no
            /\ r.stage = call[c].stage /\ r.at = "session" /\ r.got = call[c].got
        BY <2>c DEF Records
      <4>3. call[c].stage \in Ensuring BY <2>1 DEF EnsureGet, Inside
      <4>4. CallOK(r) BY <2>c, <4>2, <4>3 DEF CallOK, Holds, Ensuring
      <4>5. call' = [call EXCEPT ![c] = r] BY <2>1, <3>2 DEF EnsureGet
      <4> QED BY <2>1, <4>1, <4>4, <4>5, <1>c, <1>k, CallChange DEF EnsureGet, TypeOK
    <3> QED BY <3>1, <3>2
  <2>2. CASE EnsureSession(c)
    <3>1. CASE Return(c) BY <2>2, <3>1, <1>c, <1>k, ReturnOK DEF EnsureSession, TypeOK
    <3>2. CASE Enter(c, "final", NoOne)
      BY <2>2, <3>2, <1>c, <1>k, EnterOK DEF EnsureSession, TypeOK, Stages
    <3>3. CASE call' = [call EXCEPT ![c] = [@ EXCEPT !.at = "set", !.got = Rebuilt]]
      <4> DEFINE r == [call[c] EXCEPT !.at = "set", !.got = Rebuilt]
      <4>0. Rebuilt \in Runtimes /\ Coherent(Rebuilt) BY <1>c, RebuiltOK
      <4>1. r \in Records BY <2>c, <4>0 DEF Records
      <4>2. r.op = call[c].op /\ r.user = call[c].user /\ r.no = call[c].no
            /\ r.stage = call[c].stage /\ r.got = Rebuilt
        BY <2>c DEF Records
      <4>3. call[c].stage \in Ensuring BY <2>2 DEF EnsureSession, Inside
      <4>4. CallOK(r) BY <2>c, <4>0, <4>2, <4>3 DEF CallOK, Holds, Ensuring
      <4>5. call' = [call EXCEPT ![c] = r] BY <3>3
      <4> QED BY <2>2, <4>1, <4>4, <4>5, <1>c, <1>k, CallChange DEF EnsureSession, TypeOK
    <3> QED BY <2>2, <3>1, <3>2, <3>3 DEF EnsureSession
  <2>3. CASE EnsureSet(c)
    <3>1. call[c].got \in Runtimes /\ Coherent(call[c].got)
      BY <2>c, <2>3 DEF EnsureSet, Inside, CallOK, Holds
    <3>2. call' \in [Threads -> Records] /\ CallsOK' BY <2>3, <3>1, <1>c, UseOK DEF EnsureSet
    <3> QED BY <2>3, <3>1, <3>2, <1>w DEF EnsureSet
  <2>4. CASE SyncWrite(c)
    <3>1. call[c].got \in Runtimes /\ Coherent(call[c].got)
          /\ call[c].got.candidate = call[c].user /\ call[c].no \in 1..MaxEvents
      BY <2>c, <2>4 DEF SyncWrite, Stage, CallOK, Holds
    <3>2. runtime' \in Runtimes /\ Coherent(runtime') BY <2>4, <3>1, EditedOK DEF SyncWrite
    <3> QED BY <2>4, <3>2, <1>c, <1>w, ReturnOK DEF SyncWrite
  <2>5. CASE AdvanceSave(c)
    <3>1. call[c].got \in Runtimes /\ Coherent(call[c].got) /\ call[c].got.turn = 1
      BY <2>c, <2>5 DEF AdvanceSave, Stage, CallOK, Holds
    <3>2. saved' \in [Users -> Texts] /\ ReportsAreThePeers'
      BY <2>5, <3>1, SavedOK DEF AdvanceSave, TypeOK
    <3> DEFINE r == [call[c] EXCEPT !.stage = "next"]
    <3>3. r \in Records BY <2>c DEF Records, Stages
    <3>4. r.op = call[c].op /\ r.user = call[c].user /\ r.no = call[c].no
          /\ r.stage = "next" /\ r.got = call[c].got BY <2>c DEF Records
    <3>5. CallOK(r) BY <2>c, <3>1, <3>4 DEF CallOK, Holds, Ensuring
    <3>6. call' = [call EXCEPT ![c] = r] BY <2>5 DEF AdvanceSave
    <3>7. call' \in [Threads -> Records] /\ CallsOK' BY <3>3, <3>5, <3>6, <1>c, CallChange
    <3>8. RuntimeIsCoherent' BY <2>5 DEF AdvanceSave, RuntimeIsCoherent, Coherent
    <3> QED BY <2>5, <3>2, <3>7, <3>8 DEF AdvanceSave, TypeOK
  <2>6. CASE AdvanceWrite(c)
    <3>1. call[c].got \in Runtimes /\ Coherent(call[c].got) /\ call[c].got.turn = 1
      BY <2>c, <2>6 DEF AdvanceWrite, Stage, CallOK, Holds
    <3>2. runtime' \in Runtimes /\ Coherent(runtime')
      BY <2>6, <3>1, <1>c, NextTurnOK DEF AdvanceWrite
    <3> QED BY <2>6, <3>2, <1>c, <1>w, ReturnOK DEF AdvanceWrite
  <2>7. CASE FinalGet(c)
    <3>1. call' \in [Threads -> Records] /\ CallsOK'
      <4>1. CASE runtime = NoOne BY <2>7, <4>1, <1>c, EnterOK DEF FinalGet, Stages
      <4>2. CASE runtime # NoOne BY <2>7, <4>2, <1>c, <1>r, EnterOK DEF FinalGet, Stages
      <4> QED BY <4>1, <4>2
    <3> QED BY <2>7, <3>1, <1>k DEF FinalGet, TypeOK
  <2>8. CASE FinalSave(c)
    <3>1. call[c].got \in Runtimes /\ Coherent(call[c].got)
      BY <2>c, <2>8 DEF FinalSave, Stage, CallOK, Holds
    <3>2. saved' \in [Users -> Texts] /\ ReportsAreThePeers'
      BY <2>8, <3>1, SavedOK DEF FinalSave, TypeOK
    <3>3. call' \in [Threads -> Records] /\ CallsOK'
      BY <2>8, <1>c, EnterOK DEF FinalSave, Stages
    <3>4. RuntimeIsCoherent' BY <2>8 DEF FinalSave, RuntimeIsCoherent, Coherent
    <3> QED BY <2>8, <3>2, <3>3, <3>4 DEF FinalSave, TypeOK
  <2>9. CASE FinalClear(c)
    <3>1. call' \in [Threads -> Records] /\ CallsOK'
      BY <2>9, <1>c, EnterOK DEF FinalClear, Stages
    <3> QED BY <2>9, <3>1, <1>w DEF FinalClear
  <2>10. CASE FinalUpdate(c)
    <3>1. call' \in [Threads -> Records] /\ CallsOK' BY <2>10, <1>c, ReturnOK DEF FinalUpdate
    <3> QED BY <2>10, <3>1
        DEF FinalUpdate, Outcome, TypeOK, RuntimeIsCoherent, ReportsAreThePeers, Coherent
  <2> QED
    BY <1>1, <2>1, <2>2, <2>3, <2>4, <2>5, <2>6, <2>7, <2>8, <2>9, <2>10 DEF Proceed
<1>2. ASSUME NEW c \in Calls, NEW op \in {"sync", "advance", "end", "join"}, NEW u \in Users,
             Begin(c, op, u)
      PROVE  TurnsInv'
  <2> DEFINE r == [Idle EXCEPT !.op = op, !.user = u, !.no = events', !.stage = "check"]
  <2>1. events' \in 1..MaxEvents /\ events' \in 0..MaxEvents
    BY <1>2, TurnsAssumption DEF Begin, TypeOK
  <2>2. r.op = op /\ r.user = u /\ r.no = events' /\ r.stage = "check" /\ r.at = "get"
    BY DEF Idle
  <2>3. r \in Records
    <3>1. op \in Ops /\ u \in Users \cup {NoOne} /\ events' \in Nat /\ "check" \in Stages
      BY <2>1 DEF Ops, Stages, Ensuring
    <3> QED BY <3>1, IdleOK DEF Records
  <2>4. CallOK(r) BY <2>1, <2>2 DEF CallOK, Holds
  <2>5. c \in Threads BY DEF Threads
  <2>6. call' = [call EXCEPT ![c] = r] BY <1>2 DEF Begin
  <2>7. call' \in [Threads -> Records] /\ CallsOK'
    <3> HIDE DEF r
    <3> QED BY <2>3, <2>4, <2>5, <2>6, <1>c, CallChange
  <2> QED BY <1>2, <2>1, <2>7, <1>k DEF Begin
<1>3. CASE Start
  <2>0. Starter \in Threads BY DEF Threads
  <2>1. CASE StartLookup
    <3>1. CASE runtime = NoOne
      <4>1. call[Starter].op = "start"
        BY <2>0, <2>1, <1>c DEF StartLookup, Stage, CallsOK, CallOK
      <4> QED BY <2>1, <3>1, <4>1, <2>0, <1>c, <1>k, InitialOK, EnterOK DEF StartLookup, Stages, TypeOK
    <3>2. CASE runtime # NoOne BY <2>1, <3>2, <2>0, <1>c, <1>k, ReturnOK DEF StartLookup, TypeOK
    <3> QED BY <3>1, <3>2
  <2>2. CASE StartWrite
    <3>1. call[Starter].got \in Runtimes /\ Coherent(call[Starter].got)
      BY <2>0, <2>2, <1>c DEF StartWrite, Stage, CallsOK, CallOK, Holds
    <3> QED BY <2>0, <2>2, <3>1, <1>c, <1>w, ReturnOK DEF StartWrite
  <2> QED BY <1>3, <2>1, <2>2 DEF Start
<1>4. CASE Tick
  <2> DEFINE r == [Idle EXCEPT !.op = "timer", !.stage = "check"]
  <2>1. r \in Records /\ CallOK(r) BY DEF Idle, Records, CallOK, Holds, Ops, Stages, Ensuring
  <2>2. call' \in [Threads -> Records] /\ CallsOK'
    BY <1>4, <2>1, <1>c, CallChange DEF Tick, Threads
  <2> QED BY <1>4, <2>2, <1>k DEF Tick, TypeOK
<1>5. CASE TimePasses
  BY <1>5, TurnsAssumption
  DEF TimePasses, TypeOK, RuntimeIsCoherent, ReportsAreThePeers, Coherent, CallsOK, CallOK, Holds
<1>6. CASE Crash
  <2>1. call' \in [Threads -> Records] BY <1>6, IdleOK DEF Crash
  <2>2. CallsOK' BY <1>6, IdleOK DEF Crash, CallsOK, CallOK, Holds, Coherent, Other, Blank
  <2> QED BY <1>6, <2>1, <2>2, TurnsAssumption
      DEF Crash, TypeOK, RuntimeIsCoherent, ReportsAreThePeers, Coherent
<1>7. CASE UNCHANGED vars
  BY <1>7 DEF vars, TypeOK, RuntimeIsCoherent, ReportsAreThePeers, Coherent, CallsOK, CallOK, Holds
<1> QED BY <1>1, <1>2, <1>3, <1>4, <1>5, <1>6, <1>7 DEF Next

LEMMA SpecInv == Spec => []TurnsInv
  BY InitInv, StepInv, PTL DEF Spec

(* Every reachable state is of the right type.                             *)
THEOREM TurnsTypeCorrect == Spec => []TypeOK
<1>1. TurnsInv => TypeOK BY DEF TurnsInv
<1> QED BY <1>1, SpecInv, PTL

(* However syncs, advances, the timer, the end and a crash interleave, the *)
(* runtime keeps the roles of its turn and only its candidate's text.      *)
THEOREM RolesAndTextAgree == Spec => []RuntimeIsCoherent
<1>1. TurnsInv => RuntimeIsCoherent BY DEF TurnsInv
<1> QED BY <1>1, SpecInv, PTL

(* However the saves of both turns interleave with stale writes, the code  *)
(* kept with a user's question is the peer's.                              *)
THEOREM PeersAnswerIsKept == Spec => []ReportsAreThePeers
<1>1. TurnsInv => ReportsAreThePeers BY DEF TurnsInv
<1> QED BY <1>1, SpecInv, PTL
=============================================================================
