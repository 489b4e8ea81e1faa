--------------------------- MODULE CollectorProofs ---------------------------
(***************************************************************************)
(* Collector for any users, processes and epochs: what is sent and what is *)
(* reported is about the credential stored at that moment, and a poll runs *)
(* with the token it was started for.  The invariant is CollectorInv: each *)
(* process owns its connection by the lock, and what it has found out at   *)
(* its last check by the fence.                                            *)
(***************************************************************************)
EXTENDS Collector, TLAPS

\* CollectorInv for one process.
Owns(c) ==
  LET u == proc[c].user IN
  /\ proc[c].pc \in {"idle", "next", "read"} => proc[c].stage = "enter"
  /\ u # NoUser => lock[u] = c
  /\ LoggedIn(c) => profile[u] = proc[c].epoch
  /\ At(c, "publish") \/ Succeeded(c) => fence[u] = c /\ Current(c)
  /\ Succeeded(c) => sent[u] = proc[c].epoch
  /\ Succeeded(c) /\ proc[c].pc = "report" => profile[u] = 0

Inv == TypeOK /\ CollectorInv

LEMMA InvIsOwns == CollectorInv <=> \A c \in Procs : Owns(c)
BY DEF CollectorInv, Owns

-----------------------------------------------------------------------------
(* Types.                                                                  *)

Processes ==
  /\ proc \in [Procs -> Proc]
  /\ \A c \in Procs : proc[c].pc \in {"idle", "next"} <=> proc[c].user = NoUser

LEMMA UpdateType ==
  ASSUME TypeOK, NEW c \in Procs, NEW r \in Proc,
         r.pc \in {"idle", "next"} <=> r.user = NoUser,
         proc' = [proc EXCEPT ![c] = r]
  PROVE  Processes'
BY DEF TypeOK, Processes

LEMMA DieType ==
  ASSUME TypeOK, NEW c \in Procs, proc' = [proc EXCEPT ![c] = Idle]
  PROVE  Processes'
<1>1. Idle \in Proc /\ Idle.pc = "idle" /\ Idle.user = NoUser
  BY CollectorAssumption DEF Idle, Between, Proc, Epochs, Stages
<1> QED BY <1>1, UpdateType

\* A process that starts a cycle, or goes on to the next connection.
LEMMA NextType ==
  ASSUME TypeOK, NEW c \in Procs, NEW todo \in SUBSET Users,
         proc' = [proc EXCEPT ![c] = Between("next", todo)]
  PROVE  Processes'
<1> DEFINE r == Between("next", todo)
<1>1. r \in Proc /\ r.pc = "next" /\ r.user = NoUser
  BY CollectorAssumption DEF Between, Proc, Epochs, Stages
<1> HIDE DEF r
<1> QED BY <1>1, UpdateType DEF r

LEMMA GoOnType ==
  ASSUME TypeOK, NEW c \in Procs, NEW u, GoOn(c, u)
  PROVE  Processes'
<1>1. proc[c].todo \ {u} \in SUBSET Users
  BY DEF TypeOK, Proc
<1> QED BY <1>1, NextType DEF GoOn

\* A process that stays at its connection.
LEMMA StatusType ==
  ASSUME TypeOK, NEW c \in Procs, proc[c].pc \notin {"idle", "next"},
         NEW pc \in {"check", "do", "cleanup", "report"},
         NEW status \in {"collected", "failed", "skipped"},
         proc' = [proc EXCEPT ![c] = [@ EXCEPT !.pc = pc, !.status = status]]
  PROVE  Processes'
<1> DEFINE r == [proc[c] EXCEPT !.pc = pc, !.status = status]
<1>1. r \in Proc /\ r.pc = pc /\ r.user = proc[c].user
  BY DEF TypeOK, Proc
<1>2. proc[c].user # NoUser /\ proc' = [proc EXCEPT ![c] = r]
  BY DEF TypeOK
<1> HIDE DEF r
<1> QED BY <1>1, <1>2, UpdateType

LEMMA StageType ==
  ASSUME TypeOK, NEW c \in Procs, proc[c].pc \notin {"idle", "next"},
         NEW pc \in {"check", "do", "cleanup", "report"},
         NEW stage \in Stages,
         proc' = [proc EXCEPT ![c] = [@ EXCEPT !.pc = pc, !.stage = stage]]
  PROVE  Processes'
<1> DEFINE r == [proc[c] EXCEPT !.pc = pc, !.stage = stage]
<1>1. r \in Proc /\ r.pc = pc /\ r.user = proc[c].user
  BY DEF TypeOK, Proc
<1>2. proc[c].user # NoUser /\ proc' = [proc EXCEPT ![c] = r]
  BY DEF TypeOK
<1> HIDE DEF r
<1> QED BY <1>1, <1>2, UpdateType

LEMMA EpochType ==
  ASSUME TypeOK, NEW c \in Procs, proc[c].pc \notin {"idle", "next"},
         NEW pc \in {"check", "do", "cleanup", "report"},
         NEW epoch \in Epochs,
         proc' = [proc EXCEPT ![c] = [@ EXCEPT !.pc = pc, !.epoch = epoch]]
  PROVE  Processes'
<1> DEFINE r == [proc[c] EXCEPT !.pc = pc, !.epoch = epoch]
<1>1. r \in Proc /\ r.pc = pc /\ r.user = proc[c].user
  BY DEF TypeOK, Proc
<1>2. proc[c].user # NoUser /\ proc' = [proc EXCEPT ![c] = r]
  BY DEF TypeOK
<1> HIDE DEF r
<1> QED BY <1>1, <1>2, UpdateType

LEMMA GotoType ==
  ASSUME TypeOK, NEW c \in Procs, proc[c].pc \notin {"idle", "next"},
         NEW pc \in {"check", "do", "cleanup", "report"}, Goto(c, pc)
  PROVE  Processes'
BY DEF TypeOK, Processes, Proc, Goto

LEMMA FinishType ==
  ASSUME TypeOK, NEW c \in Procs, proc[c].pc \notin {"idle", "next"},
         NEW status \in {"collected", "failed", "skipped"}, Finish(c, status)
  PROVE  Processes'
BY StatusType DEF Finish

\* The last check of the poll leads to the check before the publish.
LEMMA CheckedType ==
  ASSUME TypeOK, NEW c \in Procs, proc[c].pc = "check", Checked(c)
  PROVE  Processes'
<1>1. CASE Finish(c, "skipped")
  BY <1>1, FinishType
<1>2. CASE Goto(c, "do")
  BY <1>2, GotoType
<1>3. CASE proc' = [proc EXCEPT ![c].stage = "publish"]
  <2> DEFINE r == [proc[c] EXCEPT !.stage = "publish"]
  <2>1. r \in Proc /\ r.pc = "check" /\ r.user = proc[c].user
    BY DEF TypeOK, Proc, Stages
  <2>2. proc[c].user # NoUser /\ proc' = [proc EXCEPT ![c] = r]
    BY <1>3 DEF TypeOK
  <2> HIDE DEF r
  <2> QED BY <2>1, <2>2, UpdateType
<1> QED BY <1>1, <1>2, <1>3 DEF Checked

LEMMA ProceedType ==
  ASSUME TypeOK, NEW c \in Procs, proc[c].pc = "do", proc[c].stage # "publish", Proceed(c)
  PROVE  Processes'
<1>1. After[proc[c].stage] \in Stages
  BY DEF TypeOK, Proc, Stages, After
<1> QED BY <1>1, StageType DEF Proceed

\* The steps of a process and of the sync keep the types.
LEMMA TypeStep == TypeOK /\ [Next]_vars => TypeOK'
<1> SUFFICES ASSUME TypeOK, [Next]_vars PROVE TypeOK'
  OBVIOUS
<1>1. ASSUME NEW u \in Users, StoreToken(u) PROVE TypeOK'
  BY <1>1, CollectorAssumption
       DEF TypeOK, Processes, StoreToken, SetVersion, Version, Epochs
<1>2. ASSUME NEW u \in Users, DeleteConnection(u) PROVE TypeOK'
  BY <1>2, CollectorAssumption
       DEF TypeOK, Processes, DeleteConnection, SetVersion, Version, Epochs
<1>3. ASSUME NEW c \in Procs, NEW u \in Users, PreflightFails(c, u) PROVE TypeOK'
  BY <1>3, GoOnType DEF TypeOK, Processes, PreflightFails
<1>4. ASSUME NEW c \in Procs, NEW u \in Users, Skip(c, u) PROVE TypeOK'
  BY <1>4, GoOnType DEF TypeOK, Processes, Skip
<1>5. ASSUME NEW c \in Procs, NEW u \in Users, Acquire(c, u) PROVE TypeOK'
  <2> DEFINE r == [proc[c] EXCEPT !.pc = "read", !.user = u]
  <2>1. r \in Proc /\ r.pc = "read" /\ r.user = u
    BY DEF TypeOK, Proc
  <2>2. u # NoUser /\ proc' = [proc EXCEPT ![c] = r]
    BY <1>5, CollectorAssumption DEF Acquire, Acquired
  <2> HIDE DEF r
  <2> QED BY <1>5, <2>1, <2>2, UpdateType DEF TypeOK, Processes, Acquire, Acquired
<1>6. ASSUME NEW c \in Procs, ListConnections(c) PROVE TypeOK'
  BY <1>6, NextType, {u \in Users : store[u].state = "stored"} \in SUBSET Users
     DEF TypeOK, Processes, ListConnections
<1>7. ASSUME NEW c \in Procs, EndCycle(c) PROVE TypeOK'
  BY <1>7 DEF TypeOK, EndCycle, Goto, Proc
<1>8. ASSUME NEW c \in Procs, Read(c) PROVE TypeOK'
  <2>1. CASE Finish(c, "skipped")
    BY <1>8, <2>1, FinishType DEF TypeOK, Processes, Read
  <2>2. CASE proc' = [proc EXCEPT ![c] =
                        [@ EXCEPT !.pc = "check", !.epoch = store[proc[c].user].epoch]]
    <3>1. proc[c].user \in Users
      BY <1>8 DEF TypeOK, Proc, Read
    <3>2. store[proc[c].user].epoch \in Epochs
      BY <3>1 DEF TypeOK, Version
    <3> QED BY <1>8, <2>2, <3>2, EpochType DEF TypeOK, Processes, Read
  <2> QED BY <1>8, <2>1, <2>2 DEF Read
<1>9. ASSUME NEW c \in Procs, ReadFails(c) PROVE TypeOK'
  BY <1>9, StatusType DEF TypeOK, Processes, ReadFails
<1>10. ASSUME NEW c \in Procs, Check(c) PROVE TypeOK'
  BY <1>10, CheckedType DEF TypeOK, Processes, Check
<1>11. ASSUME NEW c \in Procs, CheckFails(c) PROVE TypeOK'
  BY <1>11, FinishType DEF TypeOK, Processes, CheckFails
<1>12. ASSUME NEW c \in Procs, Step(c) PROVE TypeOK'
  BY <1>12, ProceedType DEF TypeOK, Processes, Step, At
<1>13. ASSUME NEW c \in Procs, StepFails(c) PROVE TypeOK'
  BY <1>13, FinishType DEF TypeOK, Processes, StepFails, At
<1>14. ASSUME NEW c \in Procs, Login(c) PROVE TypeOK'
  BY <1>14, ProceedType DEF TypeOK, Processes, Login, At, Proc
<1>15. ASSUME NEW c \in Procs, LoginFails(c) PROVE TypeOK'
  BY <1>15, CollectorAssumption, FinishType
       DEF TypeOK, Processes, LoginFails, At, Proc, Epochs
<1>16. ASSUME NEW c \in Procs, Publish(c) PROVE TypeOK'
  BY <1>16, FinishType DEF TypeOK, Processes, Publish, At, Proc
<1>17. ASSUME NEW c \in Procs, PublishFails(c) PROVE TypeOK'
  BY <1>17, FinishType DEF TypeOK, Processes, PublishFails, At, Proc
<1>18. ASSUME NEW c \in Procs, Cleanup(c) PROVE TypeOK'
  BY <1>18, CollectorAssumption, GotoType DEF TypeOK, Processes, Cleanup, Epochs, Proc
<1>19. ASSUME NEW c \in Procs, CleanupFails(c) PROVE TypeOK'
  <2> DEFINE status == IF proc[c].status = "collected" THEN "failed" ELSE proc[c].status
  <2>1. status \in {"collected", "failed", "skipped"}
    BY DEF TypeOK, Proc
  <2>2. proc[c].pc = "cleanup"
        /\ proc' = [proc EXCEPT ![c] = [@ EXCEPT !.pc = "report", !.status = status]]
    BY <1>19 DEF CleanupFails
  <2> HIDE DEF status
  <2>3. Processes'
    BY <2>1, <2>2, StatusType
  <2> QED BY <1>19, <2>3, CollectorAssumption DEF TypeOK, Processes, CleanupFails,
         Epochs, Proc
<1>20. ASSUME NEW c \in Procs, Report(c) PROVE TypeOK'
  BY <1>20, GoOnType DEF TypeOK, Processes, Report, Without, Proc
<1>21. ASSUME NEW c \in Procs, Die(c) PROVE TypeOK'
  <2>1. Processes'
    BY <1>21, DieType DEF Die
  <2>2. lock' \in [Users -> Procs \union {NoProc}]
        /\ fence' \in [Users -> Procs \union {NoProc}]
    BY <1>21 DEF TypeOK, Die, Without
  <2>3. profile' \in [Users -> Epochs] /\ sent' \in [Users -> Epochs]
    BY <1>21, CollectorAssumption DEF TypeOK, Die, At, Proc, Epochs
  <2> QED BY <1>21, <2>1, <2>2, <2>3 DEF TypeOK, Processes, Die
<1>22. CASE UNCHANGED vars
  BY <1>22 DEF TypeOK, vars
<1> QED
  BY <1>1, <1>2, <1>3, <1>4, <1>5, <1>6, <1>7, <1>8, <1>9, <1>10, <1>11, <1>12,
     <1>13, <1>14, <1>15, <1>16, <1>17, <1>18, <1>19, <1>20, <1>21, <1>22
     DEF Next, Sync, Progress, Failure

-----------------------------------------------------------------------------
(* A process changes nothing of the connections of the others.             *)

\* What a step of c leaves alone.
Local(c) ==
  /\ store' = store
  /\ \A d \in Procs \ {c} : proc'[d] = proc[d]
  /\ \A u \in Users \ {proc[c].user} :
       /\ profile'[u] = profile[u] /\ sent'[u] = sent[u]
       /\ lock[u] \notin {c, NoProc} => lock'[u] = lock[u]
       /\ fence[u] \notin {c, NoProc} => fence'[u] = fence[u]

LEMMA StepIsLocal ==
  ASSUME TypeOK, NEW c \in Procs, Progress(c) \/ Failure(c) \/ Die(c)
  PROVE  Local(c)
<1> USE DEF TypeOK, Local
<1>1. ASSUME NEW u \in Users, PreflightFails(c, u) PROVE Local(c)
  BY <1>1 DEF PreflightFails, GoOn
<1>2. ASSUME NEW u \in Users, Skip(c, u) PROVE Local(c)
  BY <1>2 DEF Skip, GoOn
<1>3. ASSUME NEW u \in Users, Acquire(c, u) PROVE Local(c)
  BY <1>3 DEF Acquire, Acquired
<1>4. ASSUME ListConnections(c) PROVE Local(c)
  BY <1>4 DEF ListConnections
<1>5. ASSUME EndCycle(c) PROVE Local(c)
  BY <1>5 DEF EndCycle, Goto
<1>6. ASSUME Read(c) PROVE Local(c)
  BY <1>6 DEF Read, Finish
<1>7. ASSUME ReadFails(c) PROVE Local(c)
  BY <1>7 DEF ReadFails
<1>8. ASSUME Check(c) PROVE Local(c)
  BY <1>8 DEF Check, Checked, Finish, Goto
<1>9. ASSUME CheckFails(c) PROVE Local(c)
  BY <1>9 DEF CheckFails, Finish
<1>10. ASSUME Step(c) PROVE Local(c)
  BY <1>10 DEF Step, Proceed
<1>11. ASSUME StepFails(c) PROVE Local(c)
  BY <1>11 DEF StepFails, Finish
<1>12. ASSUME Login(c) PROVE Local(c)
  BY <1>12 DEF Login, Proceed
<1>13. ASSUME LoginFails(c) PROVE Local(c)
  BY <1>13 DEF LoginFails, Finish
<1>14. ASSUME Publish(c) PROVE Local(c)
  BY <1>14 DEF Publish, Finish
<1>15. ASSUME PublishFails(c) PROVE Local(c)
  BY <1>15 DEF PublishFails, Finish
<1>16. ASSUME Cleanup(c) PROVE Local(c)
  BY <1>16 DEF Cleanup, Goto
<1>17. ASSUME CleanupFails(c) PROVE Local(c)
  BY <1>17 DEF CleanupFails
<1>18. ASSUME Report(c) PROVE Local(c)
  BY <1>18 DEF Report, GoOn, Without
<1>19. ASSUME Die(c) PROVE Local(c)
  BY <1>19 DEF Die, Without
<1> QED
  BY <1>1, <1>2, <1>3, <1>4, <1>5, <1>6, <1>7, <1>8, <1>9, <1>10, <1>11, <1>12,
     <1>13, <1>14, <1>15, <1>16, <1>17, <1>18, <1>19
     DEF Progress, Failure

\* A process that does not move keeps what it owns as long as its connection
\* stays the same for it.
LEMMA Stays ==
  ASSUME NEW d \in Procs, Owns(d), proc'[d] = proc[d],
         NEW u, u = proc[d].user, TypeOK,
         u # NoUser => /\ lock'[u] = lock[u] /\ profile'[u] = profile[u]
                       /\ sent'[u] = sent[u]
                       /\ fence[u] = d => fence'[u] = d /\ store'[u] = store[u]
  PROVE  Owns(d)'
BY DEF Owns, LoggedIn, At, Succeeded, Current, TypeOK

LEMMA OthersStay ==
  ASSUME TypeOK, CollectorInv, NEW c \in Procs, NEW d \in Procs, d # c,
         Progress(c) \/ Failure(c) \/ Die(c)
  PROVE  Owns(d)'
<1> DEFINE u == proc[d].user
<1>1. Local(c) /\ Owns(d) /\ Owns(c)
  BY StepIsLocal, InvIsOwns
<1>2. ASSUME u # NoUser
      PROVE  u \in Users /\ u # proc[c].user /\ lock[u] = d /\ d # NoProc
  <2>1. u \in Users /\ d # NoProc
    BY <1>2, CollectorAssumption DEF TypeOK, Proc
  <2> QED BY <1>1, <1>2, <2>1 DEF Owns
<1>3. u # NoUser => /\ lock'[u] = lock[u] /\ profile'[u] = profile[u]
                    /\ sent'[u] = sent[u]
                    /\ fence[u] = d => fence'[u] = d /\ store'[u] = store[u]
  BY <1>1, <1>2 DEF Local
<1> QED BY <1>1, <1>3, Stays DEF Local

LEMMA SyncKeeps ==
  ASSUME TypeOK, CollectorInv, NEW d \in Procs,
         NEW v \in Users, StoreToken(v) \/ DeleteConnection(v)
  PROVE  Owns(d)'
<1> DEFINE u == proc[d].user
<1>1. fence[v] = NoProc /\ proc' = proc /\ UNCHANGED <<lock, fence, profile, sent>>
      /\ \A w \in Users : w # v => store'[w] = store[w]
  BY DEF StoreToken, DeleteConnection, SetVersion, TypeOK
<1>2. u # NoUser => u \in Users /\ d # NoProc
  BY CollectorAssumption DEF TypeOK, Proc
<1> QED BY <1>1, <1>2, InvIsOwns, Stays

-----------------------------------------------------------------------------
(* What a process owns after its own step.                                 *)

LEMMA OwnStep ==
  ASSUME TypeOK, CollectorInv, NEW c \in Procs, Progress(c) \/ Failure(c) \/ Die(c)
  PROVE  Owns(c)'
<1>0. Owns(c) /\ proc[c] \in Proc
      /\ (proc[c].pc \notin {"idle", "next"} => proc[c].user \in Users)
  BY InvIsOwns DEF TypeOK, Proc
<1> USE <1>0 DEF Owns, LoggedIn, At, Succeeded, Current, TypeOK
<1>1. ASSUME NEW u \in Users, PreflightFails(c, u) PROVE Owns(c)'
  BY <1>1 DEF PreflightFails, GoOn, Between
<1>2. ASSUME NEW u \in Users, Skip(c, u) PROVE Owns(c)'
  BY <1>2 DEF Skip, GoOn, Between
<1>3. ASSUME NEW u \in Users, Acquire(c, u) PROVE Owns(c)'
  BY <1>3 DEF Acquire, Acquired
<1>4. ASSUME ListConnections(c) PROVE Owns(c)'
  BY <1>4 DEF ListConnections, Between
<1>5. ASSUME EndCycle(c) PROVE Owns(c)'
  BY <1>5 DEF EndCycle, Goto
<1>6. ASSUME Read(c) PROVE Owns(c)'
  <2> USE <1>6 DEF Read
  <2>1. CASE Finish(c, "skipped")
    BY <2>1 DEF Finish
  <2>2. CASE proc' = [proc EXCEPT ![c] =
                        [@ EXCEPT !.pc = "check", !.epoch = store[proc[c].user].epoch]]
    <3>1. proc'[c].pc = "check" /\ proc'[c].stage = "enter" /\ proc'[c].user = proc[c].user
      BY <2>2
    <3> QED BY <3>1
  <2> QED BY <2>1, <2>2
<1>7. ASSUME ReadFails(c) PROVE Owns(c)'
  BY <1>7 DEF ReadFails
<1>8. ASSUME Check(c) PROVE Owns(c)'
  <2> USE <1>8 DEF Check
  <2>1. CASE Finish(c, "skipped")
    BY <2>1 DEF Finish
  <2>2. CASE Current(c) /\ Goto(c, "do")
    <3>1. proc'[c] = [proc[c] EXCEPT !.pc = "do"]
      BY <2>2 DEF Goto
    <3>2. proc[c].user \in Users
      OBVIOUS
    <3> QED BY <2>2, <3>1, <3>2
  <2>3. CASE proc[c].stage = "polled" /\ proc' = [proc EXCEPT ![c].stage = "publish"]
    BY <2>3
  <2> QED BY <2>1, <2>2, <2>3 DEF Checked
<1>9. ASSUME CheckFails(c) PROVE Owns(c)'
  BY <1>9 DEF CheckFails, Finish
<1>10. ASSUME Step(c) PROVE Owns(c)'
  BY <1>10 DEF Step, Proceed, After
<1>11. ASSUME StepFails(c) PROVE Owns(c)'
  BY <1>11 DEF StepFails, Finish
<1>12. ASSUME Login(c) PROVE Owns(c)'
  BY <1>12 DEF Login, Proceed, After
<1>13. ASSUME LoginFails(c) PROVE Owns(c)'
  BY <1>13 DEF LoginFails, Finish
<1>14. ASSUME Publish(c) PROVE Owns(c)'
  BY <1>14 DEF Publish, Finish
<1>15. ASSUME PublishFails(c) PROVE Owns(c)'
  BY <1>15 DEF PublishFails, Finish
<1>16. ASSUME Cleanup(c) PROVE Owns(c)'
  BY <1>16 DEF Cleanup, Goto
<1>17. ASSUME CleanupFails(c) PROVE Owns(c)'
  BY <1>17 DEF CleanupFails
<1>18. ASSUME Report(c) PROVE Owns(c)'
  BY <1>18 DEF Report, GoOn, Between
<1>19. ASSUME Die(c) PROVE Owns(c)'
  BY <1>19 DEF Die, Idle, Between
<1> QED
  BY <1>1, <1>2, <1>3, <1>4, <1>5, <1>6, <1>7, <1>8, <1>9, <1>10, <1>11, <1>12,
     <1>13, <1>14, <1>15, <1>16, <1>17, <1>18, <1>19
     DEF Progress, Failure

LEMMA CollectorInit == Init => Inv
BY CollectorAssumption
   DEF Init, Inv, TypeOK, CollectorInv, Version, Proc, Epochs, Stages, Idle, Between,
       LoggedIn, At, Succeeded

LEMMA CollectorStep == Inv /\ [Next]_vars => Inv'
<1> SUFFICES ASSUME TypeOK, CollectorInv, [Next]_vars PROVE CollectorInv'
  BY TypeStep DEF Inv
<1>1. ASSUME NEW u \in Users, StoreToken(u) \/ DeleteConnection(u), NEW d \in Procs
      PROVE  Owns(d)'
  BY <1>1, SyncKeeps
<1>2. ASSUME NEW c \in Procs, Progress(c) \/ Failure(c) \/ Die(c), NEW d \in Procs
      PROVE  Owns(d)'
  BY <1>2, OthersStay, OwnStep
<1>3. CASE UNCHANGED vars
  BY <1>3 DEF vars, CollectorInv, LoggedIn, At, Succeeded, Current
<1>4. (\A d \in Procs : Owns(d)') => CollectorInv'
  BY DEF CollectorInv, Owns
<1> QED BY <1>1, <1>2, <1>3, <1>4 DEF Next, Sync

-----------------------------------------------------------------------------
\* At any time a process has the lock of its connection, and from its last
\* check to its report also the fence around what it relies on.
THEOREM CollectorCorrect == Spec => []CollectorInv
<1>1. Init => Inv
  BY CollectorInit
<1>2. Inv /\ [Next]_vars => Inv'
  BY CollectorStep
<1>3. Inv => CollectorInv
  BY DEF Inv
<1> QED BY <1>1, <1>2, <1>3, PTL DEF Spec

\* The variables have their types.
THEOREM CollectorTypes == Spec => []TypeOK
<1>1. Inv => TypeOK
  BY DEF Inv
<1> QED BY CollectorInit, CollectorStep, <1>1, PTL DEF Spec

\* A connection is polled with the token it was started for, for any number
\* of collectors that start, die and overlap.
THEOREM PollsWithOwnToken == Spec => []PollsOwnToken
<1>1. CollectorInv => PollsOwnToken
  BY DEF CollectorInv, PollsOwnToken
<1> QED BY CollectorCorrect, <1>1, PTL

\* What is sent is a snapshot for the credential stored at that moment.
THEOREM SendsCurrent == Spec => SentCurrent
<1>1. Inv /\ [Next]_vars =>
        [\A u \in Users : sent'[u] # sent[u] =>
            store[u] = [epoch |-> sent'[u], state |-> "stored"]]_vars
  <2> SUFFICES ASSUME Inv, Next, NEW u \in Users, sent'[u] # sent[u]
               PROVE  store[u] = [epoch |-> sent'[u], state |-> "stored"]
    OBVIOUS
  <2>1. PICK c \in Procs : At(c, "publish") /\ u = proc[c].user /\ sent'[u] = proc[c].epoch
    BY DEF Inv, TypeOK, Next, Sync, StoreToken, DeleteConnection, SetVersion, Progress,
           Failure, ListConnections, EndCycle, PreflightFails, Skip, Acquire, Acquired,
           Read, ReadFails, Check, CheckFails, Step, StepFails, Login, LoginFails,
           Publish, PublishFails, Cleanup, CleanupFails, Report, Die
  <2> QED BY <2>1 DEF Inv, CollectorInv, Current
<1> QED BY CollectorInit, CollectorStep, <1>1, PTL DEF Spec, SentCurrent

\* A success is reported for the credential that is stored, after a snapshot
\* was sent for it and its token was erased.
THEOREM ReportsTheTruth == Spec => ToldClean
<1>1. Inv /\ [Next]_vars =>
        [\A u \in Users : told'[u] # told[u] =>
            /\ told'[u] = sent[u] /\ profile[u] = 0
            /\ store[u] = [epoch |-> told'[u], state |-> "stored"]]_vars
  <2> SUFFICES ASSUME Inv, Next, NEW u \in Users, told'[u] # told[u]
               PROVE  /\ told'[u] = sent[u] /\ profile[u] = 0
                      /\ store[u] = [epoch |-> told'[u], state |-> "stored"]
    OBVIOUS
  <2>1. PICK c \in Procs : /\ proc[c].pc = "report" /\ proc[c].status = "collected"
                           /\ u = proc[c].user /\ told'[u] = proc[c].epoch
    BY DEF Inv, TypeOK, Next, Sync, StoreToken, DeleteConnection, SetVersion, Progress,
           Failure, ListConnections, EndCycle, PreflightFails, Skip, Acquire, Acquired,
           Read, ReadFails, Check, CheckFails, Step, StepFails, Login, LoginFails,
           Publish, PublishFails, Cleanup, CleanupFails, Report, Die
  <2> QED BY <2>1 DEF Inv, CollectorInv, Current, Succeeded
<1> QED BY CollectorInit, CollectorStep, <1>1, PTL DEF Spec, ToldClean
=============================================================================
