------------------------- MODULE DaemonServer_proofs -------------------------
(***************************************************************************)
(* Proofs about the daemon: about DaemonServer, for any number of requests *)
(* of any kinds, with or without failing saves and signals, and about      *)
(* DaemonLifecycle, for any number of commands and crashes.                *)
(***************************************************************************)
EXTENDS DaemonServer, DaemonRequirements, TLAPS

-----------------------------------------------------------------------------
(* Type correctness *)

\* Stopping a timer leaves a timer state for every request.
LEMMA AfterStopType ==
  ASSUME TypeOK
  PROVE  AfterStop \in [Requests -> {"none", "armed", "fired", "stopped",
                                     "over"}]
BY DEF AfterStop, TypeOK

\* Releasing the mutex leaves a well-formed mutex.
LEMMA ReleaseType ==
  ASSUME TypeOK, NEW r \in Requests, Release(r)
  PROVE  writer' \in Requests \cup {None} /\ readers' \subseteq Requests
BY DEF Release, TypeOK

LEMMA TypeInit == Init => TypeOK
BY DEF Init, TypeOK, Stoppers

\* Locking the store leaves a well-formed store.
LEMMA StoreLockType ==
  ASSUME TypeOK, StoreLock
  PROVE  /\ exists' \in BOOLEAN /\ unlocked' \in BOOLEAN
         /\ dirty' \in BOOLEAN /\ lockFailed' \in BOOLEAN
BY DEF StoreLock, Store!LockSucceeds, Store!LockFails, Store!vars, store, TypeOK

LEMMA TypeNext == TypeOK /\ [Next]_vars => TypeOK'
<1>. SUFFICES ASSUME TypeOK, [Next]_vars
              PROVE  TypeOK'
  OBVIOUS
<1>1. ASSUME NEW r \in Requests, NEW k \in Kinds, Arrive(r, k)
      PROVE  TypeOK'
  BY <1>1 DEF Arrive, TypeOK, mu, store, timers, ending
<1>2. ASSUME NEW r \in Requests, Begin(r)
      PROVE  TypeOK'
  <2>1. writer' \in Requests \cup {None} /\ readers' \subseteq Requests
    BY <1>2 DEF Begin, TypeOK, mu
  <2>. QED
    BY <1>2, <2>1 DEF Begin, TypeOK, store, timers, ending
<1>3. ASSUME NEW r \in Requests, ActInit(r)
      PROVE  TypeOK'
  BY <1>3, ReleaseType DEF ActInit, Acting, GoOnToReset, Finish, TypeOK, mu,
                           timers, ending, Store!CreateSucceeds,
                           Store!CreateFails
<1>4. ASSUME NEW r \in Requests, ActUnlock(r)
      PROVE  TypeOK'
  BY <1>4, ReleaseType DEF ActUnlock, Acting, GoOnToReset, AnswerOnly, Finish,
                           TypeOK, mu, timers, ending, Store!UnlockSucceeds,
                           Store!UnlockFails
<1>5. ASSUME NEW r \in Requests, ActLock(r)
      PROVE  TypeOK'
  BY <1>5, ReleaseType, AfterStopType, StoreLockType
     DEF ActLock, Acting, Finish, TypeOK, ending
<1>6. ASSUME NEW r \in Requests, ActPassword(r)
      PROVE  TypeOK'
  BY <1>6, ReleaseType DEF ActPassword, Acting, Finish, TypeOK, store, timers,
                           ending, Store!PasswordSucceeds, Store!PasswordFails
<1>7. ASSUME NEW r \in Requests, ActGet(r) \/ ActList(r)
      PROVE  TypeOK'
  BY <1>7, ReleaseType DEF ActGet, ActList, Acting, GoOnToReset, AnswerOnly,
                           Finish, TypeOK, mu, store, timers, ending
<1>8. ASSUME NEW r \in Requests, ActChange(r)
      PROVE  TypeOK'
  BY <1>8, ReleaseType DEF ActChange, Acting, GoOnToReset, AnswerOnly, Finish,
                           TypeOK, mu, store, timers, ending,
                           Store!ChangeSucceeds, Store!ChangeFails
<1>9. ASSUME NEW r \in Requests, ActImportEntry(r) \/ ActImportEnds(r)
      PROVE  TypeOK'
  BY <1>9 DEF ActImportEntry, ActImportEnds, Acting, GoOnToReset, TypeOK, mu,
              store, timers, ending, Store!ChangeSucceeds, Store!ChangeFails
<1>10. ASSUME NEW r \in Requests, ResetStops(r)
       PROVE  TypeOK'
  BY <1>10, AfterStopType DEF ResetStops, TypeOK, mu, store, ending
<1>11. ASSUME NEW r \in Requests, ResetArms(r)
       PROVE  TypeOK'
  BY <1>11, ReleaseType DEF ResetArms, Finish, TypeOK, store, ending
<1>12. ASSUME NEW r \in Requests, ActStop(r)
       PROVE  TypeOK'
  BY <1>12 DEF ActStop, TypeOK, Stoppers, mu, store, timers
<1>13. ASSUME NEW t \in Requests, Expire(t)
       PROVE  TypeOK'
  BY <1>13 DEF Expire, TypeOK, mu, store, ending
<1>14. ASSUME NEW t \in Requests, AutoLock(t)
       PROVE  TypeOK'
  BY <1>14, StoreLockType DEF AutoLock, TypeOK, mu, ending
<1>15. CASE RunStops
  BY <1>15 DEF RunStops, TypeOK, Stoppers, mu, store, timers
<1>16. ASSUME NEW s \in Stoppers, Shutdown(s)
       PROVE  TypeOK'
  BY <1>16, AfterStopType, StoreLockType
     DEF Shutdown, ShutdownStopsTimer, ShutdownLocksStore, ShutdownClosesServer,
         Exit, TypeOK, mu, store, timers
<1>17. CASE UNCHANGED vars
  BY <1>17 DEF vars, TypeOK, mu, store, timers, ending
<1>. QED
  BY <1>1, <1>2, <1>3, <1>4, <1>5, <1>6, <1>7, <1>8, <1>9, <1>10, <1>11, <1>12,
     <1>13, <1>14, <1>15, <1>16, <1>17 DEF Next, Handle, Quiet

\* Every variable has its type, and every request that has arrived is of a
\* kind the server routes, in every reachable state.
THEOREM TypeCorrect == Spec => []TypeOK
BY TypeInit, TypeNext, PTL DEF Spec

-----------------------------------------------------------------------------
(* Who holds Server.mu *)

\* A handler that finishes leaves a mutex that is still properly held.
LEMMA FinishKeepsDiscipline ==
  ASSUME TypeOK, LockDiscipline, NEW r \in Requests, InHandler(r), Finish(r),
         kind' = kind
  PROVE  LockDiscipline'
BY ServerConstants
   DEF Finish, Release, LockDiscipline, InHandler, TypeOK, WriteKinds, ReadKinds

\* So does a handler that ends in a panic: the deferred Unlock runs.
LEMMA PanicKeepsDiscipline ==
  ASSUME TypeOK, LockDiscipline, NEW r \in Requests, InHandler(r), Release(r),
         pc' = [pc EXCEPT ![r] = "panicked"], kind' = kind
  PROVE  LockDiscipline'
BY ServerConstants
   DEF Release, LockDiscipline, InHandler, TypeOK, WriteKinds, ReadKinds

\* A handler that moves on inside keeps what it holds.
LEMMA MovingKeepsDiscipline ==
  ASSUME TypeOK, LockDiscipline, NEW r \in Requests, InHandler(r),
         NEW c \in {"stopping", "arming"}, pc' = [pc EXCEPT ![r] = c],
         UNCHANGED <<mu, kind>>
  PROVE  LockDiscipline'
BY DEF LockDiscipline, InHandler, TypeOK, mu

LEMMA DisciplineNext ==
  ASSUME TypeOK, LockDiscipline, [Next]_vars
  PROVE  LockDiscipline'
<1>1. ASSUME NEW r \in Requests, NEW k \in Kinds, Arrive(r, k)
      PROVE  LockDiscipline'
  BY <1>1 DEF Arrive, LockDiscipline, InHandler, TypeOK, mu
<1>2. ASSUME NEW r \in Requests, Begin(r)
      PROVE  LockDiscipline'
  <2>1. kind[r] \in ReadKinds \cup WriteKinds
    BY <1>2, ServerConstants DEF Begin, TypeOK
  <2>2. ~InHandler(r) /\ writer = None
    BY <1>2 DEF Begin, InHandler
  <2>. QED
    BY <1>2, <2>1, <2>2, ServerConstants
       DEF Begin, LockDiscipline, InHandler, TypeOK, ReadKinds, WriteKinds, mu
<1>3. ASSUME NEW r \in Requests,
             \/ ActInit(r) \/ ActUnlock(r) \/ ActLock(r) \/ ActGet(r)
             \/ ActList(r) \/ ActChange(r) \/ ActImportEnds(r)
      PROVE  LockDiscipline'
  <2>1. InHandler(r) /\ kind' = kind
    BY <1>3 DEF ActInit, ActUnlock, ActLock, ActGet, ActList, ActChange,
                ActImportEnds, Acting, InHandler
  <2>2. GoOnToReset(r) \/ Finish(r)
    BY <1>3 DEF ActInit, ActUnlock, ActLock, ActGet, ActList, ActChange,
                ActImportEnds, AnswerOnly
  <2>. QED
    BY <2>1, <2>2, FinishKeepsDiscipline, MovingKeepsDiscipline
       DEF GoOnToReset
<1>4. ASSUME NEW r \in Requests, ActPassword(r)
      PROVE  LockDiscipline'
  <2>1. InHandler(r) /\ kind' = kind
    BY <1>4 DEF ActPassword, Acting, InHandler
  <2>. QED
    BY <1>4, <2>1, FinishKeepsDiscipline, PanicKeepsDiscipline DEF ActPassword
<1>5. ASSUME NEW r \in Requests, ResetStops(r)
      PROVE  LockDiscipline'
  BY <1>5, MovingKeepsDiscipline DEF ResetStops, InHandler
<1>6. ASSUME NEW r \in Requests, ResetArms(r)
      PROVE  LockDiscipline'
  BY <1>6, FinishKeepsDiscipline DEF ResetArms, InHandler
<1>7. ASSUME NEW r \in Requests, ActStop(r)
      PROVE  LockDiscipline'
  BY <1>7 DEF ActStop, LockDiscipline, InHandler, TypeOK, mu
<1>8. ASSUME UNCHANGED <<mu, kind, pc>>
      PROVE  LockDiscipline'
  BY <1>8 DEF LockDiscipline, InHandler, mu
<1>9. ASSUME NEW r \in Requests, ActImportEntry(r)
      PROVE  LockDiscipline'
  BY <1>8, <1>9 DEF ActImportEntry, Acting
<1>10. ASSUME NEW t \in Requests, Expire(t) \/ AutoLock(t)
       PROVE  LockDiscipline'
  BY <1>8, <1>10 DEF Expire, AutoLock
<1>11. ASSUME NEW s \in Stoppers, Shutdown(s)
       PROVE  LockDiscipline'
  BY <1>8, <1>11 DEF Shutdown, ShutdownStopsTimer, ShutdownLocksStore,
                     ShutdownClosesServer, Exit
<1>12. CASE RunStops \/ UNCHANGED vars
  BY <1>8, <1>12 DEF RunStops, vars
<1>. QED
  BY <1>1, <1>2, <1>3, <1>4, <1>5, <1>6, <1>7, <1>9, <1>10, <1>11, <1>12
     DEF Next, Handle, Quiet

\* A writing handler is the only one between Begin and its answer.
LEMMA WriterAlone ==
  ASSUME LockDiscipline, NEW r \in Requests, NEW q \in Requests,
         InHandler(r), kind[r] \in WriteKinds, InHandler(q)
  PROVE  q = r
BY ServerConstants DEF LockDiscipline

\* While the mutex is free no handler is at work.
LEMMA FreeMeansIdle ==
  ASSUME LockDiscipline, MuFree, NEW r \in Requests
  PROVE  ~InHandler(r)
BY ServerConstants DEF LockDiscipline, MuFree

\* A Shutdown that has begun stays begun.
LEMMA ShutdownStays ==
  ASSUME TypeOK, [Next]_vars, ~ShuttingDown'
  PROVE  ~ShuttingDown
<1>. USE DEF ShuttingDown
<1>1. CASE UNCHANGED down
  BY <1>1
<1>2. CASE RunStops
  BY <1>2 DEF RunStops, TypeOK
<1>3. ASSUME NEW r \in Requests, ActStop(r)
      PROVE  ~ShuttingDown
  BY <1>3 DEF ActStop, TypeOK
<1>4. ASSUME NEW s \in Stoppers, Shutdown(s)
      PROVE  ~ShuttingDown
  BY <1>4 DEF Shutdown, ShutdownStopsTimer, ShutdownLocksStore,
              ShutdownClosesServer, Exit, TypeOK
<1>5. ASSUME NEW r \in Requests,
             \/ Begin(r) \/ ActInit(r) \/ ActUnlock(r) \/ ActLock(r)
             \/ ActPassword(r) \/ ActGet(r) \/ ActList(r) \/ ActChange(r)
             \/ ActImportEntry(r) \/ ActImportEnds(r) \/ ResetStops(r)
             \/ ResetArms(r) \/ Expire(r) \/ AutoLock(r)
      PROVE  UNCHANGED down
  BY <1>5 DEF Begin, ActInit, ActUnlock, ActLock, ActPassword, ActGet, ActList,
              ActChange, ActImportEntry, ActImportEnds, ResetStops, ResetArms,
              Expire, AutoLock, Acting, ending
<1>6. ASSUME NEW r \in Requests, NEW k \in Kinds, Arrive(r, k)
      PROVE  UNCHANGED down
  BY <1>6 DEF Arrive, ending
<1>7. CASE UNCHANGED vars
  BY <1>7 DEF vars, ending
<1>. QED
  BY <1>1, <1>2, <1>3, <1>4, <1>5, <1>6, <1>7 DEF Next, Handle, Quiet

-----------------------------------------------------------------------------
(* The locked check, and the timer *)

\* A handler that has seen the vault unlocked finds it unlocked.
LEMMA CheckedNext ==
  ASSUME ServerInv, [Next]_vars
  PROVE  CheckedStaysUnlocked'
<1>. SUFFICES ASSUME ~ShuttingDown', NEW q \in Requests,
                     pc'[q] = "acting", kind'[q] \in NeedUnlocked
              PROVE  unlocked'
  BY DEF CheckedStaysUnlocked
<1>. USE DEF ServerInv
<1>1. ~ShuttingDown
  BY ShutdownStays
<1>2. ASSUME pc[q] = "acting", kind[q] \in NeedUnlocked
      PROVE  unlocked /\ InHandler(q)
  BY <1>1, <1>2 DEF CheckedStaysUnlocked, InHandler
<1>3. ASSUME NEW r \in Requests, NEW k \in Kinds, Arrive(r, k)
      PROVE  unlocked'
  BY <1>2, <1>3 DEF Arrive, TypeOK, store
<1>4. ASSUME NEW r \in Requests, Begin(r)
      PROVE  unlocked'
  <2>1. CASE q = r
    BY <1>4, <2>1 DEF Begin, MayAct, NeedUnlocked, TypeOK, store
  <2>2. CASE q # r
    BY <1>2, <1>4, <2>2 DEF Begin, TypeOK, store
  <2>. QED  BY <2>1, <2>2
<1>5. ASSUME NEW r \in Requests, ActInit(r)
      PROVE  unlocked'
  BY <1>5 DEF ActInit, Store!CreateSucceeds, Store!CreateFails
<1>6. ASSUME NEW r \in Requests, ActUnlock(r) \/ ActLock(r)
      PROVE  unlocked'
  <2>1. InHandler(r) /\ kind[r] \in WriteKinds /\ kind[r] \notin NeedUnlocked
    BY <1>6 DEF ActUnlock, ActLock, Acting, InHandler, WriteKinds, NeedUnlocked
  <2>2. kind'[q] = kind[q] /\ q # r
    BY <1>6, <2>1 DEF ActUnlock, ActLock, Acting
  <2>3. pc[q] = "acting"
    BY <1>6, <2>2 DEF ActUnlock, ActLock, GoOnToReset, AnswerOnly, Finish,
                      TypeOK
  <2>. QED  BY <1>2, <2>1, <2>2, <2>3, WriterAlone
<1>7. ASSUME NEW r \in Requests,
             \/ ActPassword(r) \/ ActGet(r) \/ ActList(r) \/ ActChange(r)
             \/ ActImportEntry(r) \/ ActImportEnds(r)
      PROVE  unlocked'
  <2>1. kind' = kind /\ unlocked' = unlocked
    BY <1>7 DEF ActPassword, ActGet, ActList, ActChange, ActImportEntry,
                ActImportEnds, Acting, store, Store!PasswordSucceeds,
                Store!PasswordFails, Store!ChangeSucceeds, Store!ChangeFails
  <2>2. pc[q] = "acting"
    BY <1>7 DEF ActPassword, ActGet, ActList, ActChange, ActImportEntry,
                ActImportEnds, GoOnToReset, AnswerOnly, Finish, TypeOK
  <2>. QED  BY <1>2, <2>1, <2>2
<1>8. ASSUME NEW r \in Requests, ResetStops(r) \/ ResetArms(r) \/ ActStop(r)
      PROVE  unlocked'
  BY <1>2, <1>8 DEF ResetStops, ResetArms, ActStop, Finish, TypeOK, store
<1>9. ASSUME NEW t \in Requests, Expire(t)
       PROVE  unlocked'
  BY <1>2, <1>9 DEF Expire, store
<1>10. ASSUME NEW t \in Requests, AutoLock(t)
       PROVE  unlocked'
  BY <1>2, <1>10, FreeMeansIdle DEF AutoLock
<1>11. ASSUME NEW s \in Stoppers, Shutdown(s)
       PROVE  unlocked'
  BY <1>1, <1>11 DEF Shutdown, ShutdownStopsTimer, ShutdownLocksStore,
                     ShutdownClosesServer, Exit, ShuttingDown
<1>12. CASE RunStops \/ UNCHANGED vars
  BY <1>2, <1>12 DEF RunStops, vars, store
<1>. QED
  BY <1>3, <1>4, <1>5, <1>6, <1>7, <1>8, <1>9, <1>10, <1>11, <1>12
     DEF Next, Handle, Quiet

\* An unlocked vault keeps a live timer or a handler about to start one.
LEMMA ResetComingNext ==
  ASSUME ServerInv, [Next]_vars
  PROVE  ResetComing'
<1>. SUFFICES ASSUME unlocked', ~ShuttingDown', ~lockFailed'
              PROVE  \/ \E t \in Requests : Live(t)'
                     \/ \E r \in Requests : pc'[r] \in {"stopping", "arming"}
  BY DEF ResetComing
<1>. DEFINE Goal == \/ \E t \in Requests : Live(t)'
                    \/ \E r \in Requests : pc'[r] \in {"stopping", "arming"}
<1>. USE DEF ServerInv
<1>1. ~ShuttingDown
  BY ShutdownStays
<1>2. ASSUME NEW r \in Requests, pc[r] # "stopping", pc[r] # "arming",
             NEW c, pc' = [pc EXCEPT ![r] = c] \/ pc' = pc,
             timer' = timer, unlocked, ~lockFailed
      PROVE  Goal
  BY <1>1, <1>2 DEF ResetComing, Live, TypeOK
<1>3. ASSUME NEW r \in Requests, GoOnToReset(r)
      PROVE  Goal
  BY <1>3 DEF GoOnToReset, TypeOK
<1>4. ASSUME NEW r \in Requests, NEW k \in Kinds, Arrive(r, k)
      PROVE  Goal
  BY <1>2, <1>4 DEF Arrive, store, timers
<1>5. ASSUME NEW r \in Requests, Begin(r)
      PROVE  Goal
  <2>1. \E c : pc' = [pc EXCEPT ![r] = c]
    BY <1>5 DEF Begin
  <2>. QED  BY <1>2, <1>5, <2>1 DEF Begin, store, timers
<1>6. ASSUME NEW r \in Requests, ActInit(r)
      PROVE  Goal
  BY <1>3, <1>6 DEF ActInit
<1>7. ASSUME NEW r \in Requests, ActUnlock(r)
      PROVE  Goal
  <2>1. CASE GoOnToReset(r)
    BY <1>3, <2>1
  <2>2. CASE Store!UnlockFails /\ AnswerOnly(r)
    BY <1>2, <1>7, <2>2
       DEF ActUnlock, Acting, AnswerOnly, Finish, timers, Store!UnlockFails
  <2>. QED  BY <1>7, <2>1, <2>2 DEF ActUnlock
<1>8. ASSUME StoreLock
      PROVE  FALSE
  BY <1>8 DEF StoreLock, Store!LockSucceeds, Store!LockFails, Store!vars
<1>9. ASSUME NEW r \in Requests, ActLock(r)
      PROVE  Goal
  BY <1>8, <1>9 DEF ActLock
<1>10. ASSUME NEW r \in Requests, ActPassword(r)
       PROVE  Goal
  <2>1. \E c : pc' = [pc EXCEPT ![r] = c]
    BY <1>10 DEF ActPassword, Finish
  <2>. QED
    BY <1>2, <1>10, <2>1
       DEF ActPassword, Acting, store, timers, Store!PasswordSucceeds,
           Store!PasswordFails
<1>11. ASSUME NEW r \in Requests,
              \/ ActGet(r) \/ ActList(r) \/ ActChange(r)
              \/ ActImportEntry(r) \/ ActImportEnds(r)
       PROVE  Goal
  <2>1. CASE GoOnToReset(r)
    BY <1>3, <2>1
  <2>2. CASE AnswerOnly(r)
    BY <1>2, <1>11, <2>2
       DEF ActGet, ActList, ActChange, ActImportEntry, ActImportEnds, Acting,
           AnswerOnly, Finish, store, timers, Store!ChangeSucceeds,
           Store!ChangeFails
  <2>3. CASE ActImportEntry(r)
    BY <1>2, <2>3 DEF ActImportEntry, Acting, timers, Store!ChangeSucceeds,
                      Store!ChangeFails
  <2>. QED
    BY <1>11, <2>1, <2>2, <2>3
       DEF ActGet, ActList, ActChange, ActImportEnds
<1>12. ASSUME NEW r \in Requests, ResetStops(r)
       PROVE  Goal
  BY <1>12 DEF ResetStops, TypeOK
<1>13. ASSUME NEW r \in Requests, ResetArms(r)
       PROVE  Goal
  BY <1>13 DEF ResetArms, Live, TypeOK
<1>14. ASSUME NEW r \in Requests, ActStop(r)
       PROVE  Goal
  BY <1>2, <1>14 DEF ActStop, store, timers
<1>15. ASSUME NEW t \in Requests, Expire(t)
       PROVE  Goal
  BY <1>15 DEF Expire, Live, TypeOK
<1>16. ASSUME NEW t \in Requests, AutoLock(t)
       PROVE  Goal
  BY <1>8, <1>16 DEF AutoLock
<1>17. ASSUME NEW s \in Stoppers, Shutdown(s)
       PROVE  Goal
  BY <1>1, <1>17 DEF Shutdown, ShutdownStopsTimer, ShutdownLocksStore,
                     ShutdownClosesServer, Exit, ShuttingDown
<1>18. CASE UNCHANGED <<pc, timer, unlocked, lockFailed>>
  BY <1>1, <1>18 DEF ResetComing, Live
<1>19. CASE RunStops \/ UNCHANGED vars
  BY <1>18, <1>19 DEF RunStops, vars, store, timers
<1>. QED
  BY <1>4, <1>5, <1>6, <1>7, <1>9, <1>10, <1>11, <1>12, <1>13, <1>14, <1>15,
     <1>16, <1>17, <1>19 DEF Next, Handle, Quiet

-----------------------------------------------------------------------------
(* Safety *)

LEMMA ServerInvInit == Init => ServerInv
<1>. SUFFICES ASSUME Init
              PROVE  ServerInv
  OBVIOUS
<1>1. TypeOK
  BY TypeInit
<1>2. LockDiscipline
  BY ServerConstants DEF Init, LockDiscipline, InHandler
<1>3. CheckedStaysUnlocked /\ ResetComing
  BY DEF Init, CheckedStaysUnlocked, ResetComing
<1>. QED  BY <1>1, <1>2, <1>3 DEF ServerInv

\* The inductive invariant holds in every reachable state; with it, the
\* mutex is held by exactly the handlers at work.
THEOREM Inductive == Spec => []ServerInv
<1>1. ServerInv /\ [Next]_vars => ServerInv'
  BY TypeNext, DisciplineNext, CheckedNext, ResetComingNext DEF ServerInv
<1>. QED  BY <1>1, ServerInvInit, PTL DEF Spec

\* Whenever no handler is at work, an unlocked vault has a timer that will
\* lock it, short of a Shutdown or a vault that a failed save kept unlocked.
THEOREM Guarded == Spec => []UnlockedIsGuarded
<1>1. ServerInv => UnlockedIsGuarded
  <2>. SUFFICES ASSUME ServerInv, unlocked, MuFree, ~ShuttingDown, ~lockFailed
                PROVE  \E t \in Requests : Live(t)
    BY DEF UnlockedIsGuarded
  <2>1. ASSUME NEW r \in Requests
        PROVE  pc[r] \notin {"stopping", "arming"}
    BY FreeMeansIdle DEF ServerInv, InHandler
  <2>. QED  BY <2>1 DEF ServerInv, ResetComing
<1>. QED  BY <1>1, Inductive, PTL

\* No callback and no other handler locks the vault between a handler's
\* locked check and its work.
THEOREM CheckHolds == Spec => []CheckedStaysUnlocked
<1>1. ServerInv => CheckedStaysUnlocked
  BY DEF ServerInv
<1>. QED  BY <1>1, Inductive, PTL
-----------------------------------------------------------------------------
(* The mutex comes back *)

\* What an init or an unlock has seen of the vault file.
CheckedExists ==
  \A r \in Requests :
    pc[r] = "acting" =>
      /\ kind[r] = "init" => ~exists
      /\ kind[r] = "unlock" => exists

\* Only a writer makes a vault, and it does not let go of the mutex before it
\* is through.
LEMMA CheckedExistsNext ==
  ASSUME ServerInv, CheckedExists, [Next]_vars
  PROVE  CheckedExists'
<1>. SUFFICES ASSUME NEW q \in Requests, pc'[q] = "acting"
              PROVE  /\ kind'[q] = "init" => ~exists'
                     /\ kind'[q] = "unlock" => exists'
  BY DEF CheckedExists
<1>. USE DEF ServerInv
<1>1. ASSUME pc[q] = "acting", kind'[q] = kind[q], UNCHANGED exists
      PROVE  /\ kind'[q] = "init" => ~exists'
             /\ kind'[q] = "unlock" => exists'
  BY <1>1 DEF CheckedExists
<1>2. ASSUME StoreLock
      PROVE  UNCHANGED exists
  BY <1>2 DEF StoreLock, Store!LockSucceeds, Store!LockFails, Store!vars
<1>3. ASSUME NEW r \in Requests, NEW k \in Kinds, Arrive(r, k)
      PROVE  /\ kind'[q] = "init" => ~exists'
             /\ kind'[q] = "unlock" => exists'
  BY <1>1, <1>3 DEF Arrive, TypeOK, store
<1>4. ASSUME NEW r \in Requests, Begin(r)
      PROVE  /\ kind'[q] = "init" => ~exists'
             /\ kind'[q] = "unlock" => exists'
  <2>1. CASE q = r
    BY <1>4, <2>1 DEF Begin, MayAct, NeedUnlocked, TypeOK, store
  <2>2. CASE q # r
    BY <1>1, <1>4, <2>2 DEF Begin, TypeOK, store
  <2>. QED  BY <2>1, <2>2
<1>5. ASSUME NEW r \in Requests, ActInit(r) \/ ActPassword(r)
      PROVE  /\ kind'[q] = "init" => ~exists'
             /\ kind'[q] = "unlock" => exists'
  <2>1. InHandler(r) /\ kind[r] \in WriteKinds /\ UNCHANGED kind
    BY <1>5 DEF ActInit, ActPassword, Acting, InHandler, WriteKinds
  <2>2. pc'[r] # "acting"
    BY <1>5 DEF ActInit, ActPassword, GoOnToReset, Finish, TypeOK
  <2>3. q # r /\ pc[q] = "acting"
    BY <1>5, <2>2 DEF ActInit, ActPassword, GoOnToReset, Finish, TypeOK
  <2>4. InHandler(q)
    BY <2>3 DEF InHandler
  <2>. QED  BY <2>1, <2>3, <2>4, WriterAlone
<1>6. ASSUME NEW r \in Requests,
             \/ ActUnlock(r) \/ ActLock(r) \/ ActGet(r) \/ ActList(r)
             \/ ActChange(r) \/ ActImportEntry(r) \/ ActImportEnds(r)
      PROVE  /\ kind'[q] = "init" => ~exists'
             /\ kind'[q] = "unlock" => exists'
  <2>1. UNCHANGED kind /\ pc[q] = "acting"
    BY <1>6 DEF ActUnlock, ActLock, ActGet, ActList, ActChange, ActImportEntry,
                ActImportEnds, Acting, GoOnToReset, AnswerOnly, Finish, TypeOK
  <2>2. UNCHANGED exists
    BY <1>2, <1>6
       DEF ActUnlock, ActLock, ActGet, ActList, ActChange, ActImportEntry,
           ActImportEnds, store, Store!UnlockSucceeds, Store!UnlockFails,
           Store!ChangeSucceeds, Store!ChangeFails
  <2>. QED  BY <1>1, <2>1, <2>2
<1>7. ASSUME NEW r \in Requests, ResetStops(r) \/ ResetArms(r) \/ ActStop(r)
      PROVE  /\ kind'[q] = "init" => ~exists'
             /\ kind'[q] = "unlock" => exists'
  BY <1>1, <1>7 DEF ResetStops, ResetArms, ActStop, Finish, TypeOK, store
<1>8. ASSUME UNCHANGED <<kind, pc>>, StoreLock \/ UNCHANGED store
      PROVE  /\ kind'[q] = "init" => ~exists'
             /\ kind'[q] = "unlock" => exists'
  BY <1>1, <1>2, <1>8 DEF store
<1>9. ASSUME NEW t \in Requests, Expire(t) \/ AutoLock(t)
      PROVE  UNCHANGED <<kind, pc>> /\ (StoreLock \/ UNCHANGED store)
  BY <1>9 DEF Expire, AutoLock
<1>10. ASSUME NEW s \in Stoppers, Shutdown(s)
       PROVE  UNCHANGED <<kind, pc>> /\ (StoreLock \/ UNCHANGED store)
  BY <1>10 DEF Shutdown, ShutdownStopsTimer, ShutdownLocksStore,
               ShutdownClosesServer, Exit
<1>11. CASE RunStops \/ UNCHANGED vars
  BY <1>8, <1>11 DEF RunStops, vars
<1>. QED
  BY <1>3, <1>4, <1>5, <1>6, <1>7, <1>8, <1>9, <1>10, <1>11
     DEF Next, Handle, Quiet

\* Nobody waits for a handler that has answered, or that has no next step
\* because the vault file it saw is gone or one it did not see is there: with
\* any number of requests, failing saves and shutdowns at any time.
THEOREM MutexReturns == Spec => []MutexComesBack
<1>1. Init => CheckedExists
  BY DEF Init, CheckedExists
<1>2. ServerInv /\ CheckedExists /\ [Next]_vars => CheckedExists'
  BY CheckedExistsNext
<1>3. ServerInv /\ CheckedExists => MutexComesBack
  BY DEF ServerInv, LockDiscipline, CheckedExists, MutexComesBack, Holds,
         CanGoOn, InHandler
<1>. QED  BY <1>1, <1>2, <1>3, Inductive, PTL DEF Spec
-----------------------------------------------------------------------------
(* Daemons coming and going.  DaemonLifecycle has constants and variables  *)
(* of its own here, and nothing in common with the requests above.  A      *)
(* command leaves files behind that the next one finds, so its properties  *)
(* have to be proved together, with what each stage of a command and of a  *)
(* daemon knows about everybody else (LifeInv).                            *)
CONSTANTS CommandKinds, PidErrors, MaxCrashes, NoFile

VARIABLES command, step, target

Life == INSTANCE DaemonLifecycle
          WITH Kinds <- CommandKinds, None <- NoFile,
               kind <- command, pc <- step

Active(c) == step[c] \notin {"new", "over"}

\* How far a daemon's Shutdown and listener can be by the state of its life,
\* and a command that has not spawned a daemon has none.
Lives ==
  /\ \A d \in Commands : listening[d] => daemon[d] \in {"writing", "serving"}
  /\ \A d \in Commands, w \in Life!Callers :
       /\ shutdown[d][w] # "no" =>
            daemon[d] \notin {"none", "cleaning", "binding", "writing"}
       /\ shutdown[d][w] \notin {"no", "closing"} => ~listening[d]
  /\ \A c \in Commands :
       step[c] \in {"new", "checking", "spawning"} => daemon[c] = "none"

\* One command is at work, and the daemon serves meanwhile, if there is one.
OneCommand ==
  /\ \A b, c \in Commands : Active(b) /\ Active(c) => b = c
  /\ \A c, d \in Commands : Active(c) /\ Life!Alive(d) => Life!Serving(d)
  /\ \A c, d \in Commands :
       /\ step[c] = "asking" /\ Life!Alive(d) => target[c] = d
       /\ step[c] \in {"spawning", "signalling", "removing"} => ~Life!Alive(d)

\* The files are those of the daemon that is alive.
OwnFiles ==
  \A d \in Commands :
    /\ daemon[d] # "failed"
    /\ daemon[d] = "binding" => socket = NoFile
    /\ daemon[d] = "writing" => Life!Reaches(d)
    /\ Life!Serving(d) => Life!Reaches(d) /\ (pidFile = d \/ d \in unnamed)

Orderly == Life!OneDaemon /\ OneCommand /\ OwnFiles

LifeInv == Life!TypeOK /\ Lives /\ (orderly => Orderly)
-----------------------------------------------------------------------------
(* The commands *)

Stages == {"no", "closing", "unlinking", "removing", "exiting"}

\* One Shutdown goes on.
LEMMA ShutdownGoesOn ==
  ASSUME Life!TypeOK, NEW d \in Commands, NEW w \in Life!Callers,
         NEW s \in Stages,
         shutdown' = [shutdown EXCEPT ![d][w] = s]
  PROVE  /\ shutdown' \in [Commands -> [Life!Callers -> Stages]]
         /\ \A e \in Commands, v \in Life!Callers :
              shutdown'[e][v] = IF e = d /\ v = w THEN s ELSE shutdown[e][v]
BY DEF Life!TypeOK, Stages

\* Nothing has been done yet.
LEMMA LifeInvInit ==
  ASSUME NoFile \notin Commands, Life!Init
  PROVE  LifeInv
BY DEF Life!Init, LifeInv, Life!TypeOK, Lives, Orderly, Life!OneDaemon,
       OneCommand, OwnFiles,
       Active, Life!Alive, Life!Serving, Life!Leaving, Life!Reaches

\* A step of a command on its way that leaves the daemons alone.
LEMMA CommandKeeps ==
  ASSUME LifeInv, NEW c \in Commands, Active(c),
         NEW p, step' = [step EXCEPT ![c] = p],
         p \in {"checking", "spawning", "calling", "asking", "signalling",
                "removing", "over"},
         p = "spawning" => step[c] = "checking",
         orderly /\ p = "spawning" => ~Life!IsDaemonRunning,
         target' \in [Commands -> Commands \cup {NoFile}],
         \A b \in Commands \ {c} : target'[b] = target[b],
         p \in {"asking", "signalling"} => target'[c] # NoFile,
         p = "checking" => step[c] = "checking",
         orderly /\ p = "asking" => Life!Reaches(target'[c]),
         orderly /\ p \in {"signalling", "removing"} =>
           \A d \in Commands : ~Life!Alive(d),
         UNCHANGED <<command, daemon, shutdown, listening, socket, pidFile,
                     Life!history>>
  PROVE  LifeInv'
<1>1. Life!TypeOK'
  BY DEF LifeInv, Life!TypeOK, Life!history
<1>2. Lives'
  BY DEF LifeInv, Life!TypeOK, Lives, Active
<1>3. ASSUME orderly
      PROVE  Orderly'
  <2>1. Life!OneDaemon' /\ OwnFiles'
    BY <1>3 DEF LifeInv, Orderly, Life!OneDaemon, OwnFiles, Life!Alive,
                Life!Serving, Life!Leaving,
                Life!Reaches, Life!history
  <2>2. \A b, d \in Commands : Active(b)' /\ Active(d)' => b = d
    BY <1>3 DEF LifeInv, Life!TypeOK, Orderly, OneCommand, Active
  <2>3. \A d \in Commands : Life!Alive(d) => Life!Serving(d) /\ Life!Reaches(d)
    BY <1>3 DEF LifeInv, Orderly, OneCommand, OwnFiles
  <2>4. OneCommand'
    <3>1. \A b, d \in Commands :
            Active(b)' /\ Life!Alive(d)' => Life!Serving(d)'
      BY <2>3 DEF Life!Alive, Life!Serving, Life!Leaving
    <3>2. ASSUME NEW b \in Commands, NEW d \in Commands
          PROVE  /\ (step[b] = "asking" /\ Life!Alive(d) => target[b] = d)'
                 /\ (step[b] \in {"spawning", "signalling", "removing"} =>
                       ~Life!Alive(d))'
      <4>1. CASE b = c
        BY <1>3, <2>1, <2>3, <4>1
           DEF LifeInv, Life!TypeOK, Orderly, Life!OneDaemon,
               Life!IsDaemonRunning, Life!Reaches, Life!Alive,
               Lives
      <4>2. CASE b # c
        BY <1>3, <4>2 DEF LifeInv, Life!TypeOK, Orderly, OneCommand, Active
      <4>. QED  BY <4>1, <4>2
    <3>. QED  BY <2>2, <3>1, <3>2 DEF OneCommand
  <2>. QED  BY <2>1, <2>4 DEF Orderly
<1>. QED  BY <1>1, <1>2, <1>3 DEF LifeInv, Life!history

\* Nobody reaches a daemon if there is none, and in an orderly life without
\* one that can be reached there is none while a command is at work.
LEMMA NobodyThere ==
  ASSUME LifeInv, orderly, NEW c \in Commands, Active(c), ~Life!IsDaemonRunning
  PROVE  \A d \in Commands : ~Life!Alive(d)
BY DEF LifeInv, Orderly, OneCommand, OwnFiles, Life!IsDaemonRunning

\* In an orderly life a start that finds nobody answering finds nobody alive.
LEMMA CheckKeeps ==
  ASSUME LifeInv, NEW c \in Commands, Life!Check(c)
  PROVE  LifeInv'
<1>1. step[c] = "checking" /\ Active(c)
  BY DEF Life!Check, Active
<1>2. PICK p \in {"spawning", "calling", "over"} :
        /\ step' = [step EXCEPT ![c] = p]
        /\ p = "spawning" => ~Life!IsDaemonRunning
  BY DEF Life!Check
<1>. QED
  BY <1>1, <1>2, CommandKeeps DEF Life!Check, Life!files, LifeInv, Life!TypeOK

\* A stop reaches the one daemon, or there is none to be reached or signalled.
LEMMA StopConnectsKeeps ==
  ASSUME NoFile \notin Commands,
         LifeInv, NEW c \in Commands, Life!StopConnects(c)
  PROVE  LifeInv'
<1>1. step[c] = "calling" /\ Active(c)
  BY DEF Life!StopConnects, Active
<1>2. CASE \E d \in Commands :
             /\ Life!Reaches(d)
             /\ target' = [target EXCEPT ![c] = d]
             /\ step' = [step EXCEPT ![c] = "asking"]
  <2>1. PICK d \in Commands :
          /\ Life!Reaches(d)
          /\ target' = [target EXCEPT ![c] = d]
          /\ step' = [step EXCEPT ![c] = "asking"]
    BY <1>2
  <2>. QED
    BY <1>1, <2>1, CommandKeeps
       DEF Life!StopConnects, Life!files, LifeInv, Life!TypeOK
<1>3. CASE ~Life!IsDaemonRunning /\ Life!ReadPidFile(c)
  <2>1. PICK p \in {"over", "signalling"} :
          /\ step' = [step EXCEPT ![c] = p]
          /\ p = "signalling" => pidFile # NoFile
    BY <1>3 DEF Life!ReadPidFile
  <2>. QED
    BY <1>1, <1>3, <2>1, CommandKeeps, NobodyThere
       DEF Life!StopConnects, Life!ReadPidFile, Life!files, LifeInv,
           Life!TypeOK
<1>. QED  BY <1>2, <1>3 DEF Life!StopConnects

\* The daemon that was asked is gone, and there is no other.
LEMMA StopUnansweredKeeps ==
  ASSUME LifeInv, NEW c \in Commands, Life!StopUnanswered(c)
  PROVE  LifeInv'
<1>1. step[c] = "asking" /\ Active(c) /\ ~listening[target[c]]
  BY DEF Life!StopUnanswered, Active
<1>2. PICK p \in {"over", "signalling"} :
        /\ step' = [step EXCEPT ![c] = p]
        /\ p = "signalling" => pidFile # NoFile
  BY DEF Life!StopUnanswered, Life!ReadPidFile
<1>3. ASSUME orderly, NEW d \in Commands, Life!Alive(d)
      PROVE  FALSE
  <2>1. target[c] = d /\ Life!Serving(d)
    BY <1>1, <1>3 DEF LifeInv, Orderly, OneCommand
  <2>. QED  BY <1>1, <1>3, <2>1 DEF LifeInv, Orderly, OwnFiles, Life!Reaches
<1>4. orderly => \A d \in Commands : ~Life!Alive(d)
  BY <1>3
<1>5. /\ target' \in [Commands -> Commands \cup {NoFile}]
      /\ target'[c] = pidFile
      /\ \A b \in Commands \ {c} : target'[b] = target[b]
      /\ UNCHANGED <<command, daemon, shutdown, listening, socket, pidFile,
                     Life!history>>
  BY DEF Life!StopUnanswered, Life!ReadPidFile, Life!files, LifeInv,
         Life!TypeOK
<1>6. /\ p \in {"asking", "signalling"} => target'[c] # NoFile
      /\ p \notin {"checking", "spawning", "asking", "removing"}
  BY <1>2, <1>5
<1>. QED
  BY <1>1, <1>2, <1>4, <1>5, <1>6, CommandKeeps

\* A command given in order finds all others over and the daemon serving.
LEMMA GiveKeeps ==
  ASSUME LifeInv, NEW c \in Commands, NEW k \in CommandKinds, Life!Give(c, k)
  PROVE  LifeInv'
<1>1. /\ step[c] = "new" /\ daemon[c] = "none"
      /\ command' = [command EXCEPT ![c] = k]
      /\ UNCHANGED <<target, shutdown, listening, socket, pidFile, unnamed>>
  BY DEF Life!Give, LifeInv, Lives, Life!files
<1>2. \/ /\ k = "run"
         /\ step' = [step EXCEPT ![c] = "over"]
         /\ daemon' = [daemon EXCEPT ![c] = "cleaning"]
      \/ step' = [step EXCEPT ![c] = "checking"] /\ UNCHANGED daemon
  BY DEF Life!Give
<1>3. Life!TypeOK'
  <2>1. orderly' \in BOOLEAN
    BY DEF Life!Give
  <2>2. k \in CommandKinds \cup {NoFile}
    OBVIOUS
  <2>. QED  BY <1>1, <1>2, <2>1, <2>2 DEF LifeInv, Life!TypeOK
<1>4. Lives'
  BY <1>1, <1>2 DEF LifeInv, Life!TypeOK, Lives
<1>5. ASSUME orderly'
      PROVE  Orderly'
  <2>1. /\ Orderly
        /\ \A b \in Commands : ~Active(b)
        /\ \A d \in Commands : Life!Alive(d) => Life!Serving(d)
        /\ k = "run" => \A d \in Commands : ~Life!Alive(d)
    BY <1>5 DEF Life!Give, LifeInv, Life!Settled, Active
  <2>2. CASE step' = [step EXCEPT ![c] = "checking"] /\ UNCHANGED daemon
    BY <1>1, <2>1, <2>2
       DEF LifeInv, Life!TypeOK, Orderly, Life!OneDaemon, OneCommand,
           OwnFiles, Active, Life!Alive,
           Life!Serving, Life!Leaving, Life!Reaches
  <2>3. CASE /\ k = "run"
             /\ step' = [step EXCEPT ![c] = "over"]
             /\ daemon' = [daemon EXCEPT ![c] = "cleaning"]
    BY <1>1, <2>1, <2>3
       DEF LifeInv, Life!TypeOK, Orderly, Life!OneDaemon, OneCommand,
           OwnFiles, Active, Life!Alive,
           Life!Serving, Life!Leaving, Life!Reaches
  <2>. QED  BY <1>2, <2>2, <2>3
<1>. QED  BY <1>3, <1>4, <1>5 DEF LifeInv

\* The new daemon is alone.
LEMMA SpawnKeeps ==
  ASSUME LifeInv, NEW c \in Commands, Life!Spawn(c)
  PROVE  LifeInv'
<1>1. /\ step[c] = "spawning" /\ daemon[c] = "none"
      /\ daemon' = [daemon EXCEPT ![c] = "cleaning"]
      /\ step' = [step EXCEPT ![c] = "over"]
      /\ UNCHANGED <<command, target, shutdown, listening, socket, pidFile,
                     unnamed,
                     orderly>>
  BY DEF Life!Spawn, LifeInv, Lives, Life!files, Life!history
<1>2. Life!TypeOK'
  BY <1>1 DEF LifeInv, Life!TypeOK
<1>3. Lives'
  BY <1>1 DEF LifeInv, Life!TypeOK, Lives
<1>4. ASSUME orderly
      PROVE  Orderly'
  <2>1. /\ Orderly
        /\ \A d \in Commands : ~Life!Alive(d)
        /\ \A b \in Commands : Active(b) => b = c
    BY <1>1, <1>4 DEF LifeInv, Orderly, OneCommand, Active
  <2>2. \A b \in Commands : ~Active(b)'
    BY <1>1, <2>1 DEF LifeInv, Life!TypeOK, Active
  <2>3. Life!OneDaemon'
    BY <1>1, <2>1 DEF LifeInv, Life!TypeOK, Life!OneDaemon, Life!Alive
  <2>4. OneCommand'
    BY <2>2 DEF OneCommand, Active
  <2>5. OwnFiles'
    BY <1>1, <2>1 DEF LifeInv, Life!TypeOK, Orderly, OwnFiles, Life!Alive,
                      Life!Serving, Life!Reaches
  <2>. QED  BY <2>3, <2>4, <2>5 DEF Orderly
<1>. QED  BY <1>1, <1>2, <1>3, <1>4 DEF LifeInv

\* The one command that was at work ends, and a daemon that served leaves.
LEMMA StopAnsweredKeeps ==
  ASSUME LifeInv, NEW c \in Commands, Life!StopAnswered(c)
  PROVE  LifeInv'
<1>1. /\ step[c] = "asking" /\ target[c] \in Commands
      /\ daemon[target[c]] = "serving"
      /\ shutdown' = [shutdown EXCEPT ![target[c]]["stop"] =
                        IF @ = "no" THEN "closing" ELSE @]
      /\ step' = [step EXCEPT ![c] = "over"]
      /\ UNCHANGED <<command, target, daemon, listening, socket, pidFile,
                     unnamed,
                     orderly>>
  BY DEF Life!StopAnswered, LifeInv, Life!TypeOK, Life!files, Life!history
<1>2. \A d \in Commands, w \in Life!Callers :
        \/ shutdown'[d][w] = shutdown[d][w]
        \/ /\ daemon[d] = "serving" /\ shutdown[d][w] = "no"
           /\ shutdown'[d][w] = "closing"
  <2>1. shutdown \in [Commands -> [Life!Callers -> Stages]]
    BY DEF LifeInv, Life!TypeOK, Stages
  <2> DEFINE t == target[c]
  <2> DEFINE v == IF shutdown[t]["stop"] = "no" THEN "closing"
                                                ELSE shutdown[t]["stop"]
  <2>2. shutdown' = [shutdown EXCEPT ![t] = [shutdown[t] EXCEPT !["stop"] = v]]
    BY <1>1, <2>1 DEF Life!Callers
  <2>3. t \in Commands /\ daemon[t] = "serving"
    BY <1>1
  <2>4. /\ shutdown[t]["stop"] = "no" => v = "closing"
        /\ shutdown[t]["stop"] # "no" => v = shutdown[t]["stop"]
    BY Zenon
  <2> HIDE DEF t, v
  <2> TAKE d \in Commands, w \in Life!Callers
  <2>5. CASE d = t
    <3>1. shutdown'[d] = [shutdown[t] EXCEPT !["stop"] = v]
      BY <2>1, <2>2, <2>5
    <3>2. CASE w = "stop"
      BY <2>1, <2>3, <2>4, <2>5, <3>1, <3>2 DEF Life!Callers
    <3>3. CASE w = "run"
      BY <2>1, <2>3, <2>5, <3>1, <3>3 DEF Life!Callers
    <3>. QED  BY <3>2, <3>3 DEF Life!Callers
  <2>6. CASE d # t
    BY <2>1, <2>2, <2>6
  <2>. QED  BY <2>5, <2>6
<1>3. Life!TypeOK'
  BY <1>1 DEF LifeInv, Life!TypeOK, Life!Callers
<1>4. Lives'
  BY <1>1, <1>2 DEF LifeInv, Life!TypeOK, Lives
<1>5. ASSUME orderly
      PROVE  Orderly'
  <2>1. Orderly /\ \A b \in Commands : Active(b) => b = c
    BY <1>1, <1>5 DEF LifeInv, Orderly, OneCommand, Active
  <2>2. \A b \in Commands : ~Active(b)'
    BY <1>1, <2>1 DEF LifeInv, Life!TypeOK, Active
  <2>3. Life!OneDaemon'
    BY <1>1, <2>1 DEF Orderly, Life!OneDaemon, Life!Alive
  <2>4. OneCommand'
    BY <2>2 DEF OneCommand, Active
  <2>5. \A d \in Commands : Life!Serving(d)' => Life!Serving(d)
    BY <1>1, <1>2 DEF Life!Serving, Life!Leaving
  <2>6. OwnFiles'
    BY <1>1, <2>1, <2>5 DEF Orderly, OwnFiles, Life!Reaches
  <2>. QED  BY <2>3, <2>4, <2>6 DEF Orderly
<1>. QED  BY <1>1, <1>3, <1>4, <1>5 DEF LifeInv

\* In an orderly life there is nobody to signal.
LEMMA StopBySignalKeeps ==
  ASSUME LifeInv, NEW c \in Commands, Life!StopBySignal(c)
  PROVE  LifeInv'
<1> DEFINE t == target[c]
<1>1. /\ step[c] = "signalling" /\ Active(c) /\ t \in Commands
      /\ Life!Terminate(t)
      /\ step' = [step EXCEPT ![c] = IF Life!Alive(t) THEN "removing"
                                                      ELSE "over"]
      /\ UNCHANGED <<command, target, socket, pidFile, unnamed, orderly,
                     Life!history>>
  BY DEF Life!StopBySignal, Active, LifeInv, Life!TypeOK, Life!files,
         Life!history
<1> HIDE DEF t
<1>2. CASE ~Life!Alive(t)
  <2>1. UNCHANGED <<shutdown, daemon, listening>>
    BY <1>1, <1>2 DEF Life!Terminate, Life!Serving, Life!Alive
  <2>2. step' = [step EXCEPT ![c] = "over"]
    BY <1>1, <1>2
  <2>. QED
    BY <1>1, <2>1, <2>2, CommandKeeps DEF LifeInv, Life!TypeOK
<1>3. CASE Life!Alive(t)
  <2>1. ~orderly
    BY <1>1, <1>3 DEF LifeInv, Orderly, OneCommand
  <2>2. step' = [step EXCEPT ![c] = "removing"]
    BY <1>1, <1>3
  <2>3. CASE Life!Serving(t)
    <3>1. /\ shutdown' = [shutdown EXCEPT ![t]["run"] = "closing"]
          /\ UNCHANGED <<daemon, listening>>
          /\ daemon[t] = "serving"
      BY <1>1, <2>3 DEF Life!Terminate, Life!Serving
    <3>2. Life!TypeOK'
      <4>1. shutdown' \in [Commands -> [Life!Callers -> Stages]]
        BY <1>1, <3>1, ShutdownGoesOn DEF LifeInv, Life!Callers, Stages
      <4>2. step' \in [Commands -> {"new", "checking", "spawning", "calling",
                                  "asking", "signalling", "removing", "over"}]
        BY <2>2 DEF LifeInv, Life!TypeOK
      <4>3. \A b \in Commands :
              step'[b] \in {"asking", "signalling"} => target'[b] # NoFile
        BY <1>1, <2>2 DEF LifeInv, Life!TypeOK
      <4>. QED  BY <1>1, <3>1, <4>1, <4>2, <4>3 DEF LifeInv, Life!TypeOK,
                                                    Stages
    <3>3. \A d \in Commands, w \in Life!Callers :
            \/ shutdown'[d][w] = shutdown[d][w]
            \/ daemon[d] = "serving" /\ shutdown'[d][w] = "closing"
      BY <1>1, <3>1 DEF LifeInv, Life!TypeOK, Life!Callers
    <3>4. Lives'
      BY <1>1, <2>2, <3>1, <3>3 DEF LifeInv, Life!TypeOK, Lives
    <3>. QED  BY <1>1, <2>1, <3>2, <3>4 DEF LifeInv
  <2>4. CASE ~Life!Serving(t)
    <3>1. /\ UNCHANGED shutdown
          /\ \/ /\ daemon' = [daemon EXCEPT ![t] = "exited"]
                /\ listening' = [listening EXCEPT ![t] = FALSE]
             \/ UNCHANGED <<daemon, listening>>
      BY <1>1, <2>4 DEF Life!Terminate
    <3>2. Life!TypeOK'
      <4>1. /\ daemon' \in [Commands ->
                         {"none", "cleaning", "binding", "writing",
                          "serving", "exited", "failed", "crashed"}]
            /\ listening' \in [Commands -> BOOLEAN]
        BY <1>1, <3>1 DEF LifeInv, Life!TypeOK
      <4>2. /\ step' \in [Commands ->
                         {"new", "checking", "spawning", "calling",
                          "asking", "signalling", "removing", "over"}]
            /\ \A b \in Commands :
                 step'[b] \in {"asking", "signalling"} => target'[b] # NoFile
        BY <1>1, <2>2 DEF LifeInv, Life!TypeOK
      <4>. QED  BY <1>1, <3>1, <4>1, <4>2 DEF LifeInv, Life!TypeOK
    <3>3. daemon[t] # "none"
      BY <1>3 DEF Life!Alive
    <3>4. \A e \in Commands :
            \/ daemon'[e] = daemon[e] /\ listening'[e] = listening[e]
            \/ e = t /\ daemon'[e] = "exited" /\ ~listening'[e]
      BY <1>1, <3>1 DEF LifeInv, Life!TypeOK
    <3>5. \A b \in Commands : step'[b] = step[b] \/ step'[b] = "removing"
      BY <2>2 DEF LifeInv, Life!TypeOK
    <3>6. Lives'
      BY <1>1, <3>1, <3>3, <3>4, <3>5 DEF LifeInv, Lives
    <3>. QED  BY <1>1, <2>1, <3>2, <3>6 DEF LifeInv
  <2>. QED  BY <2>3, <2>4
<1>. QED  BY <1>2, <1>3

\* Nobody is left whom the PID file could name.
LEMMA StopRemovesPidKeeps ==
  ASSUME LifeInv, NEW c \in Commands, Life!StopRemovesPid(c)
  PROVE  LifeInv'
<1>1. /\ step[c] = "removing"
      /\ pidFile' = NoFile
      /\ step' = [step EXCEPT ![c] = "over"]
      /\ UNCHANGED <<command, target, daemon, shutdown, listening, socket,
                     unnamed,
                     orderly>>
  BY DEF Life!StopRemovesPid, Life!history
<1>2. Life!TypeOK' /\ Lives'
  BY <1>1 DEF LifeInv, Life!TypeOK, Lives
<1>3. ASSUME orderly
      PROVE  Orderly'
  <2>1. Orderly /\ \A d \in Commands : ~Life!Alive(d)
    BY <1>1, <1>3 DEF LifeInv, Orderly, OneCommand
  <2>2. \A b \in Commands : step'[b] = step[b] \/ step'[b] = "over"
    BY <1>1 DEF LifeInv, Life!TypeOK
  <2>3. Life!OneDaemon' /\ OneCommand'
    BY <1>1, <2>1, <2>2
       DEF Orderly, Life!OneDaemon, OneCommand, Active, Life!Alive,
           Life!Serving, Life!Leaving
  <2>4. OwnFiles'
    BY <1>1, <2>1 DEF Orderly, OwnFiles, Life!Alive, Life!Serving, Life!Reaches
  <2>. QED  BY <2>3, <2>4 DEF Orderly
<1>. QED  BY <1>1, <1>2, <1>3 DEF LifeInv
-----------------------------------------------------------------------------
(* The daemons *)

\* In an orderly life a daemon that starts or leaves is on its own: no other
\* is alive and no command at work.
LEMMA OnItsOwn ==
  ASSUME LifeInv, orderly, NEW d \in Commands, Life!Alive(d)
  PROVE  /\ \A e \in Commands : Life!Alive(e) => e = d
         /\ ~Life!Serving(d) => \A c \in Commands : ~Active(c)
BY DEF LifeInv, Orderly, Life!OneDaemon, OneCommand

\* The socket that is removed is nobody's.
LEMMA CleanUpKeeps ==
  ASSUME LifeInv, NEW d \in Commands, Life!CleanUp(d)
  PROVE  LifeInv'
<1>1. /\ daemon[d] = "cleaning" /\ Life!Alive(d) /\ ~Life!Serving(d)
      /\ daemon' = [daemon EXCEPT ![d] = "binding"]
      /\ socket' = NoFile
      /\ UNCHANGED <<command, step, target, shutdown, listening, pidFile,
                     unnamed,
                     orderly>>
  BY DEF Life!CleanUp, Life!cli, Life!history, Life!Alive, Life!Serving
<1>2. Life!TypeOK' /\ Lives'
  BY <1>1 DEF LifeInv, Life!TypeOK, Lives
<1>3. ASSUME orderly
      PROVE  Orderly'
  <2>1. /\ Orderly
        /\ \A e \in Commands : Life!Alive(e) => e = d
        /\ \A c \in Commands : ~Active(c)
    BY <1>1, <1>3, OnItsOwn DEF LifeInv
  <2>2. Life!OneDaemon' /\ OneCommand'
    BY <1>1, <2>1 DEF LifeInv, Life!TypeOK, Life!OneDaemon, OneCommand,
                      Active, Life!Alive
  <2>3. OwnFiles'
    BY <1>1, <2>1 DEF LifeInv, Life!TypeOK, Orderly, OwnFiles, Life!Alive,
                      Life!Serving, Life!Reaches
  <2>. QED  BY <2>2, <2>3 DEF Orderly
<1>. QED  BY <1>1, <1>2, <1>3 DEF LifeInv

\* Nobody has put a socket there since the daemon removed the old one.
LEMMA BindKeeps ==
  ASSUME LifeInv, NEW d \in Commands, Life!Bind(d)
  PROVE  LifeInv'
<1>1. /\ daemon[d] = "binding" /\ Life!Alive(d) /\ ~Life!Serving(d)
      /\ UNCHANGED <<command, step, target, shutdown, pidFile, unnamed,
                     orderly>>
  BY DEF Life!Bind, Life!cli, Life!history, Life!Alive, Life!Serving
<1>2. \/ /\ socket = NoFile
         /\ socket' = d
         /\ listening' = [listening EXCEPT ![d] = TRUE]
         /\ daemon' = [daemon EXCEPT ![d] = "writing"]
      \/ /\ socket # NoFile
         /\ daemon' = [daemon EXCEPT ![d] = "failed"]
         /\ UNCHANGED <<socket, listening>>
  BY DEF Life!Bind
<1>3. Life!TypeOK'
  <2>1. CASE socket' = d
    BY <1>1, <1>2, <2>1 DEF LifeInv, Life!TypeOK
  <2>2. CASE socket' # d
    <3>1. /\ daemon' = [daemon EXCEPT ![d] = "failed"]
          /\ UNCHANGED <<socket, listening>>
      BY <1>2, <2>2
    <3>2. daemon' \in [Commands -> {"none", "cleaning", "binding", "writing",
                                     "serving", "exited", "failed", "crashed"}]
      BY <3>1 DEF LifeInv, Life!TypeOK
    <3>. QED  BY <1>1, <3>1, <3>2 DEF LifeInv, Life!TypeOK
  <2>. QED  BY <2>1, <2>2
<1>4. Lives'
  <2>1. \A e \in Commands :
          /\ e # d => daemon'[e] = daemon[e] /\ listening'[e] = listening[e]
          /\ \/ daemon'[d] = "writing"
             \/ daemon'[d] = "failed" /\ ~listening'[d]
    <3>1. ~listening[d]
      BY <1>1 DEF LifeInv, Lives
    <3>. QED  BY <1>2, <3>1 DEF LifeInv, Life!TypeOK
  <2>2. \A w \in Life!Callers : shutdown[d][w] = "no"
    BY <1>1 DEF LifeInv, Lives
  <2>3. step[d] \notin {"new", "checking", "spawning"}
    BY <1>1 DEF LifeInv, Lives
  <2>. QED  BY <1>1, <2>1, <2>2, <2>3 DEF LifeInv, Lives
<1>5. ASSUME orderly
      PROVE  Orderly'
  <2>1. /\ Orderly
        /\ \A e \in Commands : Life!Alive(e) => e = d
        /\ \A c \in Commands : ~Active(c)
    BY <1>1, <1>5, OnItsOwn DEF LifeInv
  <2>2. /\ socket' = d
        /\ listening' = [listening EXCEPT ![d] = TRUE]
        /\ daemon' = [daemon EXCEPT ![d] = "writing"]
    BY <1>1, <1>2, <2>1 DEF Orderly, OwnFiles
  <2>3. Life!OneDaemon' /\ OneCommand'
    BY <1>1, <2>1, <2>2 DEF LifeInv, Life!TypeOK, Life!OneDaemon, OneCommand,
                            Active, Life!Alive
  <2>4. OwnFiles'
    BY <1>1, <2>1, <2>2
       DEF LifeInv, Life!TypeOK, Orderly, OwnFiles, Life!Alive, Life!Serving,
           Life!Reaches
  <2>. QED  BY <2>3, <2>4 DEF Orderly
<1>. QED  BY <1>1, <1>3, <1>4, <1>5 DEF LifeInv

\* The daemon begins to serve and names itself, or fails to.
LEMMA WritePidFileKeeps ==
  ASSUME LifeInv, NEW d \in Commands, Life!WritePidFile(d)
  PROVE  LifeInv'
<1>1. /\ daemon[d] = "writing" /\ Life!Alive(d) /\ ~Life!Serving(d)
      /\ daemon' = [daemon EXCEPT ![d] = "serving"]
      /\ UNCHANGED <<command, step, target, shutdown, listening, socket,
                     orderly>>
  BY DEF Life!WritePidFile, Life!cli, Life!Alive, Life!Serving
<1>2. /\ pidFile' \in {pidFile, d}
      /\ unnamed' \in {unnamed, unnamed \cup {d}}
      /\ pidFile' = d \/ d \in unnamed'
  BY DEF Life!WritePidFile
<1>3. Life!TypeOK' /\ Lives'
  BY <1>1, <1>2 DEF LifeInv, Life!TypeOK, Lives
<1>4. ASSUME orderly
      PROVE  Orderly'
  <2>1. /\ Orderly
        /\ \A e \in Commands : Life!Alive(e) => e = d
        /\ \A c \in Commands : ~Active(c)
    BY <1>1, <1>4, OnItsOwn DEF LifeInv
  <2>2. Life!OneDaemon' /\ OneCommand'
    BY <1>1, <2>1 DEF LifeInv, Life!TypeOK, Life!OneDaemon, OneCommand,
                      Active, Life!Alive
  <2>3. OwnFiles'
    BY <1>1, <1>2, <2>1
       DEF LifeInv, Life!TypeOK, Orderly, OwnFiles, Life!Alive, Life!Serving,
           Life!Reaches
  <2>. QED  BY <2>2, <2>3 DEF Orderly
<1>. QED  BY <1>1, <1>3, <1>4 DEF LifeInv

\* The daemon begins to leave while no command is at work.
LEMMA RunStopsKeeps ==
  ASSUME LifeInv, NEW d \in Commands, Life!RunStops(d)
  PROVE  LifeInv'
<1>1. /\ daemon[d] = "serving" /\ Life!Alive(d) /\ shutdown[d]["run"] = "no"
      /\ shutdown' = [shutdown EXCEPT ![d]["run"] = "closing"]
      /\ orderly' = (orderly /\ (listening[d] => Life!Settled))
      /\ UNCHANGED <<command, step, target, daemon, listening, socket, pidFile,
                     unnamed>>
  BY DEF Life!RunStops, Life!cli, Life!files, Life!Alive
<1>2. \A e \in Commands, w \in Life!Callers :
        \/ shutdown'[e][w] = shutdown[e][w]
        \/ e = d /\ shutdown[e][w] = "no" /\ shutdown'[e][w] = "closing"
  BY <1>1 DEF LifeInv, Life!TypeOK, Life!Callers
<1>3. Life!TypeOK'
  <2>1. orderly' \in BOOLEAN
    BY <1>1
  <2>. QED  BY <1>1, <2>1 DEF LifeInv, Life!TypeOK, Life!Callers
<1>4. Lives'
  BY <1>1, <1>2 DEF LifeInv, Lives
<1>5. ASSUME orderly'
      PROVE  Orderly'
  <2>1. orderly /\ Orderly /\ (listening[d] => Life!Settled)
    BY <1>1, <1>5 DEF LifeInv
  <2>2. \A c \in Commands : ~Active(c)
    <3>1. CASE Life!Serving(d)
      BY <2>1, <3>1 DEF Orderly, OwnFiles, Life!Reaches, Life!Settled, Active
    <3>2. CASE ~Life!Serving(d)
      BY <1>1, <2>1, <3>2, OnItsOwn
    <3>. QED  BY <3>1, <3>2
  <2>3. Life!OneDaemon' /\ OneCommand'
    BY <1>1, <2>1, <2>2 DEF Orderly, Life!OneDaemon, OneCommand, Active,
                            Life!Alive
  <2>4. \A e \in Commands : Life!Serving(e)' => Life!Serving(e)
    BY <1>1, <1>2 DEF Life!Serving, Life!Leaving
  <2>5. OwnFiles'
    BY <1>1, <2>1, <2>4 DEF Orderly, OwnFiles, Life!Reaches
  <2>. QED  BY <2>3, <2>5 DEF Orderly
<1>. QED  BY <1>3, <1>4, <1>5 DEF LifeInv

\* In an orderly life nobody is disturbed by a daemon that goes on leaving.
LEMMA LeavingDisturbsNobody ==
  ASSUME LifeInv, orderly, NEW d \in Commands, daemon[d] = "serving",
         Life!Leaving(d),
         daemon' = daemon \/ daemon' = [daemon EXCEPT ![d] = "exited"],
         Life!Leaving(d)',
         UNCHANGED step
  PROVE  Orderly'
<1>1. Life!Alive(d) /\ ~Life!Serving(d)
  BY DEF Life!Alive, Life!Serving
<1>2. /\ Orderly
      /\ \A e \in Commands : Life!Alive(e) => e = d
      /\ \A c \in Commands : ~Active(c)
  BY <1>1, OnItsOwn DEF LifeInv
<1>3. \A e \in Commands :
        /\ \/ daemon'[e] = daemon[e]
           \/ e = d /\ daemon'[e] = "exited"
        /\ Life!Alive(e)' => e = d /\ daemon'[e] = "serving"
  <2>1. CASE daemon' = daemon
    BY <1>2, <2>1 DEF Life!Alive
  <2>2. CASE daemon' = [daemon EXCEPT ![d] = "exited"]
    BY <1>2, <2>2 DEF LifeInv, Life!TypeOK, Life!Alive
  <2>. QED  BY <2>1, <2>2
<1>4. Life!OneDaemon' /\ OneCommand'
  BY <1>2, <1>3 DEF Life!OneDaemon, OneCommand, Active
<1>5. OwnFiles'
  BY <1>2, <1>3 DEF Orderly, OwnFiles, Life!Serving, Life!Alive
<1>. QED  BY <1>4, <1>5 DEF Orderly

\* A step of Shutdown moves one of the callers of one daemon on.
LEMMA ShuttingMoves ==
  ASSUME LifeInv, NEW d \in Commands, NEW w \in Life!Callers, NEW from,
         NEW to \in Stages,
         Life!Shutting(d, w, from, to), from # "no", to # "no"
  PROVE  /\ daemon[d] = "serving" /\ shutdown[d][w] = from
         /\ shutdown' \in [Commands -> [Life!Callers -> Stages]]
         /\ \A e \in Commands, v \in Life!Callers :
              shutdown'[e][v] = IF e = d /\ v = w THEN to ELSE shutdown[e][v]
         /\ Life!Leaving(d) /\ Life!Leaving(d)'
         /\ UNCHANGED <<command, step, target, unnamed, orderly>>
<1>1. /\ daemon[d] = "serving" /\ shutdown[d][w] = from
      /\ shutdown' = [shutdown EXCEPT ![d][w] = to]
      /\ UNCHANGED <<command, step, target, unnamed, orderly>>
  BY DEF Life!Shutting, Life!cli, Life!history
<1>2. /\ shutdown' \in [Commands -> [Life!Callers -> Stages]]
      /\ \A e \in Commands, v \in Life!Callers :
           shutdown'[e][v] = IF e = d /\ v = w THEN to ELSE shutdown[e][v]
  BY <1>1, ShutdownGoesOn DEF LifeInv
<1>. QED  BY <1>1, <1>2 DEF Life!Leaving

\* A daemon that closes its listener is leaving already.
LEMMA CloseListenerKeeps ==
  ASSUME LifeInv, NEW d \in Commands, NEW w \in Life!Callers,
         Life!CloseListener(d, w)
  PROVE  LifeInv'
<1>1. /\ listening' = [listening EXCEPT ![d] = FALSE]
      /\ socket' \in {NoFile, socket}
      /\ UNCHANGED <<daemon, pidFile>>
  BY DEF Life!CloseListener
<1>2. /\ daemon[d] = "serving" /\ shutdown[d][w] = "closing"
      /\ shutdown' \in [Commands -> [Life!Callers -> Stages]]
      /\ \A e \in Commands, v \in Life!Callers :
           shutdown'[e][v] = IF e = d /\ v = w THEN "unlinking"
                                              ELSE shutdown[e][v]
      /\ Life!Leaving(d) /\ Life!Leaving(d)'
      /\ UNCHANGED <<command, step, target, unnamed, orderly>>
  BY ShuttingMoves DEF Life!CloseListener, Stages
<1>3. Life!TypeOK'
  BY <1>1, <1>2 DEF LifeInv, Life!TypeOK, Stages
<1>4. Lives'
  BY <1>1, <1>2 DEF LifeInv, Life!TypeOK, Lives
<1>. QED  BY <1>1, <1>2, <1>3, <1>4, LeavingDisturbsNobody DEF LifeInv

\* The socket goes after the listener is closed.
LEMMA RemoveSocketKeeps ==
  ASSUME LifeInv, NEW d \in Commands, NEW w \in Life!Callers,
         Life!RemoveSocket(d, w)
  PROVE  LifeInv'
<1>1. socket' = NoFile /\ UNCHANGED <<daemon, listening, pidFile>>
  BY DEF Life!RemoveSocket
<1>2. /\ daemon[d] = "serving" /\ shutdown[d][w] = "unlinking"
      /\ shutdown' \in [Commands -> [Life!Callers -> Stages]]
      /\ \A e \in Commands, v \in Life!Callers :
           shutdown'[e][v] = IF e = d /\ v = w THEN "removing"
                                              ELSE shutdown[e][v]
      /\ Life!Leaving(d) /\ Life!Leaving(d)'
      /\ UNCHANGED <<command, step, target, unnamed, orderly>>
  BY ShuttingMoves DEF Life!RemoveSocket, Stages
<1>3. Life!TypeOK'
  BY <1>1, <1>2 DEF LifeInv, Life!TypeOK, Stages
<1>4. Lives'
  <2>1. ~listening[d]
    BY <1>2 DEF LifeInv, Lives
  <2>. QED  BY <1>1, <1>2, <2>1 DEF LifeInv, Lives
<1>. QED  BY <1>1, <1>2, <1>3, <1>4, LeavingDisturbsNobody DEF LifeInv

\* Then goes the PID file.
LEMMA RemovePidFileKeeps ==
  ASSUME LifeInv, NEW d \in Commands, NEW w \in Life!Callers,
         Life!RemovePidFile(d, w)
  PROVE  LifeInv'
<1>1. pidFile' = NoFile /\ UNCHANGED <<daemon, listening, socket>>
  BY DEF Life!RemovePidFile
<1>2. /\ daemon[d] = "serving" /\ shutdown[d][w] = "removing"
      /\ shutdown' \in [Commands -> [Life!Callers -> Stages]]
      /\ \A e \in Commands, v \in Life!Callers :
           shutdown'[e][v] = IF e = d /\ v = w THEN "exiting"
                                              ELSE shutdown[e][v]
      /\ Life!Leaving(d) /\ Life!Leaving(d)'
      /\ UNCHANGED <<command, step, target, unnamed, orderly>>
  BY ShuttingMoves DEF Life!RemovePidFile, Stages
<1>3. Life!TypeOK'
  BY <1>1, <1>2 DEF LifeInv, Life!TypeOK, Stages
<1>4. Lives'
  <2>1. ~listening[d]
    BY <1>2 DEF LifeInv, Lives
  <2>. QED  BY <1>1, <1>2, <2>1 DEF LifeInv, Lives
<1>. QED  BY <1>1, <1>2, <1>3, <1>4, LeavingDisturbsNobody DEF LifeInv

\* Whoever exits has closed the listener.
LEMMA ExitKeeps ==
  ASSUME LifeInv, NEW d \in Commands, NEW w \in Life!Callers, Life!Exit(d, w)
  PROVE  LifeInv'
<1>1. /\ daemon' = [daemon EXCEPT ![d] = "exited"]
      /\ UNCHANGED <<listening, socket, pidFile>>
  BY DEF Life!Exit, Life!files
<1>2. /\ daemon[d] = "serving" /\ shutdown[d][w] = "exiting"
      /\ shutdown' \in [Commands -> [Life!Callers -> Stages]]
      /\ \A e \in Commands, v \in Life!Callers :
           shutdown'[e][v] = IF e = d /\ v = w THEN "exiting"
                                              ELSE shutdown[e][v]
      /\ Life!Leaving(d) /\ Life!Leaving(d)'
      /\ UNCHANGED <<command, step, target, unnamed, orderly>>
  BY ShuttingMoves DEF Life!Exit, Stages
<1>3. Life!TypeOK'
  BY <1>1, <1>2 DEF LifeInv, Life!TypeOK, Stages
<1>4. Lives'
  <2>1. ~listening[d]
    BY <1>2 DEF LifeInv, Lives
  <2>2. \A e \in Commands, v \in Life!Callers :
          shutdown'[e][v] = shutdown[e][v]
    BY <1>2
  <2>. QED  BY <1>1, <1>2, <2>1, <2>2 DEF LifeInv, Life!TypeOK, Lives
<1>. QED  BY <1>1, <1>2, <1>3, <1>4, LeavingDisturbsNobody DEF LifeInv

\* A daemon that is killed leaves nobody behind.
LEMMA CrashKeeps ==
  ASSUME LifeInv, NEW d \in Commands, Life!Crash(d)
  PROVE  LifeInv'
<1>1. /\ Life!Alive(d)
      /\ daemon' = [daemon EXCEPT ![d] = "crashed"]
      /\ listening' = [listening EXCEPT ![d] = FALSE]
      /\ UNCHANGED <<command, step, target, shutdown, socket, pidFile,
                     unnamed, orderly>>
  BY DEF Life!Crash, Life!cli, Life!files, Life!history
<1>2. Life!TypeOK'
  BY <1>1 DEF LifeInv, Life!TypeOK
<1>3. Lives'
  BY <1>1 DEF LifeInv, Life!TypeOK, Lives, Life!Alive
<1>4. ASSUME orderly
      PROVE  Orderly'
  <2>1. Orderly /\ \A e \in Commands : Life!Alive(e) => e = d
    BY <1>1, <1>4, OnItsOwn DEF LifeInv
  <2>2. \A e \in Commands :
          ~Life!Alive(e)' /\ (daemon'[e] = daemon[e] \/ daemon'[e] = "crashed")
    BY <1>1, <2>1 DEF LifeInv, Life!TypeOK, Life!Alive
  <2>3. Life!OneDaemon' /\ OneCommand'
    BY <1>1, <2>1, <2>2 DEF Orderly, Life!OneDaemon, OneCommand, Active
  <2>4. OwnFiles'
    BY <2>1, <2>2 DEF Orderly, OwnFiles, Life!Serving, Life!Alive
  <2>. QED  BY <2>3, <2>4 DEF Orderly
<1>. QED  BY <1>1, <1>2, <1>3, <1>4 DEF LifeInv

\* Every step keeps the invariant.
LEMMA LifeInvNext ==
  ASSUME NoFile \notin Commands, LifeInv, [Life!Next]_(Life!vars)
  PROVE  LifeInv'
<1>1. ASSUME NEW c \in Commands, Life!Command(c)
      PROVE  LifeInv'
  BY <1>1, GiveKeeps, CheckKeeps, SpawnKeeps, StopConnectsKeeps,
     StopAnsweredKeeps, StopUnansweredKeeps, StopBySignalKeeps,
     StopRemovesPidKeeps
     DEF Life!Command
<1>2. ASSUME NEW d \in Commands, Life!Live(d)
      PROVE  LifeInv'
  BY <1>2, CleanUpKeeps, BindKeeps, WritePidFileKeeps, RunStopsKeeps,
     CloseListenerKeeps, RemoveSocketKeeps, RemovePidFileKeeps, ExitKeeps,
     CrashKeeps
     DEF Life!Live
<1>3. CASE UNCHANGED Life!vars
  BY <1>3 DEF Life!vars, Life!cli, Life!files, Life!history, LifeInv,
              Life!TypeOK, Lives, Orderly, Life!OneDaemon,
              OneCommand, OwnFiles, Active, Life!Alive, Life!Serving,
              Life!Leaving, Life!Reaches
<1>. QED  BY <1>1, <1>2, <1>3 DEF Life!Next

\* The invariant holds in every state of every run, for any number of
\* commands and crashes.
THEOREM LifeInductive ==
  ASSUME NoFile \notin Commands
  PROVE  Life!Spec => []LifeInv
<1>1. Life!Init => LifeInv
  BY LifeInvInit
<1>2. LifeInv /\ [Life!Next]_(Life!vars) => LifeInv'
  BY LifeInvNext
<1>. QED  BY <1>1, <1>2, PTL DEF Life!Spec

\* Every variable has its type, and a stop that asks or signals has somebody
\* to ask or signal.
THEOREM LifeTypeCorrect ==
  ASSUME NoFile \notin Commands
  PROVE  Life!Spec => []Life!TypeOK
<1>1. LifeInv => Life!TypeOK
  BY DEF LifeInv
<1>. QED  BY <1>1, LifeInductive, PTL

\* As long as the commands are given in order, one daemon at most is alive,
\* starting and leaving included.
THEOREM OneDaemonAtATime ==
  ASSUME NoFile \notin Commands
  PROVE  Life!Spec => []OrderlyOneDaemon
<1>1. LifeInv => OrderlyOneDaemon
  BY DEF LifeInv, Orderly, OrderlyOneDaemon, OneDaemon, Alive,
         Life!OneDaemon, Life!Alive
<1>. QED  BY <1>1, LifeInductive, PTL

\* As long as the commands are given in order, a daemon that serves answers
\* on the socket, and the PID file names it unless it failed to write it.
THEOREM ServingIsReachable ==
  ASSUME NoFile \notin Commands
  PROVE  Life!Spec => []OrderlyReachable
<1>1. LifeInv => OrderlyReachable
  BY DEF LifeInv, Orderly, OwnFiles, OrderlyReachable, Serving, Leaving,
         Reaches, Callers, Life!Serving, Life!Leaving, Life!Reaches, Life!Callers
<1>. QED  BY <1>1, LifeInductive, PTL

\* As long as the commands are given in order, no daemon fails to start over
\* a socket that an earlier one left behind.
THEOREM StartSucceeds ==
  ASSUME NoFile \notin Commands
  PROVE  Life!Spec => []OrderlyStarts
<1>1. LifeInv => OrderlyStarts
  BY DEF LifeInv, Orderly, OwnFiles, OrderlyStarts
<1>. QED  BY <1>1, LifeInductive, PTL
=============================================================================
