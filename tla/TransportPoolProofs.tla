-------------------------- MODULE TransportPoolProofs --------------------------
(***************************************************************************)
(* Proofs about TransportPool for any number of threads, keys, connections  *)
(* and calls, and about Discovery for any chassis, calls and failures.      *)
(***************************************************************************)
EXTENDS TransportPool, Discovery, SequenceTheorems, FiniteSetTheorems, NaturalsInduction, WellFoundedInduction, TLAPS

-----------------------------------------------------------------------------
(* The inductive invariant.                                                *)

\* The lock of a key is held exactly by the thread that opens a connection
\* for it.
LockInv == \A t \in Threads, k \in Keys :
  lock[k] = t <=> (pc[t] = "opening" /\ key[t] = k)

OpeningEmpty == \A t \in Threads : pc[t] = "opening" => pool[key[t]] = NoConn

PoolInjective == \A j, k \in Keys :
  (pool[j] = pool[k] /\ pool[j] # NoConn) => j = k

\* A thread between calls holds nothing; one that was served holds a transport.
HoldInv == \A t \in Threads :
  /\ pc[t] = "idle" => conn[t] = NoConn
  /\ pc[t] \in {"got", "running", "done", "broken"} => conn[t] \in Conns

VictimInv == \A t \in Threads : victim[t] # NoConn <=> pc[t] = "close"

DoomedInv == ~exiting => doomed = {}

\* What somebody is about to close is not the parent's.
DyingOurs == \A c \in Dying : link[c] # "foreign"

\* Who owns which connection: everything but the two counting properties.
OwnInv ==
  /\ TypeOK /\ LockInv /\ OpeningEmpty /\ PoolInjective /\ HoldInv
  /\ VictimInv /\ DoomedInv /\ DyingOurs /\ PooledNotClosed /\ NoLeak

IInv == OwnInv /\ InUseExact

-----------------------------------------------------------------------------
(* Initial states.                                                         *)

LEMMA InitInv == Init => IInv
<1> SUFFICES ASSUME Init PROVE IInv
  OBVIOUS
<1> USE PoolAssumption DEF Init
<1>1. TypeOK /\ LockInv /\ OpeningEmpty
  BY DEF TypeOK, PC, LockInv, OpeningEmpty
<1>2. PoolInjective /\ HoldInv /\ VictimInv /\ DoomedInv
  BY DEF PoolInjective, HoldInv, VictimInv, DoomedInv
<1>3. DyingOurs /\ PooledNotClosed /\ NoLeak
  BY DEF DyingOurs, Dying, PooledNotClosed, NoLeak
<1>4. InUseExact
  BY DEF InUseExact
<1> QED
  BY <1>1, <1>2, <1>3, <1>4 DEF IInv, OwnInv

-----------------------------------------------------------------------------
(* Every step keeps the ownership of the connections.                      *)

LEMMA OwnStep == ASSUME OwnInv, [Next]_vars PROVE OwnInv'
<1> USE PoolAssumption
    DEF OwnInv, regVars, connVars, callVars, reapVars, procVars
<1>1. ASSUME NEW t \in Threads, NEW k \in Keys, NEW kd \in {"retry", "once"}, Call(t, k, kd) PROVE OwnInv'
  <2>1. TypeOK'
    BY <1>1 DEF TypeOK, PC, HoldInv, VictimInv, Call, Goto
  <2>2. LockInv'
    BY <1>1 DEF TypeOK, LockInv, Call, Goto
  <2>3. OpeningEmpty'
    BY <1>1 DEF TypeOK, LockInv, OpeningEmpty, Call, Goto
  <2>4. HoldInv'
    BY <1>1 DEF TypeOK, HoldInv, PooledNotClosed, Call, Goto
  <2>5. VictimInv'
    BY <1>1 DEF TypeOK, VictimInv, Call, Goto
  <2>6. PoolInjective' /\ DoomedInv' /\ DyingOurs' /\ PooledNotClosed' /\ NoLeak'
    BY <1>1 DEF PoolInjective, DoomedInv, DyingOurs, PooledNotClosed, NoLeak,
      Dying, Pooled, Call, Goto
  <2> QED
    BY <2>1, <2>2, <2>3, <2>4, <2>5, <2>6
<1>2. ASSUME NEW t \in Threads, GetHit(t) PROVE OwnInv'
  <2>1. TypeOK'
    BY <1>2 DEF TypeOK, PC, HoldInv, VictimInv, GetHit, Goto
  <2>2. LockInv'
    BY <1>2 DEF TypeOK, LockInv, GetHit, Goto
  <2>3. OpeningEmpty'
    BY <1>2 DEF TypeOK, LockInv, OpeningEmpty, GetHit, Goto
  <2>4. HoldInv'
    BY <1>2 DEF TypeOK, HoldInv, PooledNotClosed, GetHit, Goto
  <2>5. VictimInv'
    BY <1>2 DEF TypeOK, VictimInv, GetHit, Goto
  <2>6. PoolInjective' /\ DoomedInv' /\ DyingOurs' /\ PooledNotClosed' /\ NoLeak'
    BY <1>2 DEF PoolInjective, DoomedInv, DyingOurs, PooledNotClosed, NoLeak,
      Dying, Pooled, GetHit, Goto
  <2> QED
    BY <2>1, <2>2, <2>3, <2>4, <2>5, <2>6
<1>3. ASSUME NEW t \in Threads, GetMiss(t) PROVE OwnInv'
  <2>1. TypeOK'
    BY <1>3 DEF TypeOK, PC, HoldInv, VictimInv, GetMiss, Goto, Alive
  <2>2. LockInv'
    BY <1>3 DEF TypeOK, LockInv, GetMiss, Goto, Alive
  <2>3. OpeningEmpty'
    BY <1>3 DEF TypeOK, LockInv, OpeningEmpty, GetMiss, Goto, Alive
  <2>4. PoolInjective'
    BY <1>3 DEF TypeOK, PoolInjective, PooledNotClosed, GetMiss, Goto, Alive
  <2>5. HoldInv'
    BY <1>3 DEF TypeOK, HoldInv, PooledNotClosed, GetMiss, Goto, Alive
  <2>6. VictimInv'
    BY <1>3 DEF TypeOK, VictimInv, GetMiss, Goto, Alive
  <2>7. DyingOurs'
    BY <1>3 DEF TypeOK, DyingOurs, Dying, DoomedInv, VictimInv,
      PooledNotClosed, Pooled, GetMiss, Goto, Alive
  <2>8. PooledNotClosed'
    BY <1>3 DEF TypeOK, PooledNotClosed, PoolInjective, Dying, VictimInv,
      DoomedInv, Pooled, GetMiss, Goto, Alive
  <2>9. NoLeak'
    BY <1>3 DEF TypeOK, NoLeak, Dying, Pooled, VictimInv, PooledNotClosed,
      PoolInjective, OpeningEmpty, DoomedInv, GetMiss, Goto, Alive
  <2>10. DoomedInv'
    BY <1>3 DEF DoomedInv, GetMiss, Goto, Alive
  <2> QED
    BY <2>1, <2>2, <2>3, <2>4, <2>5, <2>6, <2>7, <2>8, <2>9, <2>10
<1>4. ASSUME NEW t \in Threads, NEW c \in Conns, OpenOk(t, c) PROVE OwnInv'
  <2>1. TypeOK'
    BY <1>4 DEF TypeOK, PC, HoldInv, VictimInv, OpenOk, Goto, Unreferenced
  <2>2. LockInv'
    BY <1>4 DEF TypeOK, LockInv, OpenOk, Goto, Unreferenced
  <2>3. OpeningEmpty'
    BY <1>4 DEF TypeOK, LockInv, OpeningEmpty, OpenOk, Goto, Unreferenced
  <2>4. PoolInjective'
    BY <1>4 DEF TypeOK, PoolInjective, PooledNotClosed, OpenOk, Goto,
      Unreferenced
  <2>5. HoldInv'
    BY <1>4 DEF TypeOK, HoldInv, PooledNotClosed, OpenOk, Goto, Unreferenced
  <2>6. VictimInv'
    BY <1>4 DEF TypeOK, VictimInv, OpenOk, Goto, Unreferenced
  <2>7. DyingOurs'
    BY <1>4 DEF TypeOK, DyingOurs, Dying, DoomedInv, VictimInv,
      PooledNotClosed, Pooled, OpenOk, Goto, Unreferenced
  <2>8. PooledNotClosed'
    BY <1>4 DEF TypeOK, PooledNotClosed, PoolInjective, Dying, VictimInv,
      DoomedInv, Pooled, OpenOk, Goto, Unreferenced
  <2>9. NoLeak'
    BY <1>4 DEF TypeOK, NoLeak, Dying, Pooled, VictimInv, PooledNotClosed,
      PoolInjective, OpeningEmpty, DoomedInv, OpenOk, Goto, Unreferenced
  <2>10. DoomedInv'
    BY <1>4 DEF DoomedInv, OpenOk, Goto, Unreferenced
  <2> QED
    BY <2>1, <2>2, <2>3, <2>4, <2>5, <2>6, <2>7, <2>8, <2>9, <2>10
<1>5. ASSUME NEW t \in Threads, OpenFail(t) PROVE OwnInv'
  <2>1. TypeOK'
    BY <1>5 DEF TypeOK, PC, HoldInv, VictimInv, OpenFail, Goto
  <2>2. LockInv'
    BY <1>5 DEF TypeOK, LockInv, OpenFail, Goto
  <2>3. OpeningEmpty'
    BY <1>5 DEF TypeOK, LockInv, OpeningEmpty, OpenFail, Goto
  <2>4. HoldInv'
    BY <1>5 DEF TypeOK, HoldInv, PooledNotClosed, OpenFail, Goto
  <2>5. VictimInv'
    BY <1>5 DEF TypeOK, VictimInv, OpenFail, Goto
  <2>6. PoolInjective' /\ DoomedInv' /\ DyingOurs' /\ PooledNotClosed' /\ NoLeak'
    BY <1>5 DEF PoolInjective, DoomedInv, DyingOurs, PooledNotClosed, NoLeak,
      Dying, Pooled, OpenFail, Goto
  <2> QED
    BY <2>1, <2>2, <2>3, <2>4, <2>5, <2>6
<1>6. ASSUME NEW t \in Threads, MarkBusy(t) PROVE OwnInv'
  <2>1. TypeOK'
    BY <1>6 DEF TypeOK, PC, HoldInv, VictimInv, MarkBusy, Goto
  <2>2. LockInv'
    BY <1>6 DEF TypeOK, LockInv, MarkBusy, Goto
  <2>3. OpeningEmpty'
    BY <1>6 DEF TypeOK, LockInv, OpeningEmpty, MarkBusy, Goto
  <2>4. HoldInv'
    BY <1>6 DEF TypeOK, HoldInv, PooledNotClosed, MarkBusy, Goto
  <2>5. VictimInv'
    BY <1>6 DEF TypeOK, VictimInv, MarkBusy, Goto
  <2>6. PoolInjective' /\ DoomedInv' /\ DyingOurs' /\ PooledNotClosed' /\ NoLeak'
    BY <1>6 DEF PoolInjective, DoomedInv, DyingOurs, PooledNotClosed, NoLeak,
      Dying, Pooled, MarkBusy, Goto
  <2> QED
    BY <2>1, <2>2, <2>3, <2>4, <2>5, <2>6
<1>7. ASSUME NEW t \in Threads, Finish(t) PROVE OwnInv'
  <2>1. TypeOK'
    BY <1>7 DEF TypeOK, PC, HoldInv, VictimInv, Finish, Goto
  <2>2. LockInv'
    BY <1>7 DEF TypeOK, LockInv, Finish, Goto
  <2>3. OpeningEmpty'
    BY <1>7 DEF TypeOK, LockInv, OpeningEmpty, Finish, Goto
  <2>4. HoldInv'
    BY <1>7 DEF TypeOK, HoldInv, PooledNotClosed, Finish, Goto
  <2>5. VictimInv'
    BY <1>7 DEF TypeOK, VictimInv, Finish, Goto
  <2>6. PoolInjective' /\ DoomedInv' /\ DyingOurs' /\ PooledNotClosed' /\ NoLeak'
    BY <1>7 DEF PoolInjective, DoomedInv, DyingOurs, PooledNotClosed, NoLeak,
      Dying, Pooled, Finish, Goto
  <2> QED
    BY <2>1, <2>2, <2>3, <2>4, <2>5, <2>6
<1>8. ASSUME NEW t \in Threads, Raise(t) PROVE OwnInv'
  <2>1. TypeOK'
    BY <1>8 DEF TypeOK, PC, HoldInv, VictimInv, Raise, Goto
  <2>2. LockInv'
    BY <1>8 DEF TypeOK, LockInv, Raise, Goto
  <2>3. OpeningEmpty'
    BY <1>8 DEF TypeOK, LockInv, OpeningEmpty, Raise, Goto
  <2>4. HoldInv'
    BY <1>8 DEF TypeOK, HoldInv, PooledNotClosed, Raise, Goto
  <2>5. VictimInv'
    BY <1>8 DEF TypeOK, VictimInv, Raise, Goto
  <2>6. PoolInjective' /\ DoomedInv' /\ DyingOurs' /\ PooledNotClosed' /\ NoLeak'
    BY <1>8 DEF PoolInjective, DoomedInv, DyingOurs, PooledNotClosed, NoLeak,
      Dying, Pooled, Raise, Goto
  <2> QED
    BY <2>1, <2>2, <2>3, <2>4, <2>5, <2>6
<1>9. ASSUME NEW t \in Threads, Break(t) PROVE OwnInv'
  <2>1. TypeOK'
    BY <1>9 DEF TypeOK, PC, HoldInv, VictimInv, Break, Goto
  <2>2. LockInv'
    BY <1>9 DEF TypeOK, LockInv, Break, Goto
  <2>3. OpeningEmpty'
    BY <1>9 DEF TypeOK, LockInv, OpeningEmpty, Break, Goto
  <2>4. HoldInv'
    BY <1>9 DEF TypeOK, HoldInv, PooledNotClosed, Break, Goto
  <2>5. VictimInv'
    BY <1>9 DEF TypeOK, VictimInv, Break, Goto
  <2>6. PoolInjective' /\ DoomedInv' /\ DyingOurs' /\ PooledNotClosed' /\ NoLeak'
    BY <1>9 DEF PoolInjective, DoomedInv, DyingOurs, PooledNotClosed, NoLeak,
      Dying, Pooled, Break, Goto
  <2> QED
    BY <2>1, <2>2, <2>3, <2>4, <2>5, <2>6
<1>10. ASSUME NEW t \in Threads, DropPop(t) PROVE OwnInv'
  <2>1. TypeOK'
    BY <1>10 DEF TypeOK, PC, HoldInv, VictimInv, DropPop, Goto, AfterDrop
  <2>2. LockInv'
    BY <1>10 DEF TypeOK, LockInv, DropPop, Goto, AfterDrop
  <2>3. OpeningEmpty'
    BY <1>10 DEF TypeOK, LockInv, OpeningEmpty, DropPop, Goto, AfterDrop
  <2>4. PoolInjective'
    BY <1>10 DEF TypeOK, PoolInjective, PooledNotClosed, DropPop, Goto,
      AfterDrop
  <2>5. HoldInv'
    BY <1>10 DEF TypeOK, HoldInv, PooledNotClosed, DropPop, Goto, AfterDrop
  <2>6. VictimInv'
    BY <1>10 DEF TypeOK, VictimInv, DropPop, Goto, AfterDrop
  <2>7. DyingOurs'
    BY <1>10 DEF TypeOK, DyingOurs, Dying, DoomedInv, VictimInv,
      PooledNotClosed, Pooled, DropPop, Goto, AfterDrop
  <2>8. PooledNotClosed'
    BY <1>10 DEF TypeOK, PooledNotClosed, PoolInjective, Dying, VictimInv,
      DoomedInv, Pooled, DropPop, Goto, AfterDrop
  <2>9. NoLeak'
    BY <1>10 DEF TypeOK, NoLeak, Dying, Pooled, VictimInv, PooledNotClosed,
      PoolInjective, OpeningEmpty, DoomedInv, DropPop, Goto, AfterDrop
  <2>10. DoomedInv'
    BY <1>10 DEF DoomedInv, DropPop, Goto, AfterDrop
  <2> QED
    BY <2>1, <2>2, <2>3, <2>4, <2>5, <2>6, <2>7, <2>8, <2>9, <2>10
<1>11. ASSUME NEW t \in Threads, DropClose(t) PROVE OwnInv'
  <2>1. TypeOK'
    BY <1>11 DEF TypeOK, PC, HoldInv, VictimInv, DropClose, Goto, AfterDrop
  <2>2. LockInv'
    BY <1>11 DEF TypeOK, LockInv, DropClose, Goto, AfterDrop
  <2>3. OpeningEmpty'
    BY <1>11 DEF TypeOK, LockInv, OpeningEmpty, DropClose, Goto, AfterDrop
  <2>4. HoldInv'
    BY <1>11 DEF TypeOK, HoldInv, PooledNotClosed, DropClose, Goto, AfterDrop
  <2>5. VictimInv'
    BY <1>11 DEF TypeOK, VictimInv, DropClose, Goto, AfterDrop
  <2>6. DyingOurs'
    BY <1>11 DEF TypeOK, DyingOurs, Dying, DoomedInv, VictimInv,
      PooledNotClosed, Pooled, DropClose, Goto, AfterDrop
  <2>7. PooledNotClosed'
    BY <1>11 DEF TypeOK, PooledNotClosed, PoolInjective, Dying, VictimInv,
      DoomedInv, Pooled, DropClose, Goto, AfterDrop
  <2>8. NoLeak'
    BY <1>11 DEF TypeOK, NoLeak, Dying, Pooled, VictimInv, PooledNotClosed,
      PoolInjective, OpeningEmpty, DoomedInv, DropClose, Goto, AfterDrop
  <2>9. PoolInjective' /\ DoomedInv'
    BY <1>11 DEF PoolInjective, DoomedInv, DropClose, Goto, AfterDrop
  <2> QED
    BY <2>1, <2>2, <2>3, <2>4, <2>5, <2>6, <2>7, <2>8, <2>9
<1>12. ASSUME NEW t \in Threads, Leave(t) PROVE OwnInv'
  <2>1. TypeOK'
    BY <1>12 DEF TypeOK, PC, HoldInv, VictimInv, Leave, Goto, Unmark
  <2>2. LockInv'
    BY <1>12 DEF TypeOK, LockInv, Leave, Goto, Unmark
  <2>3. OpeningEmpty'
    BY <1>12 DEF TypeOK, LockInv, OpeningEmpty, Leave, Goto, Unmark
  <2>4. HoldInv'
    BY <1>12 DEF TypeOK, HoldInv, PooledNotClosed, Leave, Goto, Unmark
  <2>5. VictimInv'
    BY <1>12 DEF TypeOK, VictimInv, Leave, Goto, Unmark
  <2>6. PoolInjective' /\ DoomedInv' /\ DyingOurs' /\ PooledNotClosed' /\ NoLeak'
    BY <1>12 DEF PoolInjective, DoomedInv, DyingOurs, PooledNotClosed, NoLeak,
      Dying, Pooled, Leave, Goto, Unmark
  <2> QED
    BY <2>1, <2>2, <2>3, <2>4, <2>5, <2>6
<1>13. ASSUME NEW t \in Threads, Retry(t) PROVE OwnInv'
  <2>1. TypeOK'
    BY <1>13 DEF TypeOK, PC, HoldInv, VictimInv, Retry, Goto, Unmark
  <2>2. LockInv'
    BY <1>13 DEF TypeOK, LockInv, Retry, Goto, Unmark
  <2>3. OpeningEmpty'
    BY <1>13 DEF TypeOK, LockInv, OpeningEmpty, Retry, Goto, Unmark
  <2>4. HoldInv'
    BY <1>13 DEF TypeOK, HoldInv, PooledNotClosed, Retry, Goto, Unmark
  <2>5. VictimInv'
    BY <1>13 DEF TypeOK, VictimInv, Retry, Goto, Unmark
  <2>6. PoolInjective' /\ DoomedInv' /\ DyingOurs' /\ PooledNotClosed' /\ NoLeak'
    BY <1>13 DEF PoolInjective, DoomedInv, DyingOurs, PooledNotClosed, NoLeak,
      Dying, Pooled, Retry, Goto, Unmark
  <2> QED
    BY <2>1, <2>2, <2>3, <2>4, <2>5, <2>6
<1>14. ASSUME NEW t \in Threads, NEW k \in Keys, ProbeDrop(t, k) PROVE OwnInv'
  <2>1. TypeOK'
    BY <1>14 DEF TypeOK, PC, HoldInv, VictimInv, ProbeDrop, Goto
  <2>2. LockInv'
    BY <1>14 DEF TypeOK, LockInv, ProbeDrop, Goto
  <2>3. OpeningEmpty'
    BY <1>14 DEF TypeOK, LockInv, OpeningEmpty, ProbeDrop, Goto
  <2>4. HoldInv'
    BY <1>14 DEF TypeOK, HoldInv, PooledNotClosed, ProbeDrop, Goto
  <2>5. VictimInv'
    BY <1>14 DEF TypeOK, VictimInv, ProbeDrop, Goto
  <2>6. PoolInjective' /\ DoomedInv' /\ DyingOurs' /\ PooledNotClosed' /\ NoLeak'
    BY <1>14 DEF PoolInjective, DoomedInv, DyingOurs, PooledNotClosed, NoLeak,
      Dying, Pooled, ProbeDrop, Goto
  <2> QED
    BY <2>1, <2>2, <2>3, <2>4, <2>5, <2>6
<1>15. ASSUME ReapSelect PROVE OwnInv'
  <2>1. TypeOK'
    BY <1>15 DEF TypeOK, PC, HoldInv, VictimInv, ReapSelect
  <2>2. LockInv' /\ OpeningEmpty' /\ PoolInjective' /\ HoldInv' /\ VictimInv' /\
      DoomedInv' /\ DyingOurs' /\ PooledNotClosed' /\ NoLeak'
    BY <1>15 DEF LockInv, OpeningEmpty, PoolInjective, HoldInv, VictimInv,
      DoomedInv, DyingOurs, PooledNotClosed, NoLeak, Dying, Pooled, ReapSelect
  <2> QED
    BY <2>1, <2>2
<1>16. ASSUME NEW k \in Keys, ReapPop(k) PROVE OwnInv'
  <2>1. TypeOK'
    BY <1>16 DEF TypeOK, PC, HoldInv, VictimInv, ReapPop
  <2>2. OpeningEmpty'
    BY <1>16 DEF TypeOK, LockInv, OpeningEmpty, ReapPop
  <2>3. PoolInjective'
    BY <1>16 DEF TypeOK, PoolInjective, PooledNotClosed, ReapPop
  <2>4. DyingOurs'
    BY <1>16 DEF TypeOK, DyingOurs, Dying, DoomedInv, VictimInv,
      PooledNotClosed, Pooled, ReapPop
  <2>5. PooledNotClosed'
    BY <1>16 DEF TypeOK, PooledNotClosed, PoolInjective, Dying, VictimInv,
      DoomedInv, Pooled, ReapPop
  <2>6. NoLeak'
    BY <1>16 DEF TypeOK, NoLeak, Dying, Pooled, VictimInv, PooledNotClosed,
      PoolInjective, OpeningEmpty, DoomedInv, ReapPop
  <2>7. LockInv' /\ HoldInv' /\ VictimInv' /\ DoomedInv'
    BY <1>16 DEF LockInv, HoldInv, VictimInv, DoomedInv, ReapPop
  <2> QED
    BY <2>1, <2>2, <2>3, <2>4, <2>5, <2>6, <2>7
<1>17. ASSUME ReapClose PROVE OwnInv'
  <2>1. TypeOK'
    BY <1>17 DEF TypeOK, PC, HoldInv, VictimInv, ReapClose
  <2>2. DyingOurs'
    BY <1>17 DEF TypeOK, DyingOurs, Dying, DoomedInv, VictimInv,
      PooledNotClosed, Pooled, ReapClose
  <2>3. PooledNotClosed'
    BY <1>17 DEF TypeOK, PooledNotClosed, PoolInjective, Dying, VictimInv,
      DoomedInv, Pooled, ReapClose
  <2>4. NoLeak'
    BY <1>17 DEF TypeOK, NoLeak, Dying, Pooled, VictimInv, PooledNotClosed,
      PoolInjective, OpeningEmpty, DoomedInv, ReapClose
  <2>5. LockInv' /\ OpeningEmpty' /\ PoolInjective' /\ HoldInv' /\ VictimInv' /\
      DoomedInv'
    BY <1>17 DEF LockInv, OpeningEmpty, PoolInjective, HoldInv, VictimInv,
      DoomedInv, ReapClose
  <2> QED
    BY <2>1, <2>2, <2>3, <2>4, <2>5
<1>18. ASSUME CloseAll PROVE OwnInv'
  <2>1. TypeOK'
    BY <1>18 DEF TypeOK, PC, HoldInv, VictimInv, CloseAll, Pooled
  <2>2. OpeningEmpty'
    BY <1>18 DEF TypeOK, LockInv, OpeningEmpty, CloseAll, Pooled
  <2>3. PoolInjective'
    BY <1>18 DEF TypeOK, PoolInjective, PooledNotClosed, CloseAll, Pooled
  <2>4. DoomedInv'
    BY <1>18 DEF DoomedInv, CloseAll, Pooled
  <2>5. DyingOurs'
    BY <1>18 DEF TypeOK, DyingOurs, Dying, DoomedInv, VictimInv,
      PooledNotClosed, Pooled, CloseAll
  <2>6. PooledNotClosed'
    BY <1>18 DEF TypeOK, PooledNotClosed, PoolInjective, Dying, VictimInv,
      DoomedInv, Pooled, CloseAll
  <2>7. NoLeak'
    BY <1>18 DEF TypeOK, NoLeak, Dying, Pooled, VictimInv, PooledNotClosed,
      PoolInjective, OpeningEmpty, DoomedInv, CloseAll
  <2>8. LockInv' /\ HoldInv' /\ VictimInv'
    BY <1>18 DEF LockInv, HoldInv, VictimInv, CloseAll, Pooled
  <2> QED
    BY <2>1, <2>2, <2>3, <2>4, <2>5, <2>6, <2>7, <2>8
<1>19. ASSUME NEW c \in Conns, CloseDoomed(c) PROVE OwnInv'
  <2>1. TypeOK'
    BY <1>19 DEF TypeOK, PC, HoldInv, VictimInv, CloseDoomed
  <2>2. DoomedInv'
    BY <1>19 DEF DoomedInv, CloseDoomed
  <2>3. DyingOurs'
    BY <1>19 DEF TypeOK, DyingOurs, Dying, DoomedInv, VictimInv,
      PooledNotClosed, Pooled, CloseDoomed
  <2>4. PooledNotClosed'
    BY <1>19 DEF TypeOK, PooledNotClosed, PoolInjective, Dying, VictimInv,
      DoomedInv, Pooled, CloseDoomed
  <2>5. NoLeak'
    BY <1>19 DEF TypeOK, NoLeak, Dying, Pooled, VictimInv, PooledNotClosed,
      PoolInjective, OpeningEmpty, DoomedInv, CloseDoomed
  <2>6. LockInv' /\ OpeningEmpty' /\ PoolInjective' /\ HoldInv' /\ VictimInv'
    BY <1>19 DEF LockInv, OpeningEmpty, PoolInjective, HoldInv, VictimInv,
      CloseDoomed
  <2> QED
    BY <2>1, <2>2, <2>3, <2>4, <2>5, <2>6
<1>20. ASSUME NEW t \in Threads, Fork(t) PROVE OwnInv'
  <2>1. TypeOK'
    BY <1>20 DEF TypeOK, PC, HoldInv, VictimInv, Fork
  <2>2. LockInv'
    BY <1>20 DEF TypeOK, LockInv, Fork
  <2>3. OpeningEmpty'
    BY <1>20 DEF TypeOK, LockInv, OpeningEmpty, Fork
  <2>4. PoolInjective'
    BY <1>20 DEF TypeOK, PoolInjective, PooledNotClosed, Fork
  <2>5. HoldInv'
    BY <1>20 DEF TypeOK, HoldInv, PooledNotClosed, Fork
  <2>6. VictimInv'
    BY <1>20 DEF TypeOK, VictimInv, Fork
  <2>7. DyingOurs'
    BY <1>20 DEF TypeOK, DyingOurs, Dying, DoomedInv, VictimInv,
      PooledNotClosed, Pooled, Fork
  <2>8. PooledNotClosed'
    BY <1>20 DEF TypeOK, PooledNotClosed, PoolInjective, Dying, VictimInv,
      DoomedInv, Pooled, Fork
  <2>9. NoLeak'
    BY <1>20 DEF TypeOK, NoLeak, Dying, Pooled, VictimInv, PooledNotClosed,
      PoolInjective, OpeningEmpty, DoomedInv, Fork
  <2>10. DoomedInv'
    BY <1>20 DEF DoomedInv, Fork
  <2> QED
    BY <2>1, <2>2, <2>3, <2>4, <2>5, <2>6, <2>7, <2>8, <2>9, <2>10
<1>21. ASSUME NEW c \in Conns, Die(c) PROVE OwnInv'
  <2>1. TypeOK'
    BY <1>21 DEF TypeOK, PC, HoldInv, VictimInv, Die
  <2>2. DyingOurs'
    BY <1>21 DEF TypeOK, DyingOurs, Dying, DoomedInv, VictimInv,
      PooledNotClosed, Pooled, Die
  <2>3. PooledNotClosed'
    BY <1>21 DEF TypeOK, PooledNotClosed, PoolInjective, Dying, VictimInv,
      DoomedInv, Pooled, Die
  <2>4. NoLeak'
    BY <1>21 DEF TypeOK, NoLeak, Dying, Pooled, VictimInv, PooledNotClosed,
      PoolInjective, OpeningEmpty, DoomedInv, Die
  <2>5. LockInv' /\ OpeningEmpty' /\ PoolInjective' /\ HoldInv' /\ VictimInv' /\
      DoomedInv'
    BY <1>21 DEF LockInv, OpeningEmpty, PoolInjective, HoldInv, VictimInv,
      DoomedInv, Die
  <2> QED
    BY <2>1, <2>2, <2>3, <2>4, <2>5
<1>22. ASSUME NEW c \in Conns, GoIdle(c) PROVE OwnInv'
  <2>1. TypeOK'
    BY <1>22 DEF TypeOK, PC, HoldInv, VictimInv, GoIdle
  <2>2. LockInv' /\ OpeningEmpty' /\ PoolInjective' /\ HoldInv' /\ VictimInv' /\
      DoomedInv' /\ DyingOurs' /\ PooledNotClosed' /\ NoLeak'
    BY <1>22 DEF LockInv, OpeningEmpty, PoolInjective, HoldInv, VictimInv,
      DoomedInv, DyingOurs, PooledNotClosed, NoLeak, Dying, Pooled, GoIdle
  <2> QED
    BY <2>1, <2>2
<1>23. CASE UNCHANGED vars
  BY <1>23 DEF vars, TypeOK, LockInv, OpeningEmpty, PoolInjective, HoldInv,
      VictimInv, DoomedInv, DyingOurs, PooledNotClosed, NoLeak, Dying, Pooled
<1> QED
  BY <1>1, <1>2, <1>3, <1>4, <1>5, <1>6, <1>7, <1>8, <1>9, <1>10, <1>11, <1>12,
     <1>13, <1>14, <1>15, <1>16, <1>17, <1>18, <1>19, <1>20, <1>21, <1>22,
     <1>23
  DEF Next, Start, Step, Reaper, Exit, World

-----------------------------------------------------------------------------
(* Every step keeps the count of a connection's users.                     *)

\* What most steps do to the count: nothing.
Undisturbed ==
  \A c \in Conns : link'[c] \in {"up", "dead"} =>
    /\ link[c] \in {"up", "dead"}
    /\ inUse'[c] = inUse[c]
    /\ Users(c)' = Users(c)

LEMMA UsersFinite ==
  ASSUME NEW c PROVE IsFiniteSet(Users(c)) /\ Cardinality(Users(c)) \in Nat
<1>1. Users(c) \in SUBSET Threads
  BY DEF Users, Holders
<1> QED
  BY <1>1, FS_Subset, FS_CardinalityType, PoolAssumption

\* One thread more or less uses the transport it holds.
LEMMA OneMore ==
  ASSUME NEW c, NEW t, t \notin Users(c), Users(c)' = Users(c) \cup {t}
  PROVE  Cardinality(Users(c)') = Cardinality(Users(c)) + 1
  BY UsersFinite, FS_AddElement

LEMMA OneLess ==
  ASSUME NEW c, NEW t, t \in Users(c), Users(c)' = Users(c) \ {t}
  PROVE  /\ Cardinality(Users(c)') = Cardinality(Users(c)) - 1
         /\ Cardinality(Users(c)) > 0
<1>1. Cardinality(Users(c)') = Cardinality(Users(c)) - 1
  BY UsersFinite, FS_RemoveElement
<1>2. Cardinality(Users(c)) # 0
  BY UsersFinite, FS_EmptySet
<1> QED
  BY <1>1, <1>2, UsersFinite

\* The release of a transport by a thread that used it, at Leave or Retry.
LEMMA ReleaseStep ==
  ASSUME TypeOK, InUseExact, NEW t \in Threads, conn[t] \in Conns,
         t \in Users(conn[t]), Unmark(t), UNCHANGED link,
         \A c \in Conns : Users(c)' = Users(c) \ {t}
  PROVE  InUseExact'
<1> SUFFICES ASSUME NEW c \in Conns, link[c] \in {"up", "dead"}
             PROVE  inUse'[c] = Cardinality(Users(c)')
  BY DEF InUseExact
<1>1. CASE c = conn[t]
  <2>1. /\ Cardinality(Users(c)') = Cardinality(Users(c)) - 1
        /\ Cardinality(Users(c)) > 0
    BY <1>1, OneLess
  <2>2. inUse[c] = Cardinality(Users(c)) /\ inUse[c] \in Nat
    BY DEF InUseExact, TypeOK
  <2> QED
    BY <1>1, <2>1, <2>2 DEF Unmark, TypeOK
<1>2. CASE c # conn[t]
  <2>1. Users(c)' = Users(c)
    BY <1>2 DEF Users, Holders
  <2> QED
    BY <1>2, <2>1 DEF Unmark, TypeOK, InUseExact
<1> QED
  BY <1>1, <1>2

LEMMA CountStep == ASSUME IInv, [Next]_vars PROVE InUseExact'
<1> USE PoolAssumption
    DEF IInv, OwnInv, regVars, connVars, callVars, reapVars, procVars
<1>0. Undisturbed => InUseExact'
  BY DEF Undisturbed, InUseExact
<1>1. ASSUME NEW t \in Threads, NEW k \in Keys, NEW kd \in {"retry", "once"}, Call(t, k, kd) PROVE InUseExact'
  <2>1. Undisturbed
    BY <1>1 DEF Undisturbed, Users, Holders, TypeOK, HoldInv, Goto, Call
  <2> QED
    BY <1>0, <2>1
<1>2. ASSUME NEW t \in Threads, GetHit(t) PROVE InUseExact'
  <2>1. Undisturbed
    BY <1>2 DEF Undisturbed, Users, Holders, TypeOK, Goto, GetHit
  <2> QED
    BY <1>0, <2>1
<1>3. ASSUME NEW t \in Threads, GetMiss(t) PROVE InUseExact'
  <2>1. Undisturbed
    BY <1>3 DEF Undisturbed, Users, Holders, TypeOK, Goto, GetMiss
  <2> QED
    BY <1>0, <2>1
<1>4. ASSUME NEW t \in Threads, NEW c \in Conns, OpenOk(t, c) PROVE InUseExact'
  <2>1. Users(c)' = {} /\ inUse'[c] = 0
    BY <1>4 DEF OpenOk, Unreferenced, Users, Holders, TypeOK, Goto
  <2>2. ASSUME NEW d \in Conns, d # c
        PROVE  /\ link'[d] = link[d] /\ inUse'[d] = inUse[d]
               /\ Users(d)' = Users(d)
    BY <1>4, <2>2 DEF OpenOk, Users, Holders, TypeOK, Goto
  <2> QED
    BY <2>1, <2>2, FS_EmptySet DEF InUseExact
<1>5. ASSUME NEW t \in Threads, OpenFail(t) PROVE InUseExact'
  <2>1. Undisturbed
    BY <1>5 DEF Undisturbed, Users, Holders, TypeOK, Goto, OpenFail
  <2> QED
    BY <1>0, <2>1
<1>6. ASSUME NEW t \in Threads, MarkBusy(t) PROVE InUseExact'
  <2>1. conn[t] \in Conns /\ UNCHANGED link
    BY <1>6 DEF MarkBusy, HoldInv
  <2>2. \A d \in Conns : t \notin Users(d)
    BY <1>6 DEF MarkBusy, Users
  <2>3. \A d \in Conns :
          Users(d)' = IF d = conn[t] THEN Users(d) \cup {t} ELSE Users(d)
    BY <1>6 DEF MarkBusy, Users, Holders, TypeOK, Goto
  <2> SUFFICES ASSUME NEW d \in Conns, link[d] \in {"up", "dead"}
               PROVE  inUse'[d] = Cardinality(Users(d)')
    BY <2>1 DEF InUseExact
  <2>4. CASE d = conn[t]
    <3>1. Cardinality(Users(d)') = Cardinality(Users(d)) + 1
      BY <2>2, <2>3, <2>4, OneMore
    <3>2. inUse'[d] = inUse[d] + 1
      BY <1>6, <2>4 DEF MarkBusy, TypeOK
    <3> QED
      BY <3>1, <3>2 DEF InUseExact
  <2>5. CASE d # conn[t]
    BY <1>6, <2>3, <2>5 DEF MarkBusy, TypeOK, InUseExact
  <2> QED
    BY <2>4, <2>5
<1>7. ASSUME NEW t \in Threads, Finish(t) PROVE InUseExact'
  <2>1. Undisturbed
    BY <1>7 DEF Undisturbed, Users, Holders, TypeOK, Goto, Finish
  <2> QED
    BY <1>0, <2>1
<1>8. ASSUME NEW t \in Threads, Raise(t) PROVE InUseExact'
  <2>1. Undisturbed
    BY <1>8 DEF Undisturbed, Users, Holders, TypeOK, Goto, Raise
  <2> QED
    BY <1>0, <2>1
<1>9. ASSUME NEW t \in Threads, Break(t) PROVE InUseExact'
  <2>1. Undisturbed
    BY <1>9 DEF Undisturbed, Users, Holders, TypeOK, Goto, Break
  <2> QED
    BY <1>0, <2>1
<1>10. ASSUME NEW t \in Threads, DropPop(t) PROVE InUseExact'
  <2>1. Undisturbed
    BY <1>10 DEF Undisturbed, Users, Holders, TypeOK, Goto, AfterDrop, DropPop
  <2> QED
    BY <1>0, <2>1
<1>11. ASSUME NEW t \in Threads, DropClose(t) PROVE InUseExact'
  <2>1. Undisturbed
    BY <1>11 DEF Undisturbed, Users, Holders, TypeOK, VictimInv, Goto,
      AfterDrop, DropClose
  <2> QED
    BY <1>0, <2>1
<1>12. ASSUME NEW t \in Threads, Leave(t) PROVE InUseExact'
  <2>1. conn[t] \in Conns /\ t \in Users(conn[t])
    BY <1>12 DEF Leave, HoldInv, Users, Holders
  <2>2. \A c \in Conns : Users(c)' = Users(c) \ {t}
    BY <1>12 DEF Leave, Users, Holders, TypeOK, Goto
  <2>3. Unmark(t) /\ UNCHANGED link
    BY <1>12 DEF Leave
  <2> QED
    BY <2>1, <2>2, <2>3, ReleaseStep
<1>13. ASSUME NEW t \in Threads, Retry(t) PROVE InUseExact'
  <2>1. conn[t] \in Conns /\ t \in Users(conn[t])
    BY <1>13 DEF Retry, HoldInv, Users, Holders
  <2>2. \A c \in Conns : Users(c)' = Users(c) \ {t}
    BY <1>13 DEF Retry, Users, Holders, TypeOK, Goto
  <2>3. Unmark(t) /\ UNCHANGED link
    BY <1>13 DEF Retry
  <2> QED
    BY <2>1, <2>2, <2>3, ReleaseStep
<1>14. ASSUME NEW t \in Threads, NEW k \in Keys, ProbeDrop(t, k) PROVE InUseExact'
  <2>1. Undisturbed
    BY <1>14 DEF Undisturbed, Users, Holders, TypeOK, HoldInv, Goto, ProbeDrop
  <2> QED
    BY <1>0, <2>1
<1>15. ASSUME ReapSelect PROVE InUseExact'
  <2>1. Undisturbed
    BY <1>15 DEF Undisturbed, Users, Holders, ReapSelect
  <2> QED
    BY <1>0, <2>1
<1>16. ASSUME NEW k \in Keys, ReapPop(k) PROVE InUseExact'
  <2>1. Undisturbed
    BY <1>16 DEF Undisturbed, Users, Holders, ReapPop
  <2> QED
    BY <1>0, <2>1
<1>17. ASSUME ReapClose PROVE InUseExact'
  <2>1. Undisturbed
    BY <1>17 DEF Undisturbed, Users, Holders, TypeOK, ReapClose
  <2> QED
    BY <1>0, <2>1
<1>18. ASSUME CloseAll PROVE InUseExact'
  <2>1. Undisturbed
    BY <1>18 DEF Undisturbed, Users, Holders, CloseAll
  <2> QED
    BY <1>0, <2>1
<1>19. ASSUME NEW c \in Conns, CloseDoomed(c) PROVE InUseExact'
  <2>1. Undisturbed
    BY <1>19 DEF Undisturbed, Users, Holders, TypeOK, CloseDoomed
  <2> QED
    BY <1>0, <2>1
<1>20. ASSUME NEW t \in Threads, Fork(t) PROVE InUseExact'
  <2>1. Undisturbed
    BY <1>20 DEF Undisturbed, Users, Holders, TypeOK, Fork
  <2> QED
    BY <1>0, <2>1
<1>21. ASSUME NEW c \in Conns, Die(c) PROVE InUseExact'
  <2>1. Undisturbed
    BY <1>21 DEF Undisturbed, Users, Holders, TypeOK, Die
  <2> QED
    BY <1>0, <2>1
<1>22. ASSUME NEW c \in Conns, GoIdle(c) PROVE InUseExact'
  <2>1. Undisturbed
    BY <1>22 DEF Undisturbed, Users, Holders, GoIdle
  <2> QED
    BY <1>0, <2>1
<1>23. CASE UNCHANGED vars
  <2>1. Undisturbed
    BY <1>23 DEF vars, Undisturbed, Users, Holders
  <2> QED
    BY <1>0, <2>1
<1> QED
  BY <1>1, <1>2, <1>3, <1>4, <1>5, <1>6, <1>7, <1>8, <1>9, <1>10, <1>11, <1>12,
     <1>13, <1>14, <1>15, <1>16, <1>17, <1>18, <1>19, <1>20, <1>21, <1>22,
     <1>23
  DEF Next, Start, Step, Reaper, Exit, World

-----------------------------------------------------------------------------
(* The theorems.                                                           *)

\* The inductive invariant holds in every reachable state.
THEOREM Invariance == Spec => []IInv
<1>1. IInv /\ [Next]_vars => IInv'
  BY OwnStep, CountStep DEF IInv
<1> QED
  BY InitInv, <1>1, PTL DEF Spec

\* The variables of the pool keep their types.
THEOREM TypeCorrect == Spec => []TypeOK
  BY Invariance, PTL DEF IInv, OwnInv

\* in_use counts the callers between their two _mark calls exactly, so that
\* _select_stale never takes an idle transport for busy or the reverse.
THEOREM InUseIsExact == Spec => []InUseExact
  BY Invariance, PTL DEF IInv

\* No connection that is up is lost by drop, retry, reaper or close_all.
THEOREM NothingLeaks == Spec => []NoLeak
  BY Invariance, PTL DEF IInv, OwnInv

\* What registry.get may hand out is open and nobody is about to close it.
THEOREM PoolIsOpen == Spec => []PooledNotClosed
  BY Invariance, PTL DEF IInv, OwnInv

\* Concurrent first openers of a key authenticate once.
THEOREM AuthenticatesOnce == Spec => []AuthOnce
<1>1. IInv => AuthOnce
  BY DEF IInv, OwnInv, AuthOnce, LockInv, OpeningEmpty, TypeOK
<1> QED
  BY Invariance, <1>1, PTL

\* reset_after_fork: the child never touches its parent's connections.
THEOREM ParentSafe == Spec => ParentConnsKept
<1> DEFINE Kept == \A c \in Conns : link[c] = "foreign" => link'[c] = "foreign"
<1>1. ASSUME IInv, [Next]_vars PROVE Kept
  <2> USE <1>1, PoolAssumption
      DEF IInv, OwnInv, regVars, connVars, callVars, reapVars, procVars
  <2>1. ASSUME NEW t \in Threads, GetMiss(t) PROVE Kept
    BY <2>1 DEF GetMiss, TypeOK, PooledNotClosed
  <2>2. ASSUME NEW t \in Threads, NEW c \in Conns, OpenOk(t, c) PROVE Kept
    BY <2>2 DEF OpenOk, TypeOK, Unreferenced
  <2>3. ASSUME NEW t \in Threads, DropClose(t) PROVE Kept
    BY <2>3 DEF DropClose, TypeOK, DyingOurs, Dying, VictimInv
  <2>4. ASSUME ReapClose PROVE Kept
    BY <2>4 DEF ReapClose, TypeOK, DyingOurs, Dying
  <2>5. ASSUME NEW c \in Conns, CloseDoomed(c) PROVE Kept
    BY <2>5 DEF CloseDoomed, TypeOK, DyingOurs, Dying
  <2>6. ASSUME NEW t \in Threads, Fork(t) PROVE Kept
    BY <2>6 DEF Fork
  <2>7. ASSUME NEW c \in Conns, Die(c) PROVE Kept
    BY <2>7 DEF Die, TypeOK
  <2>8. ASSUME UNCHANGED link PROVE Kept
    BY <2>8
  <2> QED
    BY <2>1, <2>2, <2>3, <2>4, <2>5, <2>6, <2>7, <2>8
    DEF Next, Start, Step, Reaper, Exit, World, vars, Call, GetHit, OpenFail,
      MarkBusy, Finish, Raise, Break, DropPop, Leave, Retry, ProbeDrop,
      ReapSelect, ReapPop, CloseAll, GoIdle
<1>2. IInv /\ [Next]_vars => [Kept]_vars
  BY <1>1
<1> QED
  BY Invariance, <1>2, PTL DEF Spec, ParentConnsKept

-----------------------------------------------------------------------------
(* Discovery.                                                              *)

Met == {"ok", "refused", "timeout", "rejected", "unresolved"}
Sayings == {"ok", "refused", "incomplete", "children"}
Marks == {"name", "type", "version", "status_running", "status_qualified", "status_recovery", "recovery_mode",
          "active_ncc", "serial_1", "serial_2", "gi_version", "mgmt0", "partial_match"}
DvReplies ==
  [status : {"none", "ok", "invalid", "error", "timeout", "connect_error"},
   state : {"none", "running", "running_degraded", "recovery", "gi", "unknown", "unreachable"},
   hint : {"none", "register", "maybe_recovery", "path", "syntax", "restart"}, warned : BOOLEAN]
DvRecs ==
  [pc : {"ask", "dial", "get", "run", "done"}, lines : Seq(DvLineSet), step : Nat, try : {1, 2}, attempt : 1..DvAttempts,
   met : Seq(Met), live : BOOLEAN, instead : BOOLEAN, logged : {"none", "recovered", "gave_up"}, reply : DvReplies]
Boxes == [phase : Phases, active : Controllers, troubles : 0..MaxDvTroubles, changed : 0..MaxDvTroubles]
Entries ==
  [line : DvLineSet, try : {1, 2}, said : Sayings, hit : BOOLEAN, marks : SUBSET Marks, rows : Seq(Neighbour),
   phase : Phases]

AtWork(d) == d.pc \in {"dial", "get", "run"}

\* Where the call is: what it has to type, and what it has typed.
WorkOK(k, d, sh) ==
  /\ d.reply = NoReply
  /\ d.pc = "ask" => sh = <<>> /\ ~d.instead /\ d.try = 1 /\ d.step = 1 /\ ~d.live /\ d.attempt = 1 /\ d.met = <<>>
  /\ AtWork(d) =>
       /\ DvValid(k) /\ d.step \in DOMAIN d.lines
       /\ ~d.instead => d.lines = DvLines(k)
       /\ d.instead => d.lines = <<Parent(k.lines[1])>>
       /\ k.tool \notin Many \cup {"probe"} => d.step = 1 /\ (~d.instead => sh = <<>>)
       /\ k.tool = "probe" => (d.step = 1 <=> sh = <<>>) /\ Outputs(sh, "lldp") = {}

\* The parent is typed for a path whose own line was found incomplete.
InsteadOK(k, d, sh) ==
  d.instead =>
    /\ k.tool = "show_config" /\ k.lines # <<>> /\ HasParent(k.lines[1])
    /\ sh # <<>> /\ sh[1].line = k.lines[1] /\ sh[1].said = "incomplete"

\* Each line is one of the call's, or the parent.
AskedOK(k, d, sh) ==
  \A i \in DOMAIN sh :
    \/ sh[i].line \in {DvLines(k)[n] : n \in DOMAIN DvLines(k)} /\ LineValid(k.tool, sh[i].line)
    \/ /\ k.tool = "show_config" /\ d.instead
       /\ sh[i].line.tokens = k.lines[1].tokens - 1 /\ sh[i].line.tokens >= 3
       /\ \E j \in 1..(i - 1) : sh[j].line = k.lines[1] /\ sh[j].said = "incomplete"

\* What the marks of show system tell of the phase they were printed in.
SystemSaid(e) ==
  /\ Mode(e.marks) = "gi" \/ GiInventory(e.marks) # {} => e.phase = "gi"
  /\ Mode(e.marks) = "operational" => e.phase \in {"up", "degraded", "recovery"}
  /\ "type" \in e.marks => "name" \in e.marks
  /\ e.hit /\ e.said = "ok" /\ e.phase = "up" => NccSerials(e.marks) = {"serial_1", "serial_2"}
StateSaid(e) ==
  e.hit /\ e.said = "ok" =>
    /\ e.phase \in PhaseOf(State(e.marks))
    /\ (State(e.marks) = "recovery" \/ Mode(e.marks) = "gi") = (e.phase \in {"recovery", "gi"})

\* Of a probe: its first output is of show system, one at most of LLDP.
SpokenOK(k, sh) ==
  k.tool = "probe" /\ sh # <<>> =>
    /\ SystemSaid(sh[1])
    /\ \A i, j \in Outputs(sh, "lldp") : i = j

\* The lines of the last try of a batch stand behind those of the first, in
\* the order they were asked in.
LastTry(k, d, sh, n) ==
  /\ \A i \in DOMAIN sh : sh[i].try = d.try <=> i > n
  /\ \A i \in (n + 1)..Len(sh) : i - n \in DOMAIN k.lines /\ sh[i].line = k.lines[i - n]
BatchOK(k, d, sh) ==
  k.tool \in Many =>
    /\ ~d.instead /\ d.pc # "get"
    /\ \A i \in DOMAIN sh : sh[i].try <= d.try
    /\ \E n \in 0..Len(sh) :
         /\ LastTry(k, d, sh, n)
         /\ AtWork(d) => Len(sh) - n = d.step - 1
         /\ d.reply.status = "ok" => Len(sh) - n = Len(k.lines)

\* The box stays up and can be reached.
Firm(k, b) ==
  /\ b.changed = 0 /\ b.phase # "booting" /\ k.creds /\ k.where \notin {"unknown", "unresolved"}
  /\ b.active \in Candidates(k)

\* Where the box is firm the active controller fails by a fault alone, once
\* in each sweep.
SweepOK(k, d, b) ==
  /\ d.pc # "done" => Len(d.met) < Cardinality(Candidates(k))
  /\ Len(d.met) <= Cardinality(Candidates(k))
  /\ d.pc \in {"get", "run"} /\ b.changed = 0 => d.live
  /\ d.pc = "dial" /\ b.changed = 0 => d.step = 1
  /\ d.pc = "dial" /\ Firm(k, b) =>
       /\ b.troubles >= d.attempt - 1
       /\ b.active \in DOMAIN d.met => d.met[b.active] = "timeout" /\ b.troubles >= d.attempt
  /\ d.reply.status = "connect_error" => ~Firm(k, b) \/ b.troubles >= DvAttempts

\* What an answer says of what was read.
ToldOK(k, d, sh) ==
  /\ d.reply.status = "connect_error" => sh = <<>> \/ k.tool \in {"probe"} \cup Many \/ d.instead
  /\ d.reply.status = "invalid" => sh = <<>>
  /\ d.reply.status = "ok" /\ sh # <<>> /\ k.tool = "show_config" =>
       d.reply.warned = (sh[Len(sh)].line # k.lines[1])
  /\ d.reply.status = "ok" /\ k.tool = "system" =>
       /\ sh[Len(sh)].phase \in PhaseOf(d.reply.state)
       /\ d.reply.warned = (sh[Len(sh)].phase \in {"recovery", "gi"})
  /\ d.reply.status \in {"error", "connect_error"} /\ k.tool = "probe" /\ sh # <<>> =>
       "name" \notin sh[1].marks /\ ~k.allow

DvTyped(d, b, sh) == d \in DvRecs /\ b \in Boxes /\ b.changed <= b.troubles /\ sh \in Seq(Entries)
CallOK(k, d, b, sh) ==
  /\ d.pc # "done" => WorkOK(k, d, sh)
  /\ InsteadOK(k, d, sh) /\ AskedOK(k, d, sh) /\ SpokenOK(k, sh) /\ BatchOK(k, d, sh)
  /\ SweepOK(k, d, b) /\ ToldOK(k, d, sh)

\* The inductive invariant.
DvInv == dvJob \in DvSettings /\ DvTyped(dv, dvBox, dvShown) /\ CallOK(dvJob, dv, dvBox, dvShown)

\* The controllers are counted from 1, and a call knows the first or all.
LEMMA Controlled ==
  ASSUME NEW k
  PROVE  /\ Controllers = 1..Len(DvHosts) /\ Len(DvHosts) \in Nat \ {0}
         /\ Cardinality(Candidates(k)) \in 1..Len(DvHosts)
         /\ Candidates(k) = 1..Cardinality(Candidates(k))
<1>1. DvHosts \in Seq({DvHosts[i] : i \in DOMAIN DvHosts}) /\ DvHosts # <<>>
  BY DvAssumption
<1>2. Controllers = 1..Len(DvHosts) /\ Len(DvHosts) \in Nat \ {0}
  BY <1>1 DEF Controllers
<1>3. Cardinality(1..Len(DvHosts)) = Len(DvHosts)
  BY <1>2, FS_Interval
<1>4. Cardinality({1}) = 1
  BY FS_Singleton, Zenon
<1>5. {1} = 1..1
  OBVIOUS
<1>6. CASE k.where = "device"
  <2>1. Candidates(k) = 1..Len(DvHosts)
    BY <1>2, <1>6 DEF Candidates, Controllers
  <2>2. Cardinality(Candidates(k)) = Len(DvHosts)
    BY <1>3, <2>1, Zenon
  <2> QED
    BY <1>2, <2>1, <2>2
<1>7. CASE k.where # "device"
  <2>1. Candidates(k) = {1}
    BY <1>7 DEF Candidates
  <2>2. Cardinality(Candidates(k)) = 1
    BY <1>4, <2>1, Zenon
  <2> QED
    BY <1>2, <1>5, <2>1, <2>2
<1> QED
  BY <1>6, <1>7

\* The commands of a probe.
LEMMA ProbeLinesAre ==
  ASSUME NEW k
  PROVE  /\ ProbeLines(k) \in Seq(DvLineSet) /\ Len(ProbeLines(k)) \in {2, 3}
         /\ ProbeLines(k)[1] = SystemLine /\ ProbeLines(k)[2] = Management
<1>1. SystemLine \in DvLineSet /\ Management \in DvLineSet /\ Neighbors \in DvLineSet
  BY DEF SystemLine, Management, Neighbors, DvLine, DvLineSet, Verbs
<1>2. CASE k.locate
  <2>1. \A s, t \in Seq(DvLineSet) :
          /\ s \o t \in Seq(DvLineSet) /\ Len(s \o t) = Len(s) + Len(t)
          /\ \A i \in 1..(Len(s) + Len(t)) : (s \o t)[i] = IF i <= Len(s) THEN s[i] ELSE t[i - Len(s)]
    BY ONLY ConcatProperties, Zenon
  <2>2. PICK s, t : s = <<SystemLine, Management>> /\ t = <<Neighbors>>
    OBVIOUS
  <2>3. /\ s \in Seq(DvLineSet) /\ Len(s) = 2 /\ s[1] = SystemLine /\ s[2] = Management
        /\ t \in Seq(DvLineSet) /\ Len(t) = 1
    BY <1>1, <2>2
  <2>4. ProbeLines(k) = s \o t
    BY <1>2, <2>2 DEF ProbeLines
  <2>5. PICK u : u = s \o t
    OBVIOUS
  <2>6. /\ u \in Seq(DvLineSet) /\ Len(u) = Len(s) + Len(t)
        /\ \A i \in 1..(Len(s) + Len(t)) : u[i] = IF i <= Len(s) THEN s[i] ELSE t[i - Len(s)]
    <3>1. s \in Seq(DvLineSet) /\ t \in Seq(DvLineSet)
      BY <2>3
    <3> QED
      BY ONLY <2>1, <2>5, <3>1, Zenon
  <2>7. u \in Seq(DvLineSet) /\ Len(u) = 3 /\ u[1] = SystemLine /\ u[2] = Management
    BY ONLY <2>3, <2>6
  <2> QED
    BY <2>4, <2>5, <2>7
<1>3. CASE ~k.locate
  <2>1. ProbeLines(k) = <<SystemLine, Management>>
    BY <1>1, <1>3 DEF ProbeLines
  <2> QED
    BY <1>1, <2>1
<1> QED
  BY <1>2, <1>3

\* What the setting of a behaviour is.
LEMMA Setting ==
  ASSUME NEW k \in DvSettings
  PROVE  /\ k.tool \in DvTools /\ k.lines \in Seq(DvLineSet) /\ k.phases \subseteq Phases
         /\ k.creds \in BOOLEAN /\ k.allow \in BOOLEAN /\ k.changes \in Nat
         /\ k.tool = "system" => k.lines = <<SystemLine>>
         /\ DvLines(k) \in Seq(DvLineSet)
BY DvAssumption, ProbeLinesAre DEF DvLines

\* Attempts and troubles are counted.
LEMMA Bounds == DvAttempts \in Nat /\ DvAttempts >= 1 /\ MaxDvTroubles \in Nat
BY DvAssumption

\* What show system prints tells its phase, also cut short: the type and the
\* version of a box that runs come before what an installer prints.
MarksTell(phase, m, r) ==
  /\ r \subseteq Marks
  /\ Mode(r) = "gi" \/ GiInventory(r) # {} => phase = "gi"
  /\ Mode(r) = "operational" => phase \in {"up", "degraded", "recovery"}
  /\ "type" \in r => "name" \in r
  /\ r = m /\ phase = "up" => NccSerials(r) = {"serial_1", "serial_2"}
  /\ r = m => phase \in PhaseOf(State(r))
  /\ r = m => (State(r) = "recovery" \/ Mode(r) = "gi" <=> phase \in {"recovery", "gi"})

\* The lines of each phase do so.
LEMMA SystemMarks ==
  ASSUME NEW phase \in Phases, NEW m \in SystemPrints(phase), NEW r \in {m \ Inventory, {}, m}
  PROVE  MarksTell(phase, m, r)
<1>1. CASE phase = "up"
  <2>1. /\ {"name", "type", "version", "status_running", "serial_1", "serial_2"} \subseteq m
        /\ m \subseteq {"name", "type", "version", "status_running", "serial_1", "serial_2", "active_ncc"}
    BY <1>1 DEF SystemPrints
  <2>2. r \subseteq m /\ "gi_version" \notin r /\ (r = {} \/ {"name", "type", "version"} \subseteq r)
    BY <2>1 DEF Inventory
  <2>3. Mode(r) = IF r = {} THEN "unknown" ELSE "operational"
    BY <2>1, <2>2 DEF Mode
  <2>4. r = m => State(r) = "running" /\ Mode(r) = "operational"
    BY <2>1, <2>3 DEF State, Mode
  <2>5. r \subseteq Marks
    BY <2>1, <2>2 DEF Marks
  <2>6. r = m => NccSerials(r) = {"serial_1", "serial_2"}
    BY <2>1 DEF NccSerials
  <2> QED
    BY <1>1, <2>1, <2>2, <2>3, <2>4, <2>5, <2>6 DEF MarksTell, PhaseOf, GiInventory
<1>2. CASE phase = "degraded"
  <2>1. m = {"name", "type", "version", "status_qualified", "serial_1"}
    BY <1>2 DEF SystemPrints
  <2>2. r \subseteq m /\ "gi_version" \notin r /\ (r = {} \/ {"name", "type", "version"} \subseteq r)
    BY <2>1 DEF Inventory
  <2>3. Mode(r) = IF r = {} THEN "unknown" ELSE "operational"
    BY <2>1, <2>2 DEF Mode
  <2>4. r = m => State(r) = "running_degraded" /\ Mode(r) = "operational"
    BY <2>1, <2>3 DEF State, Mode
  <2>5. r \subseteq Marks
    BY <2>1, <2>2 DEF Marks
  <2> QED
    BY <1>2, <2>1, <2>2, <2>3, <2>4, <2>5 DEF MarksTell, PhaseOf, GiInventory
<1>3. CASE phase = "recovery"
  <2>1. m \in {{"status_recovery", "version"}, {"name", "type", "status_running", "recovery_mode"}}
    BY <1>3 DEF SystemPrints
  <2>2. /\ r \subseteq m /\ "gi_version" \notin r /\ "active_ncc" \notin r
        /\ r = {} \/ r = m
    BY <2>1 DEF Inventory
  <2>3. Mode(r) = IF r = {} THEN "unknown" ELSE "operational"
    BY <2>1, <2>2 DEF Mode
  <2>4. r = m => State(r) = "recovery" /\ Mode(r) = "operational"
    BY <2>1, <2>3 DEF State, Mode
  <2>5. r \subseteq Marks
    BY <2>1, <2>2 DEF Marks
  <2> QED
    BY <1>3, <2>1, <2>2, <2>3, <2>4, <2>5 DEF MarksTell, PhaseOf, GiInventory
<1>4. CASE phase = "gi"
  <2>1. m \in {{"status_running", "active_ncc", "serial_1", "gi_version"}, {"status_running", "gi_version"}}
    BY <1>4 DEF SystemPrints
  <2>2. /\ r \subseteq m /\ "type" \notin r /\ "version" \notin r /\ "name" \notin r
        /\ "recovery_mode" \notin m /\ "status_recovery" \notin m
    BY <2>1 DEF Inventory
  <2>3. Mode(r) \in {"gi", "unknown"} /\ (r = m => Mode(r) = "gi")
    BY <2>1, <2>2 DEF Mode
  <2>4. r = m => State(r) = "gi"
    BY <2>1, <2>3 DEF State, Mode
  <2>5. r \subseteq Marks
    BY <2>1, <2>2 DEF Marks
  <2> QED
    BY <1>4, <2>1, <2>2, <2>3, <2>4, <2>5 DEF MarksTell, PhaseOf, GiInventory
<1>5. CASE phase = "booting"
  <2>1. m \in {{"status_running"}, {}}
    BY <1>5 DEF SystemPrints
  <2>2. r \subseteq {"status_running"}
    BY <2>1 DEF Inventory
  <2>3. Mode(r) = "unknown"
    BY <2>1, <2>2 DEF Mode
  <2>4. State(r) = "unknown"
    BY <2>1, <2>3 DEF State, Mode
  <2>5. r \subseteq Marks
    BY <2>1, <2>2 DEF Marks
  <2>6. GiInventory(r) = {}
    BY <2>2 DEF GiInventory
  <2> QED
    BY <1>5, <2>1, <2>2, <2>3, <2>4, <2>5, <2>6 DEF MarksTell, PhaseOf, GiInventory
<1> QED
  BY <1>1, <1>2, <1>3, <1>4, <1>5 DEF Phases

\* A set of numbers that is not empty has a least.
LEMMA LeastIs ==
  ASSUME NEW S \in SUBSET Nat, S # {}
  PROVE  Least(S) \in S /\ \A y \in S : Least(S) <= y
<1> DEFINE Less == {p \in Nat \X Nat : p[1] < p[2]}
<1>1. IsWellFoundedOn(Less, Nat)
  <2>1. OpToRel(<, Nat) = Less
    BY DEF OpToRel
  <2> QED
    BY <2>1, NatLessThanWellFounded
<1>2. PICK x \in S : \A y \in S : ~(<<y, x>> \in Less)
  BY ONLY <1>1, S \in SUBSET Nat, S # {}, WFMin
<1>3. ASSUME NEW y \in S PROVE x <= y
  <2>1. x \in Nat /\ y \in Nat /\ ~(<<y, x>> \in Less)
    BY <1>2
  <2>2. ~(y < x)
    BY <2>1
  <2> QED
    BY <2>1, <2>2
<1> QED
  BY <1>2, <1>3, Zenon DEF Least

\* A set of one element at most.
LEMMA AlikeIf ==
  ASSUME NEW S, IsFiniteSet(S), ~(Cardinality(S) > 1), NEW x \in S, NEW y \in S
  PROVE  x = y
<1>1. CASE x # y
  <2>1. Cardinality({x, y}) = 2
    <3>1. Cardinality({x}) = 1 /\ IsFiniteSet({x})
      BY FS_Singleton, Zenon
    <3>2. Cardinality({x} \cup {y}) = Cardinality({x}) + 1
      BY <1>1, <3>1, FS_AddElement
    <3>3. {x} \cup {y} = {x, y}
      OBVIOUS
    <3> QED
      BY <3>1, <3>2, <3>3
  <2>2. Cardinality({x, y}) <= Cardinality(S)
    <3>1. {x, y} \in SUBSET S
      OBVIOUS
    <3> QED
      BY <3>1, FS_Subset, Zenon
  <2>3. Cardinality(S) \in Nat
    BY FS_CardinalityType, Zenon
  <2> QED
    BY <2>1, <2>2, <2>3
<1> QED
  BY <1>1

\* The rows of a table and their racks.
LEMMA TableRows ==
  ASSUME NEW t \in Seq(Neighbour)
  PROVE  /\ MgmtRows(t) \subseteq DOMAIN t /\ DOMAIN t \subseteq Nat
         /\ \A n \in DOMAIN t : t[n].rack \in Nat /\ t[n].named \in BOOLEAN /\ t[n].mgmt \in BOOLEAN
         /\ LeafRacks(t) \subseteq Nat \ {0} /\ IsFiniteSet(LeafRacks(t))
<1>1. /\ DOMAIN t = 1..Len(t) /\ Len(t) \in Nat
      /\ \A n \in DOMAIN t : t[n].rack \in Nat /\ t[n].named \in BOOLEAN /\ t[n].mgmt \in BOOLEAN
  <2>1. DOMAIN t = 1..Len(t) /\ Len(t) \in Nat /\ \A n \in 1..Len(t) : t[n] \in Neighbour
    OBVIOUS
  <2>2. \A row \in Neighbour : row.rack \in Nat /\ row.named \in BOOLEAN /\ row.mgmt \in BOOLEAN
    BY ONLY DEF Neighbour
  <2> QED
    BY ONLY <2>1, <2>2
<1>2. LeafRacks(t) \subseteq Nat \ {0}
  BY <1>1 DEF LeafRacks, LldpRows
<1>3. IsFiniteSet(LeafRacks(t))
  <2> DEFINE Racks == {t[n].rack : n \in 1..Len(t)}
  <2>1. IsFiniteSet(Racks)
    <3>1. IsFiniteSet(1..Len(t))
      <4>1. 1 \in Int /\ Len(t) \in Int
        BY <1>1
      <4> QED
        BY ONLY <4>1, FS_Interval, Zenon
    <3>2. PICK f : f \in Surjection(1..Len(t), Racks)
      <4>1. [n \in 1..Len(t) |-> t[n].rack] \in Surjection(1..Len(t), Racks)
        BY DEF Surjection
      <4> QED
        BY <4>1
    <3> QED
      BY ONLY <3>1, <3>2, FS_Surjection
  <2>2. LeafRacks(t) \in SUBSET Racks
    BY <1>1 DEF LeafRacks, LldpRows
  <2> HIDE DEF Racks
  <2> QED
    BY <2>1, <2>2, FS_Subset, Zenon
<1> QED
  BY <1>1, <1>2, <1>3 DEF MgmtRows, LldpRows

\* The rack of a box is the one of all its neighbours, or there is a warning.
LEMMA LocationTells ==
  ASSUME NEW t \in Seq(Neighbour)
  PROVE  LET counted == {n \in DOMAIN t :
                           /\ t[n].named /\ t[n].rack # 0
                           /\ \A m \in 1..(n - 1) : ~(t[m].named /\ t[m].mgmt /\ t[n].mgmt)} IN
         /\ ~Location(t).warned => \A n \in counted : t[n].rack = Location(t).rack
         /\ counted = {} <=> Location(t).rack = 0
<1> DEFINE counted == {n \in DOMAIN t :
                         /\ t[n].named /\ t[n].rack # 0
                         /\ \A m \in 1..(n - 1) : ~(t[m].named /\ t[m].mgmt /\ t[n].mgmt)}
<1>1. /\ MgmtRows(t) \subseteq DOMAIN t /\ DOMAIN t = 1..Len(t) /\ Len(t) \in Nat
      /\ \A n \in DOMAIN t : t[n].rack \in Nat /\ t[n].named \in BOOLEAN /\ t[n].mgmt \in BOOLEAN
      /\ LeafRacks(t) \subseteq Nat \ {0} /\ IsFiniteSet(LeafRacks(t))
  BY TableRows
<1>2. \A n \in DOMAIN t : n \in MgmtRows(t) <=> t[n].named /\ t[n].mgmt
  BY DEF MgmtRows, LldpRows
<1>3. \A r : r \in LeafRacks(t) <=> r # 0 /\ \E n \in DOMAIN t : t[n].named /\ ~t[n].mgmt /\ t[n].rack = r
  BY DEF LeafRacks, MgmtRows, LldpRows
<1>4. MgmtRows(t) # {} =>
        /\ Least(MgmtRows(t)) \in MgmtRows(t) /\ \A n \in MgmtRows(t) : Least(MgmtRows(t)) <= n
        /\ MgmtRack(t) = t[Least(MgmtRows(t))].rack
  BY <1>1, LeastIs DEF MgmtRack
<1>5. MgmtRows(t) = {} => MgmtRack(t) = 0
  BY DEF MgmtRack
<1>6. IF LeafRacks(t) = {} THEN LeafRack(t) = 0 ELSE LeafRack(t) \in LeafRacks(t)
  BY <1>1, LeastIs DEF LeafRack
<1>7. /\ Location(t).rack = IF MgmtRack(t) # 0 THEN MgmtRack(t) ELSE LeafRack(t)
      /\ Location(t).warned =
           (Cardinality(LeafRacks(t)) > 1 \/ (MgmtRack(t) # 0 /\ LeafRack(t) \notin {0, MgmtRack(t)}))
  BY DEF Location
\* A counted row is a leaf, or the first of the management switches.
<1>8. \A n \in DOMAIN t : ~t[n].mgmt => (n \in counted <=> t[n].named /\ t[n].rack # 0)
  BY <1>1
<1>9. ASSUME NEW n \in DOMAIN t, t[n].mgmt
      PROVE  n \in counted <=> MgmtRows(t) # {} /\ n = Least(MgmtRows(t)) /\ MgmtRack(t) # 0
  <2>1. ASSUME n \in counted PROVE MgmtRows(t) # {} /\ n = Least(MgmtRows(t)) /\ MgmtRack(t) # 0
    <3>1. n \in MgmtRows(t)
      BY <1>2, <1>9, <2>1
    <3>2. PICK f : f = Least(MgmtRows(t))
      OBVIOUS
    <3>3. f \in DOMAIN t /\ t[f].named /\ t[f].mgmt /\ f <= n /\ MgmtRack(t) = t[f].rack
      BY <1>1, <1>2, <1>4, <3>1, <3>2
    <3>4. ~(f < n)
      BY <1>1, <1>9, <2>1, <3>3
    <3>5. f = n
      BY <1>1, <3>3, <3>4
    <3> QED
      BY <2>1, <3>1, <3>2, <3>3, <3>5
  <2>2. ASSUME MgmtRows(t) # {}, n = Least(MgmtRows(t)), MgmtRack(t) # 0 PROVE n \in counted
    <3>1. t[n].named /\ t[n].rack # 0
      BY <1>2, <1>4, <2>2
    <3>2. ASSUME NEW m \in 1..(n - 1), t[m].named, t[m].mgmt PROVE FALSE
      <4>1. m \in DOMAIN t /\ m < n
        BY <1>1
      <4>2. m \in MgmtRows(t)
        BY <1>2, <3>2, <4>1
      <4> QED
        BY <1>1, <1>4, <2>2, <4>1, <4>2
    <3> QED
      BY <3>1, <3>2
  <2> QED
    BY <2>1, <2>2
<1>10. ASSUME ~Location(t).warned, NEW n \in counted PROVE t[n].rack = Location(t).rack
  <2>1. n \in DOMAIN t /\ t[n].named /\ t[n].rack # 0
    OBVIOUS
  <2>2. CASE t[n].mgmt
    BY <1>4, <1>7, <1>9, <2>1, <2>2
  <2>3. CASE ~t[n].mgmt
    <3>1. t[n].rack \in LeafRacks(t) /\ LeafRack(t) \in LeafRacks(t)
      BY <1>3, <1>6, <2>1, <2>3
    <3>2. ~(Cardinality(LeafRacks(t)) > 1) /\ ~(MgmtRack(t) # 0 /\ LeafRack(t) \notin {0, MgmtRack(t)})
      BY <1>7, <1>10
    <3>3. t[n].rack = LeafRack(t) /\ LeafRack(t) # 0
      BY <1>1, <3>1, <3>2, AlikeIf
    <3> QED
      BY <1>7, <3>2, <3>3
  <2> QED
    BY <1>1, <2>1, <2>2, <2>3
<1>11. counted = {} <=> Location(t).rack = 0
  <2>1. ASSUME NEW n \in counted PROVE Location(t).rack # 0
    <3>1. n \in DOMAIN t /\ t[n].named /\ t[n].rack # 0
      OBVIOUS
    <3>2. CASE t[n].mgmt
      BY <1>7, <1>9, <3>1, <3>2
    <3>3. CASE ~t[n].mgmt
      <4>1. LeafRack(t) \in LeafRacks(t)
        BY <1>3, <1>6, <3>1, <3>3
      <4> QED
        BY <1>1, <1>7, <4>1
    <3> QED
      BY <1>1, <3>1, <3>2, <3>3
  <2>2. ASSUME Location(t).rack # 0 PROVE counted # {}
    <3>1. CASE MgmtRack(t) # 0
      BY <1>1, <1>2, <1>4, <1>5, <1>9, <3>1
    <3>2. CASE MgmtRack(t) = 0
      <4>1. LeafRack(t) \in LeafRacks(t)
        BY <1>6, <1>7, <2>2, <3>2
      <4> QED
        BY <1>1, <1>3, <1>8, <4>1
    <3> QED
      BY <3>1, <3>2
  <2> HIDE DEF counted
  <2> QED
    BY <2>1, <2>2
<1> QED
  BY <1>10, <1>11

\* What the box prints for show system.
LEMMA SystemPrinted ==
  ASSUME dvJob.tool \in {"system", "probe"}, NEW p \in Prints(SystemLine)
  PROVE  \/ \E m \in SystemPrints(dvBox.phase) : p = Printed("ok", m)
         \/ p = Printed("refused", {})
<1>1. Prints(SystemLine) = PrintsBesides(SystemLine)
  BY DEF Prints, SystemLine, DvLine
<1>2. PrintsBesides(SystemLine) = {Printed("ok", m) : m \in SystemPrints(dvBox.phase)} \cup {Printed("refused", {})}
  BY DEF PrintsBesides, Crawlers
<1> QED
  BY <1>1, <1>2

\* The marks of a phase are marks.
LEMMA MarksAre ==
  ASSUME NEW phase \in Phases, NEW m \in SystemPrints(phase)
  PROVE  m \subseteq Marks
<1>1. MarksTell(phase, m, m)
  BY ONLY m \in SystemPrints(phase), phase \in Phases, SystemMarks
<1> QED
  BY <1>1 DEF MarksTell

\* What a box prints is of one of the forms below.
LEMMA PrintedAre ==
  ASSUME dvJob \in DvSettings, dvBox \in Boxes, NEW line \in DvLineSet, NEW p \in Prints(line)
  PROVE  \E said \in Sayings, m \in SUBSET Marks, t \in Seq(Neighbour) :
           p = [said |-> said, marks |-> m, rows |-> t]
<1>1. dvBox.phase \in Phases
  BY DEF Boxes
<1>2. <<>> \in Seq(Neighbour) /\ {} \in SUBSET Marks
  OBVIOUS
<1>3. ASSUME NEW said \in Sayings, NEW m \in SUBSET Marks, p = Printed(said, m)
      PROVE  \E q \in Sayings, n \in SUBSET Marks, t \in Seq(Neighbour) : p = [said |-> q, marks |-> n, rows |-> t]
  BY <1>2, <1>3, Zenon DEF Printed
<1>4. CASE line.verb = "management"
  <2>1. PICK m \in {{"mgmt0"}, {}} : p = Printed("ok", m)
    BY <1>4 DEF Prints
  <2>2. m \in SUBSET Marks /\ "ok" \in Sayings
    BY <2>1 DEF Marks, Sayings
  <2> QED
    BY <1>3, <2>1, <2>2
<1>5. CASE line.verb = "lldp"
  <2>1. PICK t \in DvTables : p = [Printed("ok", {}) EXCEPT !.rows = t]
    BY <1>5 DEF Prints
  <2>2. t \in Seq(Neighbour)
    BY <2>1, DvAssumption
  <2>3. p = [said |-> "ok", marks |-> {}, rows |-> t]
    BY <2>1 DEF Printed
  <2> QED
    BY <1>2, <2>2, <2>3 DEF Sayings
<1>6. CASE line.verb \notin {"management", "lldp"}
  <2>1. p \in PrintsBesides(line)
    BY <1>6 DEF Prints
  <2>2. CASE dvJob.tool \in {"system", "probe"}
    <3>1. \/ \E m \in SystemPrints(dvBox.phase) : p = Printed("ok", m)
          \/ p = Printed("refused", {})
      BY <2>1, <2>2 DEF PrintsBesides, Crawlers
    <3>2. "ok" \in Sayings /\ "refused" \in Sayings
      BY DEF Sayings
    <3> QED
      BY <1>1, <1>2, <1>3, <3>1, <3>2, MarksAre
  <2>3. CASE dvJob.tool \in Crawlers
    <3>1. p = Printed("children", {})
      BY <2>1, <2>3 DEF PrintsBesides, Crawlers
    <3> QED
      BY <1>2, <1>3, <3>1 DEF Sayings
  <2>4. CASE dvJob.tool = "cmd_help"
    <3>1. PICK m \in {{}, {"partial_match"}} : p = Printed("ok", m)
      BY <2>1, <2>4 DEF PrintsBesides, Crawlers
    <3>2. m \in SUBSET Marks /\ "ok" \in Sayings
      BY <3>1 DEF Marks, Sayings
    <3> QED
      BY <1>3, <3>1, <3>2
  <2>5. CASE dvJob.tool \notin {"system", "probe", "cmd_help"} \cup Crawlers
    <3>1. PICK q \in {"ok", "refused", "incomplete"} : p = Printed(q, {})
      BY <2>1, <2>5 DEF PrintsBesides, Crawlers
    <3> QED
      BY <1>2, <1>3, <3>1 DEF Sayings
  <2> QED
    BY <2>2, <2>3, <2>4, <2>5
<1> QED
  BY <1>4, <1>5, <1>6

\* What is kept of a line that was typed, and what that tells.
EntryOf(e, line, try, p, read, hit) ==
  /\ read \in {[p EXCEPT !.marks = @ \ Inventory], Printed(p.said, {}), p}
  /\ e = [line |-> line, try |-> try, said |-> p.said, hit |-> hit,
          marks |-> read.marks, rows |-> read.rows, phase |-> dvBox.phase]
  /\ hit => read = p
EntryTells(e, line, try) ==
  /\ e \in Entries /\ e.line = line /\ e.try = try
  /\ dvJob.tool \in {"system", "probe"} /\ line = SystemLine =>
       SystemSaid(e) /\ StateSaid(e) /\ e.said \in {"ok", "refused"}
\* What is read of a line, and what it tells if it is show system's.
LEMMA EntryIs ==
  ASSUME dvJob \in DvSettings, dvBox \in Boxes, NEW line \in DvLineSet, NEW p \in Prints(line),
         NEW read, NEW hit \in BOOLEAN, NEW try \in {1, 2}, NEW e, EntryOf(e, line, try, p, read, hit)
  PROVE  EntryTells(e, line, try)
<1>0. /\ read \in {[p EXCEPT !.marks = @ \ Inventory], Printed(p.said, {}), p} /\ (hit => read = p)
      /\ e = [line |-> line, try |-> try, said |-> p.said, hit |-> hit,
              marks |-> read.marks, rows |-> read.rows, phase |-> dvBox.phase]
  BY DEF EntryOf
<1>1. PICK said \in Sayings, m \in SUBSET Marks, t \in Seq(Neighbour) : p = [said |-> said, marks |-> m, rows |-> t]
  BY PrintedAre
<1>2. p.said = said /\ p.marks = m /\ p.rows = t
  BY <1>1
<1>3. PICK x, y : x = read.marks /\ y = read.rows
  OBVIOUS
<1>4. x \in {m \ Inventory, {}, m} /\ y \in {t, <<>>} /\ (hit => x = m)
  BY <1>0, <1>1, <1>2, <1>3 DEF Printed
<1>5. x \in SUBSET Marks /\ y \in Seq(Neighbour)
  <2>1. <<>> \in Seq(Neighbour)
    OBVIOUS
  <2>2. x \subseteq m
    BY <1>4
  <2> QED
    BY <1>4, <2>1, <2>2
<1>6. dvBox.phase \in Phases
  BY DEF Boxes
<1>7. PICK ph : ph = dvBox.phase
  OBVIOUS
<1>8. e = [line |-> line, try |-> try, said |-> said, hit |-> hit, marks |-> x, rows |-> y, phase |-> ph]
  BY ONLY <1>0, <1>2, <1>3, <1>7
<1>9. /\ e \in Entries /\ e.line = line /\ e.try = try /\ e.hit = hit /\ e.said = said /\ e.marks = x
      /\ e.phase = ph
  BY ONLY <1>5, <1>6, <1>7, <1>8, line \in DvLineSet, try \in {1, 2}, hit \in BOOLEAN, said \in Sayings DEF Entries
<1>10. ASSUME dvJob.tool \in {"system", "probe"}, line = SystemLine
       PROVE  SystemSaid(e) /\ StateSaid(e) /\ e.said \in {"ok", "refused"}
  <2>1. \/ said = "ok" /\ m \in SystemPrints(ph)
        \/ said = "refused" /\ m = {}
    BY <1>2, <1>7, <1>10, SystemPrinted DEF Printed
  <2>2. CASE said = "ok" /\ m \in SystemPrints(ph)
    <3>1. MarksTell(ph, m, x)
      <4>1. ph \in Phases /\ m \in SystemPrints(ph) /\ x \in {m \ Inventory, {}, m}
        BY <1>4, <1>6, <1>7, <2>2
      <4> QED
        BY ONLY <4>1, SystemMarks
    <3>2. SystemSaid(e)
      BY <1>4, <1>9, <3>1 DEF SystemSaid, MarksTell
    <3>3. ASSUME e.hit
          PROVE  /\ ph \in PhaseOf(State(x))
                 /\ (State(x) = "recovery" \/ Mode(x) = "gi") = (ph \in {"recovery", "gi"})
      <4>1. State(x) = "recovery" \/ Mode(x) = "gi" <=> ph \in {"recovery", "gi"}
        BY <1>4, <1>9, <3>1, <3>3 DEF MarksTell
      <4>2. (State(x) = "recovery" \/ Mode(x) = "gi") = (ph \in {"recovery", "gi"})
        BY ONLY <4>1
      <4> QED
        BY <1>4, <1>9, <3>1, <3>3, <4>2 DEF MarksTell
    <3>4. StateSaid(e)
      BY ONLY <1>9, <3>3 DEF StateSaid
    <3> QED
      BY <1>9, <2>2, <3>2, <3>4
  <2>3. CASE said = "refused" /\ m = {}
    <3>1. x = {}
      BY <1>4, <2>3
    <3>2. Mode(x) = "unknown" /\ GiInventory(x) = {}
      BY <3>1 DEF Mode, GiInventory
    <3> QED
      BY <1>9, <2>3, <3>1, <3>2 DEF SystemSaid, StateSaid
  <2> QED
    BY <2>1, <2>2, <2>3
<1> QED
  BY <1>9, <1>10 DEF EntryTells

\* An answer ends the call; what the parent of a path printed is marked.
Answered(d, n, q) ==
  /\ n \in DvRecs /\ n.pc = "done" /\ n.try = d.try /\ n.instead = d.instead /\ n.met = d.met
  /\ n.reply.status = q.status /\ n.reply.state = q.state /\ n.reply.warned = (q.warned \/ d.instead)
LEMMA Answering ==
  ASSUME dv \in DvRecs, NEW q \in DvReplies, DvReply(q)
  PROVE  Answered(dv, dv', q)
<1>1. PICK d, n : d = dv /\ n = dv'
  OBVIOUS
<1>2. PICK a : a = [q EXCEPT !.warned = q.warned \/ d.instead]
  OBVIOUS
<1>3. d \in DvRecs /\ d.instead \in BOOLEAN /\ q.warned \in BOOLEAN
  <2>1. d \in DvRecs
    BY <1>1
  <2>2. d.instead \in BOOLEAN
    BY ONLY <2>1 DEF DvRecs
  <2>3. q.warned \in BOOLEAN
    BY ONLY q \in DvReplies DEF DvReplies
  <2> QED
    BY <2>1, <2>2, <2>3
<1>4. PICK w \in BOOLEAN : w = (q.warned \/ d.instead)
  BY <1>3
<1>5. a = [q EXCEPT !.warned = w]
  BY ONLY <1>2, <1>4
<1>6. a \in DvReplies /\ a.status = q.status /\ a.state = q.state /\ a.warned = w
  BY ONLY <1>5, q \in DvReplies, w \in BOOLEAN DEF DvReplies
<1>7. n = [d EXCEPT !.pc = "done", !.reply = a]
  BY <1>1, <1>2 DEF DvReply
<1>8. /\ n \in DvRecs /\ n.pc = "done" /\ n.try = d.try /\ n.instead = d.instead /\ n.met = d.met
      /\ n.reply = a
  BY ONLY <1>3, <1>6, <1>7 DEF DvRecs
<1> QED
  BY <1>1, <1>4, <1>6, <1>8 DEF Answered

\* The answers are of their type.
LEMMA RepliesAre ==
  ASSUME NEW status \in {"none", "ok", "invalid", "error", "timeout", "connect_error"},
         NEW state \in {"none", "running", "running_degraded", "recovery", "gi", "unknown", "unreachable"},
         NEW hint \in {"none", "register", "maybe_recovery", "path", "syntax", "restart"}, NEW warned \in BOOLEAN
  PROVE  /\ Replied(status, state, hint, warned) \in DvReplies
         /\ Replied(status, state, hint, warned).status = status
         /\ Replied(status, state, hint, warned).state = state
         /\ Replied(status, state, hint, warned).warned = warned
BY DEF Replied, DvReplies

\* A call that is over: what its answer says must be so, and no more.
LEMMA Over ==
  ASSUME NEW k, NEW n, NEW b, NEW sh, n.pc = "done",
         InsteadOK(k, n, sh), AskedOK(k, n, sh), SpokenOK(k, sh), BatchOK(k, n, sh), ToldOK(k, n, sh),
         Len(n.met) <= Cardinality(Candidates(k)),
         n.reply.status = "connect_error" => ~Firm(k, b) \/ b.troubles >= DvAttempts
  PROVE  CallOK(k, n, b, sh)
BY DEF CallOK, SweepOK

\* The lines that were typed stay what they were.
LEMMA StillAsked ==
  ASSUME NEW k, NEW d, NEW n, NEW sh, AskedOK(k, d, sh), d.instead => n.instead
  PROVE  AskedOK(k, n, sh)
BY DEF AskedOK

\* So does the line whose parent is read.
LEMMA StillInstead ==
  ASSUME NEW k, NEW d, NEW n, NEW sh, InsteadOK(k, d, sh), n.instead => d.instead
  PROVE  InsteadOK(k, n, sh)
BY DEF InsteadOK

\* A call that is over before anything was typed.
LEMMA OverUnread ==
  ASSUME NEW k, NEW n, NEW b, n.pc = "done", ~n.instead,
         n.reply.status = "ok" => k.tool \notin Many \cup {"system"},
         Len(n.met) <= Cardinality(Candidates(k)),
         n.reply.status = "connect_error" => ~Firm(k, b) \/ b.troubles >= DvAttempts
  PROVE  CallOK(k, n, b, <<>>)
<1>1. Len(<<>>) = 0 /\ DOMAIN <<>> = {}
  OBVIOUS
<1>2. InsteadOK(k, n, <<>>) /\ AskedOK(k, n, <<>>) /\ SpokenOK(k, <<>>)
  BY <1>1 DEF InsteadOK, AskedOK, SpokenOK
<1>3. ToldOK(k, n, <<>>)
  BY DEF ToldOK
<1>4. BatchOK(k, n, <<>>)
  <2>1. LastTry(k, n, <<>>, 0)
    BY <1>1 DEF LastTry
  <2> QED
    BY <1>1, <2>1 DEF BatchOK, AtWork
<1> QED
  BY <1>2, <1>3, <1>4, Over

\* A call that is not over has no answer.
LEMMA NoAnswer == NoReply.status = "none"
BY DEF NoReply

\* Before the first line.
LEMMA AskStep ==
  ASSUME DvInv, DvAsk
  PROVE  DvInv'
<1>1. PICK k, d, n : k = dvJob /\ d = dv /\ n = dv'
  OBVIOUS
<1>2. /\ d.pc = "ask" /\ d \in DvRecs /\ k \in DvSettings /\ dvBox \in Boxes /\ CallOK(k, d, dvBox, dvShown)
      /\ dvJob' = k /\ dvBox' = dvBox /\ dvShown' = dvShown
  BY <1>1 DEF DvInv, DvTyped, DvAsk
<1>0. <<>> \in Seq(Entries) /\ dvBox.changed <= dvBox.troubles
  BY DEF DvInv, DvTyped
<1>3. /\ dvShown = <<>> /\ ~d.instead /\ d.try = 1 /\ d.step = 1 /\ ~d.live /\ d.attempt = 1 /\ d.met = <<>>
      /\ d.reply = NoReply
  BY <1>2 DEF CallOK, WorkOK
<1>4. Cardinality(Candidates(k)) \in Nat /\ Cardinality(Candidates(k)) >= 1 /\ Len(d.met) = 0
  BY <1>3, Controlled
<1>5. ASSUME NEW q \in DvReplies, DvReply(q), q.status = "ok" => k.tool = "cmd_help",
             q.status = "connect_error" => k.where = "unknown"
      PROVE  n \in DvRecs /\ CallOK(k, n, dvBox, <<>>)
  <2>1. Answered(d, n, q)
    BY <1>1, <1>2, <1>5, Answering
  <2>2. n \in DvRecs /\ n.pc = "done" /\ ~n.instead /\ n.reply.status = q.status /\ n.met = d.met
    BY <1>3, <2>1 DEF Answered
  <2>3. q.status = "ok" => k.tool \notin Many \cup {"system"}
    BY <1>5 DEF Many
  <2>4. q.status = "connect_error" => ~Firm(k, dvBox)
    BY <1>5 DEF Firm
  <2> QED
    BY <1>4, <2>2, <2>3, <2>4, OverUnread
<1>6. CASE ~DvValid(k)
  <2>1. PICK q : q = Replied("invalid", "none", "none", FALSE)
    OBVIOUS
  <2>2. DvReply(q)
    BY <1>1, <1>6, <2>1 DEF DvAsk
  <2>3. q \in DvReplies /\ q.status = "invalid"
    BY ONLY <2>1 DEF Replied, DvReplies
  <2>4. n \in DvRecs /\ CallOK(k, n, dvBox, <<>>)
    BY <1>5, <1>6, <2>2, <2>3
  <2> QED
    BY ONLY <1>1, <1>2, <1>3, <2>4, <1>0 DEF DvInv, DvTyped
<1>7. CASE DvValid(k) /\ k.tool = "cmd_help" /\ ToolName(k.lines[1])
  <2>1. PICK q : q = Replied("ok", "none", "none", TRUE)
    OBVIOUS
  <2>2. DvReply(q)
    BY <1>1, <1>7, <2>1 DEF DvAsk
  <2>3. q \in DvReplies /\ q.status = "ok"
    BY ONLY <2>1 DEF Replied, DvReplies
  <2>4. n \in DvRecs /\ CallOK(k, n, dvBox, <<>>)
    BY <1>5, <1>7, <2>2, <2>3
  <2> QED
    BY ONLY <1>1, <1>2, <1>3, <2>4, <1>0 DEF DvInv, DvTyped
<1>8. CASE DvValid(k) /\ ~(k.tool = "cmd_help" /\ ToolName(k.lines[1])) /\ k.where = "unknown"
  <2>1. PICK q : q = Replied("connect_error", "unreachable", "register", FALSE)
    OBVIOUS
  <2>2. DvReply(q)
    BY <1>1, <1>8, <2>1 DEF DvAsk
  <2>3. q \in DvReplies /\ q.status = "connect_error"
    BY ONLY <2>1 DEF Replied, DvReplies
  <2>4. n \in DvRecs /\ CallOK(k, n, dvBox, <<>>)
    BY <1>5, <1>8, <2>2, <2>3
  <2> QED
    BY ONLY <1>1, <1>2, <1>3, <2>4, <1>0 DEF DvInv, DvTyped
<1>9. CASE DvValid(k) /\ ~(k.tool = "cmd_help" /\ ToolName(k.lines[1])) /\ k.where # "unknown"
  <2>1. PICK ls : ls = DvLines(k)
    OBVIOUS
  <2>2. n = [d EXCEPT !.pc = "dial", !.lines = ls]
    BY <1>1, <1>9, <2>1 DEF DvAsk
  <2>3. ls \in Seq(DvLineSet) /\ 1 \in DOMAIN ls
    <3>1. ls \in Seq(DvLineSet) /\ Len(ls) # 0
      <4>1. CASE k.tool = "probe"
        BY <2>1, <4>1, ProbeLinesAre DEF DvLines
      <4>2. CASE k.tool # "probe"
        BY <1>2, <1>9, <2>1, <4>2, Setting DEF DvLines, DvValid, BatchValid
      <4> QED
        BY <4>1, <4>2
    <3> QED
      BY <3>1
  <2>4. /\ n \in DvRecs /\ n.pc = "dial" /\ n.lines = ls /\ n.step = d.step /\ n.try = d.try
        /\ n.attempt = d.attempt /\ n.met = d.met /\ n.live = d.live /\ n.instead = d.instead /\ n.reply = d.reply
    BY ONLY <1>2, <2>2, <2>3 DEF DvRecs
  <2>5. Len(<<>>) = 0 /\ DOMAIN <<>> = {}
    OBVIOUS
  <2>6. WorkOK(k, n, <<>>)
    BY <1>3, <1>9, <2>1, <2>3, <2>4, <2>5 DEF WorkOK, AtWork, Outputs
  <2>11. n.reply.status = "none" /\ ~n.instead
    BY ONLY <1>3, <2>4, NoAnswer
  <2>7. InsteadOK(k, n, <<>>) /\ AskedOK(k, n, <<>>) /\ SpokenOK(k, <<>>) /\ ToldOK(k, n, <<>>)
    <3>1. ToldOK(k, n, <<>>)
      BY ONLY <2>11 DEF ToldOK
    <3>2. InsteadOK(k, n, <<>>) /\ AskedOK(k, n, <<>>) /\ SpokenOK(k, <<>>)
      BY ONLY <2>5, <2>11 DEF InsteadOK, AskedOK, SpokenOK
    <3> QED
      BY <3>1, <3>2
  <2>8. BatchOK(k, n, <<>>)
    <3>1. LastTry(k, n, <<>>, 0)
      BY <2>5 DEF LastTry
    <3> QED
      BY ONLY <1>3, <2>4, <2>5, <2>11, <3>1 DEF BatchOK, AtWork
  <2>9. SweepOK(k, n, dvBox)
    <3>1. dvBox.troubles \in Nat
      BY <1>2, Bounds DEF Boxes
    <3>2. DOMAIN n.met = {} /\ Len(n.met) = 0
      BY <1>3, <2>4, <2>5
    <3> QED
      BY ONLY <1>3, <1>4, <2>4, <2>11, <3>1, <3>2 DEF SweepOK
  <2>10. CallOK(k, n, dvBox, <<>>)
    BY <2>6, <2>7, <2>8, <2>9 DEF CallOK
  <2> QED
    BY <1>1, <1>2, <1>3, <2>4, <2>10 DEF DvInv, DvTyped
<1> QED
  BY <1>6, <1>7, <1>8, <1>9

\* The connection is alive, or it was lost.
LEMMA GetStep ==
  ASSUME DvInv, DvGet
  PROVE  DvInv'
<1>1. PICK k, d, n : k = dvJob /\ d = dv /\ n = dv'
  OBVIOUS
<1>2. /\ d.pc = "get" /\ d \in DvRecs /\ k \in DvSettings /\ dvBox \in Boxes /\ CallOK(k, d, dvBox, dvShown)
      /\ dvJob' = k /\ dvBox' = dvBox /\ dvShown' = dvShown /\ dvShown \in Seq(Entries)
      /\ \/ n = [d EXCEPT !.pc = "run"]
         \/ ~d.live /\ n = [d EXCEPT !.pc = "dial", !.attempt = 1, !.met = <<>>]
  BY <1>1 DEF DvInv, DvTyped, DvGet
<1>3. /\ WorkOK(k, d, dvShown) /\ InsteadOK(k, d, dvShown) /\ AskedOK(k, d, dvShown) /\ SpokenOK(k, dvShown)
      /\ BatchOK(k, d, dvShown) /\ SweepOK(k, d, dvBox) /\ ToldOK(k, d, dvShown)
  BY <1>2 DEF CallOK
<1>4. /\ n \in DvRecs /\ n.pc \in {"run", "dial"} /\ n.lines = d.lines /\ n.step = d.step /\ n.try = d.try
      /\ n.live = d.live /\ n.instead = d.instead /\ n.reply = d.reply
      /\ n.pc = "run" => n.met = d.met
      /\ n.pc = "dial" => n.met = <<>> /\ ~d.live
  <2>1. <<>> \in Seq(Met) /\ 1 \in 1..DvAttempts
    BY Bounds
  <2> QED
    BY ONLY <1>2, <2>1 DEF DvRecs
<1>5. WorkOK(k, n, dvShown)
  BY <1>2, <1>3, <1>4 DEF WorkOK, AtWork
<1>6. InsteadOK(k, n, dvShown) /\ AskedOK(k, n, dvShown)
  BY <1>3, <1>4, StillAsked, StillInstead
<1>7. BatchOK(k, n, dvShown)
  BY <1>2, <1>3, <1>4 DEF BatchOK
<1>8. SweepOK(k, n, dvBox)
  <2>1. d.reply.status = "none"
    BY ONLY <1>2, <1>3, NoAnswer DEF WorkOK
  <2>2. Len(<<>>) = 0 /\ 1 <= Cardinality(Candidates(k)) /\ Cardinality(Candidates(k)) \in Nat
    BY Controlled
  <2> QED
    BY ONLY <1>2, <1>3, <1>4, <2>1, <2>2, Bounds DEF SweepOK, Firm, Boxes
<1>9. ToldOK(k, n, dvShown)
  BY <1>3, <1>4 DEF ToldOK
<1> QED
  BY <1>1, <1>2, <1>3, <1>4, <1>5, <1>6, <1>7, <1>8, <1>9 DEF DvInv, DvTyped, CallOK

\* The box changes and its connections break.
LEMMA ChangesStep ==
  ASSUME DvInv, DvChanges
  PROVE  DvInv'
<1>1. PICK k, d, n, b, c : k = dvJob /\ d = dv /\ n = dv' /\ b = dvBox /\ c = dvBox'
  OBVIOUS
<1>2. /\ d.pc \notin {"ask", "done"} /\ d \in DvRecs /\ k \in DvSettings /\ b \in Boxes
      /\ CallOK(k, d, b, dvShown) /\ dvJob' = k /\ dvShown' = dvShown /\ dvShown \in Seq(Entries)
      /\ n = [d EXCEPT !.live = FALSE] /\ b.troubles < MaxDvTroubles /\ b.changed < k.changes
  BY <1>1 DEF DvInv, DvTyped, DvChanges
<1>3. PICK phase \in Becomes(b.phase), active \in Controllers :
        c = [phase |-> phase, active |-> active, troubles |-> b.troubles + 1, changed |-> b.changed + 1]
  BY <1>1 DEF DvChanges
<1>4. phase \in Phases
  BY <1>2, <1>3 DEF Becomes, Phases, Boxes
<1>5. b.troubles \in Nat /\ b.changed \in Nat /\ b.changed <= b.troubles /\ MaxDvTroubles \in Nat
  <2>1. b.changed <= b.troubles
    BY <1>1 DEF DvInv, DvTyped
  <2> QED
    BY <1>2, <2>1, Bounds DEF Boxes
<1>6. c \in Boxes /\ c.changed <= c.troubles /\ c.changed # 0
  BY ONLY <1>2, <1>3, <1>4, <1>5 DEF Boxes
<1>7. /\ n \in DvRecs /\ n.pc = d.pc /\ n.lines = d.lines /\ n.step = d.step /\ n.try = d.try
      /\ n.attempt = d.attempt /\ n.met = d.met /\ ~n.live /\ n.instead = d.instead /\ n.reply = d.reply
  BY ONLY <1>2 DEF DvRecs
<1>8. d.reply.status = "none" /\ WorkOK(k, n, dvShown)
  <2>1. WorkOK(k, d, dvShown)
    BY <1>2 DEF CallOK
  <2> QED
    BY ONLY <1>2, <1>7, <2>1, NoAnswer DEF WorkOK, AtWork
<1>9. /\ InsteadOK(k, n, dvShown) /\ AskedOK(k, n, dvShown) /\ SpokenOK(k, dvShown)
      /\ BatchOK(k, n, dvShown) /\ ToldOK(k, n, dvShown)
  <2>1. InsteadOK(k, n, dvShown) /\ AskedOK(k, n, dvShown) /\ SpokenOK(k, dvShown)
    BY <1>2, <1>7, StillAsked, StillInstead DEF CallOK
  <2>2. BatchOK(k, n, dvShown)
    BY ONLY <1>2, <1>7 DEF CallOK, BatchOK, LastTry, AtWork
  <2>3. ToldOK(k, n, dvShown)
    BY ONLY <1>7, <1>8 DEF ToldOK
  <2> QED
    BY <2>1, <2>2, <2>3
<1>10. SweepOK(k, n, c)
  BY ONLY <1>2, <1>6, <1>7, <1>8 DEF CallOK, SweepOK, Firm
<1> QED
  BY <1>1, <1>2, <1>6, <1>7, <1>8, <1>9, <1>10 DEF DvInv, DvTyped, CallOK

\* The next step of a probe, or its end: its answer is an error only where
\* show system gave no name.
LEMMA Onward ==
  ASSUME dv \in DvRecs, NEW k \in DvSettings, k = dvJob, k.tool = "probe", NEW b, NEW sh \in Seq(Entries), sh # <<>>,
         DvValid(k), ~dv.instead, dv.lines = DvLines(k), dv.step \in DOMAIN dv.lines, dv.reply = NoReply,
         SpokenOK(k, sh), AskedOK(k, dv, sh), dv.step < Len(dv.lines) => Outputs(sh, "lldp") = {},
         Len(dv.met) < Cardinality(Candidates(k)), b.changed = 0 => dv.live, NextStep(sh)
  PROVE  dv' \in DvRecs /\ CallOK(k, dv', b, sh)
<1>1. PICK d, n : d = dv /\ n = dv'
  OBVIOUS
<1>2. /\ d \in DvRecs /\ d.lines = DvLines(k) /\ d.step \in DOMAIN d.lines /\ d.reply = NoReply /\ ~d.instead
      /\ Len(d.met) < Cardinality(Candidates(k)) /\ (b.changed = 0 => d.live)
      /\ d.step < Len(d.lines) => Outputs(sh, "lldp") = {}
  BY <1>1
<1>3. /\ d.lines \in Seq(DvLineSet) /\ d.step \in Nat /\ d.met \in Seq(Met)
      /\ d.step >= 1 /\ Len(d.lines) \in Nat /\ DOMAIN d.lines = 1..Len(d.lines)
  <2>1. d.lines \in Seq(DvLineSet) /\ d.step \in Nat /\ d.met \in Seq(Met)
    BY ONLY <1>2 DEF DvRecs
  <2> QED
    BY ONLY <1>2, <2>1
<1>4. Len(sh) # 0 /\ 1 \in DOMAIN sh /\ k.tool \notin Many
  BY DEF Many
<1>5. CASE d.step < Len(d.lines) /\ ProbeReply(sh).status = "ok"
  <2>1. PICK step \in Nat, one \in {1, 2} :
          step = d.step + 1 /\ n = [d EXCEPT !.pc = "get", !.step = step, !.try = one]
    <3>1. n = [d EXCEPT !.pc = "get", !.step = d.step + 1, !.try = 1]
      BY <1>1, <1>5 DEF NextStep
    <3>2. PICK step, one : step = d.step + 1 /\ one = 1
      OBVIOUS
    <3>3. step \in Nat /\ one \in {1, 2}
      BY ONLY <1>3, <3>2
    <3>4. n = [d EXCEPT !.pc = "get", !.step = step, !.try = one]
      BY ONLY <3>1, <3>2
    <3> QED
      BY ONLY <3>2, <3>3, <3>4, Zenon
  <2>2. /\ n \in DvRecs /\ n.pc = "get" /\ n.lines = d.lines /\ n.step = d.step + 1 /\ n.met = d.met
        /\ n.live = d.live /\ n.instead = d.instead /\ n.reply = d.reply
    BY ONLY <1>2, <1>3, <2>1 DEF DvRecs
  <2>3. WorkOK(k, n, sh)
    BY ONLY <1>2, <1>3, <1>4, <1>5, <2>2, DvValid(k), sh # <<>>, k.tool = "probe" DEF WorkOK, AtWork
  <2>4. InsteadOK(k, n, sh) /\ AskedOK(k, n, sh)
    BY <1>1, <1>2, <2>2, StillAsked DEF InsteadOK
  <2>5. n.reply.status = "none"
    BY ONLY <1>2, <2>2, NoAnswer
  <2>6. BatchOK(k, n, sh) /\ ToldOK(k, n, sh)
    BY ONLY <1>4, <2>5 DEF BatchOK, ToldOK
  <2>7. SweepOK(k, n, b)
    BY ONLY <1>2, <1>3, <2>2, <2>5, Controlled DEF SweepOK
  <2> QED
    BY <1>1, <2>2, <2>3, <2>4, <2>6, <2>7 DEF CallOK
<1>6. CASE ~(d.step < Len(d.lines) /\ ProbeReply(sh).status = "ok")
  <2>1. PICK q : q = ProbeReply(sh)
    OBVIOUS
  <2>2. q = Replied(IF "name" \in sh[1].marks \/ k.allow THEN "ok" ELSE "error", "none", "none", FALSE)
    BY <2>1 DEF ProbeReply
  <2>3. PICK status \in {"ok", "error"} :
          /\ q = Replied(status, "none", "none", FALSE)
          /\ status = "error" => "name" \notin sh[1].marks /\ ~k.allow
    BY <2>2
  <2>4. q \in DvReplies /\ q.status = status
    BY ONLY <2>3 DEF Replied, DvReplies
  <2>5. DvReply(q)
    BY <1>1, <1>6, <2>1 DEF NextStep
  <2>6. Answered(d, n, q)
    BY <1>1, <1>2, <2>4, <2>5, Answering
  <2>7. n \in DvRecs /\ n.pc = "done" /\ n.instead = d.instead /\ n.met = d.met /\ n.reply.status = status
    BY ONLY <2>4, <2>6 DEF Answered
  <2>8. InsteadOK(k, n, sh) /\ AskedOK(k, n, sh) /\ BatchOK(k, n, sh)
    BY <1>1, <1>2, <1>4, <2>7, StillAsked DEF InsteadOK, BatchOK
  <2>9. ToldOK(k, n, sh)
    BY ONLY <2>3, <2>7, k.tool = "probe" DEF ToldOK
  <2>10. Len(n.met) <= Cardinality(Candidates(k))
    BY <1>2, <1>3, <2>7, Controlled
  <2> QED
    BY <1>1, <2>7, <2>8, <2>9, <2>10, Over
<1> QED
  BY <1>5, <1>6

\* A try of the next controller.
LEMMA DialStep ==
  ASSUME DvInv, DvDial
  PROVE  DvInv'
<1>1. PICK k, d, n, b, c, sh : k = dvJob /\ d = dv /\ n = dv' /\ b = dvBox /\ c = dvBox' /\ sh = dvShown
  OBVIOUS
<1>2. /\ d.pc = "dial" /\ d \in DvRecs /\ k \in DvSettings /\ b \in Boxes /\ b.changed <= b.troubles
      /\ sh \in Seq(Entries) /\ dvJob' = k /\ dvShown' = sh
  BY <1>1 DEF DvInv, DvTyped, DvDial
<1>3. /\ WorkOK(k, d, sh) /\ InsteadOK(k, d, sh) /\ AskedOK(k, d, sh) /\ SpokenOK(k, sh)
      /\ BatchOK(k, d, sh) /\ SweepOK(k, d, b) /\ ToldOK(k, d, sh)
  BY <1>1, <1>2 DEF DvInv, CallOK
<1>4. PICK outcome, met :
        /\ outcome \in Outcomes(Len(d.met) + 1) \cup {"timeout"}
        /\ met = Append(d.met, outcome)
        /\ outcome \notin Outcomes(Len(met)) => b.troubles < MaxDvTroubles
        /\ c = IF outcome \notin Outcomes(Len(met)) THEN [b EXCEPT !.troubles = b.troubles + 1] ELSE b
        /\ IF outcome = "ok"
           THEN n = [d EXCEPT !.pc = "run", !.met = <<>>, !.live = TRUE,
                              !.logged = IF d.attempt > 1 THEN "recovered" ELSE d.logged]
           ELSE IF Len(met) < Cardinality(Candidates(k)) THEN n = [d EXCEPT !.met = met]
           ELSE IF Transient(met) /\ d.attempt < DvAttempts
                THEN n = [d EXCEPT !.met = <<>>, !.attempt = d.attempt + 1]
           ELSE IF Optional(k, d.step) THEN NextStep(sh)
           ELSE n = [d EXCEPT !.pc = "done", !.met = met, !.reply = [GaveUp(met) EXCEPT !.warned = d.instead],
                              !.logged = IF Transient(met) THEN "gave_up" ELSE d.logged]
  BY <1>1 DEF DvDial
<1>5. outcome \in Met
  BY <1>4 DEF Outcomes, Met
<1>6. /\ d.met \in Seq(Met) /\ d.attempt \in 1..DvAttempts /\ DvAttempts \in Nat /\ d.step \in Nat
      /\ Len(d.met) < Cardinality(Candidates(k)) /\ Cardinality(Candidates(k)) \in Nat
  <2>1. d.met \in Seq(Met) /\ d.attempt \in 1..DvAttempts /\ d.step \in Nat
    BY ONLY <1>2 DEF DvRecs
  <2> QED
    BY <1>2, <1>3, <2>1, Bounds, Controlled DEF SweepOK
<1>7. /\ met \in Seq(Met) /\ Len(met) = Len(d.met) + 1 /\ met[Len(met)] = outcome
      /\ \A i \in 1..Len(d.met) : met[i] = d.met[i]
      /\ DOMAIN met = 1..Len(met) /\ DOMAIN d.met = 1..Len(d.met) /\ Len(d.met) \in Nat
  BY ONLY <1>4, <1>5, <1>6
<1>8. /\ c \in Boxes /\ c.changed <= c.troubles /\ c.changed = b.changed /\ c.phase = b.phase /\ c.active = b.active
      /\ c.troubles \in Nat /\ b.troubles \in Nat /\ c.troubles >= b.troubles
      /\ outcome \notin Outcomes(Len(met)) => c.troubles = b.troubles + 1
  <2>1. b.troubles \in 0..MaxDvTroubles /\ b.changed \in Nat /\ MaxDvTroubles \in Nat
    BY <1>2, Bounds DEF Boxes
  <2>2. CASE outcome \notin Outcomes(Len(met))
    <3>1. c = [b EXCEPT !.troubles = b.troubles + 1] /\ b.troubles < MaxDvTroubles
      BY <1>4, <2>2
    <3> QED
      BY ONLY <1>2, <2>1, <3>1 DEF Boxes
  <2>3. CASE outcome \in Outcomes(Len(met))
    BY <1>2, <1>4, <2>1, <2>3
  <2> QED
    BY <2>2, <2>3
<1>9. Firm(k, c) <=> Firm(k, b)
  BY ONLY <1>8 DEF Firm
\* The active controller of a firm box fails by a fault.
<1>10. ASSUME Firm(k, b), outcome # "ok", Len(met) = b.active
       PROVE  outcome = "timeout" /\ c.troubles = b.troubles + 1
  <2>1. Outcomes(Len(met)) = {"ok"}
    BY <1>1, <1>10 DEF Outcomes, Firm
  <2> QED
    BY <1>4, <1>7, <1>8, <1>10, <2>1
<1>11. b.active \in Nat /\ b.active >= 1
  <2>1. b.active \in Controllers
    BY ONLY <1>2 DEF Boxes
  <2>2. Controllers = 1..Len(DvHosts) /\ Len(DvHosts) \in Nat
    BY Controlled
  <2> QED
    BY ONLY <2>1, <2>2
<1>12. ASSUME Firm(k, b), outcome # "ok", b.active <= Len(met)
       PROVE  met[b.active] = "timeout" /\ c.troubles >= d.attempt
  <2>1. /\ b.troubles >= d.attempt - 1
        /\ b.active \in DOMAIN d.met => d.met[b.active] = "timeout" /\ b.troubles >= d.attempt
    BY <1>2, <1>3, <1>12 DEF SweepOK
  <2>2. CASE b.active = Len(met)
    BY <1>6, <1>7, <1>8, <1>10, <1>12, <2>1, <2>2
  <2>3. CASE b.active # Len(met)
    <3>1. b.active \in 1..Len(d.met)
      BY ONLY <1>7, <1>11, <1>12, <2>3
    <3>2. d.met[b.active] = "timeout" /\ b.troubles >= d.attempt /\ met[b.active] = d.met[b.active]
      BY ONLY <1>7, <2>1, <3>1
    <3> QED
      BY ONLY <1>6, <1>8, <3>2
  <2> QED
    BY <2>2, <2>3
<1>13. d.reply = NoReply /\ d.reply.status = "none"
  BY ONLY <1>2, <1>3, NoAnswer DEF WorkOK
\* The call stays at work, with what it had.
<1>14. ASSUME n \in DvRecs, n.pc \in {"run", "dial"}, n.lines = d.lines, n.step = d.step, n.try = d.try,
              n.instead = d.instead, n.reply = d.reply, SweepOK(k, n, c)
       PROVE  DvInv'
  <2>1. WorkOK(k, n, sh)
    BY ONLY <1>2, <1>3, <1>14 DEF WorkOK, AtWork
  <2>2. InsteadOK(k, n, sh) /\ AskedOK(k, n, sh)
    BY <1>3, <1>14, StillAsked, StillInstead
  <2>3. BatchOK(k, n, sh)
    BY ONLY <1>2, <1>3, <1>14 DEF BatchOK, LastTry, AtWork
  <2>4. ToldOK(k, n, sh)
    BY ONLY <1>13, <1>14 DEF ToldOK
  <2>5. CallOK(k, n, c, sh)
    BY <1>3, <1>14, <2>1, <2>2, <2>3, <2>4 DEF CallOK
  <2> QED
    BY ONLY <1>1, <1>2, <1>8, <1>14, <2>5 DEF DvInv, DvTyped
<1>15. CASE outcome = "ok"
  <2>1. PICK logged \in {"none", "recovered", "gave_up"} :
          n = [d EXCEPT !.pc = "run", !.met = <<>>, !.live = TRUE, !.logged = logged]
    <3>1. d.logged \in {"none", "recovered", "gave_up"}
      BY ONLY <1>2 DEF DvRecs
    <3> QED
      BY <1>4, <1>15, <3>1
  <2>2. <<>> \in Seq(Met) /\ Len(<<>>) = 0
    OBVIOUS
  <2>3. /\ n \in DvRecs /\ n.pc = "run" /\ n.lines = d.lines /\ n.step = d.step /\ n.try = d.try
        /\ n.instead = d.instead /\ n.reply = d.reply /\ n.met = <<>> /\ n.live
    BY ONLY <1>2, <2>1, <2>2 DEF DvRecs
  <2>4. SweepOK(k, n, c)
    BY ONLY <1>6, <1>13, <2>2, <2>3 DEF SweepOK
  <2> QED
    BY <1>14, <2>3, <2>4
<1>16. CASE outcome # "ok" /\ Len(met) < Cardinality(Candidates(k))
  <2>1. n = [d EXCEPT !.met = met]
    BY <1>4, <1>16
  <2>2. /\ n \in DvRecs /\ n.pc = "dial" /\ n.lines = d.lines /\ n.step = d.step /\ n.try = d.try
        /\ n.instead = d.instead /\ n.reply = d.reply /\ n.met = met /\ n.attempt = d.attempt
    BY ONLY <1>2, <1>7, <2>1 DEF DvRecs
  <2>3. ASSUME Firm(k, c)
        PROVE  /\ c.troubles >= n.attempt - 1
               /\ c.active \in DOMAIN n.met => n.met[c.active] = "timeout" /\ c.troubles >= n.attempt
    <3>1. Firm(k, b) /\ b.troubles >= d.attempt - 1
      BY <1>2, <1>3, <1>9, <2>3 DEF SweepOK
    <3> QED
      BY <1>6, <1>7, <1>8, <1>12, <1>16, <2>2, <3>1
  <2>4. SweepOK(k, n, c)
    BY ONLY <1>2, <1>3, <1>6, <1>7, <1>8, <1>13, <1>16, <2>2, <2>3 DEF SweepOK
  <2> QED
    BY <1>14, <2>2, <2>4
<1>17. CASE outcome # "ok" /\ ~(Len(met) < Cardinality(Candidates(k))) /\ Transient(met) /\ d.attempt < DvAttempts
  <2>1. n = [d EXCEPT !.met = <<>>, !.attempt = d.attempt + 1]
    BY <1>4, <1>17
  <2>2. <<>> \in Seq(Met) /\ Len(<<>>) = 0 /\ DOMAIN <<>> = {} /\ d.attempt + 1 \in 1..DvAttempts
    BY <1>6, <1>17
  <2>3. /\ n \in DvRecs /\ n.pc = "dial" /\ n.lines = d.lines /\ n.step = d.step /\ n.try = d.try
        /\ n.instead = d.instead /\ n.reply = d.reply /\ n.met = <<>> /\ n.attempt = d.attempt + 1
    BY ONLY <1>2, <2>1, <2>2 DEF DvRecs
  <2>4. ASSUME Firm(k, c) PROVE c.troubles >= n.attempt - 1
    <3>1. Firm(k, b) /\ b.active <= Len(met)
      BY <1>6, <1>7, <1>9, <1>11, <1>17, <2>4, Controlled DEF Firm
    <3> QED
      BY <1>6, <1>8, <1>12, <1>17, <2>3, <3>1
  <2>5. SweepOK(k, n, c)
    BY ONLY <1>2, <1>3, <1>6, <1>8, <1>13, <2>2, <2>3, <2>4 DEF SweepOK
  <2> QED
    BY <1>14, <2>3, <2>5
<1>18. CASE /\ outcome # "ok" /\ ~(Len(met) < Cardinality(Candidates(k))) /\ ~(Transient(met) /\ d.attempt < DvAttempts)
            /\ Optional(k, d.step)
  <2>1. NextStep(sh) /\ k.tool = "probe" /\ d.step > 1
    BY <1>4, <1>18 DEF Optional
  <2>2. b.changed # 0 /\ c.changed # 0
    BY <1>2, <1>3, <1>8, <2>1 DEF SweepOK
  <2>3. k.tool \notin {"show_config"}
    BY <2>1
  <2>4. /\ DvValid(k) /\ ~d.instead /\ d.lines = DvLines(k) /\ d.step \in DOMAIN d.lines /\ sh # <<>>
        /\ Outputs(sh, "lldp") = {}
    <3>1. ~d.instead
      BY <1>3, <2>3 DEF InsteadOK
    <3> QED
      BY ONLY <1>2, <1>3, <2>1, <3>1 DEF WorkOK, AtWork
  <2>5. n \in DvRecs /\ CallOK(k, n, c, sh)
    BY <1>1, <1>2, <1>3, <1>6, <1>13, <2>1, <2>2, <2>4, Onward
  <2> QED
    BY ONLY <1>1, <1>2, <1>8, <2>5 DEF DvInv, DvTyped
<1>19. CASE /\ outcome # "ok" /\ ~(Len(met) < Cardinality(Candidates(k))) /\ ~(Transient(met) /\ d.attempt < DvAttempts)
            /\ ~Optional(k, d.step)
  <2>1. PICK q : q = [GaveUp(met) EXCEPT !.warned = d.instead]
    OBVIOUS
  <2>2. PICK logged \in {"none", "recovered", "gave_up"} :
          n = [d EXCEPT !.pc = "done", !.met = met, !.reply = q, !.logged = logged]
    <3>1. d.logged \in {"none", "recovered", "gave_up"}
      BY ONLY <1>2 DEF DvRecs
    <3> QED
      BY <1>4, <1>19, <2>1, <3>1
  <2>3. q \in DvReplies /\ q.status = "connect_error"
    <3>1. PICK h \in {"none", "maybe_recovery"} : GaveUp(met) = Replied("connect_error", "unreachable", h, FALSE)
      BY DEF GaveUp
    <3>2. d.instead \in BOOLEAN
      BY ONLY <1>2 DEF DvRecs
    <3>3. q = [status |-> "connect_error", state |-> "unreachable", hint |-> h, warned |-> d.instead]
      BY ONLY <2>1, <3>1 DEF Replied
    <3> QED
      BY ONLY <3>1, <3>2, <3>3 DEF DvReplies
  <2>4. n \in DvRecs /\ n.pc = "done" /\ n.try = d.try /\ n.instead = d.instead /\ n.reply = q /\ n.met = met
    BY ONLY <1>2, <1>7, <2>2, <2>3 DEF DvRecs
  <2>5. InsteadOK(k, n, sh) /\ AskedOK(k, n, sh)
    BY <1>3, <2>4, StillAsked, StillInstead
  <2>6. BatchOK(k, n, sh)
    BY ONLY <1>3, <2>3, <2>4 DEF BatchOK, LastTry, AtWork
  <2>7. ToldOK(k, n, sh)
    <3>1. sh = <<>> \/ k.tool \in {"probe"} \cup Many \/ n.instead
      BY ONLY <1>2, <1>3, <2>4 DEF WorkOK, AtWork
    <3>2. k.tool = "probe" => sh = <<>>
      <4>1. k.tool = "probe" => d.step = 1
        <5>1. k.tool = "probe" => ~(d.step > 1) /\ ~d.instead
          BY <1>3, <1>19 DEF Optional, InsteadOK
        <5>2. AtWork(d)
          BY <1>2 DEF AtWork
        <5>3. k.tool = "probe" => d.lines = DvLines(k) /\ d.step \in DOMAIN d.lines
          BY ONLY <1>3, <5>1, <5>2 DEF WorkOK
        <5> QED
          BY <1>6, <5>1, <5>3, ProbeLinesAre DEF DvLines
      <4> QED
        BY ONLY <1>2, <1>3, <4>1 DEF WorkOK, AtWork
    <3> QED
      BY ONLY <2>3, <2>4, <3>1, <3>2 DEF ToldOK
  <2>8. Len(n.met) <= Cardinality(Candidates(k))
    BY <1>6, <1>7, <2>4
  <2>9. ~Firm(k, c) \/ c.troubles >= DvAttempts
    <3>1. ASSUME Firm(k, c) PROVE c.troubles >= DvAttempts
      <4>1. Firm(k, b) /\ b.active <= Len(met)
        BY <1>6, <1>7, <1>9, <1>11, <1>19, <3>1, Controlled DEF Firm
      <4>2. met[b.active] = "timeout" /\ c.troubles >= d.attempt
        BY <1>12, <1>19, <4>1
      <4>3. Transient(met)
        BY <1>7, <1>11, <4>1, <4>2 DEF Transient, Passing
      <4> QED
        BY <1>6, <1>8, <1>19, <4>2, <4>3
    <3> QED
      BY <3>1
  <2>10. CallOK(k, n, c, sh)
    BY <1>3, <2>4, <2>5, <2>6, <2>7, <2>8, <2>9, Over
  <2> QED
    BY ONLY <1>1, <1>2, <1>8, <2>4, <2>10 DEF DvInv, DvTyped
<1> QED
  BY <1>15, <1>16, <1>17, <1>18, <1>19

\* A line is typed on a connection that is gone.
LEMMA RaiseStep ==
  ASSUME DvInv, DvRaise
  PROVE  DvInv'
<1>1. PICK k, d, n, b, sh : k = dvJob /\ d = dv /\ n = dv' /\ b = dvBox /\ sh = dvShown
  OBVIOUS
<1>2. /\ d.pc = "run" /\ ~d.live /\ d \in DvRecs /\ k \in DvSettings /\ b \in Boxes /\ b.changed <= b.troubles
      /\ sh \in Seq(Entries) /\ dvJob' = k /\ dvBox' = b /\ dvShown' = sh
  BY <1>1 DEF DvInv, DvTyped, DvRaise
<1>3. /\ WorkOK(k, d, sh) /\ InsteadOK(k, d, sh) /\ AskedOK(k, d, sh) /\ SpokenOK(k, sh)
      /\ BatchOK(k, d, sh) /\ SweepOK(k, d, b) /\ ToldOK(k, d, sh)
  BY <1>1, <1>2 DEF DvInv, CallOK
<1>4. b.changed # 0 /\ ~Firm(k, b) /\ Len(d.met) < Cardinality(Candidates(k))
  BY ONLY <1>2, <1>3 DEF SweepOK, Firm
<1>5. d.reply = NoReply /\ d.reply.status = "none" /\ AtWork(d)
  BY ONLY <1>2, <1>3, NoAnswer DEF WorkOK, AtWork
<1>6. /\ DvValid(k) /\ d.step \in DOMAIN d.lines
      /\ ~d.instead => d.lines = DvLines(k)
      /\ d.instead => d.lines = <<Parent(k.lines[1])>>
      /\ k.tool \notin Many \cup {"probe"} => d.step = 1 /\ (~d.instead => sh = <<>>)
      /\ k.tool = "probe" => (d.step = 1 <=> sh = <<>>) /\ Outputs(sh, "lldp") = {}
  BY ONLY <1>3, <1>5 DEF WorkOK
<1>7. d.lines \in Seq(DvLineSet) /\ d.step \in Nat /\ d.met \in Seq(Met) /\ d.try \in {1, 2}
  BY ONLY <1>2 DEF DvRecs
<1>8. CASE d.try = 1
  <2>1. n = [d EXCEPT !.pc = "dial", !.try = 2, !.attempt = 1, !.met = <<>>, !.step = IF k.tool \in Many THEN 1 ELSE d.step]
    BY <1>1, <1>8 DEF DvRaise
  <2>2. PICK two, one, none, step :
          two = 2 /\ one = 1 /\ none = <<>> /\ step = IF k.tool \in Many THEN 1 ELSE d.step
    OBVIOUS
  <2>3. two \in {1, 2} /\ one \in 1..DvAttempts /\ none \in Seq(Met) /\ step \in Nat
    BY <1>7, <2>2, Bounds
  <2>4. n = [d EXCEPT !.pc = "dial", !.try = two, !.attempt = one, !.met = none, !.step = step]
    BY ONLY <2>1, <2>2
  <2>5. /\ n \in DvRecs /\ n.pc = "dial" /\ n.lines = d.lines /\ n.step = step /\ n.try = two /\ n.attempt = one
        /\ n.met = none /\ n.instead = d.instead /\ n.reply = d.reply
    BY ONLY <1>2, <2>3, <2>4 DEF DvRecs
  <2>6. step \in DOMAIN d.lines /\ (k.tool = "probe" => step = d.step) /\ (k.tool \notin Many => step = d.step)
    BY <1>6, <1>7, <2>2 DEF Many
  <2>7. WorkOK(k, n, sh)
    BY ONLY <1>5, <1>6, <2>5, <2>6 DEF WorkOK, AtWork
  <2>8. InsteadOK(k, n, sh) /\ AskedOK(k, n, sh)
    BY <1>3, <2>5, StillAsked, StillInstead
  <2>9. BatchOK(k, n, sh)
    <3>1. ASSUME k.tool \in Many PROVE BatchOK(k, n, sh)
      <4>1. ~d.instead /\ \A i \in DOMAIN sh : sh[i].try <= 1
        BY <1>3, <1>8, <3>1 DEF BatchOK
      <4>2. \A i \in DOMAIN sh : sh[i].try \in Nat /\ i <= Len(sh)
        <5>1. \A e \in Entries : e.try \in {1, 2}
          BY ONLY DEF Entries
        <5> QED
          BY <1>2, <5>1
      <4>3. Len(sh) \in Nat /\ DOMAIN sh = 1..Len(sh)
        BY <1>2
      <4>4. LastTry(k, n, sh, Len(sh))
        BY ONLY <2>2, <2>5, <4>1, <4>2, <4>3 DEF LastTry
      <4>5. step = 1
        BY <2>2, <3>1
      <4>6. \A i \in DOMAIN sh : sh[i].try <= n.try
        BY ONLY <2>2, <2>5, <4>1, <4>2
      <4>7. Len(sh) \in 0..Len(sh) /\ Len(sh) - Len(sh) = n.step - 1
        BY ONLY <2>5, <4>3, <4>5
      <4>8. n.reply.status = "none"
        BY <1>5, <2>5
      <4> QED
        BY ONLY <2>5, <4>1, <4>4, <4>6, <4>7, <4>8 DEF BatchOK
    <3>2. k.tool \notin Many => BatchOK(k, n, sh)
      BY ONLY DEF BatchOK
    <3> QED
      BY <3>1, <3>2
  <2>10. ToldOK(k, n, sh)
    BY ONLY <1>5, <2>5 DEF ToldOK
  <2>11. SweepOK(k, n, b)
    <3>1. Len(none) = 0 /\ 1 <= Cardinality(Candidates(k)) /\ Cardinality(Candidates(k)) \in Nat
      BY <2>2, Controlled
    <3>2. n.reply.status = "none"
      BY <1>5, <2>5
    <3> QED
      BY ONLY <1>4, <2>5, <3>1, <3>2 DEF SweepOK
  <2>12. CallOK(k, n, b, sh)
    BY <1>3, <2>5, <2>7, <2>8, <2>9, <2>10, <2>11 DEF CallOK
  <2> QED
    BY ONLY <1>1, <1>2, <2>5, <2>12 DEF DvInv, DvTyped
<1>9. CASE d.try # 1 /\ Optional(k, d.step)
  <2>1. NextStep(sh) /\ k.tool = "probe" /\ d.step > 1
    BY <1>1, <1>9 DEF DvRaise, Failed, Optional
  <2>2. ~d.instead /\ sh # <<>>
    BY <1>3, <1>6, <2>1 DEF InsteadOK
  <2>3. n \in DvRecs /\ CallOK(k, n, b, sh)
    BY <1>1, <1>2, <1>3, <1>4, <1>5, <1>6, <2>1, <2>2, Onward
  <2> QED
    BY ONLY <1>1, <1>2, <2>3 DEF DvInv, DvTyped
<1>10. CASE d.try # 1 /\ ~Optional(k, d.step)
  <2>1. PICK q : q = Replied("error", "none", "none", FALSE)
    OBVIOUS
  <2>2. DvReply(q)
    BY <1>1, <1>10, <2>1 DEF DvRaise, Failed
  <2>3. q \in DvReplies /\ q.status = "error"
    BY ONLY <2>1 DEF Replied, DvReplies
  <2>4. Answered(d, n, q)
    BY <1>1, <1>2, <2>2, <2>3, Answering
  <2>5. /\ n \in DvRecs /\ n.pc = "done" /\ n.try = d.try /\ n.instead = d.instead /\ n.met = d.met
        /\ n.reply.status = "error"
    BY ONLY <2>3, <2>4 DEF Answered
  <2>6. InsteadOK(k, n, sh) /\ AskedOK(k, n, sh)
    BY <1>3, <2>5, StillAsked, StillInstead
  <2>7. BatchOK(k, n, sh)
    BY ONLY <1>3, <2>5 DEF BatchOK, LastTry, AtWork
  <2>8. k.tool = "probe" => sh = <<>>
    <3>1. ASSUME k.tool = "probe" PROVE sh = <<>>
      <4>1. ~(d.step > 1) /\ ~d.instead
        BY <1>3, <1>10, <3>1 DEF Optional, InsteadOK
      <4>2. d.step = 1
        BY <1>6, <1>7, <4>1
      <4> QED
        BY <1>6, <3>1, <4>2
    <3> QED
      BY <3>1
  <2>9. ToldOK(k, n, sh)
    BY ONLY <2>5, <2>8 DEF ToldOK
  <2>10. Len(n.met) <= Cardinality(Candidates(k))
    BY <1>4, <1>7, <2>5, Controlled
  <2>11. CallOK(k, n, b, sh)
    BY <1>3, <1>4, <2>5, <2>6, <2>7, <2>9, <2>10, Over
  <2> QED
    BY ONLY <1>1, <1>2, <2>5, <2>11 DEF DvInv, DvTyped
<1> QED
  BY <1>8, <1>9, <1>10

\* A line, what the box prints of it among the lines that were typed.
Grows(d, sh, e, t) == e.line = d.lines[d.step] /\ t = Append(sh, e)
Grown(k, d, sh, e, t) ==
  /\ t \in Seq(Entries) /\ Len(t) = Len(sh) + 1 /\ t[Len(t)] = e /\ t # <<>>
  /\ \A i \in DOMAIN sh : i \in DOMAIN t /\ t[i] = sh[i]
  /\ DOMAIN t = 1..Len(t) /\ DOMAIN sh = 1..Len(sh) /\ Len(sh) \in Nat
  /\ InsteadOK(k, d, t) /\ AskedOK(k, d, t)
LEMMA NewLine ==
  ASSUME NEW k \in DvSettings, NEW d \in DvRecs, NEW sh \in Seq(Entries), AtWork(d), WorkOK(k, d, sh),
         InsteadOK(k, d, sh), AskedOK(k, d, sh), NEW e \in Entries, NEW t, Grows(d, sh, e, t)
  PROVE  Grown(k, d, sh, e, t)
<1>1. /\ t \in Seq(Entries) /\ Len(t) = Len(sh) + 1 /\ t[Len(t)] = e /\ t # <<>>
      /\ \A i \in DOMAIN sh : i \in DOMAIN t /\ t[i] = sh[i]
      /\ DOMAIN t = 1..Len(t) /\ DOMAIN sh = 1..Len(sh) /\ Len(sh) \in Nat
  BY DEF Grows
<1>2. d.instead =>
        /\ k.tool = "show_config" /\ k.lines # <<>> /\ HasParent(k.lines[1])
        /\ sh # <<>> /\ sh[1].line = k.lines[1] /\ sh[1].said = "incomplete"
  BY DEF InsteadOK
<1>3. sh # <<>> => 1 \in DOMAIN sh
  BY <1>1
<1>4. InsteadOK(k, d, t)
  BY ONLY <1>1, <1>2, <1>3 DEF InsteadOK
<1>5. ASSUME NEW i \in DOMAIN sh
      PROVE  \/ t[i].line \in {DvLines(k)[n] : n \in DOMAIN DvLines(k)} /\ LineValid(k.tool, t[i].line)
             \/ /\ k.tool = "show_config" /\ d.instead
                /\ t[i].line.tokens = k.lines[1].tokens - 1 /\ t[i].line.tokens >= 3
                /\ \E j \in 1..(i - 1) : t[j].line = k.lines[1] /\ t[j].said = "incomplete"
  <2>1. \A j \in 1..(i - 1) : j \in DOMAIN sh
    BY <1>1
  <2> QED
    BY <1>1, <2>1 DEF AskedOK
<1>6. /\ DvValid(k) /\ d.step \in DOMAIN d.lines
      /\ ~d.instead => d.lines = DvLines(k)
      /\ d.instead => d.lines = <<Parent(k.lines[1])>>
  BY DEF WorkOK
<1>7. ASSUME ~d.instead
      PROVE  e.line \in {DvLines(k)[n] : n \in DOMAIN DvLines(k)} /\ LineValid(k.tool, e.line)
  <2>1. e.line \in {DvLines(k)[n] : n \in DOMAIN DvLines(k)}
    BY <1>6, <1>7 DEF Grows
  <2>2. CASE k.tool = "probe"
    BY <2>1, <2>2 DEF LineValid
  <2>3. CASE k.tool # "probe"
    BY <1>6, <1>7, <2>1, <2>3 DEF DvValid, BatchValid, DvLines
  <2> QED
    BY <2>2, <2>3
<1>8. ASSUME d.instead
      PROVE  /\ k.tool = "show_config" /\ d.instead
             /\ e.line.tokens = k.lines[1].tokens - 1 /\ e.line.tokens >= 3
             /\ \E j \in 1..(Len(t) - 1) : t[j].line = k.lines[1] /\ t[j].said = "incomplete"
  <2>1. PICK line : line = k.lines[1]
    OBVIOUS
  <2>2. line \in DvLineSet /\ line.tokens \in Nat /\ line.tokens >= 4
    <3>1. line \in DvLineSet
      BY <1>2, <1>8, <2>1, Setting
    <3>2. line.tokens \in Nat
      BY ONLY <3>1 DEF DvLineSet
    <3> QED
      BY <1>2, <1>8, <2>1, <3>1, <3>2 DEF HasParent
  <2>3. e.line = Parent(line)
    BY <1>6, <1>8, <2>1 DEF Grows
  <2>4. Parent(line).tokens = line.tokens - 1
    BY ONLY <2>2 DEF Parent, DvLineSet
  <2>5. 1 \in 1..(Len(t) - 1) /\ t[1] = sh[1]
    BY <1>1, <1>2, <1>3, <1>8
  <2> QED
    BY <1>2, <1>8, <2>1, <2>2, <2>3, <2>4, <2>5
<1>9. AskedOK(k, d, t)
  <2> SUFFICES ASSUME NEW i \in DOMAIN t
               PROVE  \/ t[i].line \in {DvLines(k)[n] : n \in DOMAIN DvLines(k)} /\ LineValid(k.tool, t[i].line)
                      \/ /\ k.tool = "show_config" /\ d.instead
                         /\ t[i].line.tokens = k.lines[1].tokens - 1 /\ t[i].line.tokens >= 3
                         /\ \E j \in 1..(i - 1) : t[j].line = k.lines[1] /\ t[j].said = "incomplete"
    BY DEF AskedOK
  <2>1. i \in DOMAIN sh \/ i = Len(t)
    BY <1>1
  <2> QED
    BY <1>1, <1>5, <1>7, <1>8, <2>1
<1> QED
  BY <1>1, <1>4, <1>9 DEF Grown

\* The lines of a try stay in order as the next one is typed.
TryGoesOn(k, d, sh, e, m) ==
  /\ m \in 0..Len(sh) /\ LastTry(k, d, sh, m) /\ Len(sh) - m = d.step - 1
  /\ d.step \in Nat /\ d.step \in DOMAIN k.lines /\ e.line = k.lines[d.step] /\ e.try = d.try
LEMMA TryGrows ==
  ASSUME NEW k, NEW d, NEW n, NEW sh, NEW t, NEW e, NEW m, Grown(k, d, sh, e, t), TryGoesOn(k, d, sh, e, m),
         n.try = d.try
  PROVE  LastTry(k, n, t, m)
<1>1. /\ Len(t) = Len(sh) + 1 /\ t[Len(t)] = e
      /\ \A i \in DOMAIN sh : t[i] = sh[i]
      /\ DOMAIN t = 1..Len(t) /\ DOMAIN sh = 1..Len(sh) /\ Len(sh) \in Nat
  BY DEF Grown
<1>2. /\ m \in 0..Len(sh) /\ Len(sh) - m = d.step - 1 /\ d.step \in Nat
      /\ d.step \in DOMAIN k.lines /\ e.line = k.lines[d.step] /\ e.try = d.try
      /\ \A i \in DOMAIN sh : sh[i].try = d.try <=> i > m
      /\ \A i \in (m + 1)..Len(sh) : i - m \in DOMAIN k.lines /\ sh[i].line = k.lines[i - m]
  BY DEF TryGoesOn, LastTry
<1>3. Len(t) - m = d.step /\ Len(t) > m
  BY ONLY <1>1, <1>2
<1>4. ASSUME NEW i \in DOMAIN t PROVE t[i].try = n.try <=> i > m
  <2>1. CASE i \in DOMAIN sh
    BY <1>1, <1>2, <2>1
  <2>2. CASE i = Len(t)
    BY <1>1, <1>2, <1>3, <2>2
  <2> QED
    BY <1>1, <2>1, <2>2
<1>5. ASSUME NEW i \in (m + 1)..Len(t) PROVE i - m \in DOMAIN k.lines /\ t[i].line = k.lines[i - m]
  <2>1. CASE i \in (m + 1)..Len(sh)
    <3>1. i \in DOMAIN sh
      BY ONLY <1>1, <1>2, <2>1
    <3> QED
      BY <1>1, <1>2, <2>1, <3>1
  <2>2. CASE i = Len(t)
    BY <1>1, <1>2, <1>3, <2>2
  <2>3. i \in (m + 1)..Len(sh) \/ i = Len(t)
    BY ONLY <1>1, <1>2, i \in (m + 1)..Len(t)
  <2> QED
    BY <2>1, <2>2, <2>3
<1> QED
  BY <1>4, <1>5 DEF LastTry

\* What one line is answered with.
LEMMA OneAnswer ==
  ASSUME NEW k, k = dvJob, NEW d \in DvRecs, d = dv, NEW e \in Entries, NEW q, q = OneReply(e)
  PROVE  /\ q \in DvReplies /\ q.status \in {"ok", "error", "timeout"}
         /\ q.status = "ok" => e.hit /\ ~IsError(e.said)
         /\ q.status = "ok" /\ k.tool = "system" =>
              q.state = State(e.marks) /\ q.warned = (State(e.marks) = "recovery" \/ Mode(e.marks) = "gi")
         /\ q.status = "ok" /\ k.tool = "show_config" => q.warned = d.instead
<1>1. d.instead \in BOOLEAN
  BY ONLY d \in DvRecs DEF DvRecs
<1>2. CASE ~e.hit
  <2>1. q = Replied("timeout", "none", "none", FALSE)
    BY <1>2 DEF OneReply
  <2> QED
    BY ONLY <2>1 DEF Replied, DvReplies
<1>3. CASE e.hit /\ IsError(e.said)
  <2>1. PICK h \in {"path", "syntax"} : q = Replied("error", "none", h, d.instead)
    BY <1>3 DEF OneReply
  <2> QED
    BY ONLY <1>1, <2>1 DEF Replied, DvReplies
<1>4. CASE e.hit /\ ~IsError(e.said)
  <2>1. CASE k.tool = "system"
    <3>1. PICK w \in BOOLEAN, h \in {"restart", "none"}, s \in {"recovery", "gi", "running", "running_degraded", "unknown"} :
            /\ s = State(e.marks) /\ w = (State(e.marks) = "recovery" \/ Mode(e.marks) = "gi")
            /\ q = Replied("ok", s, h, w)
      <4>1. q = Annotated(e.marks)
        BY <1>4, <2>1 DEF OneReply
      <4>2. State(e.marks) \in {"recovery", "gi", "running", "running_degraded", "unknown"}
        BY DEF State
      <4> QED
        BY <4>1, <4>2 DEF Annotated
    <3>2. q \in DvReplies /\ q.status = "ok" /\ q.state = s /\ q.warned = w
      BY ONLY <3>1 DEF Replied, DvReplies
    <3> QED
      BY <1>4, <2>1, <3>1, <3>2
  <2>2. CASE k.tool = "cmd_help"
    <3>1. PICK w \in BOOLEAN : q = Replied("ok", "none", "none", w)
      <4>1. q = Replied("ok", "none", "none", "partial_match" \in e.marks)
        BY <1>4, <2>2 DEF OneReply, HelpReply
      <4>2. ("partial_match" \in e.marks) \in BOOLEAN
        OBVIOUS
      <4> QED
        BY ONLY <4>1, <4>2, Zenon
    <3>2. q \in DvReplies /\ q.status = "ok"
      BY ONLY <3>1 DEF Replied, DvReplies
    <3> QED
      BY <1>4, <2>2, <3>2
  <2>3. CASE k.tool \notin {"system", "cmd_help"}
    <3>1. q = Replied("ok", "none", "none", d.instead)
      BY <1>4, <2>3 DEF OneReply
    <3>2. q \in DvReplies /\ q.status = "ok" /\ q.warned = d.instead
      BY ONLY <1>1, <3>1 DEF Replied, DvReplies
    <3> QED
      BY <1>4, <2>3, <3>2
  <2> QED
    BY <2>1, <2>2, <2>3
<1>5. e.hit \in BOOLEAN
  BY ONLY e \in Entries DEF Entries
<1> QED
  BY <1>2, <1>3, <1>4, <1>5

\* What a batch is answered with.
LEMMA BatchAnswer ==
  ASSUME NEW t, NEW q, q = BatchReply(t)
  PROVE  /\ q \in DvReplies /\ q.status \in {"ok", "error", "timeout"}
         /\ q.status = "ok" => \A i \in DOMAIN t : t[i].try = dv.try => t[i].hit
<1>1. PICK status \in {"ok", "error", "timeout"}, h \in {"none", "syntax"} :
        /\ q = Replied(status, "none", h, FALSE)
        /\ status = "ok" => \A i \in DOMAIN t : t[i].try = dv.try => t[i].hit
  BY DEF BatchReply
<1> QED
  BY ONLY <1>1 DEF Replied, DvReplies

\* A line is typed and its output read, to the prompt or to the timeout.
LEMMA RunStep ==
  ASSUME DvInv, DvRun
  PROVE  DvInv'
<1>1. PICK k, d, n, b, sh, t : k = dvJob /\ d = dv /\ n = dv' /\ b = dvBox /\ sh = dvShown /\ t = dvShown'
  OBVIOUS
<1>2. /\ d.pc = "run" /\ d.live /\ d \in DvRecs /\ k \in DvSettings /\ b \in Boxes /\ b.changed <= b.troubles
      /\ sh \in Seq(Entries) /\ dvJob' = k /\ dvBox' = b
  BY <1>1 DEF DvInv, DvTyped, DvRun
<1>3. /\ WorkOK(k, d, sh) /\ InsteadOK(k, d, sh) /\ AskedOK(k, d, sh) /\ SpokenOK(k, sh)
      /\ BatchOK(k, d, sh) /\ SweepOK(k, d, b) /\ ToldOK(k, d, sh)
  BY <1>1, <1>2 DEF DvInv, CallOK
<1>4. AtWork(d) /\ Len(d.met) < Cardinality(Candidates(k)) /\ d.reply = NoReply
  BY ONLY <1>2, <1>3 DEF SweepOK, WorkOK, AtWork
<1>5. /\ DvValid(k) /\ d.step \in DOMAIN d.lines
      /\ ~d.instead => d.lines = DvLines(k)
      /\ d.instead => d.lines = <<Parent(k.lines[1])>>
      /\ k.tool \notin Many \cup {"probe"} => d.step = 1 /\ (~d.instead => sh = <<>>)
      /\ k.tool = "probe" => (d.step = 1 <=> sh = <<>>) /\ Outputs(sh, "lldp") = {}
  BY ONLY <1>3, <1>4 DEF WorkOK
<1>6. /\ d.lines \in Seq(DvLineSet) /\ d.step \in Nat /\ d.met \in Seq(Met) /\ d.try \in {1, 2}
      /\ d.lines[d.step] \in DvLineSet /\ d.step >= 1 /\ Len(d.lines) \in Nat /\ DOMAIN d.lines = 1..Len(d.lines)
      /\ d.step <= Len(d.lines)
  <2>1. d.lines \in Seq(DvLineSet) /\ d.step \in Nat /\ d.met \in Seq(Met) /\ d.try \in {1, 2}
    BY ONLY <1>2 DEF DvRecs
  <2> QED
    BY ONLY <1>5, <2>1
<1>7. PICK e : /\ e \in Entries /\ e.line = d.lines[d.step] /\ e.try = d.try
               /\ k.tool \in {"system", "probe"} /\ e.line = SystemLine =>
                    SystemSaid(e) /\ StateSaid(e) /\ e.said \in {"ok", "refused"}
               /\ t = Append(sh, e) /\ AfterLine(t, e)
  <2>1. PICK line, try : line = d.lines[d.step] /\ try = d.try
    OBVIOUS
  <2>2. PICK p \in Prints(line) :
        \E read \in {[p EXCEPT !.marks = @ \ Inventory], Printed(p.said, {}), p}, hit \in BOOLEAN :
          LET entry == [line |-> line, try |-> try, said |-> p.said, hit |-> hit,
                        marks |-> read.marks, rows |-> read.rows, phase |-> dvBox.phase] IN
          /\ hit => read = p
          /\ dvShown' = Append(dvShown, entry)
          /\ AfterLine(dvShown', entry)
    BY <1>1, <2>1 DEF DvRun
  <2>3. PICK read, hit, e :
          /\ read \in {[p EXCEPT !.marks = @ \ Inventory], Printed(p.said, {}), p} /\ hit \in BOOLEAN
          /\ e = [line |-> line, try |-> try, said |-> p.said, hit |-> hit,
                  marks |-> read.marks, rows |-> read.rows, phase |-> dvBox.phase]
          /\ hit => read = p
          /\ dvShown' = Append(dvShown, e) /\ AfterLine(dvShown', e)
    BY <2>2
  <2>4. /\ e \in Entries /\ e.line = line /\ e.try = try
        /\ dvJob.tool \in {"system", "probe"} /\ line = SystemLine =>
             SystemSaid(e) /\ StateSaid(e) /\ e.said \in {"ok", "refused"}
    <3>1. dvJob \in DvSettings /\ dvBox \in Boxes /\ line \in DvLineSet /\ try \in {1, 2} /\ hit \in BOOLEAN
      BY <1>1, <1>2, <1>6, <2>1, <2>3
    <3>2. EntryOf(e, line, try, p, read, hit)
      BY <2>3 DEF EntryOf
    <3>3. EntryTells(e, line, try)
      BY ONLY <3>1, <3>2, EntryIs, Zenon
    <3> QED
      BY ONLY <3>3 DEF EntryTells
  <2> QED
    BY <1>1, <2>1, <2>3, <2>4
<1>8. /\ t \in Seq(Entries) /\ Len(t) = Len(sh) + 1 /\ t[Len(t)] = e /\ t # <<>>
      /\ \A i \in DOMAIN sh : i \in DOMAIN t /\ t[i] = sh[i]
      /\ DOMAIN t = 1..Len(t) /\ DOMAIN sh = 1..Len(sh) /\ Len(sh) \in Nat
      /\ InsteadOK(k, d, t) /\ AskedOK(k, d, t) /\ Grown(k, d, sh, e, t)
  <2>1. /\ k \in DvSettings /\ d \in DvRecs /\ sh \in Seq(Entries) /\ AtWork(d) /\ WorkOK(k, d, sh)
        /\ InsteadOK(k, d, sh) /\ AskedOK(k, d, sh) /\ e \in Entries /\ Grows(d, sh, e, t)
    BY <1>2, <1>3, <1>4, <1>7 DEF Grows
  <2>2. Grown(k, d, sh, e, t)
    BY ONLY <2>1, NewLine, Zenon
  <2> QED
    BY ONLY <2>2 DEF Grown
\* An answer ends the call.
<1>9. ASSUME NEW q \in DvReplies, DvReply(q), q.status \in {"ok", "error", "timeout"}, k.tool # "probe",
             q.status = "ok" /\ k.tool \in Many => d.step = Len(d.lines),
             q.status = "ok" /\ k.tool = "show_config" => (q.warned \/ d.instead) = (e.line # k.lines[1]),
             q.status = "ok" /\ k.tool = "system" =>
               e.phase \in PhaseOf(q.state) /\ (q.warned \/ d.instead) = (e.phase \in {"recovery", "gi"})
      PROVE  DvInv'
  <2>1. Answered(d, n, q)
    BY <1>1, <1>2, <1>9, Answering
  <2>2. /\ n \in DvRecs /\ n.pc = "done" /\ n.try = d.try /\ n.instead = d.instead /\ n.met = d.met
        /\ n.reply.status = q.status /\ n.reply.state = q.state /\ n.reply.warned = (q.warned \/ d.instead)
    BY ONLY <2>1 DEF Answered
  <2>3. InsteadOK(k, n, t) /\ AskedOK(k, n, t)
    BY <1>8, <2>2, StillAsked, StillInstead
  <2>4. SpokenOK(k, t)
    BY <1>9 DEF SpokenOK
  <2>5. BatchOK(k, n, t)
    <3>1. ASSUME k.tool \in Many PROVE BatchOK(k, n, t)
      <4>1. PICK m \in 0..Len(sh) : LastTry(k, d, sh, m) /\ Len(sh) - m = d.step - 1
        BY <1>3, <1>4, <3>1 DEF BatchOK
      <4>2. ~d.instead /\ \A i \in DOMAIN sh : sh[i].try <= d.try
        BY <1>3, <3>1 DEF BatchOK
      <4>3. d.lines = k.lines
        BY <1>5, <1>9, <4>2 DEF DvLines
      <4>4. LastTry(k, n, t, m)
        <5>1. TryGoesOn(k, d, sh, e, m)
          BY ONLY <1>5, <1>6, <1>7, <4>1, <4>3 DEF TryGoesOn
        <5> QED
          BY ONLY <1>8, <2>2, <5>1, TryGrows
      <4>5. \A i \in DOMAIN t : t[i].try <= n.try
        BY ONLY <1>6, <1>7, <1>8, <2>2, <4>2
      <4>6. m \in 0..Len(t) /\ Len(t) - m = d.step
        BY ONLY <1>6, <1>8, <4>1
      <4>7. n.reply.status = "ok" => Len(t) - m = Len(k.lines)
        BY <1>9, <2>2, <3>1, <4>3, <4>6
      <4> QED
        BY ONLY <2>2, <4>2, <4>4, <4>5, <4>6, <4>7 DEF BatchOK, AtWork
    <3>2. k.tool \notin Many => BatchOK(k, n, t)
      BY ONLY DEF BatchOK
    <3> QED
      BY <3>1, <3>2
  <2>6. ToldOK(k, n, t)
    BY ONLY <1>8, <1>9, <2>2 DEF ToldOK
  <2>7. Len(n.met) <= Cardinality(Candidates(k))
    BY <1>4, <1>6, <2>2, Controlled
  <2>8. CallOK(k, n, b, t)
    BY <1>9, <2>2, <2>3, <2>4, <2>5, <2>6, <2>7, Over
  <2> QED
    BY ONLY <1>1, <1>2, <1>8, <2>2, <2>8 DEF DvInv, DvTyped
<1>10. CASE k.tool = "probe"
  <2>1. NextStep(t)
    <3>1. AfterLine(t, e) /\ dvJob.tool = "probe"
      BY <1>1, <1>7, <1>10
    <3>2. "probe" \notin Many
      BY DEF Many
    <3> QED
      BY ONLY <3>1, <3>2 DEF AfterLine
  <2>2. ~d.instead
    BY <1>3, <1>10 DEF InsteadOK
  <2>3. /\ d.lines = ProbeLines(k) /\ Len(d.lines) \in {2, 3} /\ d.lines[1] = SystemLine
        /\ d.lines[2] = Management
    BY <1>5, <1>10, <2>2, ProbeLinesAre DEF DvLines
  <2>4. d.step < Len(d.lines) => e.line.verb # "lldp"
    <3>1. SystemLine.verb # "lldp" /\ Management.verb # "lldp"
      BY DEF SystemLine, Management, DvLine
    <3>2. d.step < Len(d.lines) => d.step \in {1, 2}
      BY <1>6, <2>3
    <3> QED
      BY <1>7, <2>3, <3>1, <3>2
  <2>5. \A i \in Outputs(t, "lldp") : i = Len(t)
    BY <1>5, <1>8, <1>10 DEF Outputs
  <2>6. d.step < Len(d.lines) => Outputs(t, "lldp") = {}
    BY <1>8, <2>4, <2>5 DEF Outputs
  <2>7. SpokenOK(k, t)
    <3>1. CASE sh = <<>>
      <4>1. e.line = SystemLine /\ t[1] = e
        BY <1>5, <1>7, <1>8, <1>10, <2>3, <3>1
      <4> QED
        BY <1>7, <1>10, <2>5, <4>1 DEF SpokenOK
    <3>2. CASE sh # <<>>
      <4>1. t[1] = sh[1]
        BY <1>2, <1>8, <3>2
      <4> QED
        BY <1>3, <1>10, <2>5, <3>2, <4>1 DEF SpokenOK
    <3> QED
      BY <3>1, <3>2
  <2>8. b.changed = 0 => d.live
    BY <1>2
  <2>9. n \in DvRecs /\ CallOK(k, n, b, t)
    BY <1>1, <1>2, <1>4, <1>5, <1>8, <1>10, <2>1, <2>2, <2>6, <2>7, <2>8, Onward
  <2> QED
    BY ONLY <1>1, <1>2, <1>8, <2>9 DEF DvInv, DvTyped
<1>11. CASE k.tool \in Many /\ e.hit /\ d.step < Len(d.lines)
  <2>1. PICK step : step = d.step + 1
    OBVIOUS
  <2>2. n = [d EXCEPT !.step = step]
    BY <1>1, <1>7, <1>11, <2>1 DEF AfterLine, Many
  <2>3. step \in Nat /\ step \in DOMAIN d.lines
    BY <1>6, <1>11, <2>1
  <2>4. /\ n \in DvRecs /\ n.pc = "run" /\ n.lines = d.lines /\ n.step = step /\ n.try = d.try
        /\ n.met = d.met /\ n.live = d.live /\ n.instead = d.instead /\ n.reply = d.reply
    BY ONLY <1>2, <2>2, <2>3 DEF DvRecs
  <2>5. ~d.instead /\ k.tool # "probe" /\ k.tool # "show_config"
    BY <1>3, <1>11 DEF Many, InsteadOK
  <2>6. WorkOK(k, n, t)
    BY ONLY <1>4, <1>5, <1>11, <2>3, <2>4, <2>5 DEF WorkOK, AtWork
  <2>7. InsteadOK(k, n, t) /\ AskedOK(k, n, t) /\ SpokenOK(k, t)
    BY <1>8, <2>4, <2>5, StillAsked, StillInstead DEF SpokenOK
  <2>8. BatchOK(k, n, t)
    <3>1. PICK m \in 0..Len(sh) : LastTry(k, d, sh, m) /\ Len(sh) - m = d.step - 1
      BY <1>3, <1>4, <1>11 DEF BatchOK
    <3>2. \A i \in DOMAIN sh : sh[i].try <= d.try
      BY <1>3, <1>11 DEF BatchOK
    <3>3. d.lines = k.lines
      BY <1>5, <2>5 DEF DvLines
    <3>4. LastTry(k, n, t, m)
      <4>1. TryGoesOn(k, d, sh, e, m)
        BY ONLY <1>5, <1>6, <1>7, <3>1, <3>3 DEF TryGoesOn
      <4> QED
        BY ONLY <1>8, <2>4, <4>1, TryGrows
    <3>5. \A i \in DOMAIN t : t[i].try <= n.try
      BY ONLY <1>6, <1>7, <1>8, <2>4, <3>2
    <3>6. m \in 0..Len(t) /\ Len(t) - m = n.step - 1
      BY ONLY <1>6, <1>8, <2>1, <2>4, <3>1
    <3>7. n.reply.status = "none"
      BY ONLY <1>4, <2>4, NoAnswer
    <3> QED
      BY ONLY <2>4, <2>5, <3>4, <3>5, <3>6, <3>7 DEF BatchOK
  <2>9. ToldOK(k, n, t)
    <3>1. n.reply.status = "none"
      BY ONLY <1>4, <2>4, NoAnswer
    <3> QED
      BY ONLY <3>1 DEF ToldOK
  <2>10. SweepOK(k, n, b)
    <3>1. n.reply.status = "none"
      BY ONLY <1>4, <2>4, NoAnswer
    <3> QED
      BY ONLY <1>2, <1>3, <1>4, <2>4, <3>1 DEF SweepOK
  <2>11. CallOK(k, n, b, t)
    BY <2>4, <2>6, <2>7, <2>8, <2>9, <2>10 DEF CallOK
  <2> QED
    BY ONLY <1>1, <1>2, <1>8, <2>4, <2>11 DEF DvInv, DvTyped
<1>12. CASE k.tool \in Many /\ ~(e.hit /\ d.step < Len(d.lines))
  <2>1. PICK q : q = BatchReply(t)
    OBVIOUS
  <2>2. DvReply(q)
    BY <1>1, <1>7, <1>12, <2>1 DEF AfterLine, Many
  <2>3. /\ q \in DvReplies /\ q.status \in {"ok", "error", "timeout"}
        /\ q.status = "ok" => \A i \in DOMAIN t : t[i].try = d.try => t[i].hit
    BY ONLY <1>1, <2>1, BatchAnswer
  <2>4. q.status = "ok" => d.step = Len(d.lines)
    <3>1. q.status = "ok" => e.hit
      BY <1>7, <1>8, <2>3
    <3> QED
      BY <1>6, <1>12, <3>1
  <2>5. k.tool \notin {"probe", "show_config", "system"}
    BY <1>12 DEF Many
  <2> QED
    BY <1>9, <2>2, <2>3, <2>4, <2>5
<1>13. CASE k.tool \notin Many \cup {"probe"} /\ StepUp(e)
  <2>1. /\ k.tool = "show_config" /\ e.said = "incomplete" /\ ~d.instead /\ HasParent(e.line)
    BY <1>1, <1>13 DEF StepUp
  <2>2. PICK ls, one : ls = <<Parent(e.line)>> /\ one = 1
    OBVIOUS
  <2>3. n = [d EXCEPT !.lines = ls, !.pc = "get", !.try = one, !.instead = TRUE]
    BY <1>1, <1>7, <1>13, <2>2 DEF AfterLine
  <2>4. Parent(e.line) \in DvLineSet
    <3>1. PICK line : line = e.line
      OBVIOUS
    <3>2. line \in DvLineSet /\ line.tokens >= 4
      BY <1>6, <1>7, <2>1, <3>1 DEF HasParent
    <3>3. line.tokens \in Nat
      BY ONLY <3>2 DEF DvLineSet
    <3>4. PICK less \in Nat : less = line.tokens - 1
      BY ONLY <3>2, <3>3
    <3>5. [line EXCEPT !.tokens = less] \in DvLineSet
      BY ONLY <3>2, <3>4 DEF DvLineSet
    <3> QED
      BY <3>1, <3>4, <3>5 DEF Parent
  <2>5. ls \in Seq(DvLineSet) /\ one \in {1, 2} /\ 1 \in DOMAIN ls
    BY <2>2, <2>4
  <2>6. /\ n \in DvRecs /\ n.pc = "get" /\ n.lines = ls /\ n.step = d.step /\ n.try = one
        /\ n.met = d.met /\ n.live = d.live /\ n.instead /\ n.reply = d.reply
    BY ONLY <1>2, <2>3, <2>5 DEF DvRecs
  <2>7. /\ e.line = k.lines[1] /\ sh = <<>> /\ d.step = 1 /\ k.lines # <<>> /\ t[1] = e
        /\ k.tool \notin Many \cup {"probe", "system"}
    <3>1. d.lines = k.lines /\ sh = <<>> /\ d.step = 1
      BY <1>5, <1>13, <2>1 DEF DvLines
    <3>2. k.lines # <<>>
      BY <1>5 DEF DvValid, BatchValid
    <3> QED
      BY <1>7, <1>8, <1>13, <2>1, <3>1, <3>2
  <2>8. WorkOK(k, n, t)
    BY ONLY <1>4, <1>5, <2>2, <2>5, <2>6, <2>7 DEF WorkOK, AtWork
  <2>9. InsteadOK(k, n, t)
    BY ONLY <1>8, <2>1, <2>7 DEF InsteadOK
  <2>10. AskedOK(k, n, t) /\ SpokenOK(k, t) /\ BatchOK(k, n, t)
    BY <1>8, <2>6, <2>7, StillAsked DEF SpokenOK, BatchOK
  <2>11. n.reply.status = "none"
    BY ONLY <1>4, <2>6, NoAnswer
  <2>12. ToldOK(k, n, t) /\ SweepOK(k, n, b)
    <3>1. ToldOK(k, n, t)
      BY ONLY <2>11 DEF ToldOK
    <3>2. SweepOK(k, n, b)
      BY ONLY <1>2, <1>3, <1>4, <2>6, <2>11 DEF SweepOK
    <3> QED
      BY <3>1, <3>2
  <2>13. CallOK(k, n, b, t)
    BY <2>6, <2>8, <2>9, <2>10, <2>12 DEF CallOK
  <2> QED
    BY ONLY <1>1, <1>2, <1>8, <2>6, <2>13 DEF DvInv, DvTyped
<1>14. CASE k.tool \notin Many \cup {"probe"} /\ ~StepUp(e)
  <2>1. PICK q : q = OneReply(e)
    OBVIOUS
  <2>2. DvReply(q)
    BY <1>1, <1>7, <1>14, <2>1 DEF AfterLine
  <2>3. /\ q \in DvReplies /\ q.status \in {"ok", "error", "timeout"}
        /\ q.status = "ok" => e.hit /\ ~IsError(e.said)
        /\ q.status = "ok" /\ k.tool = "system" =>
             q.state = State(e.marks) /\ q.warned = (State(e.marks) = "recovery" \/ Mode(e.marks) = "gi")
        /\ q.status = "ok" /\ k.tool = "show_config" => q.warned = d.instead
    BY ONLY <1>1, <1>2, <1>7, <2>1, OneAnswer
  <2>4. ASSUME q.status = "ok", k.tool = "show_config"
        PROVE  (q.warned \/ d.instead) = (e.line # k.lines[1])
    <3>1. PICK line : line = k.lines[1]
      OBVIOUS
    <3>2. d.instead \in BOOLEAN /\ q.warned = d.instead
      <4>1. d.instead \in BOOLEAN
        BY ONLY <1>2 DEF DvRecs
      <4> QED
        BY <2>3, <2>4, <4>1
    <3>3. CASE d.instead
      <4>1. line \in DvLineSet /\ e.line = Parent(line)
        BY <1>2, <1>3, <1>5, <1>7, <1>14, <3>1, <3>3, Setting DEF InsteadOK
      <4>2. line.tokens \in Nat /\ Parent(line).tokens = line.tokens - 1
        BY ONLY <4>1 DEF DvLineSet, Parent
      <4>3. e.line # line
        BY ONLY <4>1, <4>2
      <4> QED
        BY <3>1, <3>2, <3>3, <4>3
    <3>4. CASE ~d.instead
      <4>1. e.line = line
        BY <1>5, <1>7, <1>14, <2>4, <3>1, <3>4 DEF DvLines
      <4> QED
        BY <3>1, <3>2, <3>4, <4>1
    <3> QED
      BY <3>2, <3>3, <3>4
  <2>5. ASSUME q.status = "ok", k.tool = "system"
        PROVE  e.phase \in PhaseOf(q.state) /\ (q.warned \/ d.instead) = (e.phase \in {"recovery", "gi"})
    <3>1. ~d.instead
      BY <1>3, <2>5 DEF InsteadOK
    <3>2. e.line = SystemLine
      <4>1. k.lines = <<SystemLine>> /\ d.step = 1 /\ d.lines = k.lines
        BY <1>2, <1>5, <1>14, <2>5, <3>1, Setting DEF DvLines
      <4> QED
        BY <1>7, <4>1
    <3>3. StateSaid(e) /\ e.said = "ok" /\ e.hit
      BY <1>7, <2>3, <2>5, <3>2 DEF IsError
    <3>4. /\ e.phase \in PhaseOf(State(e.marks))
          /\ (State(e.marks) = "recovery" \/ Mode(e.marks) = "gi") = (e.phase \in {"recovery", "gi"})
      BY <3>3 DEF StateSaid
    <3>5. q.state = State(e.marks) /\ q.warned = (State(e.marks) = "recovery" \/ Mode(e.marks) = "gi")
      BY <2>3, <2>5
    <3>6. q.warned = (e.phase \in {"recovery", "gi"})
      BY ONLY <3>4, <3>5, Zenon
    <3>7. q.warned \in BOOLEAN /\ d.instead \in BOOLEAN
      <4>1. d.instead \in BOOLEAN
        BY ONLY <1>2 DEF DvRecs
      <4>2. q.warned \in BOOLEAN
        BY ONLY <2>3 DEF DvReplies
      <4> QED
        BY <4>1, <4>2
    <3>8. (q.warned \/ d.instead) = q.warned
      BY ONLY <3>1, <3>7
    <3> QED
      BY <3>4, <3>5, <3>6, <3>8
  <2> QED
    BY <1>9, <1>14, <2>2, <2>3, <2>4, <2>5
<1> QED
  BY <1>10, <1>11, <1>12, <1>13, <1>14
\* The first state satisfies the inductive invariant.
LEMMA DvInitInv ==
  ASSUME DvInit
  PROVE  DvInv
<1>1. PICK k, d, b, ls, one, rest :
        /\ k = dvJob /\ d = dv /\ b = dvBox /\ ls = <<>> /\ one = 1 /\ rest = NoReply
  OBVIOUS
<1>2. PICK at \in {"ask", "done"} :
        d = [pc |-> at, lines |-> ls, step |-> one, try |-> one, attempt |-> one, met |-> ls,
             live |-> FALSE, instead |-> FALSE, logged |-> "none", reply |-> rest]
  BY <1>1 DEF DvInit
<1>3. /\ k \in DvSettings /\ b \in [phase : k.phases, active : Controllers, troubles : {0}, changed : {0}]
      /\ dvShown = <<>>
  BY <1>1 DEF DvInit
<1>4. rest \in DvReplies /\ rest.status = "none"
  BY ONLY <1>1 DEF NoReply, DvReplies
<1>5. one \in Nat /\ one \in {1, 2} /\ one \in 1..DvAttempts /\ ls \in Seq(DvLineSet) /\ ls \in Seq(Met)
  BY <1>1, Bounds
<1>6. /\ d \in DvRecs /\ d.pc = at /\ d.lines = ls /\ d.step = one /\ d.try = one /\ d.attempt = one
      /\ d.met = ls /\ d.live = FALSE /\ d.instead = FALSE /\ d.reply = rest
  BY ONLY <1>2, <1>4, <1>5 DEF DvRecs
<1>7. b \in Boxes /\ b.changed = 0 /\ b.troubles = 0
  <2>1. k.phases \subseteq Phases /\ MaxDvTroubles \in Nat
    BY <1>3, Setting, Bounds
  <2> QED
    BY ONLY <1>3, <2>1 DEF Boxes
<1>8. DvTyped(d, b, dvShown)
  BY <1>3, <1>6, <1>7 DEF DvTyped
<1>9. WorkOK(k, d, dvShown)
  BY ONLY <1>1, <1>3, <1>6 DEF WorkOK, AtWork
<1>10. InsteadOK(k, d, dvShown) /\ AskedOK(k, d, dvShown) /\ SpokenOK(k, dvShown)
  BY ONLY <1>3, <1>6 DEF InsteadOK, AskedOK, SpokenOK
<1>11. BatchOK(k, d, dvShown)
  <2>1. LastTry(k, d, dvShown, 0) /\ 0 \in 0..Len(dvShown)
    BY ONLY <1>3 DEF LastTry
  <2> QED
    BY ONLY <1>3, <1>4, <1>6, <2>1 DEF BatchOK, AtWork
<1>12. SweepOK(k, d, b)
  <2>1. Len(d.met) = 0 /\ 0 < Cardinality(Candidates(k)) /\ Len(d.met) <= Cardinality(Candidates(k))
    BY <1>1, <1>6, Controlled
  <2> QED
    BY ONLY <1>4, <1>6, <2>1 DEF SweepOK
<1>13. ToldOK(k, d, dvShown)
  BY ONLY <1>4, <1>6 DEF ToldOK
<1>14. CallOK(k, d, b, dvShown)
  BY <1>9, <1>10, <1>11, <1>12, <1>13 DEF CallOK
<1> QED
  BY ONLY <1>1, <1>3, <1>8, <1>14 DEF DvInv

\* A step that changes nothing keeps it.
LEMMA DvStays ==
  ASSUME DvInv, UNCHANGED dvVars
  PROVE  DvInv'
<1>1. dvJob' = dvJob /\ dv' = dv /\ dvBox' = dvBox /\ dvShown' = dvShown
  BY DEF dvVars
<1>2. PICK k, d, b, sh : k = dvJob /\ d = dv /\ b = dvBox /\ sh = dvShown
  OBVIOUS
<1>3. k \in DvSettings /\ DvTyped(d, b, sh) /\ CallOK(k, d, b, sh)
  BY <1>2 DEF DvInv
<1>4. dvJob' = k /\ dv' = d /\ dvBox' = b /\ dvShown' = sh
  BY <1>1, <1>2
<1> QED
  BY ONLY <1>3, <1>4 DEF DvInv

\* A call is in step with the lines it has to type and with those it typed,
\* whatever the box prints, however often it changes and sshd fails.
THEOREM DvInvariance == DvSpec => []DvInv
<1>1. DvInit => DvInv
  BY DvInitInv
<1>2. DvInv /\ [DvNext]_dvVars => DvInv'
  <2> SUFFICES ASSUME DvInv, [DvNext]_dvVars
               PROVE  DvInv'
    OBVIOUS
  <2>1. DvAsk => DvInv'
    BY AskStep
  <2>2. DvDial => DvInv'
    BY DialStep
  <2>3. DvGet => DvInv'
    BY GetStep
  <2>4. DvRaise => DvInv'
    BY RaiseStep
  <2>5. DvRun => DvInv'
    BY RunStep
  <2>6. DvChanges => DvInv'
    BY ChangesStep
  <2>7. UNCHANGED dvVars => DvInv'
    BY DvStays
  <2> QED
    BY <2>1, <2>2, <2>3, <2>4, <2>5, <2>6, <2>7 DEF DvNext, DvStep
<1> QED
  BY <1>1, <1>2, PTL DEF DvSpec

\* The invariant of the proof contains what the calls promise: a box that can
\* be reached is, and what is read is what was asked.
LEMMA ReachesAndReads ==
  ASSUME DvInv
  PROVE  Reached /\ ReadsWhatWasAsked /\ StateIsTrue
<1>1. PICK k, d, b, sh : k = dvJob /\ d = dv /\ b = dvBox /\ sh = dvShown
  OBVIOUS
<1>2. /\ k \in DvSettings /\ d \in DvRecs /\ b \in Boxes /\ sh \in Seq(Entries)
      /\ AskedOK(k, d, sh) /\ BatchOK(k, d, sh) /\ SweepOK(k, d, b) /\ ToldOK(k, d, sh)
  BY <1>1 DEF DvInv, DvTyped, CallOK
<1>3. /\ d.reply.status = "connect_error" => sh = <<>> \/ k.tool \in {"probe"} \cup Many \/ d.instead
      /\ d.reply.status = "invalid" => sh = <<>>
      /\ d.reply.status = "ok" /\ sh # <<>> /\ k.tool = "show_config" =>
           d.reply.warned = (sh[Len(sh)].line # k.lines[1])
      /\ d.reply.status = "ok" /\ k.tool = "system" =>
           /\ sh[Len(sh)].phase \in PhaseOf(d.reply.state)
           /\ d.reply.warned = (sh[Len(sh)].phase \in {"recovery", "gi"})
  BY ONLY <1>2 DEF ToldOK
<1>4. Reached
  <2>1. d.reply.status = "connect_error" => ~Firm(k, b) \/ b.troubles >= DvAttempts
    BY ONLY <1>2 DEF SweepOK
  <2>2. b.changed = 0 \/ b.changed > 0
    <3>1. b.changed \in 0..MaxDvTroubles
      BY ONLY <1>2 DEF Boxes
    <3> QED
      BY <3>1, Bounds
  <2>3. ~Firm(k, b) =>
          \/ b.changed > 0 \/ b.phase = "booting" \/ ~k.creds
          \/ k.where \in {"unknown", "unresolved"} \/ b.active \notin Candidates(k)
    BY ONLY <2>2 DEF Firm
  <2> QED
    BY ONLY <1>1, <1>3, <2>1, <2>3 DEF Reached
<1>5. ASSUME d.reply.status = "ok", k.tool \in Many
      PROVE  \E n \in 0..Len(sh) :
               /\ \A i \in DOMAIN sh : sh[i].try = d.try <=> i > n
               /\ [i \in 1..(Len(sh) - n) |-> sh[n + i].line] = k.lines
  <2>1. PICK n \in 0..Len(sh) : LastTry(k, d, sh, n) /\ Len(sh) - n = Len(k.lines)
    BY ONLY <1>2, <1>5 DEF BatchOK
  <2>2. PICK ls : ls = k.lines
    OBVIOUS
  <2>3. /\ \A i \in DOMAIN sh : sh[i].try = d.try <=> i > n
        /\ \A i \in (n + 1)..Len(sh) : sh[i].line = ls[i - n]
    BY ONLY <2>1, <2>2 DEF LastTry
  <2>4. ls \in Seq(DvLineSet) /\ Len(sh) - n = Len(ls) /\ Len(sh) \in Nat /\ n \in Nat
    BY <1>2, <2>1, <2>2, Setting
  <2>5. \A i \in 1..Len(ls) : sh[n + i].line = ls[i]
    <3>1. ASSUME NEW i \in 1..Len(ls) PROVE sh[n + i].line = ls[i]
      <4>1. n + i \in (n + 1)..Len(sh) /\ (n + i) - n = i
        BY ONLY <2>4, i \in 1..Len(ls)
      <4> QED
        BY <2>3, <4>1
    <3> QED
      BY <3>1
  <2>6. ls = [i \in 1..Len(ls) |-> ls[i]]
    BY ONLY <2>4
  <2>7. [i \in 1..(Len(sh) - n) |-> sh[n + i].line] = ls
    BY ONLY <2>4, <2>5, <2>6
  <2> QED
    BY <2>2, <2>3, <2>7
<1>6. ReadsWhatWasAsked
  <2>1. AskedOK(dvJob, dv, dvShown) /\ (dv.reply.status = "invalid" => dvShown = <<>>)
    BY ONLY <1>1, <1>2, <1>3
  <2>2. dv.reply.status = "ok" /\ dvJob.tool \in Many =>
          \E n \in 0..Len(dvShown) :
            /\ \A i \in DOMAIN dvShown : dvShown[i].try = dv.try <=> i > n
            /\ [i \in 1..(Len(dvShown) - n) |-> dvShown[n + i].line] = dvJob.lines
    BY <1>1, <1>5
  <2>3. dv.reply.status = "ok" /\ dvShown # <<>> /\ dvJob.tool = "show_config" =>
          dv.reply.warned = (dvShown[Len(dvShown)].line # dvJob.lines[1])
    BY ONLY <1>1, <1>3
  <2> QED
    BY ONLY <2>1, <2>2, <2>3, Zenon DEF ReadsWhatWasAsked, AskedOK
<1>7. StateIsTrue
  BY ONLY <1>1, <1>3 DEF StateIsTrue
<1> QED
  BY <1>4, <1>6, <1>7

\* What a probe makes of its outputs is true of the box.
LEMMA ProbeTells ==
  ASSUME DvInv
  PROVE  ProbeIsTrue
<1> SUFFICES ASSUME dvJob.tool = "probe", dvShown # <<>>
             PROVE  LET first == dvShown[1]
                        probe == DeviceProbe(dvShown) IN
                    /\ dv.reply.status \in {"error", "connect_error"} => probe.name = "none" /\ ~dvJob.allow
                    /\ probe.mode = "gi" \/ GiInventory(first.marks) # {} => first.phase = "gi"
                    /\ probe.mode = "operational" => first.phase \in {"up", "degraded", "recovery"}
                    /\ probe.role # "none" => probe.name # "none"
                    /\ first.hit /\ first.said = "ok" /\ first.phase = "up" => probe.serials = {"serial_1", "serial_2"}
                    /\ probe.mgmt0 # {} => \E i \in Outputs(dvShown, "management") : "mgmt0" \in dvShown[i].marks
                    /\ \A i \in Outputs(dvShown, "lldp") :
                         LET table == dvShown[i].rows
                             counted == {n \in DOMAIN table :
                                           /\ table[n].named /\ table[n].rack # 0
                                           /\ \A m \in 1..(n - 1) : ~(table[m].named /\ table[m].mgmt /\ table[n].mgmt)} IN
                         \A location \in probe.locations :
                           /\ ~location.warned => \A n \in counted : table[n].rack = location.rack
                           /\ counted = {} <=> location.rack = 0
  BY DEF ProbeIsTrue
<1>1. PICK k, d, sh, first, probe :
        k = dvJob /\ d = dv /\ sh = dvShown /\ first = sh[1] /\ probe = DeviceProbe(sh)
  OBVIOUS
<1>2. /\ k.tool = "probe" /\ sh # <<>> /\ d \in DvRecs /\ sh \in Seq(Entries) /\ SpokenOK(k, sh) /\ ToldOK(k, d, sh)
  BY <1>1 DEF DvInv, DvTyped, CallOK
<1>3. SystemSaid(first) /\ \A i, j \in Outputs(sh, "lldp") : i = j
  BY ONLY <1>1, <1>2 DEF SpokenOK
<1>4. /\ probe.name = SystemName(first.marks) /\ probe.role = ExpectedRole(first.marks)
      /\ probe.serials = NccSerials(first.marks) /\ probe.mode = Mode(first.marks)
      /\ probe.mgmt0 = {Mgmt0(sh[i].marks) : i \in Outputs(sh, "management")} \ {"none"}
      /\ probe.locations = {Location(sh[i].rows) : i \in Outputs(sh, "lldp")}
  BY ONLY <1>1 DEF DeviceProbe
<1>5. d.reply.status \in {"error", "connect_error"} => probe.name = "none" /\ ~k.allow
  <2>1. d.reply.status \in {"error", "connect_error"} => "name" \notin first.marks /\ ~k.allow
    BY ONLY <1>1, <1>2 DEF ToldOK
  <2> QED
    BY ONLY <1>4, <2>1 DEF SystemName
<1>6. /\ probe.mode = "gi" \/ GiInventory(first.marks) # {} => first.phase = "gi"
      /\ probe.mode = "operational" => first.phase \in {"up", "degraded", "recovery"}
      /\ first.hit /\ first.said = "ok" /\ first.phase = "up" => probe.serials = {"serial_1", "serial_2"}
  BY ONLY <1>3, <1>4 DEF SystemSaid
<1>7. probe.role # "none" => probe.name # "none"
  BY ONLY <1>3, <1>4 DEF SystemSaid, SystemName, ExpectedRole
<1>8. probe.mgmt0 # {} => \E i \in Outputs(sh, "management") : "mgmt0" \in sh[i].marks
  BY ONLY <1>4 DEF Mgmt0
<1>9. ASSUME NEW i \in Outputs(sh, "lldp"), NEW location \in probe.locations
      PROVE  LET table == sh[i].rows
                 counted == {n \in DOMAIN table :
                               /\ table[n].named /\ table[n].rack # 0
                               /\ \A m \in 1..(n - 1) : ~(table[m].named /\ table[m].mgmt /\ table[n].mgmt)} IN
             /\ ~location.warned => \A n \in counted : table[n].rack = location.rack
             /\ counted = {} <=> location.rack = 0
  <2>1. PICK table : table = sh[i].rows
    OBVIOUS
  <2>2. location = Location(table)
    BY <1>3, <1>4, <2>1
  <2>3. table \in Seq(Neighbour)
    <3>1. i \in DOMAIN sh
      BY DEF Outputs
    <3>2. sh[i] \in Entries
      BY ONLY <1>2, <3>1
    <3> QED
      BY ONLY <2>1, <3>2 DEF Entries
  <2> QED
    BY ONLY <2>1, <2>2, <2>3, LocationTells
<1> QED
  BY ONLY <1>1, <1>5, <1>6, <1>7, <1>8, <1>9

\* A read tells the truth: the box that can be reached is, what is typed is
\* what was asked, and a state, a name or a rack is the box's own, for every
\* box, table of neighbours, batch and number of failures.
THEOREM ReadsSound == DvSpec => []ReadsAreTrue
<1>1. DvInv => ReadsAreTrue
  BY ReachesAndReads, ProbeTells DEF ReadsAreTrue
<1> QED
  BY <1>1, DvInvariance, PTL

\* The type invariant holds in every state.
THEOREM DvTypeCorrect == DvSpec => []DvTypeOK
<1>1. ASSUME DvInv PROVE DvTypeOK
  <2>1. PICK k, d, b : k = dvJob /\ d = dv /\ b = dvBox
    OBVIOUS
  <2>2. d \in DvRecs /\ b \in Boxes /\ SweepOK(k, d, b)
    BY <1>1, <2>1 DEF DvInv, DvTyped, CallOK
  <2>3. /\ d.pc \in {"ask", "dial", "get", "run", "done"} /\ d.try \in {1, 2} /\ d.attempt \in 1..DvAttempts
        /\ d.reply \in DvReplies /\ d.met \in Seq(Met)
    BY ONLY <2>2 DEF DvRecs
  <2>4. d.reply.state \in {"none", "running", "running_degraded", "recovery", "gi", "unknown", "unreachable"}
    BY ONLY <2>3 DEF DvReplies
  <2>5. Len(d.met) <= Len(DvHosts)
    <3>1. Len(d.met) <= Cardinality(Candidates(k)) /\ Len(d.met) \in Nat
      BY ONLY <2>2, <2>3 DEF SweepOK
    <3> QED
      BY <3>1, Controlled
  <2> QED
    BY ONLY <2>1, <2>2, <2>3, <2>4, <2>5 DEF DvTypeOK, Boxes
<1> QED
  BY <1>1, DvInvariance, PTL

=============================================================================
