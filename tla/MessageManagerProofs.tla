------------------------ MODULE MessageManagerProofs ------------------------
(***************************************************************************)
(* Proofs about MessageManager, for any set of clients, messages and       *)
(* timeouts and without a bound on clock, sends or references that matters *)
(* to the argument.                                                        *)
(*                                                                         *)
(* The inductive invariant says where the service thread can be when the   *)
(* mutex is locked and what its local variables then mean (ServiceInv),    *)
(* that each call of wait_for and send_message knows its message id        *)
(* (ReqInv), that waiter_hash refers to live waiters only                  *)
(* (NoDanglingWaiter) and that references are at least those in use        *)
(* (RefsInv).  What needs the discipline that only the sender of a message *)
(* waits for its response is in OwnInv.                                    *)
(***************************************************************************)
EXTENDS MessageManager, FiniteSetTheorems, TLAPS

ServiceInv ==
    /\ pc[Service] \in {"handle_cb", "handle_end"} => job \in Ids
    /\ pc[Service] \in {"handle_cb", "handle_end", "relock"} /\ job \in Ids
         => Pending(job)
    /\ pc[Service] = "handle_cb" => job \in Callbacks
    /\ pc[Service] \notin {"handle_cb", "handle_end", "relock"} => job = None
    /\ pc[Service] \notin {"clear_cb", "relock"} => todo = {}
    /\ pc[Service] = "relock" /\ job # None => todo = {}
    /\ todo \subseteq Overdue
    /\ now <= clock

ReqInv ==
    /\ \A t \in Clients : pc[t] # "idle" => req[t] \in Ids
    /\ pc[Service] = "transmit" => req[Service] \in Ids

RefsInv == refs >= (IF owned THEN 1 ELSE 0) + Cardinality(Inside)

IInv ==
    /\ TypeOK
    /\ MutexDiscipline
    /\ ServiceInv
    /\ ReqInv
    /\ NoDanglingWaiter
    /\ RefsInv

(* Under the discipline ~SharedWait. *)
OwnInv ==
    /\ table = "live" <=> refs > 0
    /\ \A t \in Clients : Waiting(t) \/ pc[t] = "call" => Owner[req[t]] = t
    /\ \A t \in Clients :
          pc[t] \in {"waiting", "woken"} => waiter_hash[req[t]] = t
    /\ \A t \in Clients :
          pc[t] \notin {"woken", "return"} => message[t] = None

-----------------------------------------------------------------------------
USE DEF Threads, Entry, DropManager

(* There are finitely many threads to wait inside the manager. *)
LEMMA InsideFinite ==
    /\ IsFiniteSet(Inside)
    /\ Cardinality(Inside) \in Nat
    /\ Inside # {} => Cardinality(Inside) > 0
<1>1. IsFiniteSet(Inside)
  BY ThreadsAssumption, FS_Subset DEF Inside
<1> QED
  BY <1>1, FS_CardinalityType, FS_EmptySet


(* HandleLock, thread by thread: the thread whose waiter is stored under id
   gets the response, and is woken unless it has already given up. *)
LEMMA HandleLockEffect ==
    ASSUME TypeOK, NoDanglingWaiter, NEW id \in Ids, HandleLock(id)
    PROVE  /\ pc' \in [Threads -> PcClient \cup PcService]
           /\ \A t \in Clients :
                 pc'[t] = IF pc[t] = "waiting" /\ waiter_hash[id] = t
                            THEN "woken" ELSE pc[t]
           /\ pc'[Service] = IF ~Pending(id) THEN "idle"
                             ELSE IF id \in Callbacks THEN "handle_cb"
                                                      ELSE "handle_end"
           /\ message' \in [Clients -> Ids \cup {None}]
           /\ ret' \in [Clients -> BOOLEAN]
           /\ \A t \in Clients :
                 message'[t] = IF waiter_hash[id] = t THEN id ELSE message[t]
<1> USE ThreadsAssumption, NoneAssumption
    DEF TypeOK, PcClient, PcService
<1>1. /\ message' \in [Clients -> Ids \cup {None}]
      /\ ret' \in [Clients -> BOOLEAN]
      /\ \A t \in Clients :
            message'[t] = IF waiter_hash[id] = t THEN id ELSE message[t]
  <2>1. CASE waiter_hash[id] = None
    BY <2>1 DEF HandleLock, Deliver
  <2>2. CASE waiter_hash[id] \in Clients
    BY <2>2 DEF HandleLock, Deliver
  <2> QED
    BY <2>1, <2>2
<1>2. /\ Woken(id) \in [Threads -> PcClient \cup PcService]
      /\ \A t \in Clients :
            Woken(id)[t] = IF pc[t] = "waiting" /\ waiter_hash[id] = t
                             THEN "woken" ELSE pc[t]
      /\ Woken(id)[Service] = "idle"
  BY DEF Woken, HandleLock, NoDanglingWaiter
<1>3. CASE Pending(id)
  <2> DEFINE label == IF id \in Callbacks THEN "handle_cb" ELSE "handle_end"
  <2>1. pc' = [Woken(id) EXCEPT ![Service] = label]
    BY <1>3 DEF HandleLock
  <2>2. label \in PcService
    OBVIOUS
  <2> HIDE DEF label
  <2>3. /\ pc' \in [Threads -> PcClient \cup PcService]
        /\ pc'[Service] = label
        /\ \A t \in Clients : pc'[t] = Woken(id)[t]
    BY <2>1, <2>2, <1>2
  <2> QED
    BY <2>3, <1>1, <1>2, <1>3 DEF label
<1>4. CASE ~Pending(id)
  <2>1. pc' = Woken(id)
    BY <1>4 DEF HandleLock
  <2> QED
    BY <2>1, <1>1, <1>2, <1>4
<1> QED
  BY <1>3, <1>4

(* Every step keeps the types; the manager's count stays in Nat because each
   thread inside has a reference of its own. *)
LEMMA TypeStep == TypeOK /\ ServiceInv /\ ReqInv /\ NoDanglingWaiter /\ RefsInv /\ [Next]_vars => TypeOK'
<1> SUFFICES ASSUME TypeOK, ServiceInv, ReqInv, NoDanglingWaiter, RefsInv, [Next]_vars
             PROVE  TypeOK'
  OBVIOUS
<1> USE ThreadsAssumption, HandlersAssumption, NumbersAssumption, NoneAssumption DEF TypeOK, PcClient, PcService, vars, hashVars, objVars, waitVars, serviceVars, netVars, history, Bump, Goto
<1>1. CASE Tick
  BY <1>1 DEF Tick
<1>2. ASSUME NEW id \in Ids, Respond(id) PROVE TypeOK'
  BY <1>2 DEF Respond
<1>3. ASSUME NEW t \in Threads, NEW id \in Ids, NEW d \in Timeouts, Register(t, id, d) PROVE TypeOK'
  BY <1>3 DEF Register
<1>4. ASSUME NEW t \in Threads, Transmit(t) PROVE TypeOK'
  BY <1>4 DEF Transmit, ReqInv
<1>5. ASSUME NEW id \in Ids, HandleLock(id) PROVE TypeOK'
  <2>1. /\ mutex' \in {Service, None}
        /\ job' \in Ids \cup {None}
        /\ inbox' \in [Ids -> Nat]
    BY <1>5 DEF HandleLock
  <2>2. "handle_cb" \in PcService /\ "handle_end" \in PcService
    OBVIOUS
  <2>3. /\ pc'[Service] \in PcService
        /\ \A t \in Clients : pc'[t] \in PcClient
    BY <1>5, <2>2, HandleLockEffect
  <2> QED
    BY <1>5, <2>1, <2>3, HandleLockEffect DEF HandleLock
<1>6. CASE HandleCallback
  BY <1>6 DEF HandleCallback, AfterCallback, ServiceInv
<1>7. CASE HandleEnd
  BY <1>7 DEF HandleEnd
<1>8. CASE ClearStart
  BY <1>8 DEF ClearStart
<1>9. CASE ClearLock
  BY <1>9 DEF ClearLock
<1>10. ASSUME NEW id \in Ids, ClearCallback(id) PROVE TypeOK'
  BY <1>10 DEF ClearCallback, AfterCallback
<1>11. CASE ClearEnd
  BY <1>11 DEF ClearEnd
<1>12. ASSUME NEW t \in Clients, NEW id \in Ids, WaitCall(t, id) PROVE TypeOK'
  BY <1>12 DEF WaitCall
<1>12b. ASSUME NEW t \in Clients, WaitLookup(t) PROVE TypeOK'
  <2>1. /\ waiter_hash' \in [Ids -> Clients \cup {None}]
        /\ table' \in {"live", "freed", "crashed"}
        /\ refs' \in Nat
    BY <1>12b DEF WaitLookup
  <2>2. /\ pc' \in [Threads -> PcClient \cup PcService]
        /\ pc'[Service] \in PcService
        /\ \A u \in Clients : pc'[u] \in PcClient
    BY <1>12b DEF WaitLookup
  <2>3. req' \in [Threads -> Ids \cup {None}]
    BY <1>12b DEF WaitLookup
  <2>5. timed' \in [Clients -> BOOLEAN]
    <3>1. timed' = timed \/ timed' = [timed EXCEPT ![t] = FALSE]
      BY <1>12b DEF WaitLookup
    <3> QED
      BY <3>1
  <2>4. UNCHANGED <<clock, mutex, msg_hash, owned, ret, message, job, now, todo,
                    sends, requests, inbox, registered, replied, timedout>>
    BY <1>12b DEF WaitLookup
  <2> QED
    BY <2>1, <2>2, <2>3, <2>4, <2>5
<1>13. ASSUME NEW t \in Clients, WaitEnter(t) PROVE TypeOK'
  BY <1>13 DEF WaitEnter, ReqInv
<1>14. ASSUME NEW t \in Clients, Spurious(t) PROVE TypeOK'
  BY <1>14 DEF Spurious
<1>15. ASSUME NEW t \in Clients, WaitTimeout(t) PROVE TypeOK'
  BY <1>15 DEF WaitTimeout
<1>16. ASSUME NEW t \in Clients, WaitLeave(t) PROVE TypeOK'
  BY <1>16 DEF WaitLeave
<1>17. ASSUME NEW t \in Clients, WaitReturn(t) PROVE TypeOK'
  <2>1. t \in Inside
    BY <1>17 DEF WaitReturn, Inside, Waiting
  <2>2. refs - 1 \in Nat
    BY <2>1, InsideFinite DEF RefsInv
  <2> QED
    BY <1>17, <2>2 DEF WaitReturn
<1>18. ASSUME NEW t \in Threads, UseAfterFree(t) PROVE TypeOK'
  BY <1>18 DEF UseAfterFree
<1>19. CASE Dispose
  <2>2. refs - 1 \in Nat
    BY <1>19, InsideFinite DEF RefsInv, Dispose
  <2> QED
  BY <1>19, <2>2 DEF Dispose
<1>20. CASE UNCHANGED vars
  BY <1>20
<1> QED
  BY <1>1, <1>2, <1>3, <1>4, <1>5, <1>6, <1>7, <1>8, <1>9, <1>10, <1>11, <1>12, <1>13, <1>14, <1>15, <1>16, <1>17, <1>18, <1>19, <1>20,
     <1>12b
     DEF Next, Step, SendStep, ServiceStep, WaitStep, Terminated

(* Every step keeps the mutex with the service thread exactly while it is
   inside handle or clear. *)
LEMMA MutexStep == TypeOK /\ MutexDiscipline /\ NoDanglingWaiter /\ [Next]_vars => MutexDiscipline'
<1> SUFFICES ASSUME TypeOK, MutexDiscipline, NoDanglingWaiter, [Next]_vars
             PROVE  MutexDiscipline'
  OBVIOUS
<1> USE ThreadsAssumption, HandlersAssumption, NumbersAssumption, NoneAssumption
    DEF TypeOK, MutexDiscipline, PcClient, PcService, vars, hashVars, objVars, waitVars, serviceVars,
        netVars, history, Bump, Goto
<1>1. CASE Tick
  BY <1>1 DEF Tick
<1>2. ASSUME NEW id \in Ids, Respond(id)
      PROVE  MutexDiscipline'
  BY <1>2 DEF Respond
<1>3. ASSUME NEW t \in Threads, NEW id \in Ids, NEW d \in Timeouts, Register(t, id, d)
      PROVE  MutexDiscipline'
  BY <1>3 DEF Register
<1>4. ASSUME NEW t \in Threads, Transmit(t)
      PROVE  MutexDiscipline'
  BY <1>4 DEF Transmit
<1>5. ASSUME NEW id \in Ids, HandleLock(id)
      PROVE  MutexDiscipline'
  BY <1>5, HandleLockEffect DEF HandleLock
<1>6. CASE HandleCallback
  BY <1>6 DEF HandleCallback, AfterCallback
<1>7. CASE HandleEnd
  BY <1>7 DEF HandleEnd
<1>8. CASE ClearStart
  BY <1>8 DEF ClearStart
<1>9. CASE ClearLock
  BY <1>9 DEF ClearLock
<1>10. ASSUME NEW id \in Ids, ClearCallback(id)
      PROVE  MutexDiscipline'
  BY <1>10 DEF ClearCallback, AfterCallback
<1>11. CASE ClearEnd
  BY <1>11 DEF ClearEnd
<1>12. ASSUME NEW t \in Clients, NEW id \in Ids, WaitCall(t, id)
      PROVE  MutexDiscipline'
  BY <1>12 DEF WaitCall
<1>12b. ASSUME NEW t \in Clients, WaitLookup(t)
      PROVE  MutexDiscipline'
  BY <1>12b DEF WaitLookup
<1>13. ASSUME NEW t \in Clients, WaitEnter(t)
      PROVE  MutexDiscipline'
  BY <1>13 DEF WaitEnter
<1>14. ASSUME NEW t \in Clients, Spurious(t)
      PROVE  MutexDiscipline'
  BY <1>14 DEF Spurious
<1>15. ASSUME NEW t \in Clients, WaitTimeout(t)
      PROVE  MutexDiscipline'
  BY <1>15 DEF WaitTimeout
<1>16. ASSUME NEW t \in Clients, WaitLeave(t)
      PROVE  MutexDiscipline'
  BY <1>16 DEF WaitLeave
<1>17. ASSUME NEW t \in Clients, WaitReturn(t)
      PROVE  MutexDiscipline'
  BY <1>17 DEF WaitReturn
<1>18. ASSUME NEW t \in Threads, UseAfterFree(t)
      PROVE  MutexDiscipline'
  BY <1>18 DEF UseAfterFree
<1>19. CASE Dispose
  BY <1>19 DEF Dispose
<1>20. CASE UNCHANGED vars
  BY <1>20
<1> QED
  BY <1>1, <1>2, <1>3, <1>4, <1>5, <1>6, <1>7, <1>8, <1>9, <1>10, <1>11, <1>12, <1>13, <1>14, <1>15, <1>16, <1>17, <1>18, <1>19, <1>20,
     <1>12b
     DEF Next, Step, SendStep, ServiceStep, WaitStep, Terminated

(* Every step keeps the service thread's local variables in accordance with
   where it is. *)
LEMMA ServiceStepInv == TypeOK /\ MutexDiscipline /\ NoDanglingWaiter /\ ServiceInv /\ [Next]_vars => ServiceInv'
<1> SUFFICES ASSUME TypeOK, MutexDiscipline, NoDanglingWaiter, ServiceInv, [Next]_vars
             PROVE  ServiceInv'
  OBVIOUS
<1> USE ThreadsAssumption, HandlersAssumption, NumbersAssumption, NoneAssumption
    DEF TypeOK, MutexDiscipline, ServiceInv, Pending, Overdue, Expired, AsUnsigned, PcClient, PcService, vars, hashVars, objVars, waitVars, serviceVars,
        netVars, history, Bump, Goto
<1>1. CASE Tick
  BY <1>1 DEF Tick
<1>2. ASSUME NEW id \in Ids, Respond(id)
      PROVE  ServiceInv'
  BY <1>2 DEF Respond
<1>3. ASSUME NEW t \in Threads, NEW id \in Ids, NEW d \in Timeouts, Register(t, id, d)
      PROVE  ServiceInv'
  BY <1>3 DEF Register
<1>4. ASSUME NEW t \in Threads, Transmit(t)
      PROVE  ServiceInv'
  BY <1>4 DEF Transmit
<1>5. ASSUME NEW id \in Ids, HandleLock(id)
      PROVE  ServiceInv'
  <2>1. /\ pc[Service] = "idle"
        /\ pc'[Service] \in {"idle", "handle_cb", "handle_end"}
        /\ pc'[Service] = "handle_cb" => id \in Callbacks
        /\ pc'[Service] # "idle" => Pending(id)
    BY <1>5, HandleLockEffect DEF HandleLock
  <2>2. job' = IF Pending(id) THEN id ELSE job
    BY <1>5 DEF HandleLock
  <2>3. UNCHANGED <<msg_hash, now, clock, todo>>
    BY <1>5 DEF HandleLock
  <2>4. pc'[Service] = "idle" => ~Pending(id)
    BY <1>5, HandleLockEffect
  <2> QED
    BY <2>1, <2>2, <2>3, <2>4
<1>6. CASE HandleCallback
  BY <1>6 DEF HandleCallback, AfterCallback
<1>7. CASE HandleEnd
  BY <1>7 DEF HandleEnd
<1>8. CASE ClearStart
  BY <1>8 DEF ClearStart
<1>9. CASE ClearLock
  BY <1>9 DEF ClearLock
<1>10. ASSUME NEW id \in Ids, ClearCallback(id)
      PROVE  ServiceInv'
  BY <1>10 DEF ClearCallback, AfterCallback
<1>11. CASE ClearEnd
  BY <1>11 DEF ClearEnd
<1>12. ASSUME NEW t \in Clients, NEW id \in Ids, WaitCall(t, id)
      PROVE  ServiceInv'
  BY <1>12 DEF WaitCall
<1>12b. ASSUME NEW t \in Clients, WaitLookup(t)
      PROVE  ServiceInv'
  BY <1>12b DEF WaitLookup
<1>13. ASSUME NEW t \in Clients, WaitEnter(t)
      PROVE  ServiceInv'
  BY <1>13 DEF WaitEnter
<1>14. ASSUME NEW t \in Clients, Spurious(t)
      PROVE  ServiceInv'
  BY <1>14 DEF Spurious
<1>15. ASSUME NEW t \in Clients, WaitTimeout(t)
      PROVE  ServiceInv'
  BY <1>15 DEF WaitTimeout
<1>16. ASSUME NEW t \in Clients, WaitLeave(t)
      PROVE  ServiceInv'
  BY <1>16 DEF WaitLeave
<1>17. ASSUME NEW t \in Clients, WaitReturn(t)
      PROVE  ServiceInv'
  BY <1>17 DEF WaitReturn
<1>18. ASSUME NEW t \in Threads, UseAfterFree(t)
      PROVE  ServiceInv'
  BY <1>18 DEF UseAfterFree
<1>19. CASE Dispose
  BY <1>19 DEF Dispose
<1>20. CASE UNCHANGED vars
  BY <1>20
<1> QED
  BY <1>1, <1>2, <1>3, <1>4, <1>5, <1>6, <1>7, <1>8, <1>9, <1>10, <1>11, <1>12, <1>13, <1>14, <1>15, <1>16, <1>17, <1>18, <1>19, <1>20,
     <1>12b
     DEF Next, Step, SendStep, ServiceStep, WaitStep, Terminated

(* Every step keeps a message id with the threads that send or wait, and with
   no others. *)
LEMMA ReqStep == TypeOK /\ ReqInv /\ NoDanglingWaiter /\ [Next]_vars => ReqInv'
<1> SUFFICES ASSUME TypeOK, ReqInv, NoDanglingWaiter, [Next]_vars
             PROVE  ReqInv'
  OBVIOUS
<1> USE ThreadsAssumption, HandlersAssumption, NumbersAssumption, NoneAssumption
    DEF TypeOK, ReqInv, PcClient, PcService, vars, hashVars, objVars, waitVars, serviceVars,
        netVars, history, Bump, Goto
<1>1. CASE Tick
  BY <1>1 DEF Tick
<1>2. ASSUME NEW id \in Ids, Respond(id)
      PROVE  ReqInv'
  BY <1>2 DEF Respond
<1>3. ASSUME NEW t \in Threads, NEW id \in Ids, NEW d \in Timeouts, Register(t, id, d)
      PROVE  ReqInv'
  BY <1>3 DEF Register
<1>4. ASSUME NEW t \in Threads, Transmit(t)
      PROVE  ReqInv'
  BY <1>4 DEF Transmit
<1>5. ASSUME NEW id \in Ids, HandleLock(id)
      PROVE  ReqInv'
  BY <1>5, HandleLockEffect DEF HandleLock
<1>6. CASE HandleCallback
  BY <1>6 DEF HandleCallback, AfterCallback
<1>7. CASE HandleEnd
  BY <1>7 DEF HandleEnd
<1>8. CASE ClearStart
  BY <1>8 DEF ClearStart
<1>9. CASE ClearLock
  BY <1>9 DEF ClearLock
<1>10. ASSUME NEW id \in Ids, ClearCallback(id)
      PROVE  ReqInv'
  BY <1>10 DEF ClearCallback, AfterCallback
<1>11. CASE ClearEnd
  BY <1>11 DEF ClearEnd
<1>12. ASSUME NEW t \in Clients, NEW id \in Ids, WaitCall(t, id)
      PROVE  ReqInv'
  BY <1>12 DEF WaitCall
<1>12b. ASSUME NEW t \in Clients, WaitLookup(t)
      PROVE  ReqInv'
  BY <1>12b DEF WaitLookup
<1>13. ASSUME NEW t \in Clients, WaitEnter(t)
      PROVE  ReqInv'
  BY <1>13 DEF WaitEnter
<1>14. ASSUME NEW t \in Clients, Spurious(t)
      PROVE  ReqInv'
  BY <1>14 DEF Spurious
<1>15. ASSUME NEW t \in Clients, WaitTimeout(t)
      PROVE  ReqInv'
  BY <1>15 DEF WaitTimeout
<1>16. ASSUME NEW t \in Clients, WaitLeave(t)
      PROVE  ReqInv'
  BY <1>16 DEF WaitLeave
<1>17. ASSUME NEW t \in Clients, WaitReturn(t)
      PROVE  ReqInv'
  BY <1>17 DEF WaitReturn
<1>18. ASSUME NEW t \in Threads, UseAfterFree(t)
      PROVE  ReqInv'
  BY <1>18 DEF UseAfterFree
<1>19. CASE Dispose
  BY <1>19 DEF Dispose
<1>20. CASE UNCHANGED vars
  BY <1>20
<1> QED
  BY <1>1, <1>2, <1>3, <1>4, <1>5, <1>6, <1>7, <1>8, <1>9, <1>10, <1>11, <1>12, <1>13, <1>14, <1>15, <1>16, <1>17, <1>18, <1>19, <1>20,
     <1>12b
     DEF Next, Step, SendStep, ServiceStep, WaitStep, Terminated

(* Every step keeps waiter_hash free of waiters that are no longer waiting. *)
LEMMA DanglingStep == TypeOK /\ ReqInv /\ NoDanglingWaiter /\ [Next]_vars => NoDanglingWaiter'
<1> SUFFICES ASSUME TypeOK, ReqInv, NoDanglingWaiter, [Next]_vars
             PROVE  NoDanglingWaiter'
  OBVIOUS
<1> USE ThreadsAssumption, HandlersAssumption, NumbersAssumption, NoneAssumption
    DEF TypeOK, ReqInv, NoDanglingWaiter, PcClient, PcService, vars, hashVars, objVars, waitVars, serviceVars,
        netVars, history, Bump, Goto
<1>1. CASE Tick
  BY <1>1 DEF Tick
<1>2. ASSUME NEW id \in Ids, Respond(id)
      PROVE  NoDanglingWaiter'
  BY <1>2 DEF Respond
<1>3. ASSUME NEW t \in Threads, NEW id \in Ids, NEW d \in Timeouts, Register(t, id, d)
      PROVE  NoDanglingWaiter'
  BY <1>3 DEF Register
<1>4. ASSUME NEW t \in Threads, Transmit(t)
      PROVE  NoDanglingWaiter'
  BY <1>4 DEF Transmit
<1>5. ASSUME NEW id \in Ids, HandleLock(id)
      PROVE  NoDanglingWaiter'
  <2>1. UNCHANGED <<waiter_hash, req>>
    BY <1>5 DEF HandleLock
  <2>2. \A t \in Clients :
           pc[t] \in {"waiting", "woken"} => pc'[t] \in {"waiting", "woken"}
    BY <1>5, HandleLockEffect
  <2> QED
    BY <2>1, <2>2
<1>6. CASE HandleCallback
  BY <1>6 DEF HandleCallback, AfterCallback
<1>7. CASE HandleEnd
  BY <1>7 DEF HandleEnd
<1>8. CASE ClearStart
  BY <1>8 DEF ClearStart
<1>9. CASE ClearLock
  BY <1>9 DEF ClearLock
<1>10. ASSUME NEW id \in Ids, ClearCallback(id)
      PROVE  NoDanglingWaiter'
  BY <1>10 DEF ClearCallback, AfterCallback
<1>11. CASE ClearEnd
  BY <1>11 DEF ClearEnd
<1>12. ASSUME NEW t \in Clients, NEW id \in Ids, WaitCall(t, id)
      PROVE  NoDanglingWaiter'
  BY <1>12 DEF WaitCall
<1>12b. ASSUME NEW t \in Clients, WaitLookup(t)
      PROVE  NoDanglingWaiter'
  BY <1>12b DEF WaitLookup
<1>13. ASSUME NEW t \in Clients, WaitEnter(t)
      PROVE  NoDanglingWaiter'
  BY <1>13 DEF WaitEnter
<1>14. ASSUME NEW t \in Clients, Spurious(t)
      PROVE  NoDanglingWaiter'
  BY <1>14 DEF Spurious
<1>15. ASSUME NEW t \in Clients, WaitTimeout(t)
      PROVE  NoDanglingWaiter'
  BY <1>15 DEF WaitTimeout
<1>16. ASSUME NEW t \in Clients, WaitLeave(t)
      PROVE  NoDanglingWaiter'
  BY <1>16 DEF WaitLeave
<1>17. ASSUME NEW t \in Clients, WaitReturn(t)
      PROVE  NoDanglingWaiter'
  BY <1>17 DEF WaitReturn
<1>18. ASSUME NEW t \in Threads, UseAfterFree(t)
      PROVE  NoDanglingWaiter'
  BY <1>18 DEF UseAfterFree
<1>19. CASE Dispose
  BY <1>19 DEF Dispose
<1>20. CASE UNCHANGED vars
  BY <1>20
<1> QED
  BY <1>1, <1>2, <1>3, <1>4, <1>5, <1>6, <1>7, <1>8, <1>9, <1>10, <1>11, <1>12, <1>13, <1>14, <1>15, <1>16, <1>17, <1>18, <1>19, <1>20,
     <1>12b
     DEF Next, Step, SendStep, ServiceStep, WaitStep, Terminated

(* References. *)

Leaked == refs - (IF owned THEN 1 ELSE 0) - Cardinality(Inside)

(* A step that keeps the app's reference moves Leaked by what it adds to refs
   and does not add to the threads inside. *)
LEMMA LeakedCount ==
    ASSUME NEW d \in Int, NEW e \in Int,
           refs \in Int, Cardinality(Inside) \in Int,
           refs' = refs + d, owned' = owned,
           Cardinality(Inside') = Cardinality(Inside) + e
    PROVE  Leaked \in Int /\ Leaked' = Leaked + (d - e)
<1> DEFINE h == IF owned THEN 1 ELSE 0
<1>1. h \in Int /\ h' = h
  OBVIOUS
<1>2. Leaked = refs - h - Cardinality(Inside)
  BY DEF Leaked
<1>3. Leaked' = refs' - h' - Cardinality(Inside')
  BY DEF Leaked
<1> HIDE DEF h
<1> QED
  BY <1>1, <1>2, <1>3

(* No step makes the references fall behind those in use, and only a wait
   that is refused keeps one. *)
LEMMA LeakStep ==
    ASSUME TypeOK, NoDanglingWaiter, RefsInv, [Next]_vars
    PROVE  \/ Leaked' = Leaked
           \/ /\ Leaked' = Leaked + 1
              /\ \E t \in Clients : WaitLookup(t) /\ waiter_hash[req[t]] # None
<1> DEFINE Refused == \E t \in Clients :
                         WaitLookup(t) /\ waiter_hash[req[t]] # None
<1> DEFINE Goal == Leaked' = Leaked \/ (Leaked' = Leaked + 1 /\ Refused)
<1> USE ThreadsAssumption DEF TypeOK, PcClient, PcService, vars, hashVars, objVars, waitVars, serviceVars,
        netVars, history, Bump, Goto
<1>a. ASSUME UNCHANGED <<refs, owned>>,
             \A t \in Clients : Waiting(t)' = Waiting(t)
      PROVE  Goal
  <2>1. Inside' = Inside
    BY <1>a DEF Inside
  <2> QED
    BY <2>1, <1>a DEF Leaked
<1> SUFFICES Goal
  OBVIOUS
<1> HIDE DEF Goal
<1>1. CASE Tick
  BY <1>1, <1>a DEF Tick, Waiting
<1>2. ASSUME NEW id \in Ids, Respond(id)
      PROVE  Goal
  BY <1>2, <1>a DEF Respond, Waiting
<1>3. ASSUME NEW t \in Threads, NEW id \in Ids, NEW d \in Timeouts, Register(t, id, d)
      PROVE  Goal
  BY <1>3, <1>a DEF Register, Waiting
<1>4. ASSUME NEW t \in Threads, Transmit(t)
      PROVE  Goal
  BY <1>4, <1>a DEF Transmit, Waiting
<1>5. ASSUME NEW id \in Ids, HandleLock(id)
      PROVE  Goal
  <2>1. UNCHANGED <<refs, owned>>
    BY <1>5 DEF HandleLock
  <2>2. \A t \in Clients : Waiting(t)' = Waiting(t)
    BY <1>5, HandleLockEffect DEF Waiting
  <2> QED
    BY <2>1, <2>2, <1>a
<1>6. CASE HandleCallback
  BY <1>6, <1>a DEF HandleCallback, AfterCallback, Waiting
<1>7. CASE HandleEnd
  BY <1>7, <1>a DEF HandleEnd, Waiting
<1>8. CASE ClearStart
  BY <1>8, <1>a DEF ClearStart, Waiting
<1>9. CASE ClearLock
  BY <1>9, <1>a DEF ClearLock, Waiting
<1>10. ASSUME NEW id \in Ids, ClearCallback(id)
      PROVE  Goal
  BY <1>10, <1>a DEF ClearCallback, AfterCallback, Waiting
<1>11. CASE ClearEnd
  BY <1>11, <1>a DEF ClearEnd, Waiting
<1>12. ASSUME NEW t \in Clients, NEW id \in Ids, WaitCall(t, id)
      PROVE  Goal
  BY <1>12, <1>a DEF WaitCall, Waiting
<1>12b. ASSUME NEW t \in Clients, WaitLookup(t)
      PROVE  Goal
  <2>1. CASE waiter_hash[req[t]] = None
    <3>1. Inside' = Inside \cup {t} /\ t \notin Inside
      BY <1>12b, <2>1 DEF WaitLookup, Inside, Waiting
    <3>2. Cardinality(Inside') = Cardinality(Inside) + 1
      BY <3>1, InsideFinite, FS_AddElement
    <3>3. UNCHANGED owned /\ refs' = refs + 1
      BY <1>12b DEF WaitLookup
    <3>4. Leaked \in Int /\ Leaked' = Leaked + (1 - 1)
      BY <3>2, <3>3, InsideFinite, LeakedCount
    <3> QED
      BY <3>4 DEF Goal
  <2>2. CASE waiter_hash[req[t]] # None
    <3>1. Inside' = Inside
      BY <1>12b, <2>2 DEF WaitLookup, Inside, Waiting
    <3>2. UNCHANGED owned /\ refs' = refs + 1
      BY <1>12b DEF WaitLookup
    <3>3. Leaked' = Leaked + (1 - 0)
      BY <3>1, <3>2, InsideFinite, LeakedCount
    <3>4. Refused
      BY <1>12b, <2>2
    <3> QED
      BY <3>3, <3>4 DEF Goal
  <2> QED
    BY <2>1, <2>2
<1>13. ASSUME NEW t \in Clients, WaitEnter(t)
      PROVE  Goal
  BY <1>13, <1>a DEF WaitEnter, Waiting
<1>14. ASSUME NEW t \in Clients, Spurious(t)
      PROVE  Goal
  BY <1>14, <1>a DEF Spurious, Waiting
<1>15. ASSUME NEW t \in Clients, WaitTimeout(t)
      PROVE  Goal
  BY <1>15, <1>a DEF WaitTimeout, Waiting
<1>16. ASSUME NEW t \in Clients, WaitLeave(t)
      PROVE  Goal
  BY <1>16, <1>a DEF WaitLeave, Waiting
<1>17. ASSUME NEW t \in Clients, WaitReturn(t)
      PROVE  Goal
  <2>1. Inside' = Inside \ {t} /\ t \in Inside
    BY <1>17 DEF WaitReturn, Inside, Waiting
  <2>2. Cardinality(Inside') = Cardinality(Inside) - 1
    BY <2>1, InsideFinite, FS_RemoveElement
  <2>3. UNCHANGED owned /\ refs' = refs - 1
    BY <1>17 DEF WaitReturn
  <2>4. /\ refs' = refs + (-1)
        /\ Cardinality(Inside') = Cardinality(Inside) + (-1)
        /\ refs \in Int /\ Cardinality(Inside) \in Int
    BY <2>2, <2>3, InsideFinite
  <2>5. Leaked \in Int /\ Leaked' = Leaked + ((-1) - (-1))
    <3>1. owned' = owned /\ -1 \in Int
      BY <2>3
    <3> QED
      BY <2>4, <3>1, LeakedCount
  <2> QED
    BY <2>5 DEF Goal
<1>18. ASSUME NEW t \in Threads, UseAfterFree(t)
      PROVE  Goal
  BY <1>18, <1>a DEF UseAfterFree, Waiting
<1>19. CASE Dispose
  <2>1. Inside' = Inside /\ owned /\ ~owned' /\ refs' = refs - 1
    BY <1>19 DEF Dispose, Inside, Waiting
  <2> QED
    BY <2>1, InsideFinite DEF Leaked, Goal
<1>20. CASE UNCHANGED vars
  BY <1>20, <1>a DEF Waiting
<1> QED
  BY <1>1, <1>2, <1>3, <1>4, <1>5, <1>6, <1>7, <1>8, <1>9, <1>10, <1>11, <1>12, <1>13, <1>14, <1>15, <1>16, <1>17, <1>18, <1>19, <1>20,
     <1>12b
     DEF Next, Step, SendStep, ServiceStep, WaitStep, Terminated

(* Every step keeps the references at no less than those in use. *)
LEMMA RefsStep ==
    ASSUME TypeOK, NoDanglingWaiter, RefsInv, [Next]_vars, TypeOK'
    PROVE  RefsInv'
<1>1. IsFiniteSet(Inside') /\ Cardinality(Inside') \in Nat
  <2>1. Inside' \subseteq Clients
    BY DEF Inside
  <2> QED
    BY <2>1, ThreadsAssumption, FS_Subset, FS_CardinalityType
<1> QED
  BY <1>1, LeakStep, InsideFinite DEF Leaked, RefsInv, TypeOK

-----------------------------------------------------------------------------
(* The inductive invariant holds at the start. *)
LEMMA InitInv == Init => IInv
<1> SUFFICES ASSUME Init PROVE IInv
  OBVIOUS
<1> USE ThreadsAssumption, HandlersAssumption, NumbersAssumption, NoneAssumption
    DEF Init
<1>1. TypeOK
  BY DEF TypeOK, PcClient, PcService
<1>2. MutexDiscipline /\ ServiceInv /\ ReqInv /\ NoDanglingWaiter
  BY DEF MutexDiscipline, ServiceInv, ReqInv, NoDanglingWaiter, Pending
<1>3. RefsInv
  <2>1. Inside = {}
    BY DEF Inside, Waiting
  <2> QED
    BY <2>1, FS_EmptySet DEF RefsInv
<1> QED
  BY <1>1, <1>2, <1>3 DEF IInv

(* The inductive invariant is kept by every step. *)
LEMMA InvStep == IInv /\ [Next]_vars => IInv'
  BY TypeStep, MutexStep, ServiceStepInv, ReqStep, DanglingStep, RefsStep
     DEF IInv

(* The inductive invariant, from which the safety properties follow, holds in
   every state, whoever waits for what and whatever handlers do. *)
THEOREM InductiveInvariant == Spec => []IInv
  BY InitInv, InvStep, PTL DEF Spec

(* Every variable keeps its type and the manager is never released more often
   than it was referenced. *)
THEOREM TypeCorrect == Spec => []TypeOK
<1>1. IInv => TypeOK
  BY DEF IInv
<1> QED
  BY <1>1, InductiveInvariant, PTL

(* No waiter struct is in waiter_hash once its thread may free it, whichever
   threads wait for whichever ids. *)
THEOREM WaitersAlive == Spec => []NoDanglingWaiter
<1>1. IInv => NoDanglingWaiter
  BY DEF IInv
<1> QED
  BY <1>1, InductiveInvariant, PTL

(* The mutex is locked across steps exactly while the service thread handles
   or clears. *)
THEOREM MutexDisciplined == Spec => []MutexDiscipline
<1>1. IInv => MutexDiscipline
  BY DEF IInv
<1> QED
  BY <1>1, InductiveInvariant, PTL

(* clear times a request out before its time only with a stale clock. *)
THEOREM EarlyTimeoutIsStale == Spec => EarlyOnlyIfStale
<1> DEFINE Timely(id) ==
        timedout'[id] # timedout[id] =>
          \/ clock >= msg_hash[id].time + msg_hash[id].timeout
          \/ now < msg_hash[id].time
<1>1. ASSUME IInv, [Next]_vars, NEW id \in Ids PROVE Timely(id)
  <2>1. CASE UNCHANGED timedout
    BY <2>1
  <2>2. ASSUME NEW i \in Ids, ClearCallback(i) PROVE Timely(id)
    <3>1. /\ timedout'[id] # timedout[id] => id = i
          /\ i \in Overdue
      BY <1>1, <2>2 DEF IInv, TypeOK, ServiceInv, ClearCallback, Bump
    <3>2. AsUnsigned(now - msg_hash[i].time) >= msg_hash[i].timeout
      BY <3>1 DEF Overdue, Expired
    <3>3. msg_hash[i].time \in Nat /\ msg_hash[i].timeout \in Nat
      <4>1. msg_hash[i] \in Entry
        BY <1>1, <3>1 DEF IInv, TypeOK, Overdue, Pending
      <4> QED
        BY <4>1, NumbersAssumption
    <3>4. now \in Int /\ clock \in Int /\ now <= clock
      BY <1>1, NumbersAssumption DEF IInv, TypeOK, ServiceInv
    <3> QED
      BY <3>1, <3>2, <3>3, <3>4, NumbersAssumption DEF AsUnsigned
  <2>3. UNCHANGED timedout \/ \E i \in Ids : ClearCallback(i)
    BY <1>1 DEF Next, Step, SendStep, ServiceStep, WaitStep, Terminated, vars,
         history, Tick, Respond, Register, Transmit, HandleLock,
         HandleCallback, HandleEnd, ClearStart, ClearLock, ClearEnd,
         WaitCall, WaitLookup, WaitEnter, Spurious, WaitTimeout, WaitLeave, WaitReturn,
         UseAfterFree, Dispose
  <2> QED
    BY <2>1, <2>2, <2>3
<1>2. IInv /\ [Next]_vars =>
        [\A id \in Ids : Timely(id)]_vars
  BY <1>1
<1> QED
  BY <1>2, InductiveInvariant, PTL DEF Spec, EarlyOnlyIfStale

-----------------------------------------------------------------------------
(* Waits, when only the sender of a message waits for its response. *)

(* Every step keeps each waiting thread registered under its own id. *)
LEMMA OwnStep ==
    ASSUME ~SharedWait, TypeOK, ReqInv, NoDanglingWaiter, OwnInv, [Next]_vars
    PROVE  OwnInv'
<1> USE ThreadsAssumption, NoneAssumption
    DEF TypeOK, OwnInv, Waiting, PcClient, PcService, vars, hashVars, objVars, waitVars, serviceVars,
        netVars, history, Bump, Goto
<1>1. CASE Tick
  BY <1>1 DEF Tick
<1>2. ASSUME NEW id \in Ids, Respond(id)
      PROVE  OwnInv'
  BY <1>2 DEF Respond
<1>3. ASSUME NEW t \in Threads, NEW id \in Ids, NEW d \in Timeouts, Register(t, id, d)
      PROVE  OwnInv'
  BY <1>3 DEF Register
<1>4. ASSUME NEW t \in Threads, Transmit(t)
      PROVE  OwnInv'
  BY <1>4 DEF Transmit
<1>5. ASSUME NEW id \in Ids, HandleLock(id)
      PROVE  OwnInv'
  <2>1. UNCHANGED <<table, refs, req, waiter_hash>>
    BY <1>5 DEF HandleLock
  <2>2. \A t \in Clients :
           pc'[t] = IF pc[t] = "waiting" /\ waiter_hash[id] = t
                      THEN "woken" ELSE pc[t]
    BY <1>5, HandleLockEffect
  <2>3. \A t \in Clients :
           message'[t] = IF waiter_hash[id] = t THEN id ELSE message[t]
    BY <1>5, HandleLockEffect
  <2>4. \A t \in Clients :
           waiter_hash[id] = t => pc[t] \in {"waiting", "woken"}
    BY DEF NoDanglingWaiter
  <2>5. \A t \in Clients : pc'[t] \notin {"woken", "return"} => message'[t] = None
    BY <2>2, <2>3, <2>4
  <2> QED
    BY <2>1, <2>2, <2>5
<1>6. CASE HandleCallback
  BY <1>6 DEF HandleCallback, AfterCallback
<1>7. CASE HandleEnd
  BY <1>7 DEF HandleEnd
<1>8. CASE ClearStart
  BY <1>8 DEF ClearStart
<1>9. CASE ClearLock
  BY <1>9 DEF ClearLock
<1>10. ASSUME NEW id \in Ids, ClearCallback(id)
      PROVE  OwnInv'
  BY <1>10 DEF ClearCallback, AfterCallback
<1>11. CASE ClearEnd
  BY <1>11 DEF ClearEnd
<1>12. ASSUME NEW t \in Clients, NEW id \in Ids, WaitCall(t, id)
      PROVE  OwnInv'
  BY <1>12 DEF WaitCall
<1>12b. ASSUME NEW t \in Clients, WaitLookup(t)
      PROVE  OwnInv'
  <2>1. waiter_hash[req[t]] = None
    BY <1>12b DEF WaitLookup, ReqInv, NoDanglingWaiter
  <2> QED
    BY <1>12b, <2>1 DEF WaitLookup
<1>13. ASSUME NEW t \in Clients, WaitEnter(t)
      PROVE  OwnInv'
  BY <1>13 DEF WaitEnter, ReqInv, NoDanglingWaiter
<1>14. ASSUME NEW t \in Clients, Spurious(t)
      PROVE  OwnInv'
  BY <1>14 DEF Spurious
<1>15. ASSUME NEW t \in Clients, WaitTimeout(t)
      PROVE  OwnInv'
  BY <1>15 DEF WaitTimeout
<1>16. ASSUME NEW t \in Clients, WaitLeave(t)
      PROVE  OwnInv'
  BY <1>16 DEF WaitLeave, ReqInv, NoDanglingWaiter
<1>17. ASSUME NEW t \in Clients, WaitReturn(t)
      PROVE  OwnInv'
  BY <1>17 DEF WaitReturn
<1>18. ASSUME NEW t \in Threads, UseAfterFree(t)
      PROVE  OwnInv'
  BY <1>18 DEF UseAfterFree
<1>19. CASE Dispose
  BY <1>19 DEF Dispose
<1>20. CASE UNCHANGED vars
  BY <1>20
<1> QED
  BY <1>1, <1>2, <1>3, <1>4, <1>5, <1>6, <1>7, <1>8, <1>9, <1>10, <1>11, <1>12, <1>13, <1>14, <1>15, <1>16, <1>17, <1>18, <1>19, <1>20,
     <1>12b
     DEF Next, Step, SendStep, ServiceStep, WaitStep, Terminated

(* When only the sender of a message waits for its response, each waiting
   thread is registered and the table is never freed. *)
LEMMA OwnInvariant ==
    ASSUME ~SharedWait
    PROVE  Spec => [](IInv /\ OwnInv)
<1>1. Init => OwnInv
  BY ThreadsAssumption DEF Init, OwnInv, Waiting
<1>2. IInv /\ OwnInv /\ [Next]_vars => OwnInv'
  BY OwnStep DEF IInv
<1> QED
  BY <1>1, <1>2, InductiveInvariant, PTL DEF Spec

(* A thread that sleeps in wait_for is registered under the id it waits for
   and has no response yet, so the response that comes wakes it. *)
THEOREM NoWakeupLost ==
    ASSUME ~SharedWait
    PROVE  Spec => []NoLostWakeup
<1>1. TypeOK /\ OwnInv => NoLostWakeup
  BY DEF TypeOK, OwnInv, NoLostWakeup
<1> QED
  BY <1>1, OwnInvariant, TypeCorrect, PTL

(* The manager has one reference for the app and one for each thread that has
   taken its own, at all times, also when the app drops the manager under a
   thread that has not: it is there until the last of them leaves, and no
   longer. *)
THEOREM ReferencesExact ==
    ASSUME ~SharedWait
    PROVE  Spec => []ManagerOutlivesWaiters
<1> DEFINE NoLeak == Leaked = 0
<1>1. Init => NoLeak
  <2> SUFFICES ASSUME Init PROVE Leaked = 0
    OBVIOUS
  <2>1. Inside = {}
    BY ThreadsAssumption DEF Init, Inside, Waiting
  <2>2. Cardinality(Inside) = 0
    BY <2>1, FS_EmptySet
  <2> QED
    BY <2>2 DEF Init, Leaked
<1>2. IInv /\ OwnInv /\ NoLeak /\ [Next]_vars => NoLeak'
  <2> SUFFICES ASSUME IInv, OwnInv, Leaked = 0, [Next]_vars PROVE Leaked' = 0
    OBVIOUS
  <2>1. ASSUME NEW t \in Clients, WaitLookup(t)
        PROVE  waiter_hash[req[t]] = None
    BY <2>1, ThreadsAssumption
       DEF WaitLookup, IInv, TypeOK, ReqInv, NoDanglingWaiter, OwnInv, Waiting
  <2> QED
    BY <2>1, LeakStep DEF IInv
<1>3. IInv /\ OwnInv /\ NoLeak => ManagerOutlivesWaiters
  <2> SUFFICES ASSUME IInv, OwnInv, Leaked = 0 PROVE ManagerOutlivesWaiters
    OBVIOUS
  <2>1. refs \in Int /\ Cardinality(Inside) \in Int
    BY InsideFinite DEF IInv, TypeOK
  <2> DEFINE h == IF owned THEN 1 ELSE 0
  <2>2. h \in Int
    OBVIOUS
  <2>3. refs - h - Cardinality(Inside) = 0
    BY DEF Leaked
  <2>4. refs = h + Cardinality(Inside)
    <3> HIDE DEF h
    <3> QED
      BY <2>1, <2>2, <2>3
  <2>5. refs > 0 <=> owned \/ Inside # {}
    <3>1. Inside = {} => Cardinality(Inside) = 0
      BY FS_EmptySet
    <3> QED
      BY <2>1, <2>4, <3>1, InsideFinite
  <2> QED
    BY <2>4, <2>5 DEF ManagerOutlivesWaiters, OwnInv
<1> HIDE DEF NoLeak
<1> QED
  BY <1>1, <1>2, <1>3, OwnInvariant, PTL DEF Spec

-----------------------------------------------------------------------------
(* The lifecycle of a request with a handler. *)

SameCounts ==
    \A r \in Callbacks : /\ registered'[r] = registered[r]
                         /\ replied'[r] = replied[r]
                         /\ timedout'[r] = timedout[r]
Quiet == Open' = Open /\ SameCounts
Opens(r) ==
    /\ r \notin Open /\ Open' = Open \cup {r}
    /\ registered' = Bump(registered, r) /\ UNCHANGED <<replied, timedout>>
Answers(r) ==
    /\ r \in Open /\ Open' = Open \ {r}
    /\ replied' = Bump(replied, r) /\ UNCHANGED <<registered, timedout>>
Expires(r) ==
    /\ r \in Open /\ Open' = Open \ {r}
    /\ timedout' = Bump(timedout, r) /\ UNCHANGED <<registered, replied>>

LifecycleStep ==
    Quiet \/ \E r \in Callbacks : Opens(r) \/ Answers(r) \/ Expires(r)

(* Every step of the manager is a step of the lifecycle or none. *)
LEMMA LifecycleSteps == IInv /\ [Next]_vars => LifecycleStep
<1> SUFFICES ASSUME IInv, [Next]_vars PROVE LifecycleStep
  OBVIOUS
<1> USE ThreadsAssumption, HandlersAssumption, NoneAssumption
    DEF IInv, TypeOK, PcClient, PcService, vars, hashVars, objVars, waitVars, serviceVars,
        netVars, history, Bump, Goto
<1>a. ASSUME UNCHANGED <<msg_hash, job, now, todo>>, pc'[Service] = pc[Service],
             SameCounts
      PROVE  LifecycleStep
  BY <1>a DEF LifecycleStep, Quiet, Open, Called, Overdue, Pending, Expired
<1>b. ASSUME UNCHANGED msg_hash, SameCounts,
             \A r \in Callbacks : ~Called(r), \A r \in Callbacks : ~Called(r)'
      PROVE  LifecycleStep
  BY <1>b DEF LifecycleStep, Quiet, Open, Pending
<1>c. pc[Service] \in {"idle", "transmit", "clear_lock", "handle_cb"}
        => \A r \in Ids : ~Called(r)
  BY DEF Called
<1>1. CASE Tick
  BY <1>1, <1>a DEF Tick, SameCounts
<1>2. ASSUME NEW id \in Ids, Respond(id)
      PROVE  LifecycleStep
  BY <1>2, <1>a DEF Respond, SameCounts
<1>3. ASSUME NEW t \in Threads, NEW id \in Ids, NEW d \in Timeouts, Register(t, id, d)
      PROVE  LifecycleStep
  <2>1. /\ mutex = None /\ Service # None
        /\ \A r \in Ids : ~Called(r) /\ ~Called(r)'
    BY <1>3 DEF Register, MutexDiscipline, Called
  <2>2. CASE Pending(id) \/ id \notin Callbacks
    <3>1. SameCounts
      BY <1>3, <2>2 DEF Register, SameCounts
    <3>2. Open' = Open
      BY <1>3, <2>1, <2>2 DEF Register, Open, Pending
    <3> QED
      BY <3>1, <3>2 DEF LifecycleStep, Quiet
  <2>3. CASE ~Pending(id) /\ id \in Callbacks
    <3> DEFINE e == [time |-> clock, timeout |-> d]
    <3>1. msg_hash' = [msg_hash EXCEPT ![id] = e] /\ e # None
      BY <1>3, <2>3, NumbersAssumption DEF Register
    <3> HIDE DEF e
    <3>2. Open' = Open \cup {id} /\ id \notin Open
      BY <3>1, <2>1, <2>3 DEF Open, Pending
    <3> QED
      BY <1>3, <2>3, <3>2 DEF LifecycleStep, Opens, Register
  <2> QED
    BY <2>2, <2>3
<1>4. ASSUME NEW t \in Threads, Transmit(t)
      PROVE  LifecycleStep
  <2>1. CASE t = Service
    <3>1. \A r \in Ids : ~Called(r) /\ ~Called(r)'
      BY <1>4, <2>1 DEF Transmit, Called
    <3> QED
      BY <1>4, <3>1, <1>b DEF Transmit, SameCounts
  <2>2. CASE t # Service
    BY <1>4, <2>2, <1>a DEF Transmit, SameCounts
  <2> QED
    BY <2>1, <2>2
<1>5. ASSUME NEW id \in Ids, HandleLock(id)
      PROVE  LifecycleStep
  <2>1. UNCHANGED msg_hash /\ SameCounts
    BY <1>5 DEF HandleLock, SameCounts
  <2>2. \A r \in Ids : ~Called(r)
    BY <1>5, <1>c DEF HandleLock
  <2>3. \A r \in Callbacks : ~Called(r)'
    <3>1. pc'[Service] = IF ~Pending(id) THEN "idle"
                         ELSE IF id \in Callbacks THEN "handle_cb"
                                                  ELSE "handle_end"
      BY <1>5, HandleLockEffect
    <3>2. Pending(id) => job' = id
      BY <1>5 DEF HandleLock
    <3> QED
      BY <3>1, <3>2 DEF Called
  <2> QED
    BY <2>1, <2>2, <2>3, <1>b
<1>6. CASE HandleCallback
  <2>1. job \in Callbacks /\ Pending(job) /\ job # None
    BY <1>6 DEF HandleCallback, ServiceInv
  <2>2. \A r \in Ids : ~Called(r)
    BY <1>6, <1>c DEF HandleCallback
  <2>3. \A r \in Ids : Called(r)' <=> r = job
    <3>1. pc'[Service] \in {"handle_end", "relock"} /\ job' = job
      BY <1>6 DEF HandleCallback, AfterCallback
    <3> QED
      BY <3>1, <2>1 DEF Called
  <2>4. job \in Open /\ Open' = Open \ {job}
    BY <1>6, <2>1, <2>2, <2>3 DEF HandleCallback, Open, Pending
  <2> QED
    BY <1>6, <2>1, <2>4 DEF LifecycleStep, Answers, HandleCallback
<1>7. CASE HandleEnd
  <2>1. job \in Ids /\ (\A r \in Ids : Called(r) <=> r = job)
    BY <1>7 DEF HandleEnd, ServiceInv, Called
  <2>2. \A r \in Ids : ~Called(r)'
    BY <1>7 DEF HandleEnd, Called
  <2>3. Open' = Open
    BY <1>7, <2>1, <2>2 DEF HandleEnd, Open, Pending
  <2> QED
    BY <1>7, <2>3 DEF LifecycleStep, Quiet, SameCounts, HandleEnd
<1>8. CASE ClearStart
  <2>1. \A r \in Ids : ~Called(r) /\ ~Called(r)'
    BY <1>8 DEF ClearStart, Called
  <2> QED
    BY <1>8, <2>1, <1>b DEF ClearStart, SameCounts
<1>9. CASE ClearLock
  <2>1. Overdue' = Overdue /\ todo' = Overdue \cap Callbacks
    BY <1>9 DEF ClearLock, Overdue, Pending, Expired
  <2>2. \A r \in Ids : ~Called(r)
    BY <1>9, <1>c DEF ClearLock
  <2>3. \A r \in Callbacks : ~Called(r)'
    BY <1>9, <2>1 DEF ClearLock, Called
  <2> QED
    BY <1>9, <2>2, <2>3, <1>b DEF ClearLock, SameCounts
<1>10. ASSUME NEW id \in Ids, ClearCallback(id)
      PROVE  LifecycleStep
  <2>1. id \in Callbacks /\ id \in Overdue /\ Pending(id) /\ job = None
    BY <1>10 DEF ClearCallback, ServiceInv, Overdue
  <2>2. \A r \in Ids : Called(r) <=> r \in Overdue \ todo
    BY <1>10, <2>1 DEF ClearCallback, Called
  <2>3. Overdue' = Overdue
    BY <1>10 DEF ClearCallback, Overdue, Pending, Expired
  <2>4. \A r \in Ids : Called(r)' <=> r \in Overdue \ (todo \ {id})
    <3>1. /\ pc'[Service] \in {"clear_cb", "relock"}
          /\ job' = None /\ todo' = todo \ {id}
      BY <1>10, <2>1 DEF ClearCallback, AfterCallback
    <3> QED
      BY <3>1, <2>3 DEF Called
  <2>5. id \in Open /\ Open' = Open \ {id}
    BY <1>10, <2>1, <2>2, <2>4 DEF ClearCallback, Open, Pending
  <2> QED
    BY <1>10, <2>1, <2>5 DEF LifecycleStep, Expires, ClearCallback
<1>11. CASE ClearEnd
  <2>1. \A r \in Ids : Called(r) <=> r \in Overdue
    BY <1>11 DEF ClearEnd, ServiceInv, Called
  <2>2. \A r \in Ids : ~Called(r)'
    BY <1>11 DEF ClearEnd, Called
  <2>3. Open' = Open
    BY <1>11, <2>1, <2>2 DEF ClearEnd, Open, Pending
  <2> QED
    BY <1>11, <2>3 DEF LifecycleStep, Quiet, SameCounts, ClearEnd
<1>12. ASSUME NEW t \in Clients, NEW id \in Ids, WaitCall(t, id)
      PROVE  LifecycleStep
  BY <1>12, <1>a DEF WaitCall, SameCounts
<1>12b. ASSUME NEW t \in Clients, WaitLookup(t)
      PROVE  LifecycleStep
  BY <1>12b, <1>a DEF WaitLookup, SameCounts
<1>13. ASSUME NEW t \in Clients, WaitEnter(t)
      PROVE  LifecycleStep
  BY <1>13, <1>a DEF WaitEnter, SameCounts
<1>14. ASSUME NEW t \in Clients, Spurious(t)
      PROVE  LifecycleStep
  BY <1>14, <1>a DEF Spurious, SameCounts
<1>15. ASSUME NEW t \in Clients, WaitTimeout(t)
      PROVE  LifecycleStep
  BY <1>15, <1>a DEF WaitTimeout, SameCounts
<1>16. ASSUME NEW t \in Clients, WaitLeave(t)
      PROVE  LifecycleStep
  BY <1>16, <1>a DEF WaitLeave, SameCounts
<1>17. ASSUME NEW t \in Clients, WaitReturn(t)
      PROVE  LifecycleStep
  BY <1>17, <1>a DEF WaitReturn, SameCounts
<1>18. ASSUME NEW t \in Threads, UseAfterFree(t)
      PROVE  LifecycleStep
  BY <1>18, <1>a DEF UseAfterFree, SameCounts
<1>19. CASE Dispose
  BY <1>19, <1>a DEF Dispose, SameCounts
<1>20. CASE UNCHANGED vars
  BY <1>20, <1>a DEF SameCounts
<1> QED
  BY <1>1, <1>2, <1>3, <1>4, <1>5, <1>6, <1>7, <1>8, <1>9, <1>10, <1>11, <1>12, <1>13, <1>14, <1>15, <1>16, <1>17, <1>18, <1>19, <1>20,
     <1>12b
     DEF Next, Step, SendStep, ServiceStep, WaitStep, Terminated

(* Each registration is answered or timed out exactly once, or its handler is
   still to be called. *)
THEOREM HandlerCalledOnce == Spec => []ExactlyOnce
<1>1. Init => ExactlyOnce
  BY HandlersAssumption DEF Init, ExactlyOnce, Open, Pending
<1>2. IInv /\ ExactlyOnce /\ [Next]_vars => ExactlyOnce'
  <2> SUFFICES ASSUME IInv, ExactlyOnce, [Next]_vars,
                      NEW id \in Callbacks
               PROVE  registered'[id] = replied'[id] + timedout'[id]
                                + (IF id \in Open' THEN 1 ELSE 0)
    BY DEF ExactlyOnce
  <2>1. /\ registered \in [Ids -> Nat]
        /\ replied \in [Ids -> Nat]
        /\ timedout \in [Ids -> Nat]
        /\ id \in Ids
    BY HandlersAssumption DEF IInv, TypeOK
  <2>2. registered[id] = replied[id] + timedout[id]
                         + (IF id \in Open THEN 1 ELSE 0)
    BY DEF ExactlyOnce
  <2>3. CASE Quiet
    BY <2>1, <2>2, <2>3 DEF Quiet, SameCounts
  <2>4. ASSUME NEW r \in Callbacks, Opens(r) \/ Answers(r) \/ Expires(r)
        PROVE  registered'[id] = replied'[id] + timedout'[id]
                                + (IF id \in Open' THEN 1 ELSE 0)
    BY <2>1, <2>2, <2>4, HandlersAssumption DEF Opens, Answers, Expires, Bump
  <2> QED
    BY <2>3, <2>4, LifecycleSteps DEF LifecycleStep
<1> QED
  BY <1>1, <1>2, InductiveInvariant, PTL DEF Spec

(* The manager implements RequestLifecycle. *)
THEOREM LifecycleImplemented == Spec => ImplementsLifecycle
<1>1. Init => Lifecycle!Init
  BY HandlersAssumption DEF Init, Lifecycle!Init, Lifecycle!Zero, Open, Pending
<1>2. IInv /\ [Next]_vars => [Lifecycle!Next]_(Lifecycle!rlVars)
  <2> SUFFICES ASSUME IInv, [Next]_vars
               PROVE  [Lifecycle!Next]_(Lifecycle!rlVars)
    OBVIOUS
  <2> USE HandlersAssumption
  <2>1. CASE Quiet
    BY <2>1 DEF Quiet, SameCounts, Lifecycle!rlVars
  <2>2. ASSUME NEW r \in Callbacks, Opens(r) \/ Answers(r) \/ Expires(r)
        PROVE  Lifecycle!Open(r) \/ Lifecycle!Answer(r) \/ Lifecycle!Expire(r)
    <3> USE DEF IInv, TypeOK, Bump, Lifecycle!Bump
    <3>1. CASE Opens(r)
      BY <3>1 DEF Opens, Lifecycle!Open
    <3>2. CASE Answers(r)
      BY <3>2 DEF Answers, Lifecycle!Answer
    <3>3. CASE Expires(r)
      BY <3>3 DEF Expires, Lifecycle!Expire
    <3> QED
      BY <2>2, <3>1, <3>2, <3>3
  <2> QED
    BY <2>1, <2>2, LifecycleSteps DEF LifecycleStep, Lifecycle!Next
<1> QED
  BY <1>1, <1>2, InductiveInvariant, PTL
     DEF Spec, ImplementsLifecycle, Lifecycle!Spec
=============================================================================
