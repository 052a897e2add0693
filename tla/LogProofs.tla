-------------------------------- MODULE LogProofs --------------------------------
(***************************************************************************)
(* When main has logged before it makes its threads, the mutex of _vlog    *)
(* does its work, for any number of threads and calls.                     *)
(***************************************************************************)
EXTENDS Log, TLAPS

(* The places of a thread in _vlog.                                        *)
Places == {"idle", "test", "lock", "contend", "wait", "asleep", "write", "unlock"}

(* No thread is about to make the mutex anew. *)
Made ==
  /\ init_done = TRUE
  /\ lock \in {0, 1, 2}
  /\ pc \in [Thread -> Places]

(* The inductive invariant of the lock.                                    *)
LInv == Made /\ OneWriter /\ NobodyForgotten

(* Main has made the mutex before there are threads.                       *)
LEMMA InitLInv == FirstByMain = TRUE /\ Init => LInv
BY DEF Init, LInv, Made, Places, OneWriter, NobodyForgotten, Holds, Asleep

(* Steps that leave the word alone and neither take nor leave the lock. *)
LEMMA MoveStep ==
  ASSUME LInv, NEW t \in Thread, NEW to \in Places \ {"write", "unlock", "asleep"},
         pc[t] \notin {"write", "unlock", "contend"},
         pc' = [pc EXCEPT ![t] = to], UNCHANGED <<init_done, lock>>
  PROVE  LInv'
<1>1. Made'
  BY DEF LInv, Made
<1>2. \A u \in Thread : pc'[u] = IF u = t THEN to ELSE pc[u]
  BY DEF LInv, Made
<1>3. OneWriter'
  BY <1>2 DEF LInv, OneWriter, Holds
<1>4. NobodyForgotten'
  BY <1>2 DEF LInv, NobodyForgotten, Asleep
<1> QED
  BY <1>1, <1>3, <1>4 DEF LInv

(* The fast path takes a free lock; on a taken one it goes to contend.     *)
LEMMA LockStep ==
  ASSUME LInv, NEW t \in Thread, MtxLock(t)
  PROVE  LInv'
<1>1. CASE lock = 0
  <2>1. pc[t] = "lock" /\ pc' = [pc EXCEPT ![t] = "write"] /\ lock' = 1 /\ UNCHANGED init_done
    BY <1>1 DEF MtxLock, Goes
  <2>2. \A u \in Thread : pc'[u] = IF u = t THEN "write" ELSE pc[u]
    BY <2>1 DEF LInv, Made
  <2>3. Made'
    BY <2>1 DEF LInv, Made, Places
  <2>4. OneWriter'
    BY <1>1, <2>1, <2>2 DEF LInv, OneWriter, Holds
  <2>5. NobodyForgotten'
    BY <1>1, <2>1, <2>2 DEF LInv, NobodyForgotten, Asleep
  <2> QED
    BY <2>3, <2>4, <2>5 DEF LInv
<1>2. CASE lock # 0
  <2>1. /\ pc[t] = "lock" /\ pc' = [pc EXCEPT ![t] = "contend"]
        /\ UNCHANGED <<init_done, lock>>
    BY <1>2 DEF MtxLock, Goes
  <2> QED
    BY <2>1, MoveStep DEF Places
<1> QED
  BY <1>1, <1>2

(* The exchange leaves the word at 2: its winner writes, the others wait.  *)
LEMMA ContendStep ==
  ASSUME LInv, NEW t \in Thread, Contend(t)
  PROVE  LInv'
<1>1. /\ pc[t] = "contend" /\ lock' = 2 /\ UNCHANGED init_done
      /\ pc' = [pc EXCEPT ![t] = IF lock = 0 THEN "write" ELSE "wait"]
  BY DEF Contend, Goes
<1>2. \A u \in Thread :
        pc'[u] = IF u = t THEN (IF lock = 0 THEN "write" ELSE "wait") ELSE pc[u]
  BY <1>1 DEF LInv, Made
<1>3. Made'
  BY <1>1 DEF LInv, Made, Places
<1>4. OneWriter'
  <2>1. CASE lock = 0
    BY <1>1, <1>2, <2>1 DEF LInv, OneWriter, Holds
  <2>2. CASE lock # 0
    BY <1>1, <1>2, <2>2 DEF LInv, OneWriter, Holds
  <2> QED
    BY <2>1, <2>2
<1>5. NobodyForgotten'
  BY <1>1 DEF NobodyForgotten
<1> QED
  BY <1>3, <1>4, <1>5 DEF LInv

(* A thread falls asleep only while the word is 2.                         *)
LEMMA WaitStep ==
  ASSUME LInv, NEW t \in Thread, FutexWait(t)
  PROVE  LInv'
<1>1. CASE lock = 2
  <2>1. pc[t] = "wait" /\ pc' = [pc EXCEPT ![t] = "asleep"] /\ UNCHANGED <<init_done, lock>>
    BY <1>1 DEF FutexWait, Goes
  <2>2. \A u \in Thread : pc'[u] = IF u = t THEN "asleep" ELSE pc[u]
    BY <2>1 DEF LInv, Made
  <2>3. Made'
    BY <2>1 DEF LInv, Made, Places
  <2>4. OneWriter'
    BY <2>1, <2>2 DEF LInv, OneWriter, Holds
  <2>5. NobodyForgotten'
    BY <1>1, <2>1 DEF NobodyForgotten
  <2> QED
    BY <2>3, <2>4, <2>5 DEF LInv
<1>2. CASE lock # 2
  <2>1. /\ pc[t] = "wait" /\ pc' = [pc EXCEPT ![t] = "contend"]
        /\ UNCHANGED <<init_done, lock>>
    BY <1>2 DEF FutexWait, Goes
  <2> QED
    BY <2>1, MoveStep DEF Places
<1> QED
  BY <1>1, <1>2

(* The line is written under the lock.                                     *)
LEMMA WriteStep ==
  ASSUME LInv, NEW t \in Thread, Write(t)
  PROVE  LInv'
<1>1. pc[t] = "write" /\ pc' = [pc EXCEPT ![t] = "unlock"] /\ UNCHANGED <<init_done, lock>>
  BY DEF Write, Goes
<1>2. \A u \in Thread : pc'[u] = IF u = t THEN "unlock" ELSE pc[u]
  BY <1>1 DEF LInv, Made
<1>3. Made'
  BY <1>1 DEF LInv, Made, Places
<1>4. \A u \in Thread : Holds(u)' <=> Holds(u)
  BY <1>1, <1>2 DEF Holds
<1>5. OneWriter'
  BY <1>1, <1>4 DEF LInv, OneWriter
<1>6. NobodyForgotten'
  BY <1>1, <1>2 DEF LInv, NobodyForgotten, Asleep
<1> QED
  BY <1>3, <1>5, <1>6 DEF LInv

(* The step that matters: with sleepers, one of them is woken or somebody  *)
(* was contending already.                                                 *)
LEMMA UnlockStep ==
  ASSUME LInv, NEW t \in Thread, MtxUnlock(t)
  PROVE  LInv'
<1>1. pc[t] = "unlock" /\ lock' = 0 /\ UNCHANGED init_done
  BY DEF MtxUnlock
<1>2. \A u \in Thread : Holds(u) => u = t
  BY <1>1 DEF LInv, OneWriter, Holds
<1>3. CASE lock = 2 /\ Asleep # {}
  <2>1. PICK s \in Asleep : pc' = [pc EXCEPT ![t] = "idle", ![s] = "contend"]
    BY <1>3 DEF MtxUnlock
  <2>2. s \in Thread /\ s # t
    BY <1>1, <2>1 DEF Asleep
  <2>3. \A u \in Thread :
          pc'[u] = IF u = s THEN "contend" ELSE IF u = t THEN "idle" ELSE pc[u]
    BY <2>1, <2>2 DEF LInv, Made
  <2>4. Made'
    BY <1>1, <2>1, <2>2 DEF LInv, Made, Places
  <2>5. OneWriter'
    BY <1>1, <1>2, <2>3 DEF OneWriter, Holds
  <2>6. NobodyForgotten'
    BY <2>2, <2>3 DEF NobodyForgotten
  <2> QED
    BY <2>4, <2>5, <2>6 DEF LInv
<1>4. CASE ~(lock = 2 /\ Asleep # {})
  <2>1. pc' = [pc EXCEPT ![t] = "idle"]
    BY <1>4 DEF MtxUnlock
  <2>2. \A u \in Thread : pc'[u] = IF u = t THEN "idle" ELSE pc[u]
    BY <2>1 DEF LInv, Made
  <2>3. Made'
    BY <1>1, <2>1 DEF LInv, Made, Places
  <2>4. OneWriter'
    BY <1>1, <1>2, <2>2 DEF OneWriter, Holds
  <2>5. NobodyForgotten'
    BY <1>1, <1>4, <2>2 DEF LInv, NobodyForgotten, Asleep
  <2> QED
    BY <2>3, <2>4, <2>5 DEF LInv
<1> QED
  BY <1>3, <1>4

(* Every step keeps the invariant.                                         *)
LEMMA LInductive == LInv /\ [Next]_vars => LInv'
<1> SUFFICES ASSUME LInv, [Next]_vars PROVE LInv'
  OBVIOUS
<1>1. CASE UNCHANGED vars
  BY <1>1 DEF vars, LInv, Made, OneWriter, NobodyForgotten, Holds, Asleep
<1>2. ASSUME NEW t \in Thread, Call(t) \/ Test(t) PROVE LInv'
  <2>1. \E to \in {"test", "lock"} : pc' = [pc EXCEPT ![t] = to]
    BY <1>2 DEF Call, Test, Goes, LInv, Made
  <2>2. pc[t] \in {"idle", "test"} /\ UNCHANGED <<init_done, lock>>
    BY <1>2 DEF Call, Test, Goes
  <2> QED
    BY <2>1, <2>2, MoveStep DEF Places
<1>3. ASSUME NEW t \in Thread, Mark(t) \/ MtxInit(t) PROVE FALSE
  BY <1>3 DEF Mark, MtxInit, Goes, LInv, Made, Places
<1> QED
  BY <1>1, <1>2, <1>3, LockStep, ContendStep, WaitStep, WriteStep, UnlockStep
  DEF Next, Step

(* With --debug, where main logs first, one call at a time writes and no   *)
(* thread that waits for the mutex is forgotten (log.c:81-100).            *)
THEOREM SafeAfterMain == FirstByMain = TRUE /\ Spec => [](OneWriter /\ NobodyForgotten)
<1>1. LInv => OneWriter /\ NobodyForgotten
  BY DEF LInv
<1> QED
  BY <1>1, InitLInv, LInductive, PTL DEF Spec

===============================================================================
