----------------------------------- MODULE Log -----------------------------------
(***************************************************************************)
(* The mutex of _vlog, which the first call of a run creates: calls of all *)
(* threads, the test of init_done, mtx_init and the lock the calls take    *)
(* around their output.  The mutex is glibc's: a word that is 0 when it is *)
(* free, 1 when it is held and 2 when it is held and somebody may sleep.   *)
(***************************************************************************)
EXTENDS Naturals

CONSTANTS
  Thread,        \* the threads that log
  FirstByMain    \* main logged before it made the threads, as with --debug

VARIABLES
  init_done,     \* the static of that name
  lock,          \* the word of the mutex
  pc             \* where each thread is

vars == <<init_done, lock, pc>>

Init ==
  /\ init_done = FirstByMain
  /\ lock = 0
  /\ pc = [t \in Thread |-> "idle"]

Goes(t, from, to) == pc[t] = from /\ pc' = [pc EXCEPT ![t] = to]

(* log, log_raw, and debug and debug_raw with --debug. *)
Call(t) == Goes(t, "idle", "test") /\ UNCHANGED <<init_done, lock>>

Test(t) ==
  /\ Goes(t, "test", IF init_done THEN "lock" ELSE "mark")
  /\ UNCHANGED <<init_done, lock>>

Mark(t) == Goes(t, "mark", "init") /\ init_done' = TRUE /\ UNCHANGED lock

(* mtx_init makes the word 0, whoever holds it. *)
MtxInit(t) == Goes(t, "init", "lock") /\ lock' = 0 /\ UNCHANGED init_done

(* mtx_lock: 0 to 1, or else the slow way. *)
MtxLock(t) ==
  /\ IF lock = 0
     THEN Goes(t, "lock", "write") /\ lock' = 1
     ELSE Goes(t, "lock", "contend") /\ UNCHANGED lock
  /\ UNCHANGED init_done

(* The word is exchanged for 2; the lock is taken if it was 0. *)
Contend(t) ==
  /\ Goes(t, "contend", IF lock = 0 THEN "write" ELSE "wait")
  /\ lock' = 2
  /\ UNCHANGED init_done

(* The kernel puts the thread to sleep only if the word is still 2. *)
FutexWait(t) ==
  /\ Goes(t, "wait", IF lock = 2 THEN "asleep" ELSE "contend")
  /\ UNCHANGED <<init_done, lock>>

Write(t) == Goes(t, "write", "unlock") /\ UNCHANGED <<init_done, lock>>

Asleep == {t \in Thread : pc[t] = "asleep"}

(* mtx_unlock: the word is exchanged for 0; if it was 2, one thread that   *)
(* sleeps, if any does, is woken.                                          *)
MtxUnlock(t) ==
  /\ pc[t] = "unlock"
  /\ IF lock = 2 /\ Asleep # {}
     THEN \E u \in Asleep : pc' = [pc EXCEPT ![t] = "idle", ![u] = "contend"]
     ELSE pc' = [pc EXCEPT ![t] = "idle"]
  /\ lock' = 0
  /\ UNCHANGED init_done

Step(t) ==
  \/ Test(t) \/ Mark(t) \/ MtxInit(t) \/ MtxLock(t) \/ Contend(t)
  \/ FutexWait(t) \/ Write(t) \/ MtxUnlock(t)

Next == \E t \in Thread : Call(t) \/ Step(t)

Spec == Init /\ [][Next]_vars

(* A thread that can go on does; none has to call. *)
FairSpec == Spec /\ \A t \in Thread : WF_vars(Step(t))

-----------------------------------------------------------------------------
Holds(t) == pc[t] \in {"write", "unlock"}

(* One call at a time writes, and the word is 0 just when none does        *)
(* (log.c:94-100).                                                         *)
OneWriter ==
  /\ \A t, u \in Thread : Holds(t) /\ Holds(u) => t = u
  /\ lock = 0 <=> \A t \in Thread : ~Holds(t)

(* While a thread sleeps, the word says so or a thread that will say so is *)
(* on its way: no unlock passes a sleeper by (log.c:94, 100).              *)
NobodyForgotten ==
  Asleep # {} => lock = 2 \/ \E t \in Thread : pc[t] = "contend"

(* In a run that logs finitely often every call returns: --verbose is      *)
(* "Verbose execution" (README.md:50), of a program that ends              *)
(* (log.c:81-100).                                                         *)
LogReturns ==
  <>[][\A t \in Thread : ~Call(t)]_vars =>
    \A t \in Thread : pc[t] = "test" ~> pc[t] = "idle"

===============================================================================
