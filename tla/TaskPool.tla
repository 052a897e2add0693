------------------------------- MODULE TaskPool -------------------------------
(***************************************************************************)
(* What find-dupes needs from its work queue, with no list, semaphore or   *)
(* thread in sight.  A task is submitted once, begins once and finishes    *)
(* once.  A find task (a directory) may submit further find tasks while it *)
(* runs; a compare task (a hash bucket) submits nothing.  main moves from  *)
(* one stage to the next only when every task submitted so far has         *)
(* finished, and that is the promise everything after find-dupes.c:521     *)
(* rests on: the hash table has no writer left.                            *)
(***************************************************************************)
EXTENDS Naturals

CONSTANTS
  FindItem,      \* one task per directory
  CompareItem    \* one task per hash bucket

Item == FindItem \cup CompareItem

VARIABLES
  task,          \* progress of each task
  stage          \* progress of main

vars == <<task, stage>>

Progress == {"new", "queued", "running", "finished"}
Stage == {"finding", "found", "comparing", "compared", "closing", "down", "dead"}

TypeOK ==
  /\ task \in [Item -> Progress]
  /\ stage \in Stage

(* Nothing is waiting for a thread and nothing runs. *)
Idle == \A i \in Item : task[i] \in {"new", "finished"}

Init ==
  /\ task = [i \in Item |-> "new"]
  /\ stage = "finding"

Submit(i) ==
  /\ task[i] = "new"
  /\ task' = [task EXCEPT ![i] = "queued"]
  /\ UNCHANGED stage

(* find_files on the main thread, and compare_files. *)
MainSubmits(i) ==
  /\ \/ stage = "finding" /\ i \in FindItem
     \/ stage = "comparing" /\ i \in CompareItem
  /\ Submit(i)

(* find_files in a callback meets a sub-directory. *)
TaskSubmits(parent, i) ==
  /\ parent \in FindItem /\ task[parent] = "running"
  /\ i \in FindItem
  /\ Submit(i)

Begin(i) ==
  /\ stage # "dead"
  /\ task[i] = "queued"
  /\ task' = [task EXCEPT ![i] = "running"]
  /\ UNCHANGED stage

Finish(i) ==
  /\ stage # "dead"
  /\ task[i] = "running"
  /\ task' = [task EXCEPT ![i] = "finished"]
  /\ UNCHANGED stage

(* main leaves a wait loop: nothing may be queued or running any more. *)
Found ==
  /\ stage = "finding" /\ Idle
  /\ stage' = "found"
  /\ UNCHANGED task

StartCompare ==
  /\ stage = "found"
  /\ stage' = "comparing"
  /\ UNCHANGED task

Compared ==
  /\ stage = "comparing" /\ Idle
  /\ \A i \in CompareItem : task[i] = "finished"
  /\ stage' = "compared"
  /\ UNCHANGED task

Close ==
  /\ stage \in {"finding", "found", "compared"}
  /\ stage' = "closing"
  /\ UNCHANGED task

(* The threads are told to leave only once there is nothing left to do. *)
Down ==
  /\ stage = "closing" /\ Idle
  /\ stage' = "down"
  /\ UNCHANGED task

(* exit() from an error path. *)
Die ==
  /\ stage' = "dead"
  /\ UNCHANGED task

Next ==
  \/ \E i \in Item : MainSubmits(i)
  \/ \E p, i \in Item : TaskSubmits(p, i)
  \/ \E i \in Item : Begin(i)
  \/ \E i \in Item : Finish(i)
  \/ Found
  \/ StartCompare
  \/ Compared
  \/ Close
  \/ Down
  \/ Die

Spec == Init /\ [][Next]_vars

(* Every submitted task is given a thread, and every callback returns. *)
FairSpec ==
  /\ Spec
  /\ \A i \in Item : WF_vars(Begin(i)) /\ WF_vars(Finish(i))

===============================================================================
