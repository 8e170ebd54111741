---------------------------- MODULE TaskService ----------------------------
(***************************************************************************)
(* What the worker pool of src/worker-pool.ts promises to its callers,     *)
(* without queues, listeners or mailboxes: a task that was accepted waits  *)
(* in "todo" until one worker takes it, a worker has at most one job, and  *)
(* the only answer a promise is ever resolved with is the answer to its    *)
(* own task.  WorkerPool implements this specification.                    *)
(***************************************************************************)
CONSTANTS
  Workers,  (* worker ids                                    *)
  Task,     (* tasks, one promise each                       *)
  NoTask    (* "no task", outside Task                       *)

VARIABLES
  todo,     (* accepted, not yet taken by a worker, not discarded *)
  job,      (* the task each worker runs, or NoTask               *)
  status,   (* state of the promise of each task                  *)
  answer,   (* the task whose answer resolved the promise         *)
  alive     (* the process is up                                  *)

vars == <<todo, job, status, answer, alive>>

Init ==
  /\ todo = {}
  /\ job = [w \in Workers |-> NoTask]
  /\ status = [t \in Task |-> "idle"]
  /\ answer = [t \in Task |-> NoTask]
  /\ alive = TRUE

\* New tasks are accepted: no task of S is anywhere in the service.
Accept(S) ==
  /\ alive
  /\ S # {}
  /\ \A t \in S : status[t] # "waiting" /\ t \notin todo
                  /\ \A w \in Workers : job[w] # t
  /\ todo' = todo \cup S
  /\ status' = [t \in Task |-> IF t \in S THEN "waiting" ELSE status[t]]
  /\ answer' = [t \in Task |-> IF t \in S THEN NoTask ELSE answer[t]]
  /\ UNCHANGED <<job, alive>>

\* Tasks nobody waits for any more may be thrown away unrun.
Discard(D) ==
  /\ alive
  /\ D \subseteq todo
  /\ \A t \in D : status[t] # "waiting"
  /\ todo' = todo \ D
  /\ UNCHANGED <<job, status, answer, alive>>

\* A free worker takes a task somebody still waits for; expired tasks may be
\* discarded on the way to it.
Start(w, t, D) ==
  /\ alive
  /\ job[w] = NoTask
  /\ t \in todo \ D
  /\ status[t] = "waiting"
  /\ D \subseteq todo
  /\ \A d \in D : status[d] # "waiting"
  /\ job' = [job EXCEPT ![w] = t]
  /\ todo' = todo \ (D \cup {t})
  /\ UNCHANGED <<status, answer, alive>>

\* The promise of t ends in state s, unless it has already ended.
Settle(t, s, a) ==
  /\ status' = [status EXCEPT ![t] = IF @ = "waiting" THEN s ELSE @]
  /\ answer' = [answer EXCEPT ![t] = IF status[t] = "waiting" THEN a ELSE @]

Finish(w) ==
  /\ alive
  /\ job[w] # NoTask
  /\ Settle(job[w], "resolved", job[w])
  /\ job' = [job EXCEPT ![w] = NoTask]
  /\ UNCHANGED <<todo, alive>>

\* The worker thread died on its job.
Fail(w) ==
  /\ alive
  /\ job[w] # NoTask
  /\ Settle(job[w], "rejected", NoTask)
  /\ job' = [job EXCEPT ![w] = NoTask]
  /\ UNCHANGED <<todo, alive>>

Expire(t) ==
  /\ alive
  /\ Settle(t, "timedOut", NoTask)
  /\ UNCHANGED <<todo, job, alive>>

Die ==
  /\ alive
  /\ alive' = FALSE
  /\ UNCHANGED <<todo, job, status, answer>>

Next ==
  \/ \E S \in SUBSET Task : Accept(S)
  \/ \E D \in SUBSET Task : Discard(D)
  \/ \E w \in Workers, t \in Task, D \in SUBSET Task : Start(w, t, D)
  \/ \E w \in Workers : Finish(w) \/ Fail(w)
  \/ \E t \in Task : Expire(t)
  \/ Die

Spec == Init /\ [][Next]_vars
=============================================================================
