---------------------------- MODULE FifoExecutor ----------------------------
(***************************************************************************)
(* What task_queue_base.h promises of a task queue: it "executes tasks in  *)
(* a way that guarantees that they're executed in FIFO order and that      *)
(* tasks never overlap"; when it quits, "pending tasks will not be         *)
(* executed but they will be deleted"; and a blocking call returns only    *)
(* after its task is over. The promise is void once the implementation has *)
(* met undefined behaviour.                                                *)
(***************************************************************************)
EXTENDS Naturals, Sequences

CONSTANTS Threads, Tasks, None

VARIABLES
  queue,    \* the tasks that have been accepted and not started, in order
  current,  \* the task that is executing, or None
  posted,   \* the tasks that have been accepted or refused
  over,     \* the tasks that have been deleted, executed or not
  awaited,  \* the task of the blocking call a thread is in, or None
  void      \* whether the promise has become void

vars == <<queue, current, posted, over, awaited, void>>

Init ==
  /\ queue = <<>> /\ current = None
  /\ posted = {} /\ over = {}
  /\ awaited = [p \in Threads |-> None]
  /\ void = FALSE

Accept(t) ==
  /\ t \notin posted
  /\ posted' = posted \cup {t}
  /\ queue' = Append(queue, t)
  /\ UNCHANGED <<current, over, awaited>>

(* A queue that is not running deletes the task instead.                   *)
Refuse(t) ==
  /\ t \notin posted
  /\ posted' = posted \cup {t}
  /\ over' = over \cup {t}
  /\ UNCHANGED <<queue, current, awaited>>

Start ==
  /\ current = None /\ queue # <<>>
  /\ current' = Head(queue)
  /\ queue' = Tail(queue)
  /\ UNCHANGED <<posted, over, awaited>>

Finish ==
  /\ current # None
  /\ current' = None
  /\ over' = over \cup {current}
  /\ UNCHANGED <<queue, posted, awaited>>

(* All but the first n tasks are deleted.                                  *)
Drop(n) ==
  /\ queue' = SubSeq(queue, 1, n)
  /\ over' = over \cup {queue[i] : i \in n + 1 .. Len(queue)}
  /\ UNCHANGED <<current, posted, awaited>>

Call(p, t) ==
  /\ awaited[p] = None /\ t \notin posted
  /\ awaited' = [awaited EXCEPT ![p] = t]
  /\ UNCHANGED <<queue, current, posted, over>>

Return(p) ==
  /\ awaited[p] \in over
  /\ awaited' = [awaited EXCEPT ![p] = None]
  /\ UNCHANGED <<queue, current, posted, over>>

Step ==
  \/ Start \/ Finish
  \/ \E n \in 0 .. Len(queue) : Drop(n)
  \/ \E t \in Tasks : Accept(t) \/ Refuse(t)
  \/ \E p \in Threads : Return(p) \/ \E t \in Tasks : Call(p, t)

Next == void' \/ (UNCHANGED void /\ Step)

Spec == Init /\ [][Next]_vars

=============================================================================
