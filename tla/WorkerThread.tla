---------------------------- MODULE WorkerThread ----------------------------
(***************************************************************************)
(* The worker thread of the generic player: a single consumer that runs   *)
(* the tasks submitted to it one at a time, to completion, in submission  *)
(* order.  enqueueTask may be called from any thread and never blocks;    *)
(* stop() lets the running task finish and then ends the thread without   *)
(* running the tasks still queued.  A task runs as one atomic step of the *)
(* composing module, so "the running task finishes before stop" holds by *)
(* the step structure.  The queue has no capacity in the code; the        *)
(* composing module bounds what its producers may submit.                 *)
(***************************************************************************)
EXTENDS Sequences

CONSTANT Tasks          \* the task records the composing module submits

VARIABLES queue,        \* tasks submitted and not yet started, oldest first
          running       \* FALSE once stop() has been called

\* The queue only ever holds submitted tasks.
TypeOK == /\ queue \in Seq(Tasks)
          /\ running \in BOOLEAN

\* enqueueTask(task): appended behind every task already submitted.
Enqueue(q, t) == Append(q, t)

\* The worker may take the next task only while it has not been stopped.
CanRun == running /\ queue # <<>>

\* The task the worker runs next.
Current == Head(queue)

\* The queue once the current task has been taken off it.
Rest == Tail(queue)

\* stop(): the worker ends; queued tasks are never run.  Idempotent.
Stop == /\ running' = FALSE
        /\ UNCHANGED queue
=============================================================================
