------------------------------ MODULE Mailbox ------------------------------
(***************************************************************************)
(* What a scheduler promises about the tasks handed to it: they are taken  *)
(* in the order they were put, each once, and none is left behind while    *)
(* the scheduler is open.  Sched implements it twice, once with the new    *)
(* tasks and once with the coroutines that are ready to resume.            *)
(***************************************************************************)
EXTENDS Sequences

CONSTANT Item

VARIABLES
    box,      \* what was put and not yet taken, oldest first
    closed    \* the scheduler was told to stop

mvars == <<box, closed>>

Init == box = <<>> /\ closed = FALSE

Put(i) == box' = Append(box, i) /\ UNCHANGED closed

Take == box # <<>> /\ box' = Tail(box) /\ UNCHANGED closed

Close == ~closed /\ closed' = TRUE /\ UNCHANGED box

Next == (\E i \in Item : Put(i)) \/ Take \/ Close

Spec == Init /\ [][Next]_mvars /\ WF_mvars(~closed /\ Take)
=============================================================================
