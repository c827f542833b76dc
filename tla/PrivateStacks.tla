--------------------------- MODULE PrivateStacks ---------------------------
(***************************************************************************)
(* What the coroutines of a scheduler may rely on: each has a stack of its *)
(* own, which changes only while that coroutine runs.  SharedStack         *)
(* implements this with a few stacks that all coroutines share.            *)
(***************************************************************************)
EXTENDS Naturals

CONSTANTS
    Co,      \* coroutine structures
    NoCo,    \* "no coroutine"
    NoFrame  \* "no frame": the coroutine has not started, or has returned

VARIABLES
    running,   \* the coroutine that has control
    frame      \* the contents of each coroutine's stack

Init ==
    /\ running = NoCo
    /\ frame = [c \in Co |-> NoFrame]

Start(c) ==
    /\ running = NoCo /\ frame[c] = NoFrame
    /\ running' = c
    /\ frame' = [frame EXCEPT ![c] = 0]

Resume(c) ==
    /\ running = NoCo /\ frame[c] # NoFrame
    /\ running' = c
    /\ UNCHANGED frame

Yield(c) ==
    /\ running = c
    /\ running' = NoCo
    /\ frame' = [frame EXCEPT ![c] = @ + 1]

Return(c) ==
    /\ running = c
    /\ running' = NoCo
    /\ frame' = [frame EXCEPT ![c] = NoFrame]

Next == \E c \in Co : Start(c) \/ Resume(c) \/ Yield(c) \/ Return(c)

Spec == Init /\ [][Next]_<<running, frame>>
=============================================================================
