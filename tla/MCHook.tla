------------------------------- MODULE MCHook -------------------------------
(***************************************************************************)
(* Hook with values for its constants.                                     *)
(***************************************************************************)
EXTENDS Hook, TLC

CONSTANTS c1, c2

Alike == Permutations(Fd) \cup Permutations(Desc)

\* One coroutine makes every call, and the other one sends.  recv and write
\* differ from read and send by a test of HookCtx only.
ReaderAndWriter ==
    c1 :> {"read", "accept", "connect", "poll", "select", "epoll_wait"} @@ c2 :> {"send"}
=============================================================================
