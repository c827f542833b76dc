------------------------------- MODULE WinHook -------------------------------
(***************************************************************************)
(* The hooks of co/src/hook_win.cc for blocking sockets that are not       *)
(* overlapped, whose calls cannot wait for a completion port: the hook     *)
(* makes the socket non-blocking, and tries the call again and again, the  *)
(* coroutine asleep in between.  recv, accept and the like leave the       *)
(* socket so, and mark it (nb_mark); connect and WSAIoctl make it blocking *)
(* again when they return.  A call goes on without a pause until it        *)
(* sleeps; all coroutines here are of different threads or sleep.          *)
(***************************************************************************)
EXTENDS Naturals

CONSTANTS
    Co, Sock,
    Liberties   \* what programs may do of which the hooks lose track:
                \* "connect_used", to connect a socket, or WSAIoctl one, that
                \* has been used, or to use it meanwhile; "mode_in_use", to
                \* change the mode then, or make it blocking when in use

VARIABLES
    knb,    \* the sockets that are non-blocking
    ctx,    \* HookCtx: nb, no and nb_mark
    ready,  \* the sockets on which a call succeeds
    pc, on  \* where each coroutine is, and on which socket

winVars == <<knb, ctx, ready, pc, on>>

Blank == [nb |-> FALSE, no |-> FALSE, mark |-> FALSE]

WinInit ==
    /\ knb = {} /\ ready = {}
    /\ ctx = [f \in Sock |-> Blank]
    /\ pc = [c \in Co |-> "idle"] /\ on = [c \in Co |-> CHOOSE f \in Sock : TRUE]

InUse(f) == \E c \in Co : pc[c] # "idle" /\ on[c] = f
Connecting(f) == \E c \in Co : pc[c] = "connect" /\ on[c] = f

\* WSASocket without WSA_FLAG_OVERLAPPED.
WSASocket(f) ==
    /\ ~ctx[f].no
    /\ ctx' = [ctx EXCEPT ![f].no = TRUE]
    /\ UNCHANGED <<knb, ready, pc, on>>

\* A bug: the mark of the old socket is left.
CloseMarked(f) ==
    /\ ctx[f].no /\ ~InUse(f)
    /\ ctx' = [ctx EXCEPT ![f].no = FALSE, ![f].nb = FALSE]
    /\ knb' = knb \ {f} /\ ready' = ready \ {f}
    /\ UNCHANGED <<pc, on>>

\* closesocket, and the number is free.
Close(f) ==
    /\ ctx[f].no /\ ~InUse(f)
    /\ ctx' = [ctx EXCEPT ![f] = Blank]
    /\ knb' = knb \ {f} /\ ready' = ready \ {f}
    /\ UNCHANGED <<pc, on>>

\* ioctlsocket and WSAIoctl with FIONBIO; WSAAsyncSelect and WSAEventSelect
\* with TRUE.
SetMode(f, nb) ==
    /\ ctx[f].no
    /\ InUse(f) => (nb /\ ~Connecting(f)) \/ "mode_in_use" \in Liberties
    /\ knb' = IF nb THEN knb \cup {f} ELSE knb \ {f}
    /\ ctx' = [ctx EXCEPT ![f].nb = nb, ![f].mark = FALSE]
    /\ UNCHANGED <<ready, pc, on>>

Arrive(f) ==
    /\ ctx[f].no
    /\ ready' = ready \cup {f}
    /\ UNCHANGED <<knb, ctx, pc, on>>

\* The system call: it succeeds, gives up, or keeps the thread.
Tries(c, f, how) ==
    /\ on' = [on EXCEPT ![c] = f]
    /\ \/ f \in ready /\ ready' = ready \ {f} /\ pc' = [pc EXCEPT ![c] = "idle"]
       \/ f \notin ready /\ UNCHANGED ready
          /\ pc' = [pc EXCEPT ![c] = IF f \notin knb' THEN "stuck" ELSE how]

\* do_hard_hook, and accept and WSAAccept, up to the sleep.
Begin(c, f) ==
    /\ pc[c] = "idle" /\ ctx[f].no
    /\ "connect_used" \in Liberties \/ ~Connecting(f)
    /\ IF ctx[f].nb
       THEN UNCHANGED <<knb, ctx>> /\ Tries(c, f, "idle")
       ELSE /\ knb' = IF ctx[f].mark THEN knb ELSE knb \cup {f}
            /\ ctx' = [ctx EXCEPT ![f].mark = TRUE]
            /\ Tries(c, f, "nap")

\* ... and once more.
Again(c) ==
    /\ pc[c] = "nap"
    /\ UNCHANGED <<knb, ctx>>
    /\ Tries(c, on[c], "nap")

\* connect, WSAConnect and WSAIoctl: the loop looks at the socket without
\* calling it again.
BeginConnect(c, f) ==
    /\ pc[c] = "idle" /\ ctx[f].no
    /\ "connect_used" \in Liberties \/ ~(ctx[f].mark \/ InUse(f))
    /\ on' = [on EXCEPT ![c] = f]
    /\ UNCHANGED <<ctx, ready>>
    /\ IF ctx[f].nb
       THEN UNCHANGED <<knb, pc>>
       ELSE \/ knb' = knb \cup {f} /\ pc' = [pc EXCEPT ![c] = "connect"]
            \/ knb' = knb \ {f} /\ UNCHANGED pc

ConnectEnds(c) ==
    /\ pc[c] = "connect"
    /\ knb' = knb \ {on[c]}
    /\ pc' = [pc EXCEPT ![c] = "idle"]
    /\ UNCHANGED <<ctx, ready, on>>

\* The time is up.
TimesOut(c) ==
    /\ pc[c] = "nap"
    /\ pc' = [pc EXCEPT ![c] = "idle"]
    /\ UNCHANGED <<knb, ctx, ready, on>>

WinNext ==
    \/ \E f \in Sock : \/ WSASocket(f) \/ Close(f) \/ Arrive(f)
                       \/ \E nb \in BOOLEAN : SetMode(f, nb)
                       \/ \E c \in Co : Begin(c, f) \/ BeginConnect(c, f)
    \/ \E c \in Co : Again(c) \/ ConnectEnds(c) \/ TimesOut(c)

WinSpec == WinInit /\ [][WinNext]_winVars

-----------------------------------------------------------------------------
\* No call on a socket the program left blocking keeps a scheduler's thread in
\* the kernel, and the mode of a socket that is not in use is the one the
\* program asked for, or marked as the hooks' own.
WinNotBlocked ==
    /\ \A c \in Co : pc[c] # "stuck"
    /\ \A f \in Sock : ~InUse(f) => (f \in knb <=> ctx[f].nb \/ ctx[f].mark)
=============================================================================
