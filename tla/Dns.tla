---------------------------------- MODULE Dns ----------------------------------
(***************************************************************************)
(* The hooked resolver calls (co/src/hook.cc).  While libc's resolver      *)
(* waits, its own hooked system calls suspend the coroutine, and others    *)
(* of the thread run: mutexes of coroutines keep them out of the resolver, *)
(* and a hostent of each scheduler holds the answer of the calls that are  *)
(* not reentrant.  libc is external: it resolves, and it keeps the answer  *)
(* of those calls in memory of its own.                                    *)
(***************************************************************************)
EXTENDS FiniteSets

CONSTANTS
    Co, Sched, At, None,
    DnsLiberties  \* what programs may do that this does not allow for:
                  \* "two_threads", calls that are not reentrant in two
                  \* schedulers; "keeps", the answer of one is used after the
                  \* coroutine was suspended; "both", calls of the two kinds
                  \* in one scheduler; "byname2", gethostbyname2()

VARIABLES
    global, own,  \* the holders of gDnsMutex_g, and of each gDnsMutex_t
    at, call,     \* where a coroutine is, and in which call
    static,       \* whose answer libc's memory holds
    ent,          \* each scheduler's gHostEnt(): the memory it points to
    scratch       \* the coroutines whose buffer in gethostbyname2 exists

dnsVars == <<global, own, at, call, static, ent, scratch>>

DnsInit ==
    /\ global = None /\ own = [s \in Sched |-> None]
    /\ at = [c \in Co |-> "idle"] /\ call = [c \in Co |-> "none"]
    /\ static = None
    /\ ent = [s \in Sched |-> [memory |-> "none", of |-> None]]
    /\ scratch = {}

Others(c) == {b \in Co \ {c} : at[b] # "idle"}
Local(c) == {b \in Others(c) : At[b] = At[c]}

\* c runs: whoever of its thread has an answer has done with it.
Runs(c) == "keeps" \in DnsLiberties \/ \A b \in Local(c) : at[b] # "got"

Goes(c, p) == at' = [at EXCEPT ![c] = p]

\* gethostbyname() and gethostbyaddr() ("plain"), and the calls ending in _r.
Begin(c, k) ==
    /\ at[c] = "idle" /\ Runs(c)
    /\ k = "byname2" => "byname2" \in DnsLiberties
    /\ "both" \in DnsLiberties \/ \A b \in Local(c) : call[b] = "plain" <=> k = "plain"
    /\ "two_threads" \in DnsLiberties \/ \A b \in Others(c) \ Local(c) : "plain" \notin {k, call[b]}
    /\ call' = [call EXCEPT ![c] = k]
    /\ scratch' = IF k = "byname2" THEN scratch \cup {c} ELSE scratch
    /\ Goes(c, "lock")
    /\ UNCHANGED <<global, own, static, ent>>

\* A bug: gethostbyname() does without the mutex.
LockNone(c) ==
    /\ at[c] = "lock" /\ Runs(c)
    /\ IF call[c] = "plain"
       THEN UNCHANGED <<global, own>>
       ELSE own[At[c]] = None /\ own' = [own EXCEPT ![At[c]] = c] /\ UNCHANGED global
    /\ Goes(c, "resolver")
    /\ UNCHANGED <<call, static, ent, scratch>>

Lock(c) ==
    /\ at[c] = "lock" /\ Runs(c)
    /\ IF call[c] = "plain"
       THEN global = None /\ global' = c /\ UNCHANGED own
       ELSE own[At[c]] = None /\ own' = [own EXCEPT ![At[c]] = c] /\ UNCHANGED global
    /\ Goes(c, "resolver")
    /\ UNCHANGED <<call, static, ent, scratch>>

\* The resolver has the answer: libc's hostent is copied, not what it points to.
ResolvedPlain(c) ==
    /\ at[c] = "resolver" /\ Runs(c) /\ call[c] = "plain"
    /\ static' = c
    /\ ent' = [ent EXCEPT ![At[c]] = [memory |-> "libc", of |-> c]]
    /\ global' = None
    /\ Goes(c, "got")
    /\ UNCHANGED <<own, call, scratch>>

\* The others fill what they are given.  gethostbyname2() gives gethostbyname2_r()
\* the scheduler's hostent, and for what that points to a buffer that is freed
\* when it returns.
ResolvedR(c) ==
    /\ at[c] = "resolver" /\ Runs(c) /\ call[c] # "plain"
    /\ own' = [own EXCEPT ![At[c]] = None]
    /\ ent' = IF call[c] = "r" THEN ent ELSE [ent EXCEPT ![At[c]] = [memory |-> "scratch", of |-> c]]
    /\ scratch' = scratch \ {c}
    /\ Goes(c, "got")
    /\ UNCHANGED <<global, call, static>>

\* The call failed, or the program has done with the answer.
Drop(c) ==
    /\ at[c] = "got"
    /\ call' = [call EXCEPT ![c] = "none"]
    /\ Goes(c, "idle")
    /\ UNCHANGED <<global, own, static, ent, scratch>>

DnsNext ==
    \E c \in Co :
       \/ \E k \in {"plain", "r"} \cup ({"byname2"} \cap DnsLiberties) : Begin(c, k)
       \/ Lock(c) \/ ResolvedPlain(c) \/ ResolvedR(c) \/ Drop(c)

DnsSpec == DnsInit /\ [][DnsNext]_dnsVars

-----------------------------------------------------------------------------
\* An answer that is used is the answer to the coroutine's own question, in
\* memory that exists.
AnswersKept ==
    \A c \in Co : at[c] = "got" /\ call[c] # "r" =>
       LET e == ent[At[c]]
       IN  e.of = c /\ IF e.memory = "libc" THEN static = c ELSE c \in scratch

\* One coroutine of a thread is in the resolver, and one of the process in a
\* call for which libc holds a lock that would keep the thread of another.
ResolverEnteredOnce ==
    \A b, c \in Co : b # c /\ at[b] = "resolver" /\ at[c] = "resolver" =>
       At[b] # At[c] /\ "plain" \notin {call[b]} \cap {call[c]}
=============================================================================
