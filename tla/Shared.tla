------------------------------- MODULE Shared -------------------------------
(***************************************************************************)
(* coost::mem::shared<T> and unique<T> (mem/include/coost/mem.h): pointers *)
(* to an object that lies in a struct S with what is needed to free it,    *)
(* the size, and for shared the number of references, behind the object.   *)
(* A pointer to an object of a derived class converts to a pointer to its  *)
(* base class, which finds the count and the size where they are in the S  *)
(* of the base class.                                                      *)
(*                                                                         *)
(* Memory is words: the object, 1 to its size, the count and the size.     *)
(* Threads have pointers of their own to objects they share.  A pointer is *)
(* changed in one step but for the count, which is atomic: dropping a      *)
(* reference is a decrement, and what follows it.                          *)
(***************************************************************************)
EXTENDS Naturals, FiniteSets

CONSTANTS
    Ptr,         \* the pointers, of type shared<T>
    Owner,       \* the thread of each
    Obj, Null,   \* where objects are made
    SizeOf,      \* the size of an object of each class, "base" and "derived"
    BasePtr,     \* the pointers to the base class; the others are to the derived
    Word         \* the values of the count, 2^32 in the code

ASSUME SharedAssumption ==
    /\ IsFiniteSet(Ptr) /\ DOMAIN Owner = Ptr /\ BasePtr \subseteq Ptr
    /\ Null \notin Obj
    /\ SizeOf \in [{"base", "derived"} -> Nat \ {0}] /\ SizeOf["base"] <= SizeOf["derived"]
    /\ Word \in Nat \ {0}

VARIABLES
    to,    \* _p of each pointer
    mem,   \* the words of S for each object, <<>> when it is free
    drop   \* the object a thread gives up a reference of, and through what class

sharedVars == <<to, mem, drop>>

PtrThread == {Owner[p] : p \in Ptr}
Class(p) == IF p \in BasePtr THEN "base" ELSE "derived"

\* The contents of an object.
Content == 7

NoDrop == [obj |-> Null, class |-> "base"]

SharedInit ==
    /\ to = [p \in Ptr |-> Null]
    /\ mem = [o \in Obj |-> <<>>]
    /\ drop = [t \in PtrThread |-> NoDrop]

\* Where a pointer of a class looks for the count and the size.
RefAt(class) == SizeOf[class] + 1
SizeAt(class) == SizeOf[class] + 2

Idle(p) == drop[Owner[p]] = NoDrop

\* make_shared<Derived>
Make(p, o) ==
    /\ Idle(p) /\ p \notin BasePtr /\ to[p] = Null
    /\ mem[o] = <<>> /\ \A t \in PtrThread : drop[t].obj # o
    /\ mem' = [mem EXCEPT ![o] = [i \in 1..SizeOf["derived"] + 2 |->
                  IF i = RefAt("derived") THEN 1
                  ELSE IF i = SizeAt("derived") THEN SizeOf["derived"] + 2 ELSE Content]]
    /\ to' = [to EXCEPT ![p] = o]
    /\ UNCHANGED drop

Added(o, class, n) == [mem EXCEPT ![o][RefAt(class)] = (@ + n) % Word]

\* reset(), in front of the store to _p: the reference is given up.
Drops(p) ==
    drop' = [drop EXCEPT ![Owner[p]] = [obj |-> to[p], class |-> Class(p)]]

\* Where p may point next to what q points to.
Converts(q, p) == q \notin BasePtr \/ p \in BasePtr

\* A bug: the reference that is copied is not counted.
CopyUncounted(q, p) ==
    /\ Idle(p) /\ Converts(q, p) /\ p # q
    /\ to' = [to EXCEPT ![p] = to[q]]
    /\ IF to[p] = Null THEN UNCHANGED drop ELSE Drops(p)
    /\ UNCHANGED mem

\* A copy, by construction or assignment.  A thread copies pointers of its own,
\* and those of others while these do not change.
Copy(q, p) ==
    /\ Idle(p) /\ Converts(q, p) /\ p # q
    /\ mem' = IF to[q] = Null THEN mem ELSE Added(to[q], Class(p), 1)
    /\ to' = [to EXCEPT ![p] = to[q]]
    /\ IF to[p] = Null THEN UNCHANGED drop ELSE Drops(p)

\* A move, by construction or assignment.
Move(q, p) ==
    /\ Idle(p) /\ Converts(q, p) /\ p # q /\ Owner[q] = Owner[p]
    /\ to' = [to EXCEPT ![p] = to[q], ![q] = Null]
    /\ IF to[p] = Null THEN UNCHANGED drop ELSE Drops(p)
    /\ UNCHANGED mem

\* reset() and the destructor.
Reset(p) ==
    /\ Idle(p) /\ to[p] # Null
    /\ to' = [to EXCEPT ![p] = Null]
    /\ Drops(p)
    /\ UNCHANGED mem

Swap(q, p) ==
    /\ Idle(p) /\ Owner[q] = Owner[p] /\ Class(q) = Class(p)
    /\ to' = [to EXCEPT ![p] = to[q], ![q] = to[p]]
    /\ UNCHANGED <<mem, drop>>

\* The decrement, and if it was the last reference the object is destroyed and
\* freed.
Dropped(t) ==
    LET o == drop[t].obj IN
    /\ o # Null
    /\ LET m == Added(o, drop[t].class, Word - 1)
       IN  mem' = IF m[o][RefAt(drop[t].class)] = 0 THEN [m EXCEPT ![o] = <<>>] ELSE m
    /\ drop' = [drop EXCEPT ![t] = NoDrop]
    /\ UNCHANGED to

SharedNext ==
    \/ \E p \in Ptr : \/ Reset(p)
                      \/ \E o \in Obj : Make(p, o)
                      \/ \E q \in Ptr : Copy(q, p) \/ Move(q, p) \/ Swap(q, p)
    \/ \E t \in PtrThread : Dropped(t)

SharedSpec == SharedInit /\ [][SharedNext]_sharedVars

-----------------------------------------------------------------------------
References(o) == {p \in Ptr : to[p] = o} \cup {t \in PtrThread : drop[t].obj = o}

\* As with std::shared_ptr, an object exists as long as there are references to
\* it and no longer, whatever threads and pointers have them, and the references
\* change nothing in it.
SharedOwnership ==
    \A o \in Obj :
       /\ mem[o] # <<>> <=> References(o) # {}
       /\ mem[o] # <<>> => \A i \in 1..SizeOf["derived"] : mem[o][i] = Content
=============================================================================
