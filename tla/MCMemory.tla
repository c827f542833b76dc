------------------------------ MODULE MCMemory ------------------------------
(***************************************************************************)
(* The parts of coost::mem side by side: one block with its bitmaps        *)
(* (SmallBlock), the blocks of the threads and of GlobalAlloc, the static  *)
(* objects, and the shared pointers.  A behaviour exercises one of them.   *)
(***************************************************************************)
EXTENDS SmallBlock, Shared, StaticMem, ThreadAlloc, TLC

ASSUME MemoryAssumption ==
    /\ Kinds \in [Thread -> SUBSET {"small", "large"}]
    /\ MaxMarked \in Nat

VARIABLE which   \* the part

MemoryInit ==
    /\ which \in {"block", "blocks", "static", "shared"}
    /\ Init /\ AllocInit /\ StaticInit /\ SharedInit

MemoryNext ==
    /\ UNCHANGED which
    /\ \/ which = "block" /\ Next /\ UNCHANGED <<allocVars, staticVars, sharedVars>>
       \/ which = "blocks" /\ AllocNext /\ UNCHANGED <<vars, staticVars, sharedVars>>
       \/ which = "static" /\ StaticNext /\ UNCHANGED <<vars, allocVars, sharedVars>>
       \/ which = "shared" /\ SharedNext /\ UNCHANGED <<vars, allocVars, staticVars>>

MemorySpec == MemoryInit /\ [][MemoryNext]_<<which, vars, allocVars, staticVars, sharedVars>>

-----------------------------------------------------------------------------
(***************************************************************************)
(* Values for the constants.                                               *)
(***************************************************************************)
CONSTANTS t1, t2, p1, p2, p3, p4

\* One thread allocates small objects, the other one large ones.
SmallAndLarge == t1 :> {"small"} @@ t2 :> {"large"}

TwoEach == p1 :> t1 @@ p2 :> t1 @@ p3 :> t2 @@ p4 :> t2

\* The members of the derived class fit in the padding of its base class.
InPadding == [c \in {"base", "derived"} |-> 2]

\* The derived class is larger than its base class.
Larger == "base" :> 2 @@ "derived" :> 3

Symmetry == Permutations(Huge) \cup Permutations(Obj)
=============================================================================
