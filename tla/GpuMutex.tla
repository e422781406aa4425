------------------------------ MODULE GpuMutex ------------------------------
(***************************************************************************)
(* What InferFabric promises of its GPU lock: "GPU mutual exclusion via    *)
(* flock" (inferfabric/gpu_lock.py).  A user of the lock is either inside  *)
(* the section the lock protects or outside; it may enter only an empty    *)
(* section, and leaves it by releasing the lock or by dying.               *)
(***************************************************************************)
CONSTANT Users          \* whatever acquires the lock: threads, processes

VARIABLE inside         \* the users inside the protected section

Init == inside = {}

Enter(u) ==
    /\ inside = {}
    /\ inside' = {u}

Leave(u) ==
    /\ u \in inside
    /\ inside' = inside \ {u}

Next == \E u \in Users : Enter(u) \/ Leave(u)

Spec == Init /\ [][Next]_inside

(***************************************************************************)
(* At most one user is inside.                                             *)
(***************************************************************************)
Exclusion == \A u, v \in inside : u = v
=============================================================================
