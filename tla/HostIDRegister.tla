--------------------------- MODULE HostIDRegister ---------------------------
(***************************************************************************)
(* What the host-ID holder promises, as an abstract specification: the ID  *)
(* is an atomic register.  A write replaces the whole ID in one step; the  *)
(* ID becomes ready once, after some write; a read returns, in one step    *)
(* somewhere between its call and its return, the whole current ID.  A     *)
(* "current" read (CurrentID) returns only once the ID is ready; a         *)
(* "besteffort" read (BestEffortCurrentID) returns whatever is there.      *)
(*                                                                         *)
(* HostID (lockedID with its RWMutex and ready channel) is shown to        *)
(* implement it.                                                           *)
(***************************************************************************)
CONSTANTS
    Readers,    \* goroutines reading the ID
    Fields,     \* the fields of an ID
    Versions,   \* what a field can hold; Zero is the value newID leaves
    Zero,
    NoID        \* a reader holds no result

VARIABLES
    reg,        \* the ID: field -> value
    ready,      \* the ID has been published
    st,         \* per reader: "in" a call or "out"
    kind,       \* per reader: "current" or "besteffort"
    ret         \* per reader: the ID its last call returned, or NoID

vars == <<reg, ready, st, kind, ret>>

Init ==
    /\ reg = [f \in Fields |-> Zero]
    /\ ready = FALSE
    /\ st = [r \in Readers |-> "out"]
    /\ kind = [r \in Readers |-> "current"]
    /\ ret = [r \in Readers |-> NoID]

\* A whole new ID, every field written by the same write.
Write ==
    /\ \E v \in Versions \ {Zero} : reg' = [f \in Fields |-> v]
    /\ UNCHANGED <<ready, st, kind, ret>>

\* The ID is published, and only after a write.
Publish ==
    /\ ~ready
    /\ reg # [f \in Fields |-> Zero]
    /\ ready' = TRUE
    /\ UNCHANGED <<reg, st, kind, ret>>

Call(r, k) ==
    /\ st[r] = "out"
    /\ st' = [st EXCEPT ![r] = "in"]
    /\ kind' = [kind EXCEPT ![r] = k]
    /\ ret' = [ret EXCEPT ![r] = NoID]
    /\ UNCHANGED <<reg, ready>>

\* The read takes effect and returns the current ID.
Return(r) ==
    /\ st[r] = "in"
    /\ kind[r] = "current" => ready
    /\ ret' = [ret EXCEPT ![r] = reg]
    /\ st' = [st EXCEPT ![r] = "out"]
    /\ UNCHANGED <<reg, ready, kind>>

Next ==
    \/ Write \/ Publish
    \/ \E r \in Readers : \/ \E k \in {"current", "besteffort"} : Call(r, k)
                          \/ Return(r)

Spec == Init /\ [][Next]_vars

\* A read that may return is eventually answered.
FairSpec == Spec /\ \A r \in Readers : WF_vars(Return(r))
=============================================================================
