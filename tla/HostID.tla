------------------------------ MODULE HostID ------------------------------
(***************************************************************************)
(* The host-ID holder of v1/solarwinds_apm/internal/host/hostid.go         *)
(* (lockedID) with the accessors of v1/ao/internal/host/host.go that read  *)
(* it: CurrentID waits for the first full update and copies, and          *)
(* BestEffortCurrentID copies without waiting.  Start runs the observer    *)
(* once, Stop closes the exit channel once.  host.go is in package        *)
(* v1/ao/internal/host, whose lockedID (hostId) is not in the repository;  *)
(* the holder is translated from the lockedID of package                   *)
(* v1/solarwinds_apm/internal/host, taken to be the same code.             *)
(*                                                                         *)
(* The RWMutex, the ready channel and each setter and field copy are       *)
(* explicit, so that copies can interleave with an update.  The observer   *)
(* loop is not in the repository: it is the environment, calling          *)
(* fullUpdate with setter lists from SetterLists until exit is closed.     *)
(* A field's value is the number of the update that wrote it (0: the zero *)
(* value newID leaves).                                                    *)
(***************************************************************************)
EXTENDS Naturals, Sequences

CONSTANTS
    Readers,        \* goroutines calling CurrentID or BestEffortCurrentID
    NumFields,      \* reflect.ValueOf(lh.id).Elem().NumField()
    SetterLists,    \* the setter lists the observer passes to fullUpdate
    MaxUpdates      \* bound on fullUpdate calls

VARIABLES
    id,             \* lh.id: field -> value
    writer,         \* the RWMutex is held by fullUpdate
    rlocked,        \* the readers holding the RWMutex's read lock
    closed,         \* lh.c has been closed (ready)
    started,        \* startOnce has run: the observer goroutine exists
    exitClosed,     \* the exit channel has been closed by Stop
    upc,            \* observer: "idle", "locked" or "apply"
    setters,        \* observer: setters of the current fullUpdate not yet run
    nupd,           \* fullUpdate calls made so far
    rpc,            \* per reader: "idle", "wait", "rlock", "copy", "done"
    kind,           \* per reader: "current" or "besteffort"
    copied          \* per reader: the fields copied so far, field -> value

vars == <<id, writer, rlocked, closed, started, exitClosed, upc, setters,
          nupd, rpc, kind, copied>>

Fields == 1..NumFields
Values == 0..MaxUpdates

Init ==
    /\ id = [f \in Fields |-> 0]
    /\ writer = FALSE
    /\ rlocked = {}
    /\ closed = FALSE
    /\ started = FALSE
    /\ exitClosed = FALSE
    /\ upc = "idle"
    /\ setters = <<>>
    /\ nupd = 0
    /\ rpc = [r \in Readers |-> "idle"]
    /\ kind = [r \in Readers |-> "current"]
    /\ copied = [r \in Readers |-> <<>>]

\* Start: startOnce.Do(go observer()).
Start ==
    /\ ~started
    /\ started' = TRUE
    /\ UNCHANGED <<id, writer, rlocked, closed, exitClosed, upc, setters, nupd,
                   rpc, kind, copied>>

\* Stop: exitClosed.Do(close(exit)).
Stop ==
    /\ ~exitClosed
    /\ exitClosed' = TRUE
    /\ UNCHANGED <<id, writer, rlocked, closed, started, upc, setters, nupd,
                   rpc, kind, copied>>

(***************************************************************************)
(* fullUpdate: Lock, then reject a setter list whose length is not         *)
(* NumField (the deferred Unlock runs), else run the setters one by one,   *)
(* setReady (close c once) and Unlock.                                     *)
(***************************************************************************)
LockForUpdate(s) ==
    /\ started /\ ~exitClosed
    /\ upc = "idle"
    /\ nupd < MaxUpdates
    /\ ~writer /\ rlocked = {}
    /\ writer' = TRUE
    /\ nupd' = nupd + 1
    /\ setters' = s
    /\ upc' = "locked"
    /\ UNCHANGED <<id, rlocked, closed, started, exitClosed, rpc, kind, copied>>

\* Mutant: the early return skips the unlock.
CheckSettersNoUnlock ==
    /\ upc = "locked"
    /\ IF Len(setters) # NumFields
       THEN /\ upc' = "idle"
            /\ setters' = <<>>
            /\ UNCHANGED writer
       ELSE /\ upc' = "apply"
            /\ UNCHANGED <<writer, setters>>
    /\ UNCHANGED <<id, rlocked, closed, started, exitClosed, nupd, rpc, kind, copied>>

CheckSetters ==
    /\ upc = "locked"
    /\ IF Len(setters) # NumFields
       THEN /\ upc' = "idle"
            /\ setters' = <<>>
            /\ writer' = FALSE
       ELSE /\ upc' = "apply"
            /\ UNCHANGED <<writer, setters>>
    /\ UNCHANGED <<id, rlocked, closed, started, exitClosed, nupd, rpc, kind, copied>>

\* Mutant: a setter writes the value of the next update.
ApplySetterNextVersion ==
    /\ upc = "apply"
    /\ setters # <<>>
    /\ id' = [id EXCEPT ![Head(setters)] = nupd + 1]
    /\ setters' = Tail(setters)
    /\ UNCHANGED <<writer, rlocked, closed, started, exitClosed, upc, nupd,
                   rpc, kind, copied>>

\* One setter of h.update(setters...).
ApplySetter ==
    /\ upc = "apply"
    /\ setters # <<>>
    /\ id' = [id EXCEPT ![Head(setters)] = nupd]
    /\ setters' = Tail(setters)
    /\ UNCHANGED <<writer, rlocked, closed, started, exitClosed, upc, nupd,
                   rpc, kind, copied>>

\* setReady, then the deferred Unlock, as one step: a reader woken by the
\* closed channel goes on to RLock, which the write lock holds off until
\* the Unlock, so nothing can observe the state between the two.
SetReadyAndUnlock ==
    /\ upc = "apply"
    /\ setters = <<>>
    /\ closed' = TRUE
    /\ writer' = FALSE
    /\ upc' = "idle"
    /\ UNCHANGED <<id, rlocked, started, exitClosed, setters, nupd, rpc, kind,
                   copied>>

(***************************************************************************)
(* The readers.  CurrentID: waitForReady (receive from c), then copyID;    *)
(* BestEffortCurrentID: copyID at once.  copyID: RLock, copy the fields in *)
(* the order copy() sets them, RUnlock.                                    *)
(***************************************************************************)
CurrentID(r) ==
    /\ rpc[r] \in {"idle", "done"}
    /\ rpc' = [rpc EXCEPT ![r] = "wait"]
    /\ kind' = [kind EXCEPT ![r] = "current"]
    /\ copied' = [copied EXCEPT ![r] = <<>>]
    /\ UNCHANGED <<id, writer, rlocked, closed, started, exitClosed, upc,
                   setters, nupd>>

BestEffortCurrentID(r) ==
    /\ rpc[r] \in {"idle", "done"}
    /\ rpc' = [rpc EXCEPT ![r] = "rlock"]
    /\ kind' = [kind EXCEPT ![r] = "besteffort"]
    /\ copied' = [copied EXCEPT ![r] = <<>>]
    /\ UNCHANGED <<id, writer, rlocked, closed, started, exitClosed, upc,
                   setters, nupd>>

waitForReady(r) ==
    /\ rpc[r] = "wait"
    /\ closed
    /\ rpc' = [rpc EXCEPT ![r] = "rlock"]
    /\ UNCHANGED <<id, writer, rlocked, closed, started, exitClosed, upc,
                   setters, nupd, kind, copied>>

\* Mutant: copyID reads without taking the read lock.
copyIDNoRLock(r) ==
    /\ rpc[r] = "rlock"
    /\ rpc' = [rpc EXCEPT ![r] = "copy"]
    /\ UNCHANGED <<id, writer, rlocked, closed, started, exitClosed, upc,
                   setters, nupd, kind, copied>>

copyID(r) ==
    /\ rpc[r] = "rlock"
    /\ ~writer
    /\ rlocked' = rlocked \cup {r}
    /\ rpc' = [rpc EXCEPT ![r] = "copy"]
    /\ UNCHANGED <<id, writer, closed, started, exitClosed, upc, setters, nupd,
                   kind, copied>>

\* One field of h.copy().
CopyField(r) ==
    /\ rpc[r] = "copy"
    /\ Len(copied[r]) < NumFields
    /\ copied' = [copied EXCEPT ![r] = Append(@, id[Len(@) + 1])]
    /\ UNCHANGED <<id, writer, rlocked, closed, started, exitClosed, upc,
                   setters, nupd, rpc, kind>>

\* The deferred RUnlock; the copy is returned.
RUnlock(r) ==
    /\ rpc[r] = "copy"
    /\ Len(copied[r]) = NumFields
    /\ rlocked' = rlocked \ {r}
    /\ rpc' = [rpc EXCEPT ![r] = "done"]
    /\ UNCHANGED <<id, writer, closed, started, exitClosed, upc, setters, nupd,
                   kind, copied>>

Next ==
    \/ Start
    \/ Stop
    \/ \E s \in SetterLists : LockForUpdate(s)
    \/ CheckSetters
    \/ ApplySetter
    \/ SetReadyAndUnlock
    \/ \E r \in Readers : \/ CurrentID(r) \/ BestEffortCurrentID(r)
                          \/ waitForReady(r) \/ copyID(r) \/ CopyField(r)
                          \/ RUnlock(r)

\* Goroutines that hold or wait for a step of their own are scheduled: the
\* observer inside fullUpdate and every reader.  Start, Stop and the
\* observer's next call are up to the program, so they get no fairness.
Fairness ==
    /\ WF_vars(CheckSetters) /\ WF_vars(ApplySetter) /\ WF_vars(SetReadyAndUnlock)
    /\ \A r \in Readers : /\ WF_vars(waitForReady(r)) /\ WF_vars(copyID(r))
                          /\ WF_vars(CopyField(r)) /\ WF_vars(RUnlock(r))

Spec == Init /\ [][Next]_vars /\ Fairness

-----------------------------------------------------------------------------
(* Properties *)

TypeOK ==
    /\ id \in [Fields -> Values]
    /\ writer \in BOOLEAN /\ rlocked \subseteq Readers
    /\ upc \in {"idle", "locked", "apply"}
    /\ nupd \in 0..MaxUpdates
    /\ rpc \in [Readers -> {"idle", "wait", "rlock", "copy", "done"}]
    /\ \A r \in Readers : copied[r] \in Seq(Values) /\ Len(copied[r]) <= NumFields

\* A copy some update wrote entirely: every field of it has the same value.
Snapshot(c) == \A i, j \in DOMAIN c : c[i] = c[j]

\* Every ID a reader gets back is one whole fullUpdate (or, for the best
\* effort read, possibly the zero ID): never fields of two updates, never a
\* partial update; and CurrentID never returns the zero ID.
CopiesAreSnapshots ==
    \A r \in Readers :
        rpc[r] = "done" =>
            /\ Snapshot(copied[r])
            /\ (kind[r] = "current" => copied[r][1] # 0)

\* Once the first full update closed c, every CurrentID or
\* BestEffortCurrentID call in progress returns.
ReadersReturnOnceReady ==
    \A r \in Readers : (closed /\ rpc[r] # "idle") ~> rpc[r] = "done"

-----------------------------------------------------------------------------
(***************************************************************************)
(* The holder implements the atomic register of HostIDRegister.  While an *)
(* update is applying its setters the register still holds the previous   *)
(* ID, which every field the update has not yet written keeps; the write  *)
(* takes effect with the last setter.  A read takes effect under the read *)
(* lock, and its result is the copy once the deferred RUnlock returns it.  *)
(***************************************************************************)
Register == INSTANCE HostIDRegister WITH
    Fields <- Fields, Versions <- Values, Zero <- 0, NoID <- <<>>,
    reg <- IF upc = "apply" /\ setters # <<>>
           THEN [f \in Fields |-> id[Head(setters)]]
           ELSE id,
    ready <- closed,
    st <- [r \in Readers |-> IF rpc[r] \in {"idle", "done"} THEN "out" ELSE "in"],
    ret <- [r \in Readers |-> IF rpc[r] = "done" THEN copied[r] ELSE <<>>]

\* CurrentID and BestEffortCurrentID are linearizable reads of whole IDs
\* written by fullUpdate: each returns the ID current at one instant of
\* its call, CurrentID only once the ID was published by setReady, and
\* every call that may return does.
ImplementsRegister == Register!FairSpec
=============================================================================
