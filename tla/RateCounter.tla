---------------------------- MODULE RateCounter ----------------------------
(***************************************************************************)
(* One token bucket of the sampling core shared by request goroutines      *)
(* calling count(), the periodic flushCounters, setRateCap and a wall      *)
(* clock that may step backwards (spec sections 4.1 and 5).                *)
(*                                                                         *)
(* count() takes two steps: the requested/sampled increments, then the     *)
(* bucket-locked consume (or the through increment) with its result       *)
(* counter.  flushCounters reads and resets the five counters at once.    *)
(***************************************************************************)
EXTENDS Integers, TokenBucket

CONSTANTS
    Workers,        \* goroutines calling count()
    Rate0, Cap0,    \* the bucket the owning Setting was built with
    RateCaps,       \* <<rate, cap>> pairs setRateCap may be called with
    MaxRequests,    \* bound on count() calls
    MaxTime,        \* bound on the wall clock
    MaxStepBacks    \* bound on backward clock steps

VARIABLES
    bucket,         \* the tokenBucket record
    now,            \* wall clock (seconds)
    backs,          \* backward steps taken so far
    counters,       \* requested, sampled, traced, limited, through
    report,         \* the counters the last flushCounters returned
    pc,             \* per goroutine: "idle", "limit" or "done"
    args,           \* per goroutine: the arguments of its count() call
    result,         \* per goroutine: what count() returned
    nreq            \* count() calls started

vars == <<bucket, now, backs, counters, report, pc, args, result, nreq>>

CounterNames == {"requested", "sampled", "traced", "limited", "through"}
Zero == [c \in CounterNames |-> 0]
Args == [passed : BOOLEAN, throughAlways : BOOLEAN, countSampled : BOOLEAN]

Inc(cs, c) == [cs EXCEPT ![c] = @ + 1]

Init ==
    /\ bucket = NewBucket(Rate0, Cap0, 0)
    /\ now = 0
    /\ backs = 0
    /\ counters = Zero
    /\ report = Zero
    /\ pc = [w \in Workers |-> "idle"]
    /\ args = [w \in Workers |-> [passed |-> FALSE, throughAlways |-> FALSE,
                                  countSampled |-> FALSE]]
    /\ result = [w \in Workers |-> FALSE]
    /\ nreq = 0

(***************************************************************************)
(* count(passed, isThroughAlways, countSampled), first step: requested is  *)
(* always incremented, sampled when countSampled; a call that did not     *)
(* pass returns false here without touching the bucket.                   *)
(***************************************************************************)
CountStart(w, a) ==
    /\ pc[w] \in {"idle", "done"}
    /\ nreq < MaxRequests
    /\ nreq' = nreq + 1
    /\ args' = [args EXCEPT ![w] = a]
    /\ counters' = LET c1 == Inc(counters, "requested")
                   IN  IF a.countSampled THEN Inc(c1, "sampled") ELSE c1
    /\ IF a.passed
       THEN pc' = [pc EXCEPT ![w] = "limit"] /\ UNCHANGED result
       ELSE /\ pc' = [pc EXCEPT ![w] = "done"]
            /\ result' = [result EXCEPT ![w] = FALSE]
    /\ UNCHANGED <<bucket, now, backs, report>>

(***************************************************************************)
(* count(), second step: a through-always call is admitted without a      *)
(* token; any other call consumes one token under the bucket lock and is  *)
(* counted as traced or limited.                                           *)
(***************************************************************************)
CountFinish(w) ==
    /\ pc[w] = "limit"
    /\ pc' = [pc EXCEPT ![w] = "done"]
    /\ IF args[w].throughAlways
       THEN /\ counters' = Inc(counters, "through")
            /\ result' = [result EXCEPT ![w] = TRUE]
            /\ UNCHANGED bucket
       ELSE LET ok == CanConsume(bucket, now, 1)
            IN  /\ bucket' = Consume(bucket, now, 1)
                /\ counters' = Inc(counters, IF ok THEN "traced" ELSE "limited")
                /\ result' = [result EXCEPT ![w] = ok]
    /\ UNCHANGED <<now, backs, report, args, nreq>>

\* flushCounters: read and reset the five counters in one step.
FlushCounters ==
    /\ report' = counters
    /\ counters' = Zero
    /\ UNCHANGED <<bucket, now, backs, pc, args, result, nreq>>

\* setRateCap under the bucket lock.
SetRateCapAction(rc) ==
    /\ bucket' = SetRateCap(bucket, rc[1], rc[2])
    /\ UNCHANGED <<now, backs, counters, report, pc, args, result, nreq>>

Tick ==
    /\ now < MaxTime
    /\ now' = now + 1
    /\ UNCHANGED <<bucket, backs, counters, report, pc, args, result, nreq>>

\* The wall clock is set back (NTP step, manual change).
StepBack ==
    /\ backs < MaxStepBacks
    /\ now > 0
    /\ now' = now - 1
    /\ backs' = backs + 1
    /\ UNCHANGED <<bucket, counters, report, pc, args, result, nreq>>

Next ==
    \/ \E w \in Workers, a \in Args : CountStart(w, a)
    \/ \E w \in Workers : CountFinish(w)
    \/ FlushCounters
    \/ \E rc \in RateCaps : SetRateCapAction(rc)
    \/ Tick
    \/ StepBack

Spec == Init /\ [][Next]_vars

-----------------------------------------------------------------------------
TypeOK ==
    /\ bucket.available \in 0..bucket.capacity
    /\ bucket.last \in 0..MaxTime
    /\ now \in 0..MaxTime
    /\ counters \in [CounterNames -> 0..MaxRequests]
    /\ report \in [CounterNames -> 0..MaxRequests]
    /\ pc \in [Workers -> {"idle", "limit", "done"}]
    /\ args \in [Workers -> Args]
    /\ result \in [Workers -> BOOLEAN]

\* The balance a consume() at time t would find: the bucket refilled to t.
Credit(b, t) == Refill(b, t).available

=============================================================================
