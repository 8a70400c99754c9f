---------------------------- MODULE TokenBucket ----------------------------
(***************************************************************************)
(* The token bucket of the sampling core (spec section 4.1) as a value:    *)
(* a record and the operations on it.  The clock is an integer number of   *)
(* seconds and ratePerSec an integer number of tokens per second, so a     *)
(* refill of elapsed * ratePerSec tokens is exact.                         *)
(***************************************************************************)
EXTENDS Integers

Min2(a, b) == IF a < b THEN a ELSE b

\* A bucket created full at time t.
NewBucket(rate, cap, t) ==
    [ratePerSec |-> rate, capacity |-> cap, available |-> cap, last |-> t]

RefillUncapped(b, now) ==
    LET elapsed == IF now > b.last THEN now - b.last ELSE 0
    IN  [b EXCEPT !.available = @ + elapsed * b.ratePerSec, !.last = now]

\* Mutant: the refill time is not advanced, so the same seconds are
\* credited again on the next refill.
RefillLastNotAdvanced(b, now) ==
    LET elapsed == IF now > b.last THEN now - b.last ELSE 0
    IN  [b EXCEPT !.available = Min2(b.capacity, @ + elapsed * b.ratePerSec)]

\* Refill by the time elapsed since the last refill, capped at capacity;
\* a clock that moved backwards counts as zero elapsed.  The refill time
\* always becomes now (oboe_test.go TestTokenBucketTime checks both).
Refill(b, now) ==
    LET elapsed == IF now > b.last THEN now - b.last ELSE 0
    IN  [b EXCEPT !.available = Min2(b.capacity, @ + elapsed * b.ratePerSec),
                  !.last = now]

\* consume(n): refill, then take n tokens if there are n.
CanConsume(b, now, n) == Refill(b, now).available >= n

Consume(b, now, n) ==
    LET r == Refill(b, now)
    IN  IF r.available >= n THEN [r EXCEPT !.available = @ - n] ELSE r

\* Mutant: the new capacity is set but the balance is not clamped.
SetRateCapNoClamp(b, rate, cap) ==
    [b EXCEPT !.ratePerSec = rate, !.capacity = cap]

\* setRateCap: new rate and capacity; the balance is clamped down to a
\* smaller capacity and never increased.
SetRateCap(b, rate, cap) ==
    [b EXCEPT !.ratePerSec = rate, !.capacity = cap,
              !.available = Min2(@, cap)]
=============================================================================
