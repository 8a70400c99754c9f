------------------------------ MODULE MC_Oboe ------------------------------
(* Model of the sampling core for TLC: one layer, rates in quarters. *)
EXTENDS Oboe

CONSTANTS w1, w2, l1

MCWorkers == {w1}
MCWorkers2 == {w1, w2}
MCLayers == {l1}
Req(at, f, tt, d) ==
    [layer |-> l1, alreadyTraced |-> at, filter |-> f, tt |-> tt, draw |-> d]

\* New requests drawn low (sampled at any rate above zero) and high (only at
\* the full rate), a continued one, one with an Enabled and one with a
\* Disabled filter verdict, and the three trigger-trace modes.
MCRequests ==
    { Req(FALSE, "Unknown", "NotPresent", 0), Req(FALSE, "Unknown", "NotPresent", 3),
      Req(TRUE, "Unknown", "NotPresent", 3), Req(FALSE, "Enabled", "Strict", 3),
      Req(FALSE, "Disabled", "Strict", 0), Req(FALSE, "Unknown", "Relaxed", 3),
      Req(TRUE, "Unknown", "Invalid", 0) }

Local(mode, mc, rate, rc) ==
    [mode |-> mode, modeConfigured |-> mc, rate |-> rate, rateConfigured |-> rc]

\* Fully configured enabled at half rate, fully configured disabled, and
\* only the rate set (not fully configured: the remote rate applies).
MCLocalConfigs ==
    { Local("enabled", TRUE, 2, TRUE), Local("disabled", TRUE, 4, TRUE),
      Local("enabled", FALSE, 2, TRUE) }

Arg(r, c) == [rate |-> r, cap |-> c]

MCDefaultArgs == [k \in {"main", "strict", "relaxed"} |-> Arg(1, 1)]

\* A Default setting that lowers the rate by OVERRIDE, with a malformed
\* relaxed-bucket capacity and a TTL of 0 (it expires on the next tick, so
\* decisions race the sweep), and a per-layer setting with an out-of-range
\* rate, OVERRIDE (but above the local rate) and the through-always flag.
MCPayloads ==
    { [scope |-> "Default", layer |-> l1,
       flags |-> {"SAMPLE_START", "SAMPLE_THROUGH", "OVERRIDE"},
       value |-> 1, ttl |-> 0,
       args |-> [main |-> Arg(1, 1), strict |-> Arg(0, 1),
                 relaxed |-> Arg(1, Malformed)]],
      [scope |-> "PerLayer", layer |-> l1,
       flags |-> {"SAMPLE_START", "SAMPLE_THROUGH_ALWAYS", "OVERRIDE"},
       value |-> 5, ttl |-> 1,
       args |-> [main |-> Arg(1, 2), strict |-> Arg(1, 1), relaxed |-> Arg(1, 1)]] }
=============================================================================
