------------------------------- MODULE Oboe -------------------------------
(***************************************************************************)
(* The sampling core (spec sections 4.2, 4.3 and 5): the TTL-bounded store *)
(* of remote settings, each owning a token bucket and two trigger-trace    *)
(* buckets, the periodic expiry sweep, and the decision algorithm run by   *)
(* concurrent request goroutines.                                          *)
(*                                                                         *)
(* A decision takes two steps: the lookup under the store's read lock      *)
(* (setting, local configuration, merged rate and source), then the        *)
(* bucket-locked admission on the buckets of the setting it looked up, and *)
(* the local-disable gate and trigger-trace override.  The settings feed,  *)
(* the sweep and a local-configuration reload interleave with both.        *)
(*                                                                         *)
(* Rates are in parts per MaxSampleRate (the spec's 1_000_000); the random *)
(* draw is an input from Draws.  The URL filter is an input: its verdict.  *)
(***************************************************************************)
EXTENDS Integers, Sequences, FiniteSets, TLC, TokenBucket

CONSTANTS
    Workers,        \* request goroutines
    Layers,         \* layer names
    MaxSampleRate,  \* the 1_000_000 of a sample rate in ppm
    Requests,       \* decide() calls: layer, alreadyTraced, filter verdict,
                    \* trigger-trace mode and the random draw
    LocalConfigs,   \* local sampling configurations the process may load
    Payloads,       \* update() calls the remote settings feed may make
    DefaultArgs,    \* the defaults a malformed bucket argument falls back to
    Malformed,      \* a bucket argument that fails to decode
    MaxUpdates,     \* bound on update() calls
    MaxTime         \* bound on the clock

VARIABLES
    settings,       \* key -> Setting; a key absent from DOMAIN is no entry
    buckets,        \* generation -> the three buckets a Setting owns
    local,          \* the current LocalSamplingConfig snapshot
    now,            \* clock (seconds)
    pc,             \* per goroutine: "idle", "admit" or "done"
    req,            \* per goroutine: the decide() inputs
    seen,           \* per goroutine: what the lookup read
    dec             \* per goroutine: the decision returned

vars == <<settings, buckets, local, now, pc, req, seen, dec>>

Flags == {"SAMPLE_START", "SAMPLE_THROUGH", "SAMPLE_THROUGH_ALWAYS", "OVERRIDE"}
TTModes == {"NotPresent", "Strict", "Relaxed", "Invalid"}
FilterModes == {"Enabled", "Disabled", "Unknown"}
Sources == {"None", "Default", "PerLayer", "File"}
Responses == {"none", "ok", "rate-exceeded", "settings-not-available",
              "tracing-disabled", "auth-failed"}

DefaultKey == <<"Default", "">>
LayerKey(l) == <<"PerLayer", l>>

\* What a lookup that found no setting read.
NotFound(hadDefault, c) ==
    [found |-> FALSE, hadDefault |-> hadDefault, scope |-> "None", gen |-> 0,
     dgen |-> 0, flags |-> {}, value |-> 0, local |-> c, rate |-> 0,
     source |-> "None"]

NoDecision == [trace |-> FALSE, rate |-> 0, source |-> "None", resp |-> "none"]

\* Mutant: only negative rates are clamped.
adjustSampleRateNoUpper(v) == IF v < 0 THEN 0 ELSE v

\* The sample rate clamped into range, never rejected.
adjustSampleRate(v) ==
    IF v < 0 THEN 0 ELSE IF v > MaxSampleRate THEN MaxSampleRate ELSE v

\* A bucket argument decoded defensively: a malformed field is the default.
parseArg(v, default) == IF v = Malformed THEN default ELSE v

BucketsOf(p) ==
    [k \in {"main", "strict", "relaxed"} |->
        NewBucket(parseArg(p.args[k].rate, DefaultArgs[k].rate),
                  parseArg(p.args[k].cap, DefaultArgs[k].cap), now)]

Init ==
    /\ settings = <<>>
    /\ buckets = <<>>
    /\ local \in LocalConfigs
    /\ now = 0
    /\ pc = [w \in Workers |-> "idle"]
    /\ req = [w \in Workers |-> CHOOSE r \in Requests : TRUE]
    /\ seen = [w \in Workers |-> NotFound(FALSE, CHOOSE c \in LocalConfigs : TRUE)]
    /\ dec = [w \in Workers |-> NoDecision]

(***************************************************************************)
(* update(): insert or replace the Setting for its key, with fresh buckets *)
(* built from the arguments (generation = position in buckets).           *)
(***************************************************************************)
Update(p) ==
    LET key == IF p.scope = "Default" THEN DefaultKey ELSE LayerKey(p.layer)
        gen == Len(buckets) + 1
    IN  /\ Len(buckets) < MaxUpdates
        /\ buckets' = Append(buckets, BucketsOf(p))
        /\ settings' = (key :> [flags |-> p.flags,
                                value |-> adjustSampleRate(p.value),
                                timestamp |-> now, ttl |-> p.ttl,
                                gen |-> gen]) @@ settings
        /\ UNCHANGED <<local, now, pc, req, seen, dec>>

\* sweepExpired: remove every entry with now - timestamp > ttl.
SweepExpired ==
    /\ settings' = [k \in {k \in DOMAIN settings :
                            now - settings[k].timestamp <= settings[k].ttl}
                      |-> settings[k]]
    /\ UNCHANGED <<buckets, local, now, pc, req, seen, dec>>

ResetSettings ==
    /\ settings' = <<>>
    /\ UNCHANGED <<buckets, local, now, pc, req, seen, dec>>

ReloadLocalConfig(c) ==
    /\ local' = c
    /\ UNCHANGED <<settings, buckets, now, pc, req, seen, dec>>

Tick ==
    /\ now < MaxTime
    /\ now' = now + 1
    /\ UNCHANGED <<settings, buckets, local, pc, req, seen, dec>>

(***************************************************************************)
(* lookup(layerName): the per-layer setting if there is one, else the      *)
(* Default; a per-layer entry only counts while the Default is present.    *)
(***************************************************************************)
lookup(l) ==
    IF DefaultKey \notin DOMAIN settings THEN "none"
    ELSE IF LayerKey(l) \in DOMAIN settings THEN LayerKey(l) ELSE DefaultKey

FullyConfigured(c) == c.modeConfigured /\ c.rateConfigured

\* Step 3, the rate/source merge: a fully configured local rate wins
\* unless an OVERRIDE setting is lower.
merge(s, scope, c) ==
    IF ~FullyConfigured(c) THEN [rate |-> s.value, source |-> scope]
    ELSE IF "OVERRIDE" \in s.flags /\ s.value < adjustSampleRate(c.rate)
         THEN [rate |-> s.value, source |-> "Default"]
         ELSE [rate |-> adjustSampleRate(c.rate), source |-> "File"]

(***************************************************************************)
(* decide(), first step: the filter short-circuit (step 1), the lookup     *)
(* (step 2) and the merge (step 3), all under the store's read lock.       *)
(***************************************************************************)
DecideLookup(w, r) ==
    LET key == lookup(r.layer)
    IN  /\ pc[w] \in {"idle", "done"}
        /\ req' = [req EXCEPT ![w] = r]
        /\ \/ /\ r.filter = "Disabled"
              /\ pc' = [pc EXCEPT ![w] = "done"]
              /\ dec' = [dec EXCEPT ![w] = NoDecision]
              /\ seen' = [seen EXCEPT ![w] =
                                NotFound(DefaultKey \in DOMAIN settings, local)]
           \/ /\ r.filter # "Disabled"
              /\ key = "none"
              /\ pc' = [pc EXCEPT ![w] = "done"]
              /\ dec' = [dec EXCEPT ![w] =
                    [NoDecision EXCEPT !.resp = IF r.tt = "NotPresent" THEN "none"
                                                ELSE "settings-not-available"]]
              /\ seen' = [seen EXCEPT ![w] =
                                NotFound(DefaultKey \in DOMAIN settings, local)]
           \/ /\ r.filter # "Disabled"
              /\ key # "none"
              /\ LET s == settings[key]
                     m == merge(s, key[1], local)
                 IN  seen' = [seen EXCEPT ![w] =
                        [found |-> TRUE, hadDefault |-> DefaultKey \in DOMAIN settings,
                         scope |-> key[1], gen |-> s.gen,
                         dgen |-> IF DefaultKey \in DOMAIN settings
                                  THEN settings[DefaultKey].gen ELSE 0,
                         flags |-> s.flags,
                         value |-> s.value, local |-> local,
                         rate |-> m.rate, source |-> m.source]]
              /\ pc' = [pc EXCEPT ![w] = "admit"]
              /\ UNCHANGED dec
        /\ UNCHANGED <<settings, buckets, local, now>>

\* Step 5's condition: local tracing is disabled and no Enabled filter
\* rule lifts it for this URL.
LocallyDisabled(c, r) == c.mode = "disabled" /\ r.filter # "Enabled"

\* Step 6: a Strict or Relaxed request takes a token from the trigger-trace
\* bucket of the Default setting it looked up.
triggerTrace(v, r, bs) ==
    CASE r.tt = "NotPresent"        -> [ok |-> FALSE, resp |-> "none"]
      [] LocallyDisabled(v.local, r) -> [ok |-> FALSE, resp |-> "tracing-disabled"]
      [] r.tt = "Invalid"           -> [ok |-> FALSE, resp |-> "auth-failed"]
      [] OTHER -> LET k == IF r.tt = "Strict" THEN "strict" ELSE "relaxed"
                  IN  IF CanConsume(bs[k], now, 1)
                      THEN [ok |-> TRUE, resp |-> "ok"]
                      ELSE [ok |-> FALSE, resp |-> "rate-exceeded"]

(***************************************************************************)
(* decide(), second step, under the bucket locks: the flag-gated count on  *)
(* the looked-up setting's bucket (step 4), the local-disable gate (5) and *)
(* the trigger-trace override (6).  The buckets are those of the setting   *)
(* the lookup returned, even if an update has since replaced it.           *)
(***************************************************************************)
DecideAdmit(w) ==
    LET v == seen[w]
        r == req[w]
        main == buckets[v.gen].main
        useMain == ~r.alreadyTraced /\ "SAMPLE_START" \in v.flags
                                    /\ r.draw < v.rate
        through == r.alreadyTraced /\
                   v.flags \cap {"SAMPLE_THROUGH", "SAMPLE_THROUGH_ALWAYS"} # {}
        counted == (useMain /\ CanConsume(main, now, 1)) \/ through
        provisional == counted /\ ~LocallyDisabled(v.local, r)
        tt == triggerTrace(v, r, buckets[v.dgen])
        ttKey == IF r.tt = "Strict" THEN "strict" ELSE "relaxed"
    IN  /\ pc[w] = "admit"
        /\ buckets' = [buckets EXCEPT
                         ![v.gen].main = IF useMain THEN Consume(@, now, 1) ELSE @,
                         ![v.dgen][ttKey] = IF tt.ok THEN Consume(@, now, 1) ELSE @]
        /\ dec' = [dec EXCEPT ![w] = [trace |-> provisional \/ tt.ok,
                                      rate |-> v.rate, source |-> v.source,
                                      resp |-> tt.resp]]
        /\ pc' = [pc EXCEPT ![w] = "done"]
        /\ UNCHANGED <<settings, local, now, req, seen>>

Next ==
    \/ \E w \in Workers, r \in Requests : DecideLookup(w, r)
    \/ \E w \in Workers : DecideAdmit(w)
    \/ \E p \in Payloads : Update(p)
    \/ SweepExpired
    \/ ResetSettings
    \/ \E c \in LocalConfigs : ReloadLocalConfig(c)
    \/ Tick

Spec == Init /\ [][Next]_vars

Keys == {DefaultKey} \cup {LayerKey(l) : l \in Layers}

-----------------------------------------------------------------------------
(* Properties *)

Rates == 0..MaxSampleRate

TypeOK ==
    /\ DOMAIN settings \subseteq Keys
    /\ \A k \in DOMAIN settings :
          /\ settings[k].value \in Rates
          /\ settings[k].gen \in 1..Len(buckets)
    /\ local \in LocalConfigs
    /\ pc \in [Workers -> {"idle", "admit", "done"}]
    /\ req \in [Workers -> Requests]
    /\ \A w \in Workers : /\ seen[w].rate \in Rates
                          /\ seen[w].source \in Sources
    /\ \A w \in Workers : /\ dec[w].trace \in BOOLEAN
                          /\ dec[w].rate \in Rates
                          /\ dec[w].resp \in Responses

=============================================================================
