------------------------------ MODULE Sampler ------------------------------
(***************************************************************************)
(* The OpenTelemetry sampler of v1/solarwinds_apm/sampler.go composed with *)
(* the sampling core.  ShouldSample follows a local parent's sampled flag; *)
(* for a root or remote parent it derives the trigger-trace mode from the  *)
(* x-trace options and asks the core (both decide() steps of Oboe), then   *)
(* maps the decision to Drop / RecordOnly / RecordAndSample, hydrates the  *)
(* trace state with the x-trace options response and adds attributes.      *)
(*                                                                         *)
(* A span to sample is a record: its parent span context (valid, remote,   *)
(* sampled, and the sw entry of its trace state: valid and its sampled     *)
(* flag), its parsed x-trace options, and the verdict the transaction      *)
(* filter gives the request's URL.                                         *)
(***************************************************************************)
EXTENDS Oboe

CONSTANTS
    Spans,          \* the SamplingParameters ShouldSample may be called with
    Draws           \* random draws the core may make

VARIABLES
    sph,            \* per goroutine: "idle", "deciding" or "finished"
    span,           \* per goroutine: the span being sampled
    result          \* per goroutine: the SamplingResult returned

svars == <<sph, span, result>>
allvars == <<vars, svars>>

SamplingDecisions == {"Drop", "RecordOnly", "RecordAndSample"}

NoResult == [decision |-> "Drop", ttResp |-> "absent", auth |-> FALSE,
             attrs |-> {}]

\* Mutant: an invalid signature is treated like a missing one.
getTtModeInvalidAsStrict(xto) ==
    IF xto.tt
    THEN IF xto.sig = "ValidSignature" THEN "Relaxed" ELSE "Strict"
    ELSE "NotPresent"

\* getTtMode: a trigger-trace request is Relaxed with a valid signature,
\* Invalid with an invalid one, otherwise Strict.
getTtMode(xto) ==
    IF xto.tt
    THEN CASE xto.sig = "ValidSignature"   -> "Relaxed"
           [] xto.sig = "InvalidSignature" -> "Invalid"
           [] OTHER                        -> "Strict"
    ELSE "NotPresent"

\* Mutant: with an invalid signature the auth message is written where the
\* trigger-trace response goes.
hydrateTraceStateAuthAsTT(xto, ttResp) ==
    IF ~xto.includeResponse \/ xto.sig \notin {"NoSignature", "ValidSignature",
                                               "InvalidSignature"}
    THEN [ttResp |-> "absent", auth |-> FALSE]
    ELSE IF xto.sig = "InvalidSignature"
         THEN [ttResp |-> "SigAuthMsg", auth |-> TRUE]
         ELSE [ttResp |-> ttResp, auth |-> xto.sig = "ValidSignature"]

\* hydrateTraceState: the xtrace options response entry written into the
\* trace state (abstracted to the trigger-trace token and the auth part).
hydrateTraceState(xto, ttResp) ==
    IF ~xto.includeResponse \/ xto.sig \notin {"NoSignature", "ValidSignature",
                                               "InvalidSignature"}
    THEN [ttResp |-> "absent", auth |-> FALSE]
    ELSE IF xto.sig = "InvalidSignature"
         THEN [ttResp |-> "absent", auth |-> TRUE]
         ELSE [ttResp |-> ttResp, auth |-> xto.sig = "ValidSignature"]

\* The attributes added only when sampling.
Attributes(xto) ==
    {a \in {"SWKeys", "CustomKeys", "TriggeredTrace"} :
        \/ a = "SWKeys" /\ xto.swKeys
        \/ a = "CustomKeys" /\ xto.custom
        \/ a = "TriggeredTrace" /\ xto.tt}

\* The request ShouldTraceRequestWithURL passes to decide(): url is "" (a
\* TODO), so the filter is never consulted, traced is swState.IsValid(),
\* and the parsed sw trace state goes with it (the spec's "optional
\* already-parsed remote trace-state", which no step of decide() reads).
CoreRequest(sp, d) ==
    [layer |-> CHOOSE l \in Layers : TRUE,
     alreadyTraced |-> sp.parent.swValid,
     filter |-> "Unknown",
     tt |-> getTtMode(sp.xto),
     draw |-> d,
     swState |-> [valid |-> sp.parent.swValid, sampled |-> sp.parent.swSampled]]

ParentIsLocal(p) == p.valid /\ ~p.remote

(***************************************************************************)
(* ShouldSample, up to the core's lookup: a valid local parent decides by  *)
(* its sampled flag (AlwaysSample / NeverSample); any other span starts a  *)
(* decision of the core.                                                   *)
(***************************************************************************)
ShouldSample(w, sp) ==
    /\ sph[w] \in {"idle", "finished"}
    /\ span' = [span EXCEPT ![w] = sp]
    /\ IF ParentIsLocal(sp.parent)
       THEN /\ result' = [result EXCEPT ![w] =
                 [NoResult EXCEPT !.decision = IF sp.parent.sampled
                                               THEN "RecordAndSample" ELSE "Drop"]]
            /\ sph' = [sph EXCEPT ![w] = "finished"]
            /\ UNCHANGED vars
       ELSE /\ \E d \in Draws : DecideLookup(w, CoreRequest(sp, d))
            /\ sph' = [sph EXCEPT ![w] = "deciding"]
            /\ UNCHANGED result

(***************************************************************************)
(* ShouldSample, after the core returned: the sampling decision, the       *)
(* hydrated trace state and, only when sampling, the attributes.           *)
(* traceDecision.Enabled() is neither in the repository nor in the spec's *)
(* decision record, so either answer is possible.                          *)
(***************************************************************************)
ShouldSampleFinish(w) ==
    \E enabled \in BOOLEAN :
    LET decision == IF ~enabled THEN "Drop"
                    ELSE IF dec[w].trace THEN "RecordAndSample" ELSE "RecordOnly"
        ts == hydrateTraceState(span[w].xto, dec[w].resp)
    IN  /\ sph[w] = "deciding"
        /\ pc[w] = "done"
        /\ result' = [result EXCEPT ![w] =
              [decision |-> decision, ttResp |-> ts.ttResp, auth |-> ts.auth,
               attrs |-> IF decision = "RecordAndSample"
                         THEN Attributes(span[w].xto) ELSE {}]]
        /\ sph' = [sph EXCEPT ![w] = "finished"]
        /\ UNCHANGED <<vars, span>>

SInit ==
    /\ Init
    /\ sph = [w \in Workers |-> "idle"]
    /\ span = [w \in Workers |-> CHOOSE sp \in Spans : TRUE]
    /\ result = [w \in Workers |-> NoResult]

SNext ==
    \/ \E w \in Workers, sp \in Spans : ShouldSample(w, sp)
    \/ \E w \in Workers : sph[w] = "deciding" /\ DecideAdmit(w) /\ UNCHANGED svars
    \/ \E w \in Workers : ShouldSampleFinish(w)
    \/ \E p \in Payloads : Update(p) /\ UNCHANGED svars
    \/ SweepExpired /\ UNCHANGED svars
    \/ ResetSettings /\ UNCHANGED svars
    \/ \E c \in LocalConfigs : ReloadLocalConfig(c) /\ UNCHANGED svars
    \/ Tick /\ UNCHANGED svars

SSpec == SInit /\ [][SNext]_allvars

-----------------------------------------------------------------------------
(* Properties *)

STypeOK ==
    /\ sph \in [Workers -> {"idle", "deciding", "finished"}]
    /\ span \in [Workers -> Spans]
    /\ \A w \in Workers :
          /\ result[w].decision \in SamplingDecisions
          /\ result[w].ttResp \in Responses \cup {"absent"}
          /\ result[w].attrs \subseteq {"SWKeys", "CustomKeys", "TriggeredTrace"}

\* A trigger-trace request whose signature failed validation is never
\* admitted by a trigger-trace bucket, and its trace state carries the auth
\* failure, not a trigger-trace token.
InvalidSignatureNeverTriggers ==
    \A w \in Workers :
        (sph[w] = "finished" /\ ~ParentIsLocal(span[w].parent)
                             /\ span[w].xto.tt
                             /\ span[w].xto.sig = "InvalidSignature") =>
            /\ dec[w].resp # "ok"
            /\ result[w].ttResp = "absent"
=============================================================================
