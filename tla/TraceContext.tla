----------------------------- MODULE TraceContext -----------------------------
(***************************************************************************)
(* The SolarWinds OpenTelemetry propagator                                 *)
(* (v1/solarwinds_apm/propagator.go) across one hop. Service A injects its *)
(* span context into an outgoing request through the composite propagator  *)
(* (W3C TraceContext, then SolarwindsPropagator); service B extracts it    *)
(* with the same composite, then reads the sw trace-state entry            *)
(* (internal/w3cfmt) and the x-trace options (internal/xtrace) from what   *)
(* it extracted, as its sampler does.                                      *)
(*                                                                         *)
(* A's outgoing carrier may already hold headers A forwards from its own   *)
(* incoming request: a traceparent (absent, valid or malformed), a         *)
(* tracestate and the client's x-trace-options headers.                    *)
(*                                                                         *)
(* A tracestate header is a record: ok (ParseTraceState accepts it) and    *)
(* its list of members. ParseTraceState and TraceState.String are inverse  *)
(* on well-formed lists, and the empty list is the absent header "". A     *)
(* member's value is the hex fields it spells and how many hex digits      *)
(* each has; that is what SwFromCtx writes and swTraceStateRegex checks.   *)
(* Lists stay below the 32 members at which Insert drops the last one.     *)
(***************************************************************************)
EXTENDS XTrace

CONSTANTS
    SpanIDs,      \* non-zero span ids
    ForeignVals,  \* values of other vendors' members
    OwnStates,    \* trace states A's span context carries
    FwdParents,   \* traceparent headers A may forward: "", "valid", "bad"
    FwdStates,    \* tracestate headers A may forward
    OptHeaders,   \* x-trace-options headers, as token lists
    Sigs          \* x-trace-options-signature headers ("" is absent)

VARIABLES
    sc,        \* A's span context: span id, flags and trace state
    fwd,       \* the headers A forwards: traceparent, tracestate, opts, sig
    carrier,   \* A's outgoing request headers, read by B
    bctx,      \* what B's Extract put in its context
    bsw,       \* B's ParseSwTraceState of the sw member
    bopts,     \* what B's getters read from its XTraceOptions
    pc         \* "idle", "started", "injected", "extracted", "done"

vars == <<sc, fwd, carrier, bctx, bsw, bopts, pc>>

ZeroSpan == "0000000000000000"
IsValid(c) == c.span # ZeroSpan
\* A member value: the span and flag fields and their hex digit counts.
Val(s, f, d) == [span |-> s, flags |-> f, digits |-> d]
NoVal == Val("", 0, <<>>)           \* TraceState.Get of an absent key: ""
Hdr(l) == [ok |-> TRUE, list |-> l]
EmptyHdr == Hdr(<<>>)
MalformedHdr == [ok |-> FALSE, list |-> <<>>]
NotSw(m) == m.key # "sw"

\* Mutant: the flags byte formatted with %x as an integer, not as a byte.
SwFromCtxIntFlags(c) ==
    Val(c.span, c.flags, <<16, IF c.flags < 16 THEN 1 ELSE 2>>)

\* SwFromCtx: %x of the 8 span id bytes and of the one flags byte.
SwFromCtx(c) == Val(c.span, c.flags, <<16, 2>>)

\* ParseSwTraceState: valid iff 16 hex digits, "-", 2 hex digits.
ParseSwTraceState(v) ==
    IF v.digits = <<16, 2>>
    THEN [isValid |-> TRUE, spanId |-> v.span, flags |-> v.flags]
    ELSE [isValid |-> FALSE, spanId |-> "", flags |-> 0]

\* trace.TraceState.Insert: the new member first, any old one of the key
\* removed. TraceState.Get: the member's value or "".
Insert(l, k, v) == <<[key |-> k, val |-> v]>> \o SelectSeq(l, LAMBDA m : m.key # k)
TSGet(l, k) ==
    LET I == {i \in DOMAIN l : l[i].key = k}
    IN  IF I = {} THEN NoVal ELSE l[Min(I)].val

\* The W3C TraceContext propagator (OpenTelemetry, outside the repository):
\* Inject does nothing for an invalid span context, else writes its
\* traceparent and, when not empty, its trace state. Extract yields no span
\* context, and so no trace state, unless traceparent is present and
\* valid; a tracestate that does not parse is then read as empty.
tcInjectParent(c, p) == IF IsValid(c) THEN "valid" ELSE p
tcInject(c, h) == IF IsValid(c) /\ c.ts # <<>> THEN Hdr(c.ts) ELSE h
tcExtract(p, h) == IF p = "valid" /\ h.ok THEN h.list ELSE <<>>

\* Mutant: the sw member is inserted into a new trace state.
SwInjectFresh(c, h) ==
    IF h = EmptyHdr /\ ~IsValid(c) THEN h
    ELSE IF ~h.ok THEN h
    ELSE Hdr(Insert(<<>>, "sw", SwFromCtx(c)))

\* SolarwindsPropagator.Inject: with no tracestate header an invalid span
\* context writes nothing; a header that does not parse is left alone;
\* otherwise sw=SwFromCtx(sc) is inserted and the header rewritten.
SwInject(c, h) ==
    IF h = EmptyHdr /\ ~IsValid(c) THEN h
    ELSE IF ~h.ok THEN h
    ELSE Hdr(Insert(h.list, "sw", SwFromCtx(c)))

\* The tracestate header SolarwindsPropagator.Inject reads in A's carrier.
HdrBeforeSw == tcInject(sc, fwd.ts)

Init ==
    /\ sc = [span |-> ZeroSpan, flags |-> 0, ts |-> <<>>]
    /\ fwd = [tp |-> "", ts |-> EmptyHdr, opts |-> <<>>, sig |-> ""]
    /\ carrier = fwd
    /\ bctx = [ts |-> <<>>, opts |-> <<>>, sig |-> ""]
    /\ bsw = ParseSwTraceState(NoVal)
    /\ bopts = [tt |-> FALSE, swKeys |-> "", timestamp |-> 0,
                customKVs |-> [k \in {} |-> ""], sig |-> ""]
    /\ pc = "idle"

\* A handles a request: its span context (none, or a span with its flags
\* and trace state) and the headers it forwards into the outgoing request.
Start ==
    /\ pc = "idle"
    /\ \E c \in {[span |-> ZeroSpan, flags |-> 0, ts |-> <<>>]} \cup
                [span: SpanIDs, flags: {0, 1}, ts: OwnStates],
          p \in FwdParents, t \in FwdStates, o \in OptHeaders, s \in Sigs :
          /\ sc' = c
          /\ fwd' = [tp |-> p, ts |-> t, opts |-> o, sig |-> s]
          /\ carrier' = fwd'
    /\ pc' = "started"
    /\ UNCHANGED <<bctx, bsw, bopts>>

\* A: the composite propagator's Inject.
InjectA ==
    /\ pc = "started"
    /\ carrier' = [carrier EXCEPT !.tp = tcInjectParent(sc, @),
                                  !.ts = SwInject(sc, tcInject(sc, @))]
    /\ pc' = "injected"
    /\ UNCHANGED <<sc, fwd, bctx, bsw, bopts>>

\* B: the composite propagator's Extract. SolarwindsPropagator.Extract puts
\* the x-trace-options and signature headers in the context when they are
\* not empty; reading an absent context value gives "".
ExtractB ==
    /\ pc = "injected"
    /\ bctx' = [ts |-> tcExtract(carrier.tp, carrier.ts),
                opts |-> IF carrier.opts # <<>> THEN carrier.opts ELSE <<>>,
                sig |-> IF carrier.sig # "" THEN carrier.sig ELSE ""]
    /\ pc' = "extracted"
    /\ UNCHANGED <<sc, fwd, carrier, bsw, bopts>>

\* B: the parent's sw member parsed, and NewXTraceOptions(opts, sig) read
\* through its getters one after the other.
ReadB ==
    /\ pc = "extracted"
    /\ bsw' = ParseSwTraceState(TSGet(bctx.ts, "sw"))
    /\ LET x0 == NewXTraceOptions(bctx.opts, bctx.sig)
           g1 == Get(x0, "swKeys")
           g2 == Get(g1.after, "customKVs")
           g3 == Get(g2.after, "timestamp")
           g4 == Get(g3.after, "tt")
       IN  bopts' = [tt |-> g4.val, swKeys |-> g1.val, timestamp |-> g3.val,
                     customKVs |-> g2.val, sig |-> g4.after.sig]
    /\ pc' = "done"
    /\ UNCHANGED <<sc, fwd, carrier, bctx>>

Next == Start \/ InjectA \/ ExtractB \/ ReadB

Spec == Init /\ [][Next]_vars

-----------------------------------------------------------------------------
Members == [key: {"sw"}, val: [span: SpanIDs \cup {ZeroSpan} \cup {"s0"}, flags: {0, 1},
                               digits: {<<16, 2>>, <<16, 1>>, <<9, 2>>}]] \cup
           [key: {"o"}, val: ForeignVals]

TypeOK ==
    /\ pc \in {"idle", "started", "injected", "extracted", "done"}
    /\ IsValid(sc) => sc.span \in SpanIDs
    /\ carrier.tp \in FwdParents \cup {"valid"}
    /\ carrier.ts.ok \in BOOLEAN /\ carrier.ts.list \in Seq(Members)
    /\ bctx.ts \in Seq(Members)
    /\ bsw.isValid \in BOOLEAN
    /\ bopts.tt \in BOOLEAN /\ bopts.sig \in Sigs
    /\ DOMAIN bopts.customKVs \subseteq CustomKeys

\* B reads back exactly A's span id and sampled flag from the sw member
\* whenever A had a span and the tracestate it injected into parses
\* (SwFromCtx written by Inject, ParseSwTraceState on the other side).
SwRoundTrip ==
    pc = "done" /\ IsValid(sc) /\ HdrBeforeSw.ok =>
        bsw = [isValid |-> TRUE, spanId |-> sc.span, flags |-> sc.flags]

\* Inject keeps every other vendor's member of the tracestate it rewrites,
\* in order, so B, when it accepts the traceparent, sees exactly the
\* members A passed on besides sw.
ForeignEntriesKept ==
    pc = "done" /\ HdrBeforeSw.ok /\ carrier.tp = "valid" =>
        SelectSeq(bctx.ts, NotSw) = SelectSeq(HdrBeforeSw.list, NotSw)

\* The x-trace options B's getters return are what the client's header and
\* signature say (RefOptions), through Extract, NewXTraceOptions and the
\* lazily initialising value-receiver getters.
OptionsReachB ==
    pc = "done" =>
        /\ bopts.sig = fwd.sig
        /\ [tt |-> bopts.tt, swKeys |-> bopts.swKeys, timestamp |-> bopts.timestamp,
            customKVs |-> bopts.customKVs] = RefOptions(fwd.opts)

=============================================================================
