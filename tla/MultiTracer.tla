----------------------------- MODULE MultiTracer -----------------------------
(***************************************************************************)
(* One request crossing two hops through a MultiTracer                     *)
(* (src/v1/contrib/multitracer/multitracer.go) whose tracers are the       *)
(* SolarWinds OpenTracing tracer (OTPropagation) and another vendor's      *)
(* tracer. Hop A starts a root MultiSpan and injects its context into a    *)
(* fresh carrier; hop B extracts a MultiSpanContext from that carrier and  *)
(* starts its span as a child of it.                                       *)
(*                                                                         *)
(* The other vendor's tracer stands for any tracer with its own header:    *)
(* it injects and extracts that header in the text formats and does not    *)
(* support the binary format.                                              *)
(***************************************************************************)
EXTENDS OTPropagation, SequencesExt

CONSTANTS
    TracerLists,   \* the MultiTracer.Tracers configurations ("sw", "other")
    OtherIDs,      \* span ids of the other vendor's tracer
    Formats,       \* formats the application passes to Inject and Extract
    CarrierKinds,  \* "map" (TextMapCarrier), "http" (HTTPHeadersCarrier), "stream"
    ReadModes,     \* how the binary carrier's Read returns (see binaryExtract)
    ChildOfNil,    \* the application passes ChildOf(ctx) even when Extract failed
    MaxSpanCalls   \* bound on the calls the application makes on hop A's MultiSpan

VARIABLES
    tracers,    \* MultiTracer.Tracers
    spans,      \* hop A's MultiSpan.Spans, as their span contexts
    format,     \* the format of the Inject/Extract pair
    carrier,    \* the carrier hop A wrote and hop B reads
    injErr,     \* the error MultiTracer.Inject returned
    injErrs,    \* the per-tracer errors Inject collected
    extracted,  \* MultiTracer.Extract's result: [err, ctx]
    child,      \* per tracer, the parent hop B's child span refers to
    panicked,   \* a goroutine panicked in the MultiTracer
    pc,         \* "idle", "started", "injected", "extracted", "done"
    mcalls,     \* the calls the application made on hop A's MultiSpan
    recv,       \* per tracer, the calls hop A's span of that tracer received
    rmode       \* per tracer, how the binary carrier's Read returned to it

vars == <<tracers, spans, format, carrier, injErr, injErrs, extracted, child,
          panicked, pc, mcalls, recv, rmode>>

OtherKey == Key("other", "-", FALSE)
Root == [tracer |-> "root"]

SwSpans == [tracer: {"sw"}, md: MDs \cup {NoMD}, reporting: BOOLEAN,
            bag: SUBSET BaggageKeys]
OtherSpans == [tracer: {"other"}, id: OtherIDs]

EmptyCarrier(k) ==
    IF k = "stream" THEN [kind |-> k, frames |-> <<>>] ELSE [kind |-> k, hdr |-> <<>>]

otherInject(sc, f, c) ==
    IF f \in TextFormats /\ c.kind \in {"map", "http"}
    THEN [err |-> Ok, carrier |-> SetHeader(c, OtherKey, sc.id)]
    ELSE [err |-> "ErrUnsupportedFormat", carrier |-> c]

otherExtract(f, c) ==
    LET ks == {k \in IF c.kind = "stream" THEN {} ELSE DOMAIN c.hdr : Lower(k) = OtherKey}
    IN  CASE f \notin TextFormats -> Failed("ErrUnsupportedFormat")
          [] ks = {} -> Failed("ErrSpanContextNotFound")
          [] OTHER -> [err |-> Ok,
                       ctx |-> [tracer |-> "other", id |-> c.hdr[CHOOSE k \in ks : TRUE]]]

tracerInject(t, sc, f, c) ==
    IF t = "sw" THEN Inject(sc, f, c) ELSE otherInject(sc, f, c)

tracerExtract(t, f, c, ks, mode) ==
    IF t = "sw" THEN Extract(f, c, ks, mode) ELSE otherExtract(f, c)

\* "if every tracer returned an error": vacuously so for no tracers.
allErrors(errs) == \A i \in DOMAIN errs : errs[i] # Ok

\* The orders ForeachKey may visit a text carrier's keys in (map order).
KeyOrders(c) == IF c.kind = "stream" THEN {<<>>} ELSE SetToSeqs(DOMAIN c.hdr)

\* MultiTracer.Inject's loop: tracer i writes into the carrier tracer i-1
\* left, and its error is kept.
RECURSIVE InjectAll(_, _, _, _)
InjectAll(i, f, c, errs) ==
    IF i > Len(tracers) THEN [errs |-> errs, carrier |-> c]
    ELSE LET r == tracerInject(tracers[i], spans[i], f, c)
         IN  InjectAll(i + 1, f, r.carrier, Append(errs, r.err))

Init ==
    /\ tracers \in TracerLists
    /\ spans = <<>>
    /\ format = "none"
    /\ carrier = EmptyCarrier("map")
    /\ injErr = Ok
    /\ injErrs = <<>>
    /\ extracted = Failed("none")
    /\ child = <<>>
    /\ panicked = FALSE
    /\ pc = "idle"
    /\ mcalls = <<>>
    /\ recv = <<>>
    /\ rmode = <<>>

\* Hop A: MultiTracer.StartSpan with no references; every tracer starts a
\* root span, whose context is whatever that tracer makes of it.
StartRoot ==
    /\ pc = "idle"
    /\ \E ss \in [1..Len(tracers) -> SwSpans \cup OtherSpans] :
          /\ \A i \in DOMAIN ss : ss[i].tracer = tracers[i]
          /\ spans' = ss
    /\ recv' = [i \in 1..Len(tracers) |-> <<>>]
    /\ pc' = "started"
    /\ UNCHANGED mcalls
    /\ UNCHANGED <<rmode, tracers, format, carrier, injErr, injErrs, extracted, child, panicked>>

\* Hop A: MultiTracer.Inject(span.Context(), f, carrier). With every tracer
\* failing it returns errs[0], which for no tracers indexes an empty slice.
MultiInject(f, k) ==
    /\ pc = "started"
    /\ LET r == InjectAll(1, f, EmptyCarrier(k), <<>>)
       IN  /\ carrier' = r.carrier
           /\ injErrs' = r.errs
           /\ injErr' = IF allErrors(r.errs) /\ r.errs # <<>> THEN r.errs[1] ELSE Ok
           /\ panicked' = (r.errs = <<>>)
    /\ format' = f
    /\ pc' = "injected"
    /\ UNCHANGED <<rmode, tracers, spans, extracted, child, mcalls, recv>>

\* Whether tracer t's Extract reads the body with carrier.Read: only the
\* SolarWinds tracer on a byte stream does; for the others the read mode
\* is moot and fixed to "full".
Reads(t, c) == t = "sw" /\ c.kind = "stream"

\* Hop B: MultiTracer.Extract(f, carrier). Each tracer reads the carrier
\* (in its own ForeachKey order, with its own binary Read); failures leave
\* a nil context in the MultiSpanContext unless every tracer failed.
MultiExtract ==
    /\ pc = "injected"
    /\ ~panicked
    /\ \E ord \in [DOMAIN tracers -> KeyOrders(carrier)],
          mode \in [DOMAIN tracers -> ReadModes] :
          /\ \A i \in DOMAIN tracers : ~Reads(tracers[i], carrier) => mode[i] = "full"
          /\ LET rs == [i \in DOMAIN tracers |->
                           tracerExtract(tracers[i], format, carrier, ord[i], mode[i])]
                 errs == [i \in DOMAIN tracers |-> rs[i].err]
             IN  /\ extracted' = IF allErrors(errs) /\ errs # <<>>
                                 THEN Failed(errs[1])
                                 ELSE [err |-> Ok, ctx |-> [i \in DOMAIN tracers |-> rs[i].ctx]]
                 /\ panicked' = (errs = <<>>)
          /\ rmode' = mode
    /\ pc' = "extracted"
    /\ UNCHANGED <<tracers, spans, format, carrier, injErr, injErrs, child, mcalls, recv>>

\* Mutant: tracer i is handed the context of the tracer after it.
StartChildNextContext ==
    /\ pc = "extracted"
    /\ ~panicked
    /\ panicked' = (extracted.err # Ok /\ ChildOfNil)
    /\ child' = [i \in DOMAIN tracers |->
                   LET c == extracted.ctx[(i % Len(tracers)) + 1]
                   IN  IF extracted.err # Ok \/ c = NilCtx THEN Root ELSE c]
    /\ pc' = "done"
    /\ UNCHANGED <<rmode, tracers, spans, format, carrier, injErr, injErrs, extracted, mcalls,
                   recv>>

\* Hop B: MultiTracer.StartSpan(op, ChildOf(ctx)). The reference is asserted
\* to be a *MultiSpanContext and tracer i gets its i-th context. A nil
\* per-tracer context gives that tracer a root span: opentracing-go's
\* SpanReference.Apply, outside the repository, drops a reference to a nil
\* context. A nil reference (ChildOf(nil)) fails the type assertion.
StartChild ==
    /\ pc = "extracted"
    /\ ~panicked
    /\ panicked' = (extracted.err # Ok /\ ChildOfNil)
    /\ child' = [i \in DOMAIN tracers |->
                   IF extracted.err # Ok \/ extracted.ctx[i] = NilCtx
                   THEN Root ELSE extracted.ctx[i]]
    /\ pc' = "done"
    /\ UNCHANGED <<rmode, tracers, spans, format, carrier, injErr, injErrs, extracted, mcalls,
                   recv>>

\* A call the application makes on hop A's MultiSpan while it lives, that
\* is from StartSpan on, concurrently with hop B: the MultiSpan method is
\* named m and each tracer's span receives f from the method's loop over
\* m.Spans (nothing for f = "none"). SetTag and SetOperationName store back
\* into m.Spans[i] the span the tracer's method returns, which the
\* OpenTracing API makes the span itself.
Call(m, f) ==
    /\ pc # "idle"
    /\ Len(mcalls) < MaxSpanCalls
    /\ mcalls' = Append(mcalls, m)
    /\ recv' = IF f = "none" THEN recv ELSE [i \in DOMAIN recv |-> Append(recv[i], f)]
    /\ UNCHANGED <<rmode, tracers, spans, format, carrier, injErr, injErrs, extracted, child,
                   panicked, pc>>

Finish == Call("Finish", "Finish")
FinishWithOptions == Call("FinishWithOptions", "FinishWithOptions")
SetOperationName == Call("SetOperationName", "SetOperationName")
SetTag == Call("SetTag", "SetTag")
LogFields == Call("LogFields", "LogFields")
LogKV == Call("LogKV", "LogKV")
\* SetBaggageItem does nothing (baggage propagation is not supported).
SetBaggageItem == Call("SetBaggageItem", "none")
LogEvent == Call("LogEvent", "LogEvent")
LogEventWithPayload == Call("LogEventWithPayload", "LogEventWithPayload")
Log == Call("Log", "Log")

SpanCall ==
    \/ Finish \/ FinishWithOptions \/ SetOperationName \/ SetTag \/ LogFields
    \/ LogKV \/ SetBaggageItem \/ LogEvent \/ LogEventWithPayload \/ Log

Next ==
    \/ StartRoot
    \/ \E f \in Formats, k \in CarrierKinds : MultiInject(f, k)
    \/ MultiExtract
    \/ StartChild
    \/ SpanCall

Spec == Init /\ [][Next]_vars

-----------------------------------------------------------------------------
Errors == {Ok, "none", "ErrUnsupportedFormat", "ErrInvalidCarrier",
           "ErrSpanContextCorrupted", "ErrSpanContextNotFound"}

\* What hop B's tracer should continue from hop A's span: the SolarWinds
\* tracer a span with valid metadata, the other tracer any span.
Propagatable(sc) == sc.tracer = "other" \/ sc.md \in ValidMDs
Continued(sc) ==
    IF sc.tracer = "sw"
    THEN [tracer |-> "sw", remoteMD |-> sc.md, sampled |-> sc.reporting, bag |-> sc.bag]
    ELSE [tracer |-> "other", id |-> sc.id]

TypeOK ==
    /\ tracers \in TracerLists
    /\ pc \in {"idle", "started", "injected", "extracted", "done"}
    /\ spans \in Seq(SwSpans \cup OtherSpans)
    /\ carrier.kind \in {"map", "http", "stream"}
    /\ injErr \in Errors /\ injErrs \in Seq(Errors)
    /\ extracted.err \in Errors
    /\ panicked \in BOOLEAN
    /\ child \in Seq([tracer: {"root"}] \cup OtherSpans \cup
                     [tracer: {"sw"}, remoteMD: MDs \cup {NoMD}, sampled: BOOLEAN,
                      bag: SUBSET BaggageKeys])
    /\ \A i \in DOMAIN child : child[i].tracer \in {"root", tracers[i]}
    /\ Len(mcalls) <= MaxSpanCalls
    /\ recv \in Seq(Seq(STRING))
    /\ rmode \in Seq(ReadModes)

\* Hop B's child span of every tracer is either a new root or continues
\* exactly the span hop A started with that tracer (never a context
\* decoded from a partly read or otherwise damaged carrier); and for every
\* tracer that injected a propagatable context and, in the binary format,
\* read the body in one Read without io.EOF, it continues it: the same
\* metadata, sampled flag and baggage, whatever the carrier type, the key
\* order ForeachKey visits and whichever other tracers failed (multitracer
\* Inject/Extract/StartSpan over propagation.go, binaryPropagator.Extract).
ChildContinuesInjectedTrace ==
    pc = "done" =>
        \A i \in DOMAIN tracers :
            /\ child[i] \in {Root, Continued(spans[i])}
            /\ (/\ injErrs[i] = Ok /\ Propagatable(spans[i])
                /\ format = "Binary" => rmode[i] = "full")
               => child[i] = Continued(spans[i])

\* No MultiTracer call panics (multitracer.go:43, :78, :103).
NoPanic == ~panicked
=============================================================================
