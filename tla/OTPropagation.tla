---------------------------- MODULE OTPropagation ----------------------------
(***************************************************************************)
(* Inject and Extract of the SolarWinds OpenTracing tracer                 *)
(* (src/v1/solarwinds_apm/opentracing/propagation.go), as operators from  *)
(* a span context and a carrier to an error and a carrier or a context.    *)
(*                                                                         *)
(* A text-map carrier is a function from header keys to values. A key is  *)
(* a record naming the field it carries and whether it is spelled with     *)
(* capitals, which is all strings.ToLower and http.Header.Set change: the  *)
(* X-Trace header name has capitals, the ot-tracer-sampled and ot-baggage- *)
(* names are lower case, and an http.Header carrier stores every key in    *)
(* canonical (capitalised) form. A binary carrier is the sequence of       *)
(* frames written to it; a frame is the length prefix and the marshalled   *)
(* tracerState. Baggage is the set of its keys; values are left out.       *)
(***************************************************************************)
EXTENDS Naturals, Sequences, FiniteSets, TLC

CONSTANTS
    MDs,         \* metadata strings spans report (MetadataString)
    ValidMDs,    \* the subset reporter.ValidMetadata accepts
    BaggageKeys  \* lower-case baggage keys

ASSUME ValidMDs \subseteq MDs /\ "" \notin MDs

NoMD == ""
Ok == "nil"

\* A header key: the field it carries, the baggage key, capitals or not.
Key(f, b, up) == [field |-> f, bkey |-> b, upper |-> up]
XTraceKey == Key("xtrace", "-", TRUE)          \* solarwinds_apm.HTTPHeaderName
SampledKey == Key("sampled", "-", FALSE)       \* fieldNameSampled
BaggageKey(k) == Key("baggage", k, FALSE)      \* prefixBaggage + k
\* Mutant: keys compared as they are spelled, without strings.ToLower.
LowerIdentity(k) == k
\* strings.ToLower of a key.
Lower(k) == [k EXCEPT !.upper = FALSE]

\* A nil SpanContext.
NilCtx == [tracer |-> "none"]
Failed(e) == [err |-> e, ctx |-> NilCtx]

\* carrier.Set: an http.Header carrier canonicalises the key first.
SetHeader(c, k, v) ==
    LET key == IF c.kind = "http" THEN [k EXCEPT !.upper = TRUE] ELSE k
    IN  [c EXCEPT !.hdr = (key :> v) @@ @]

\* textMapPropagator.Inject: the X-Trace header only when the span has
\* metadata, the sampled flag always, one header per baggage item.
textInject(sc, c) ==
    LET c1 == IF sc.md # NoMD THEN SetHeader(c, XTraceKey, sc.md) ELSE c
        c2 == SetHeader(c1, SampledKey, IF sc.reporting THEN "true" ELSE "false")
        hk == {IF c.kind = "http" THEN [BaggageKey(b) EXCEPT !.upper = TRUE]
                                  ELSE BaggageKey(b) : b \in sc.bag}
    IN  [c2 EXCEPT !.hdr = [k \in hk |-> "v"] @@ @]

\* The ForeachKey handler of textMapPropagator.Extract, applied to the keys
\* in the order ks the carrier hands them out; the first error stops it.
RECURSIVE ExtractLoop(_, _, _)
ExtractLoop(h, ks, acc) ==
    IF ks = <<>> \/ acc.err # Ok THEN acc
    ELSE LET lk == Lower(Head(ks))
             v == h[Head(ks)]
             next ==
               CASE lk = Lower(XTraceKey) ->
                        IF v \in ValidMDs THEN [acc EXCEPT !.xtrace = v]
                        ELSE [acc EXCEPT !.err = "ErrSpanContextCorrupted"]
                 [] lk = SampledKey ->
                        IF v \in {"true", "false"}
                        THEN [acc EXCEPT !.saw = TRUE, !.sampled = (v = "true")]
                        ELSE [acc EXCEPT !.saw = TRUE, !.err = "ErrSpanContextCorrupted"]
                 [] lk.field = "baggage" -> [acc EXCEPT !.bag = @ \cup {lk.bkey}]
                 [] OTHER -> acc
         IN  ExtractLoop(h, Tail(ks), next)

\* textMapPropagator.Extract: no X-Trace is ErrSpanContextNotFound, and a
\* carrier without the sampled header continues the trace as sampled.
textExtract(c, ks) ==
    LET r == ExtractLoop(c.hdr, ks, [err |-> Ok, xtrace |-> NoMD,
                                     sampled |-> FALSE, saw |-> FALSE, bag |-> {}])
    IN  CASE r.err # Ok -> Failed(r.err)
          [] r.xtrace = NoMD -> Failed("ErrSpanContextNotFound")
          [] OTHER -> [err |-> Ok,
                       ctx |-> [tracer |-> "sw", remoteMD |-> r.xtrace,
                                sampled |-> r.sampled \/ ~r.saw, bag |-> r.bag]]

\* binaryPropagator.Inject: the length of the marshalled tracerState, then
\* the state itself (bytes.Buffer-like writers do not fail).
binaryInject(sc, c) ==
    [c EXCEPT !.frames = Append(@, [XTraceID |-> sc.md, Sampled |-> sc.reporting,
                                    BaggageItems |-> sc.bag])]

\* Mutant: a short Read is not noticed, and the zeroed tail decodes to an
\* empty tracerState.
binaryExtractIgnoreShort(c, mode) ==
    CASE c.frames = <<>> -> Failed("ErrSpanContextCorrupted")
      [] mode = "fullEOF" -> Failed("ErrSpanContextCorrupted")
      [] mode = "short" -> [err |-> Ok, ctx |-> [tracer |-> "sw", remoteMD |-> NoMD,
                                                 sampled |-> FALSE, bag |-> {}]]
      [] OTHER -> LET st == Head(c.frames)
                  IN  [err |-> Ok,
                       ctx |-> [tracer |-> "sw", remoteMD |-> st.XTraceID,
                                sampled |-> st.Sampled, bag |-> st.BaggageItems]]

\* binaryPropagator.Extract. The length is read in full (binary.Read), the
\* body with one carrier.Read, which per the io.Reader contract may return
\* the whole body ("full"), the whole body with io.EOF ("fullEOF"), or
\* fewer bytes than asked with a nil error ("short", leaving zero bytes
\* that json.Unmarshal rejects). tracerState is decoded without checks.
binaryExtract(c, mode) ==
    CASE c.frames = <<>> -> Failed("ErrSpanContextCorrupted")
      [] mode = "fullEOF" -> Failed("ErrSpanContextCorrupted")
      [] mode = "short" -> Failed("ErrSpanContextCorrupted")
      [] OTHER -> LET st == Head(c.frames)
                  IN  [err |-> Ok,
                       ctx |-> [tracer |-> "sw", remoteMD |-> st.XTraceID,
                                sampled |-> st.Sampled, bag |-> st.BaggageItems]]

TextFormats == {"TextMap", "HTTPHeaders"}

\* Tracer.Inject: dispatch on the format; a carrier of the wrong type is
\* ErrInvalidCarrier.
Inject(sc, format, c) ==
    CASE format \in TextFormats /\ c.kind \in {"map", "http"} ->
            [err |-> Ok, carrier |-> textInject(sc, c)]
      [] format \in TextFormats -> [err |-> "ErrInvalidCarrier", carrier |-> c]
      [] format = "Binary" /\ c.kind = "stream" ->
            [err |-> Ok, carrier |-> binaryInject(sc, c)]
      [] format = "Binary" -> [err |-> "ErrInvalidCarrier", carrier |-> c]
      [] OTHER -> [err |-> "ErrUnsupportedFormat", carrier |-> c]

\* Tracer.Extract, given the order ForeachKey visits keys and the way the
\* body Read returns.
Extract(format, c, ks, mode) ==
    CASE format \in TextFormats /\ c.kind \in {"map", "http"} -> textExtract(c, ks)
      [] format = "Binary" /\ c.kind = "stream" -> binaryExtract(c, mode)
      [] format \in TextFormats \cup {"Binary"} -> Failed("ErrInvalidCarrier")
      [] OTHER -> Failed("ErrUnsupportedFormat")
=============================================================================
