----------------------------- MODULE MC_Sampler -----------------------------
(* The sampler over the sampling core for TLC. *)
EXTENDS Sampler, MC_Oboe

Parent(valid, remote, sampled, swValid, swSampled) ==
    [valid |-> valid, remote |-> remote, sampled |-> sampled,
     swValid |-> swValid, swSampled |-> swSampled]

XTO(tt, sig, incl, keys, custom) ==
    [tt |-> tt, sig |-> sig, includeResponse |-> incl, swKeys |-> keys,
     custom |-> custom]

NoXTO == XTO(FALSE, "NoSignature", FALSE, FALSE, FALSE)
Root == Parent(FALSE, FALSE, FALSE, FALSE, FALSE)

Span(p, x, v) == [parent |-> p, xto |-> x, urlVerdict |-> v]

\* A sampled local parent, a root with an unsigned trigger trace, a remote
\* parent sampled by its traceparent flags whose sw entry says "not
\* sampled", roots with invalid and valid signatures, and a root whose URL
\* a Disabled rule matches.
MCSpans ==
    { Span(Parent(TRUE, FALSE, TRUE, TRUE, TRUE), NoXTO, "Unknown"),
      Span(Root, XTO(TRUE, "NoSignature", TRUE, TRUE, FALSE), "Unknown"),
      Span(Parent(TRUE, TRUE, TRUE, TRUE, FALSE), NoXTO, "Unknown"),
      Span(Root, XTO(TRUE, "InvalidSignature", TRUE, FALSE, FALSE), "Unknown"),
      Span(Root, XTO(TRUE, "ValidSignature", TRUE, FALSE, TRUE), "Unknown"),
      Span(Root, NoXTO, "Disabled") }

MCSamplerDraws == {0, 3}

\* Local tracing enabled at half rate, or disabled.
MCSamplerLocalConfigs ==
    { Local("enabled", TRUE, 2, TRUE), Local("disabled", TRUE, 4, TRUE) }

\* The requests CoreRequest builds from MCSpans.
MCSamplerRequests == {CoreRequest(sp, d) : sp \in MCSpans, d \in MCSamplerDraws}
=============================================================================
