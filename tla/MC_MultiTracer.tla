--------------------------- MODULE MC_MultiTracer ---------------------------
(* A MultiTracer of the SolarWinds tracer and one other tracer, in either  *)
(* order, or the SolarWinds tracer alone.                                  *)
EXTENDS MultiTracer

MCTracerLists == {<<"sw", "other">>, <<"other", "sw">>, <<"sw">>}
\* One metadata string reporter.ValidMetadata accepts and one it rejects.
MCMDs == {"md1", "bad"}
MCValidMDs == {"md1"}
=============================================================================
