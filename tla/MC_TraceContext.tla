--------------------------- MODULE MC_TraceContext ---------------------------
(***************************************************************************)
(* TraceContext for TLC: one span id, both flag values, an upstream sw     *)
(* member (s0) and one other vendor's member; forwarded traceparents      *)
(* absent, valid or malformed; forwarded tracestates that                  *)
(* are absent, hold a malformed upstream sw value, hold a foreign member,  *)
(* or do not parse; every x-trace-options header of up to two tokens.      *)
(***************************************************************************)
EXTENDS TraceContext

MCOptKeys == {"trigger-trace", "sw-keys", "ts", "custom-a", "custom- x"}
MCOptVals == {"1", "x"}
MCCustomKeys == {"custom-a"}
MCNumerals == "1" :> 1

Foreign == [key |-> "o", val |-> Val("o1", 0, <<3>>)]
UpstreamSw == [key |-> "sw", val |-> Val("s0", 1, <<16, 2>>)]
BadSw == [key |-> "sw", val |-> Val("s0", 0, <<9, 2>>)]   \* sw=012301230-00

MCSpanIDs == {"s1"}
MCForeignVals == {Foreign.val}
MCOwnStates == {<<>>, <<Foreign>>, <<UpstreamSw, Foreign>>}
MCFwdParents == {"", "valid", "bad"}
MCFwdStates == {EmptyHdr, Hdr(<<Foreign>>), Hdr(<<BadSw, Foreign>>), MalformedHdr}
MCOptHeaders == {<<>>} \cup [1..1 -> Tokens] \cup [1..2 -> Tokens]
MCSigs == {"", "sig1"}
=============================================================================
