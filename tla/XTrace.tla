-------------------------------- MODULE XTrace --------------------------------
(***************************************************************************)
(* The x-trace-options header parser of                                    *)
(* v1/solarwinds_apm/internal/xtrace/xtrace.go.                            *)
(*                                                                         *)
(* The header is given as the list optRegex.Split(opts, -1) makes of it:   *)
(* one token per run of text between semicolons. A token is what           *)
(* strings.Cut(opt, "=") and strings.TrimSpace make of it: the key before  *)
(* the first "=", whether there was an "=", and the value after it. Keys   *)
(* and values are model values; customKeyRegex is the set CustomKeys and   *)
(* strconv.ParseInt the function Numerals (a value outside its domain does *)
(* not parse as an int64).                                                 *)
(***************************************************************************)
EXTENDS Integers, SequencesExt

CONSTANTS
    OptKeys,      \* trimmed keys of tokens
    OptVals,      \* trimmed values of tokens
    CustomKeys,   \* the keys customKeyRegex (^custom-[^\s]*$) matches
    Numerals      \* ParseInt(v, 10, 64) for the values that parse

ASSUME CustomKeys \subseteq OptKeys /\ DOMAIN Numerals \subseteq OptVals

Tokens == [key: OptKeys, eq: {FALSE}, val: {""}] \cup [key: OptKeys, eq: {TRUE}, val: OptVals]

\* NewXTraceOptions: nothing parsed yet; customKVs is a map, shared by every
\* copy of the value.
NewXTraceOptions(opts, sig) ==
    [opts |-> opts, sig |-> sig, initialized |-> FALSE, swKeys |-> "",
     customKVs |-> [k \in {} |-> ""], timestamp |-> 0, tt |-> FALSE]

\* Mutant: any key with a value goes into customKVs (customKeyRegex not checked).
applyOptAnyCustom(x, t) ==
    CASE ~t.eq -> IF t.key = "trigger-trace" THEN [x EXCEPT !.tt = TRUE] ELSE x
      [] t.key = "sw-keys" -> [x EXCEPT !.swKeys = t.val]
      [] t.key = "ts" -> IF t.val \in DOMAIN Numerals
                         THEN [x EXCEPT !.timestamp = Numerals[t.val]] ELSE x
      [] t.key = "trigger-trace" -> x
      [] OTHER -> [x EXCEPT !.customKVs = (t.key :> t.val) @@ @]

\* Mutant: a ts value that does not parse resets the timestamp to 0.
applyOptInvalidTsZero(x, t) ==
    CASE ~t.eq -> IF t.key = "trigger-trace" THEN [x EXCEPT !.tt = TRUE] ELSE x
      [] t.key = "sw-keys" -> [x EXCEPT !.swKeys = t.val]
      [] t.key = "ts" -> [x EXCEPT !.timestamp =
                            IF t.val \in DOMAIN Numerals THEN Numerals[t.val] ELSE 0]
      [] t.key = "trigger-trace" -> x
      [] t.key \in CustomKeys -> [x EXCEPT !.customKVs = (t.key :> t.val) @@ @]
      [] OTHER -> x

\* One iteration of extractOpts' loop: trigger-trace only as a standalone
\* flag, the last sw-keys, the last ts that parses, custom keys into the map.
applyOpt(x, t) ==
    CASE ~t.eq -> IF t.key = "trigger-trace" THEN [x EXCEPT !.tt = TRUE] ELSE x
      [] t.key = "sw-keys" -> [x EXCEPT !.swKeys = t.val]
      [] t.key = "ts" -> IF t.val \in DOMAIN Numerals
                         THEN [x EXCEPT !.timestamp = Numerals[t.val]] ELSE x
      [] t.key = "trigger-trace" -> x
      [] t.key \in CustomKeys -> [x EXCEPT !.customKVs = (t.key :> t.val) @@ @]
      [] OTHER -> x

extractOpts(x) == FoldLeft(applyOpt, x, x.opts)

\* init: an empty header is not parsed.
init(x) ==
    [IF x.opts # <<>> THEN extractOpts(x) ELSE x EXCEPT !.initialized = TRUE]

\* A getter (SwKeys, CustomKVs, Timestamp, TriggerTrace) has a value
\* receiver: it initialises a copy, so the caller's value stays
\* uninitialised, except for the customKVs map the copy writes through.
\* The result is the field read and the caller's value afterwards.
Get(x, field) ==
    LET y == IF ~x.initialized THEN init(x) ELSE x
    IN  [val |-> y[field], after |-> [x EXCEPT !.customKVs = y.customKVs]]

\* What the documentation and the tests say a header means, stated over the
\* whole token list: the last occurrence of a key wins.
LastVal(toks, I) == toks[Max(I)].val
RefOptions(toks) ==
    LET with(k) == {i \in DOMAIN toks : toks[i].eq /\ toks[i].key = k}
        tsOk == {i \in with("ts") : toks[i].val \in DOMAIN Numerals}
        cks == {toks[i].key : i \in {i \in DOMAIN toks : toks[i].eq}} \cap CustomKeys
    IN  [tt |-> \E i \in DOMAIN toks : ~toks[i].eq /\ toks[i].key = "trigger-trace",
         swKeys |-> IF with("sw-keys") = {} THEN "" ELSE LastVal(toks, with("sw-keys")),
         timestamp |-> IF tsOk = {} THEN 0 ELSE Numerals[LastVal(toks, tsOk)],
         customKVs |-> [k \in cks |-> LastVal(toks, with(k))]]
=============================================================================
