---------------------------- MODULE MC_URLFilter ----------------------------
(***************************************************************************)
(* Model-checking instance of URLFilter: two request goroutines, three    *)
(* URLs, one good and one bad regular expression, and the filter lists     *)
(* used by the repository's own tests (url_test.go, layer_test.go,        *)
(* oboe_test.go, config_test.go).                                          *)
(***************************************************************************)
EXTENDS URLFilter, TLC

CONSTANTS w1, w2,                 \* goroutines
          uUser, uJpg, uPlain,    \* "/user123", "/user123/avatar.jpg", "/eric"
          rUser, rBad             \* `user\d{3}` and a pattern that fails to compile

MCWorkers == {w1, w2}
MCURLs == {uUser, uJpg, uPlain}

NoExt  == [dot |-> FALSE, name |-> ""]      \* filepath.Ext of a path without a dot
DotJpg == [dot |-> TRUE, name |-> "jpg"]    \* ".jpg"
Jpg    == [dot |-> FALSE, name |-> "jpg"]   \* "jpg"

MCRegexMatches == [r \in {rUser} |-> {uUser, uJpg}]
MCURLExt == [u \in MCURLs |-> IF u = uJpg THEN DotJpg ELSE NoExt]

TF(re, exts, tracing) == [regex |-> re, exts |-> exts, tracing |-> tracing]

\* Overlapping rules: uJpg matches both, so their order decides its verdict.
Overlapping == << TF(rUser, {}, "disabled"), TF(NoRegex, {Jpg}, "enabled") >>
ExtOnly     == << TF(NoRegex, {Jpg}, "disabled") >>
NoFilters   == << >>

PassConfigs == {Overlapping, ExtOnly, NoFilters}

\* A rule whose pattern does not compile, ahead of a valid one.
BadRegexConfig == << TF(rBad, {}, "disabled"), TF(NoRegex, {Jpg}, "disabled") >>
BadRegexConfigs == {BadRegexConfig}

\* The spelling config_test.go and oboe_test.go use: ".jpg".
DottedExtConfig == << TF(NoRegex, {DotJpg}, "disabled") >>
DottedExtConfigs == {DottedExtConfig}

WorkerSymmetry == Permutations(MCWorkers)
=============================================================================
