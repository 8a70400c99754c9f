--------------------------- MODULE MC_K8sMetadata ---------------------------
(***************************************************************************)
(* K8sMetadata for TLC: two callers, and every environment built from      *)
(* these choices: the resource detector failing or giving some of the      *)
(* k8s.* attributes, each SW_K8S_* variable unset, empty or set, the       *)
(* namespace file missing, empty or present, the hostname failing or not,  *)
(* GOOS linux or windows, and mountinfo missing, with a UUID after an      *)
(* ordinary line, or with a UUID after a line too long for the scanner.    *)
(***************************************************************************)
EXTENDS K8sMetadata

MCCallers == {"g1", "g2"}

Line(k, u) == [kind |-> k, uuid |-> u]
MCEnvs ==
    [otel: [ok: {FALSE}, ns: {""}, pod: {""}, uid: {""}] \cup
           [ok: {TRUE}, ns: {"", "nsO"}, pod: {"", "podO"}, uid: {"", "uidO"}],
     swNs: {Unset, "", "nsE"}, nsFile: {Missing, "", "nsF"},
     swPod: {Unset, "podE"}, hostname: {"err", "host"},
     swUid: {Unset, "uidE"}, goos: {"linux", "windows"},
     mountinfo: {[open |-> FALSE, lines |-> <<>>],
                 [open |-> TRUE, lines |-> <<Line("plain", ""), Line("uuid", "uidP")>>],
                 [open |-> TRUE, lines |-> <<Line("long", ""), Line("uuid", "uidP")>>]}]
=============================================================================
