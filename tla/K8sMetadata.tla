----------------------------- MODULE K8sMetadata -----------------------------
(***************************************************************************)
(* Kubernetes metadata of v1/solarwinds_apm/internal/host/k8s/k8s.go:      *)
(* MemoizeMetadata called by several goroutines, and requestMetadata's   *)
(* fallback chain from the OpenTelemetry resource attributes, the         *)
(* SW_K8S_* variables, the namespace file, the hostname and               *)
(* /proc/self/mountinfo.  once.Do is taken at its documented contract: f  *)
(* runs in the first call, and every call returns after f has returned,   *)
(* so a whole MemoizeMetadata call is one step.                           *)
(*                                                                         *)
(* The environment is fixed for the run and read as a record: the          *)
(* resource detector's result (ok, and the k8s.* attributes, "" when       *)
(* missing), each variable ("unset" or its value), the namespace file      *)
(* ("missing" or its content), os.Hostname ("err" or the name), GOOS and   *)
(* /proc/self/mountinfo (whether os.Open succeeds, and its lines: ones    *)
(* with a UUID, ones with none, ones longer than bufio.Scanner's limit).   *)
(***************************************************************************)
EXTENDS Naturals, Sequences, FiniteSets

CONSTANTS
    Callers,    \* goroutines calling MemoizeMetadata
    Envs        \* the environments the process may start in

Unset == "unset"
Missing == "missing"
\* A nil *Metadata, and a Metadata.
NilMD == [nil |-> TRUE, ns |-> "", pod |-> "", uid |-> ""]
MD(n, p, u) == [nil |-> FALSE, ns |-> n, pod |-> p, uid |-> u]
\* What a caller holds before its first call: a Metadata without a
\* namespace, which requestMetadata never returns.
NoCall == MD("", "", "")

VARIABLES
    env,        \* the process environment
    done,       \* once has run its function
    memoized,   \* the package variable memoized
    ret         \* per caller: what its last MemoizeMetadata call returned

vars == <<env, done, memoized, ret>>

\* getNamespace: SW_K8S_POD_NAMESPACE, else the file's content.
getNamespace(e) ==
    CASE e.swNs # Unset -> [err |-> FALSE, val |-> e.swNs]
      [] e.nsFile = Missing -> [err |-> TRUE, val |-> ""]
      [] OTHER -> [err |-> FALSE, val |-> e.nsFile]

\* getPodname: SW_K8S_POD_NAME, else os.Hostname (its "" on error).
getPodname(e) ==
    CASE e.swPod # Unset -> e.swPod
      [] e.hostname = "err" -> ""
      [] OTHER -> e.hostname

\* getPodUidFromProc: the first line with a UUID; Scan stops at a line
\* longer than its buffer, and the scanner's error is not looked at.
getPodUidFromProc(lines) ==
    LET stop == {i \in DOMAIN lines : lines[i].kind = "long"}
        hits == {i \in DOMAIN lines : lines[i].kind = "uuid" /\ \A j \in stop : i < j}
    IN  IF hits = {} THEN "" ELSE lines[CHOOSE i \in hits : \A j \in hits : i <= j].uuid

\* getPodUid: SW_K8S_POD_UID, else mountinfo on linux, else "".
getPodUid(e) ==
    CASE e.swUid # Unset -> e.swUid
      [] e.goos # "linux" \/ ~e.mountinfo.open -> ""
      [] OTHER -> getPodUidFromProc(e.mountinfo.lines)

\* Mutant: an empty namespace is not treated as an error.
requestMetadataNoEmptyCheck(e) ==
    LET attrs == IF e.otel.ok THEN e.otel ELSE [ns |-> "", pod |-> "", uid |-> ""]
        ns == IF attrs.ns = "" THEN getNamespace(e) ELSE [err |-> FALSE, val |-> attrs.ns]
        pod == IF attrs.pod = "" THEN getPodname(e) ELSE attrs.pod
        uid == IF attrs.uid = "" THEN getPodUid(e) ELSE attrs.uid
    IN  IF ns.err THEN NilMD ELSE MD(ns.val, pod, uid)

\* Mutant: SW_K8S_POD_NAMESPACE consulted before the resource attributes.
requestMetadataEnvFirst(e) ==
    LET ns == IF e.swNs # Unset \/ ~e.otel.ok \/ e.otel.ns = ""
              THEN getNamespace(e) ELSE [err |-> FALSE, val |-> e.otel.ns]
        pod == IF e.otel.ok /\ e.otel.pod # "" THEN e.otel.pod ELSE getPodname(e)
        uid == IF e.otel.ok /\ e.otel.uid # "" THEN e.otel.uid ELSE getPodUid(e)
    IN  IF ns.err \/ ns.val = "" THEN NilMD ELSE MD(ns.val, pod, uid)

\* requestMetadata: the resource attributes (all ignored if the detector
\* fails), then each missing field from its fallback; no namespace, or an
\* empty one, is an error (nil returned).
requestMetadata(e) ==
    LET attrs == IF e.otel.ok THEN e.otel ELSE [ns |-> "", pod |-> "", uid |-> ""]
        ns == IF attrs.ns = "" THEN getNamespace(e) ELSE [err |-> FALSE, val |-> attrs.ns]
        pod == IF attrs.pod = "" THEN getPodname(e) ELSE attrs.pod
        uid == IF attrs.uid = "" THEN getPodUid(e) ELSE attrs.uid
    IN  IF ns.err \/ ns.val = "" THEN NilMD ELSE MD(ns.val, pod, uid)

Init ==
    /\ env \in Envs
    /\ done = FALSE
    /\ memoized = NilMD
    /\ ret = [g \in Callers |-> NoCall]

\* MemoizeMetadata: once.Do runs f (memoized, err = requestMetadata(), the
\* error only logged) in the first call only; every call returns memoized.
MemoizeMetadata(g) ==
    /\ memoized' = IF done THEN memoized ELSE requestMetadata(env)
    /\ done' = TRUE
    /\ ret' = [ret EXCEPT ![g] = memoized']
    /\ UNCHANGED env

Next == \E g \in Callers : MemoizeMetadata(g)

Spec == Init /\ [][Next]_vars

-----------------------------------------------------------------------------
\* The metadata the code's comments promise: each field from the first
\* source that has it, k8s.* resource attributes first, then SW_K8S_*,
\* then the file, hostname or mountinfo; nothing without a namespace.
FirstOf(cands) ==
    LET I == {i \in DOMAIN cands : cands[i].present}
    IN  IF I = {} THEN "" ELSE cands[CHOOSE i \in I : \A j \in I : i <= j].val
Cand(p, v) == [present |-> p, val |-> v]
RefMetadata(e) ==
    LET o == e.otel
        ns == FirstOf(<<Cand(o.ok /\ o.ns # "", o.ns), Cand(e.swNs # Unset, e.swNs),
                        Cand(e.nsFile # Missing, e.nsFile)>>)
        pod == FirstOf(<<Cand(o.ok /\ o.pod # "", o.pod), Cand(e.swPod # Unset, e.swPod),
                         Cand(e.hostname # "err", e.hostname)>>)
        uid == FirstOf(<<Cand(o.ok /\ o.uid # "", o.uid), Cand(e.swUid # Unset, e.swUid),
                         Cand(e.goos = "linux" /\ e.mountinfo.open,
                              getPodUidFromProc(e.mountinfo.lines))>>)
    IN  IF ns = "" THEN NilMD ELSE MD(ns, pod, uid)

\* A Metadata is nil or has a namespace.
MDs == {NilMD} \cup {m \in [nil: {FALSE}, ns: STRING, pod: STRING, uid: STRING] : m.ns # ""}
TypeOK ==
    /\ env \in Envs
    /\ done \in BOOLEAN
    /\ memoized \in MDs
    /\ ret \in [Callers -> MDs \cup {NoCall}]

\* Every MemoizeMetadata call, first or later, of any caller, returns the
\* metadata the sources give in their documented precedence.
ReturnsDocumentedMetadata ==
    \A g \in Callers : ret[g] # NoCall => ret[g] = RefMetadata(env)
=============================================================================
