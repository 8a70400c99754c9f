----------------------------- MODULE URLFilter -----------------------------
(***************************************************************************)
(* Transaction filtering of internal/reporter/url.go: an ordered list of   *)
(* URL filters (regular expression or file extension, each tagged with a   *)
(* tracing mode) and a freecache-backed cache from URL to the verdict,     *)
(* consulted by many request goroutines at once.                           *)
(*                                                                         *)
(* Data is abstracted: a URL is a model value, a regular expression is a   *)
(* model value whose MatchString result is the constant RegexMatches, and  *)
(* an extension string is a record [dot, name] so that the leading dot     *)
(* that filepath.Ext keeps and strings.TrimLeft removes is visible.        *)
(***************************************************************************)
EXTENDS Naturals, Sequences, FiniteSets, SequencesExt, Functions

CONSTANTS
    Workers,        \* goroutines calling getTracingMode concurrently
    URLs,           \* non-empty request URLs
    NoURL,          \* the empty URL ""
    Regexes,        \* regular expressions regexp.Compile accepts
    BadRegexes,     \* regular expressions regexp.Compile rejects
    NoRegex,        \* TransactionFilter.RegEx == ""
    RegexMatches,   \* RegexMatches[r] = the URLs on which r.MatchString holds
    URLExt,         \* URLExt[u] = filepath.Ext(u) as an extension record
    Configs,        \* the []config.TransactionFilter values reload may be given
    InitConfig,     \* config.GetTransactionFiltering() read by init()
    CacheCap,       \* entries the 1 MiB freecache holds before it evicts
    CacheTTL,       \* cacheExpireSeconds, in clock ticks
    MaxTime         \* bound on the clock

ASSUME CacheCap \in Nat \ {0} /\ CacheTTL \in Nat \ {0} /\ MaxTime \in Nat

VARIABLES
    filters,        \* urlFilters.filters
    cache,          \* freecache contents: URL -> [trace, expireAt]
    now,            \* freecache's clock (seconds)
    pc,             \* per goroutine: "idle", "lookup", "done" or "panicked"
    url,            \* the URL each goroutine is classifying
    res             \* the tracingMode getTracingMode returned

vars == <<filters, cache, now, pc, url, res>>

TraceEnabled  == "TraceEnabled"
TraceDisabled == "TraceDisabled"
TraceUnknown  == "TraceUnknown"
TracingModes  == {TraceEnabled, TraceDisabled, TraceUnknown}

\* An extension string: dot = it starts with ".", name = the rest.
ExtStrings == [dot : BOOLEAN, name : STRING]

\* Mutant: the configured string is kept instead of being converted.
newTracingModeRaw(t) == t

\* newTracingMode(config.TracingMode): the two configured modes, anything
\* else unknown.
newTracingMode(t) ==
    CASE t = "enabled"  -> TraceEnabled
      [] t = "disabled" -> TraceDisabled
      [] OTHER          -> TraceUnknown

\* The value newRegexFilter returns on a compile error: a nil *regexFilter,
\* which loadConfig appends all the same.
NilFilter == [kind |-> "nil"]

\* One iteration of loadConfig's loop: a regex filter when RegEx is set,
\* otherwise an extension filter built by newExtensionFilter.
LoadedFilter(tf) ==
    IF tf.regex # NoRegex
    THEN IF tf.regex \in BadRegexes
         THEN NilFilter
         ELSE [kind |-> "regex", re |-> tf.regex, trace |-> newTracingMode(tf.tracing)]
    ELSE [kind |-> "ext", exts |-> tf.exts, trace |-> newTracingMode(tf.tracing)]

loadConfig(tfs) == [i \in 1..Len(tfs) |-> LoadedFilter(tfs[i])]

\* strings.TrimLeft(filepath.Ext(url), "."): drop the leading dot.
TrimLeftDot(e) == [e EXCEPT !.dot = FALSE]

\* urlFilter.match for the two filter kinds; a nil filter dereferences
\* its nil regex and panics, represented by the caller.
match(f, u) ==
    IF f.kind = "regex" THEN u \in RegexMatches[f.re]
    ELSE TrimLeftDot(URLExt[u]) \in f.exts

\* Mutant: the loop keeps going and the last matching filter wins.
lookupTracingModeLastMatch(fs, u) ==
    LET i == SelectLastInSeq(fs, LAMBDA f : f.kind = "nil" \/ match(f, u))
    IN  CASE i = 0                -> TraceUnknown
          [] fs[i].kind = "nil"   -> "panic"
          [] OTHER                -> fs[i].trace

\* lookupTracingMode: the mode of the first filter that matches, TraceUnknown
\* when none does; "panic" when the loop reaches a nil filter first.
lookupTracingMode(fs, u) ==
    LET i == SelectInSeq(fs, LAMBDA f : f.kind = "nil" \/ match(f, u))
    IN  CASE i = 0                -> TraceUnknown
          [] fs[i].kind = "nil"   -> "panic"
          [] OTHER                -> fs[i].trace

\* freecache Get: a hit only while now < expireAt.
Live(u) == u \in DOMAIN cache /\ now < cache[u].expireAt

Init ==
    /\ filters = loadConfig(InitConfig)
    /\ cache = <<>>
    /\ now = 0
    /\ pc = [w \in Workers |-> "idle"]
    /\ url = [w \in Workers |-> NoURL]
    /\ res = [w \in Workers |-> TraceUnknown]

(***************************************************************************)
(* getTracingMode, first half: the early return for an empty filter list   *)
(* or URL, then the cache lookup.  A hit returns the cached verdict; an    *)
(* expired entry is removed by freecache and reported as a miss.           *)
(***************************************************************************)
getTracingMode(w, u) ==
    /\ pc[w] \in {"idle", "done"}
    /\ url' = [url EXCEPT ![w] = u]
    /\ IF Len(filters) = 0 \/ u = NoURL
       THEN /\ pc' = [pc EXCEPT ![w] = "done"]
            /\ res' = [res EXCEPT ![w] = TraceUnknown]
            /\ UNCHANGED cache
       ELSE IF Live(u)
       THEN /\ pc' = [pc EXCEPT ![w] = "done"]
            /\ res' = [res EXCEPT ![w] = cache[u].trace]
            /\ UNCHANGED cache
       ELSE /\ pc' = [pc EXCEPT ![w] = "lookup"]
            /\ cache' = Restrict(cache, DOMAIN cache \ {u})
            /\ UNCHANGED res
    /\ UNCHANGED <<filters, now>>

(***************************************************************************)
(* setURLTrace: freecache Set with cacheExpireSeconds.  A new key in a     *)
(* full cache evicts some other entry, the victim.                         *)
(***************************************************************************)
setURLTrace(u, t, victim) ==
    LET entry == [trace |-> t, expireAt |-> now + CacheTTL]
        kept  == IF u \in DOMAIN cache \/ Cardinality(DOMAIN cache) < CacheCap
                 THEN DOMAIN cache ELSE DOMAIN cache \ {victim}
    IN  (u :> entry) @@ Restrict(cache, kept)

(***************************************************************************)
(* getTracingMode, second half after a miss: evaluate the filters in order *)
(* and store the verdict, whatever it is.  Reaching a nil filter panics.   *)
(***************************************************************************)
LookupAndSet(w) ==
    LET u == url[w]
        t == lookupTracingMode(filters, u)
    IN  /\ pc[w] = "lookup"
        /\ IF t = "panic"
           THEN /\ pc' = [pc EXCEPT ![w] = "panicked"]
                /\ UNCHANGED <<cache, res>>
           ELSE /\ \E victim \in IF DOMAIN cache = {} THEN {u} ELSE DOMAIN cache :
                      cache' = setURLTrace(u, t, victim)
                /\ pc' = [pc EXCEPT ![w] = "done"]
                /\ res' = [res EXCEPT ![w] = t]
        /\ UNCHANGED <<filters, now, url>>

(***************************************************************************)
(* ReloadURLsConfig: LoadConfig, then cache.Clear.  Its comment restricts  *)
(* it to moments when no goroutine is inside getTracingMode; the calls     *)
(* that returned before it are over ("idle").                              *)
(***************************************************************************)
\* Mutant: the reload forgets cache.Clear().
ReloadURLsConfigKeepCache(cfg) ==
    /\ \A w \in Workers : pc[w] # "lookup"
    /\ filters' = loadConfig(cfg)
    /\ pc' = [w \in Workers |-> IF pc[w] = "done" THEN "idle" ELSE pc[w]]
    /\ UNCHANGED <<cache, now, url, res>>

ReloadURLsConfig(cfg) ==
    /\ \A w \in Workers : pc[w] # "lookup"
    /\ filters' = loadConfig(cfg)
    /\ cache' = <<>>
    /\ pc' = [w \in Workers |-> IF pc[w] = "done" THEN "idle" ELSE pc[w]]
    /\ UNCHANGED <<now, url, res>>

Tick ==
    /\ now < MaxTime
    /\ now' = now + 1
    /\ UNCHANGED <<filters, cache, pc, url, res>>

Next ==
    \/ \E w \in Workers, u \in URLs \cup {NoURL} : getTracingMode(w, u)
    \/ \E w \in Workers : LookupAndSet(w)
    \/ \E cfg \in Configs : ReloadURLsConfig(cfg)
    \/ Tick

Spec == Init /\ [][Next]_vars

-----------------------------------------------------------------------------
TypeOK ==
    /\ now \in 0..MaxTime
    /\ DOMAIN cache \subseteq URLs /\ Cardinality(DOMAIN cache) <= CacheCap
    /\ \A u \in DOMAIN cache : cache[u].trace \in TracingModes
    /\ pc \in [Workers -> {"idle", "lookup", "done", "panicked"}]
    /\ url \in [Workers -> URLs \cup {NoURL}]
    /\ res \in [Workers -> TracingModes]

\* The verdict the loaded filters give a URL, the empty URL included.
Verdict(u) == IF u = NoURL THEN TraceUnknown ELSE lookupTracingMode(filters, u)

\* Every verdict getTracingMode hands back, whether served from the cache or
\* computed, is the first-match verdict of the filters loaded now: a cached
\* verdict never outlives the configuration that produced it.
ResultIsFirstMatch ==
    \A w \in Workers : pc[w] = "done" => res[w] = Verdict(url[w])

\* Section 4.4 and 7 of the spec: a rule with an invalid regular expression
\* is dropped and loading continues, so classifying a URL never crashes: no goroutine reaches a nil filter.
NoPanic == \A w \in Workers : pc[w] # "panicked"
=============================================================================
