------------------------------ MODULE HTTPTrace ------------------------------
(***************************************************************************)
(* One HTTP exchange between a client instrumented with                    *)
(* v1/ao/http_client_instrumentation.go and a server whose handler is      *)
(* wrapped by tv.HTTPHandler (v1/tv/http_instrumentation.go).              *)
(*                                                                         *)
(* The client's span puts its metadata in the request's X-Trace header;    *)
(* the server continues it, wraps the ResponseWriter so that the response  *)
(* carries the server span's exit metadata in X-Trace, and the client adds *)
(* an edge to whatever X-Trace the response carries. The handler runs a    *)
(* bounded sequence of steps: putting a downstream service's metadata in   *)
(* the response's X-Trace header (as a proxy copying response headers      *)
(* does), WriteHeader, and Write of the body.                              *)
(*                                                                         *)
(* The trace library (NewTraceFromID, IsTracing, ExitMetadata) and         *)
(* net/http are collaborators: whether the server traces is a sampling     *)
(* choice; net/http sends the status and header map when the response is   *)
(* first written (WriteHeader, Write, or the end of the handler), and      *)
(* ignores later WriteHeader calls and header changes. Metadata strings    *)
(* are model values.                                                       *)
(***************************************************************************)
EXTENDS Naturals, Sequences

CONSTANTS
    Statuses,         \* statuses the handler passes to WriteHeader
    MaxHandlerSteps,  \* bound on the handler's steps
    HTTPHeaderName    \* the ao package's header name, defined outside the
                      \* repository; the server side uses "X-Trace"

\* Whether the client's header is the one the server reads. Header.Set and
\* Header.Get canonicalise the key, so "X-Trace" stands for its spellings.
ClientUsesXTrace == HTTPHeaderName = "X-Trace"

\* Metadata: the client span's, the server trace's (as MetadataString
\* gives it when tracing and when not), the server span's exit event's,
\* and a downstream service's.
CliMD == "cli"
SrvMD == "srv"
SrvNotTracedMD == "srv-unsampled"
SrvExitMD == "srv-exit"
DownstreamMD == "ds"
StatusOK == 200

VARIABLES
    cli,      \* the client span: ok (a real span) and its metadata
    reqX,     \* the request's X-Trace header as the server reads it
    srv,      \* the server trace: tracing, the X-Trace it continued
    downX,    \* the request's X-Trace header after TraceFromHTTPRequest
    w,        \* the httpResponseWriter: Status, and the header map's X-Trace
    edges,    \* the Edge end args the server trace collected
    sent,     \* what net/http sent: committed, status, X-Trace, by which
              \* write, and whether a WriteHeader came after it
    steps,    \* the handler steps taken
    ended,    \* the server trace's End: Status and edges it reported
    cliEnd,   \* the client span's end args from AddHTTPResponse
    pc        \* "begin", "sent", "serving", "returned", "done", "noreq"

vars == <<cli, reqX, srv, downX, w, edges, sent, steps, ended, cliEnd, pc>>

NoResp == [received |-> FALSE, err |-> FALSE, status |-> 0, edge |-> ""]

\* The client's span before the request: ok with its metadata, or not
\* ok (nullSpan), whose MetadataString is "".
Init ==
    /\ cli \in {[ok |-> TRUE, md |-> CliMD], [ok |-> FALSE, md |-> ""]}
    /\ reqX = ""
    /\ srv = [tracing |-> FALSE, parent |-> ""]
    /\ downX = ""
    /\ w = [status |-> 0, x |-> ""]
    /\ edges = {}
    /\ sent = [committed |-> FALSE, status |-> 0, x |-> "", via |-> "", late |-> FALSE]
    /\ steps = 0
    /\ ended = [status |-> 0, edges |-> {}]
    /\ cliEnd = NoResp
    /\ pc = "begin"

\* BeginHTTPClientSpan: a nil request gets a nullSpan and nothing is
\* sent; otherwise the HTTPHeaderName header is set to the span's
\* MetadataString.
BeginHTTPClientSpan ==
    /\ pc = "begin"
    /\ \/ pc' = "noreq" /\ cli' = [ok |-> FALSE, md |-> ""] /\ UNCHANGED reqX
       \/ /\ pc' = "sent"
          /\ reqX' = IF ClientUsesXTrace THEN cli.md ELSE ""
          /\ UNCHANGED cli
    /\ UNCHANGED <<srv, downX, w, edges, sent, steps, ended, cliEnd>>

\* TraceFromHTTPRequest: a trace continuing the request's X-Trace (its
\* sampling is the library's choice), whose MetadataString replaces the
\* request header for downstream readers.
TraceFromHTTPRequest(x, tracing) ==
    [trace |-> [tracing |-> tracing, parent |-> x],
     downX |-> IF tracing THEN SrvMD ELSE SrvNotTracedMD]

\* Mutant: Status is left at its zero value.
NewResponseWriterZeroStatus(t) == [status |-> 0, x |-> IF t.tracing THEN SrvExitMD ELSE ""]

\* Mutant: the response's X-Trace is not set when the writer is wrapped.
NewResponseWriterNoHeader(t) == [status |-> StatusOK, x |-> ""]

\* NewResponseWriter: Status starts at 200 (and is reported through a
\* pointer at End); a tracing trace sets the response's X-Trace to its
\* exit metadata.
NewResponseWriter(t) == [status |-> StatusOK, x |-> IF t.tracing THEN SrvExitMD ELSE ""]

\* The function HTTPHandler returns, up to the handler call:
\* TraceFromHTTPRequestResponse.
TraceFromHTTPRequestResponse ==
    /\ pc = "sent"
    /\ \E tracing \in BOOLEAN :
          LET r == TraceFromHTTPRequest(reqX, tracing)
          IN  /\ srv' = r.trace
              /\ downX' = r.downX
              /\ w' = NewResponseWriter(r.trace)
    /\ pc' = "serving"
    /\ UNCHANGED <<cli, reqX, edges, sent, steps, ended, cliEnd>>

\* net/http: the first write sends the status and the header map.
Commit(s, hdr, via) ==
    IF sent.committed THEN sent ELSE [sent EXCEPT !.committed = TRUE, !.status = s,
                                                  !.x = hdr, !.via = via]

HandlerStep ==
    /\ pc = "serving"
    /\ steps < MaxHandlerSteps
    /\ steps' = steps + 1

\* The handler puts a downstream service's metadata in X-Trace.
SetDownstreamXTrace ==
    /\ HandlerStep
    /\ w' = [w EXCEPT !.x = DownstreamMD]
    /\ UNCHANGED <<cli, reqX, srv, downX, edges, sent, ended, cliEnd, pc>>

\* Mutant: the status is not recorded.
WriteHeaderNoStatus ==
    /\ HandlerStep
    /\ \E status \in Statuses :
          LET md == w.x
              x2 == IF srv.tracing THEN SrvExitMD ELSE md
          IN  /\ w' = [w EXCEPT !.x = x2]
              /\ edges' = IF srv.tracing /\ md # "" /\ md # SrvExitMD
                          THEN edges \cup {md} ELSE edges
              /\ sent' = IF sent.committed THEN [sent EXCEPT !.late = TRUE]
                         ELSE Commit(status, x2, "WriteHeader")
    /\ UNCHANGED <<cli, reqX, srv, downX, ended, cliEnd, pc>>

\* httpResponseWriter.WriteHeader: records the status; a tracing trace
\* adds an edge to a downstream metadata it finds in X-Trace and replaces
\* it by its exit metadata; then the wrapped writer's WriteHeader, which
\* net/http ignores once the response is sent.
WriteHeader ==
    /\ HandlerStep
    /\ \E status \in Statuses :
          LET md == w.x
              x2 == IF srv.tracing THEN SrvExitMD ELSE md
          IN  /\ w' = [status |-> status, x |-> x2]
              /\ edges' = IF srv.tracing /\ md # "" /\ md # SrvExitMD
                          THEN edges \cup {md} ELSE edges
              /\ sent' = IF sent.committed THEN [sent EXCEPT !.late = TRUE]
                         ELSE Commit(status, x2, "WriteHeader")
    /\ UNCHANGED <<cli, reqX, srv, downX, ended, cliEnd, pc>>

\* Write of the body, which httpResponseWriter inherits from the wrapped
\* writer: net/http's implicit WriteHeader(200), not the wrapper's.
Write ==
    /\ HandlerStep
    /\ sent' = Commit(StatusOK, w.x, "Write")
    /\ UNCHANGED <<cli, reqX, srv, downX, w, edges, ended, cliEnd, pc>>

\* The handler returns: the deferred t.End reports Status (read through
\* the pointer now) and the edges; net/http then sends an uncommitted
\* response with 200.
HTTPHandler ==
    /\ pc = "serving"
    /\ ended' = [status |-> w.status, edges |-> edges]
    /\ sent' = Commit(StatusOK, w.x, "end")
    /\ pc' = "returned"
    /\ UNCHANGED <<cli, reqX, srv, downX, w, edges, steps, cliEnd>>

\* The client's Do returns the response, or an error with no response
\* (the connection failed); AddHTTPResponse then records, on an ok span,
\* the error, the status and an edge to the response's HTTPHeaderName
\* header when it is not empty.
AddHTTPResponse ==
    /\ pc = "returned"
    /\ \E delivered \in BOOLEAN :
          cliEnd' = IF ~cli.ok THEN NoResp
                    ELSE IF ~delivered THEN [NoResp EXCEPT !.err = TRUE]
                    ELSE [received |-> TRUE, err |-> FALSE, status |-> sent.status,
                          edge |-> IF ClientUsesXTrace THEN sent.x ELSE ""]
    /\ pc' = "done"
    /\ UNCHANGED <<cli, reqX, srv, downX, w, edges, sent, steps, ended>>

Next ==
    \/ BeginHTTPClientSpan
    \/ TraceFromHTTPRequestResponse
    \/ SetDownstreamXTrace \/ WriteHeader \/ Write
    \/ HTTPHandler
    \/ AddHTTPResponse

Spec == Init /\ [][Next]_vars

-----------------------------------------------------------------------------
MDs == {"", CliMD, SrvMD, SrvNotTracedMD, SrvExitMD, DownstreamMD}

TypeOK ==
    /\ pc \in {"begin", "sent", "serving", "returned", "done", "noreq"}
    /\ cli.md \in MDs /\ reqX \in MDs /\ srv.parent \in MDs /\ downX \in MDs
    /\ w.status \in Statuses \cup {0, StatusOK} /\ w.x \in MDs
    /\ pc \in {"serving", "returned", "done"} => w.status \in Statuses \cup {StatusOK}
    /\ edges \subseteq MDs
    /\ sent.via \in {"", "WriteHeader", "Write", "end"}
    /\ steps \in 0..MaxHandlerSteps
    /\ cliEnd.edge \in MDs

\* When the server traces and the client gets the response, the client's
\* span gets an edge to the server span's exit event; only a response
\* sent without the wrapper's WriteHeader (by Write or at the handler's
\* end) can instead carry a downstream metadata the handler put in
\* X-Trace (NewResponseWriter, WriteHeader, AddHTTPResponse).
ClientEdgeToServerExit ==
    pc = "done" /\ cliEnd.received /\ srv.tracing =>
        \/ cliEnd.edge = SrvExitMD
        \/ sent.via # "WriteHeader" /\ cliEnd.edge = DownstreamMD

\* The Status the server trace reports at End is the status the client
\* received, unless the handler called WriteHeader after the response
\* was sent (httpResponseWriter.Status through NewResponseWriter's
\* pointer, WriteHeader, Write).
StatusReported ==
    pc = "done" /\ cliEnd.received /\ ~sent.late => ended.status = cliEnd.status
=============================================================================
