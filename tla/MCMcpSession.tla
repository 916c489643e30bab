----------------------------- MODULE MCMcpSession -----------------------------
EXTENDS McpSession

\* A request of one piece without a version; the others differ from it.
Request(method) ==
    [kind |-> "message", size |-> 1, note |-> FALSE, clean |-> TRUE,
     method |-> method, version |-> "none", tool |-> "missing"]
Call(tool) == [Request("tools/call") EXCEPT !.tool = tool]
NoRequest(kind) == [Request("none") EXCEPT !.kind = kind]

MCLines == {
    NoRequest("blank"), NoRequest("garbage"), NoRequest("deep"),
    [NoRequest("invalid") EXCEPT !.size = 3],
    [Request("initialize") EXCEPT !.size = 2],
    Request("server/discover"),
    Request("other"),
    Request("tools/list"),
    [Request("tools/list") EXCEPT !.version = "modern"],
    [Request("tools/list") EXCEPT !.version = "malformed"],
    [Call("t1") EXCEPT !.note = TRUE],
    Call("t1"),
    [Call("t1") EXCEPT !.version = "legacy"],
    [Call("t1") EXCEPT !.version = "modern", !.clean = FALSE],
    [Call("t2") EXCEPT !.version = "bare"],
    [Call("t2") EXCEPT !.version = "unsupported", !.size = 4],
    [Call("t2") EXCEPT !.version = "unsupported"],
    Call("native")
}
===============================================================================
