------------------------------ MODULE McpSession ------------------------------
(***************************************************************************)
(* The MCP server on stdio: the reader that frames lines out of the bytes  *)
(* of the client (transport.py), the serve loop that evaluates proposals   *)
(* on every message boundary, and the dispatch of one JSON-RPC message     *)
(* with its handshake, its protocol eras and its handlers (server.py).     *)
(* Beside it: a client that writes lines, hangs up or stops reading, the   *)
(* agent that drops proposals and the operator who removes a tool.         *)
(* What a proposal must satisfy to be accepted is ToolInbox, and what a    *)
(* tool's run does is RunPath: here a proposal is accepted or not, and a   *)
(* run is over with a result, an error or an exception.                    *)
(*                                                                         *)
(* A line is a record:                                                     *)
(*   kind     "blank", "garbage" (no JSON), "deep" (JSON nested beyond the *)
(*            interpreter's recursion limit), "invalid" (not a JSON-RPC    *)
(*            request) or "message"                                        *)
(*   size     its length in pieces, a piece being what a read may split    *)
(*   note     it is a notification: it has no id                           *)
(*   clean    its id, and the names an answer repeats, can be encoded      *)
(*   method   "none", a method of the server, or "other"                   *)
(*   version  what _meta says of the protocol version: "none", "legacy",   *)
(*            "modern", "bare" (modern without client capabilities),       *)
(*            "unsupported" or "malformed"                                 *)
(*   tool     the tool of a tools/call: a name, "native" or "missing"      *)
(***************************************************************************)
EXTENDS Naturals, Sequences, FiniteSets

CONSTANTS
    Lines,       \* the lines a client may write
    Tools,       \* names of tools
    Bundled,     \* those in the registry directory at the start
    MaxLines,    \* bound: lines the client writes
    MaxLineSize, \* MAX_LINE_BYTES, in pieces
    MaxProposals \* bound: proposals dropped and tools removed

PreHandshake == {"initialize", "server/discover"}
Methods == PreHandshake \cup {"tools/list", "tools/call"}

LineType ==
    [kind : {"blank", "garbage", "deep", "invalid", "message"},
     size : Nat \ {0}, note : BOOLEAN, clean : BOOLEAN,
     method : Methods \cup {"none", "other"},
     version : {"none", "legacy", "modern", "bare", "unsupported", "malformed"},
     tool : Tools \cup {"native", "missing"}]

ASSUME SessionAssumption ==
    /\ Lines \subseteq LineType
    /\ Bundled \subseteq Tools /\ {"native", "missing"} \cap Tools = {}
    /\ MaxLines \in Nat /\ MaxProposals \in Nat /\ MaxLineSize \in Nat \ {0}

VARIABLES
    script,     \* the lines the client has written
    wire,       \* pieces written and not read
    closed,     \* the client closed its end
    gone,       \* the client reads no more
    carry,      \* _carry: pieces read past a line boundary
    discarding, \* the rest of an oversized line is being thrown away
    reading,    \* number of the line taken last
    pc,
    answer,     \* the messages handle_line returned
    handshake,  \* _handshake_complete
    registry, disk, proposals,
    churn,      \* proposals dropped and tools removed so far
    outbox,     \* messages the client got
    stop,       \* how serve() ended
    ran         \* history: the lines whose tool ran

client == <<script, wire, closed, gone>>
reader == <<carry, discarding, reading>>
tools == <<registry, disk, proposals, churn>>
vars == <<client, reader, pc, answer, handshake, tools, outbox, stop, ran>>

Init ==
    /\ script = <<>> /\ wire = <<>> /\ closed = FALSE /\ gone = FALSE
    /\ carry = <<>> /\ discarding = FALSE /\ reading = 0
    /\ pc = "read" /\ answer = <<>> /\ handshake = FALSE
    /\ registry = Bundled /\ disk = Bundled /\ proposals = {} /\ churn = 0
    /\ outbox = <<>> /\ stop = "none" /\ ran = {}

--------------------------------------------------------------------------------
(* The client, the agent and the operator *)

\* The pieces of line number k; the last one carries the newline, unless the
\* client hung up before it.
Pieces(k, size, ended) ==
    [i \in 1..size |-> [line |-> k, part |-> i, last |-> ended /\ i = size]]

Write ==
    /\ ~closed /\ Len(script) < MaxLines
    /\ \E l \in Lines :
         /\ script' = Append(script, l)
         /\ wire' = wire \o Pieces(Len(script) + 1, l.size, TRUE)
    /\ UNCHANGED <<closed, gone, reader, pc, answer, handshake, tools, outbox,
                   stop, ran>>

\* The client closes its end, perhaps behind a line without its newline.
HangUp ==
    /\ ~closed /\ closed' = TRUE
    /\ \/ UNCHANGED <<script, wire>>
       \/ /\ Len(script) < MaxLines
          /\ \E l \in Lines :
               /\ script' = Append(script, l)
               /\ wire' = wire \o Pieces(Len(script) + 1, l.size, FALSE)
    /\ UNCHANGED <<gone, reader, pc, answer, handshake, tools, outbox, stop, ran>>

StopReading ==
    /\ ~gone /\ gone' = TRUE
    /\ UNCHANGED <<script, wire, closed, reader, pc, answer, handshake, tools,
                   outbox, stop, ran>>

Propose ==
    /\ churn < MaxProposals /\ churn' = churn + 1
    /\ \E t \in Tools \ proposals : proposals' = proposals \cup {t}
    /\ UNCHANGED <<client, reader, pc, answer, handshake, registry, disk, outbox,
                   stop, ran>>

RemoveTool ==
    /\ churn < MaxProposals /\ churn' = churn + 1
    /\ \E t \in disk : disk' = disk \ {t}
    /\ UNCHANGED <<client, reader, pc, answer, handshake, registry, proposals,
                   outbox, stop, ran>>

--------------------------------------------------------------------------------
(* The reader *)

Reading == pc = "read" /\ stop = "none"

Ends(pieces) == {i \in DOMAIN pieces : pieces[i].last}
FirstEnd(pieces) == CHOOSE i \in Ends(pieces) : \A j \in Ends(pieces) : i <= j
After(pieces, i) == SubSeq(pieces, i + 1, Len(pieces))

\* A line of that many pieces is refused; a line on the bound is not.
TooLong(size) == size > MaxLineSize

\* serve takes the line that was framed.
Deliver == pc' = "tools" /\ UNCHANGED <<outbox, stop>>

\* The answer with id null; the model keeps which line it was for.
LineRefused == [to |-> reading', is |-> "too_long", names |-> {}]

\* An oversized line is answered from within read_line: a client that is gone
\* ends serve with the exception.
RefuseLine ==
    /\ IF gone THEN stop' = "crash" /\ UNCHANGED outbox
       ELSE outbox' = Append(outbox, LineRefused) /\ UNCHANGED stop
    /\ UNCHANGED pc

Frame(size) == IF TooLong(size) THEN RefuseLine ELSE Deliver

\* The carry holds a newline.
TakeLine ==
    /\ Reading /\ ~discarding /\ Ends(carry) # {}
    /\ reading' = reading + 1
    /\ carry' = After(carry, FirstEnd(carry))
    /\ Frame(FirstEnd(carry))
    /\ UNCHANGED <<client, discarding, answer, handshake, tools, ran>>

\* No newline inside the budget: what was read of the line is thrown away.
StartDiscard ==
    /\ Reading /\ ~discarding /\ Ends(carry) = {} /\ TooLong(Len(carry))
    /\ discarding' = TRUE /\ carry' = <<>>
    /\ UNCHANGED <<client, reading, pc, answer, handshake, tools, outbox, stop, ran>>

\* read1 returns any part of what is there.
ReadChunk ==
    /\ Reading /\ ~discarding /\ Ends(carry) = {} /\ ~TooLong(Len(carry))
    /\ \E n \in 1..Len(wire) :
         /\ carry' = carry \o SubSeq(wire, 1, n)
         /\ wire' = After(wire, n)
    /\ UNCHANGED <<script, closed, gone, discarding, reading, pc, answer, handshake,
                   tools, outbox, stop, ran>>

\* mutant: what was read behind the newline is thrown away with the line.
KeptOfDiscardNothing(chunk) == <<>>

\* What follows the first newline of a chunk is the start of the next line.
KeptOfDiscard(chunk) == After(chunk, FirstEnd(chunk))

DiscardChunk ==
    /\ Reading /\ discarding
    /\ \E n \in 1..Len(wire) :
         LET chunk == SubSeq(wire, 1, n) IN
         /\ wire' = After(wire, n)
         /\ IF Ends(chunk) = {}
              THEN UNCHANGED <<carry, discarding, reading, pc, outbox, stop>>
              ELSE /\ carry' = KeptOfDiscard(chunk)
                   /\ discarding' = FALSE
                   /\ reading' = reading + 1
                   /\ RefuseLine
    /\ UNCHANGED <<script, closed, gone, answer, handshake, tools, ran>>

\* read1 returns nothing: the oversized line is refused, a line without its
\* newline is taken as it is, and with nothing left serve returns.
EndOfInput ==
    /\ Reading /\ closed /\ wire = <<>>
    /\ \/ /\ discarding
          /\ discarding' = FALSE /\ reading' = reading + 1
          /\ RefuseLine /\ UNCHANGED carry
       \/ /\ ~discarding /\ Ends(carry) = {} /\ carry # <<>> /\ ~TooLong(Len(carry))
          /\ carry' = <<>> /\ reading' = reading + 1
          /\ Deliver /\ UNCHANGED discarding
       \/ /\ ~discarding /\ carry = <<>>
          /\ stop' = "eof" /\ UNCHANGED <<carry, discarding, reading, pc, outbox>>
    /\ UNCHANGED <<client, answer, handshake, tools, ran>>

--------------------------------------------------------------------------------
(* The proposals, evaluated on every message boundary *)

\* process_tool_requests ends without an install: nothing is there, every
\* proposal is rejected or deferred, the directory cannot be read, or an
\* exception is logged.  Files published before an exception stay.
PassWithoutInstall ==
    /\ pc = "tools"
    /\ \E some \in SUBSET (proposals \ disk) :
         /\ disk' = disk \cup some
         /\ proposals' \in {proposals, proposals \ some}
    /\ pc' = "handle"
    /\ UNCHANGED <<client, reader, answer, handshake, registry, churn, outbox,
                   stop, ran>>

\* mutant: only a registry that grew is announced.
InstallAnnouncesGrowth ==
    /\ pc = "tools"
    /\ \E some \in SUBSET (proposals \ disk) \ {{}} :
         /\ disk' = disk \cup some
         /\ proposals' = proposals \ some
         /\ registry' = disk'
         /\ pc' = IF registry \subseteq registry' THEN "announce" ELSE "handle"
    /\ UNCHANGED <<client, reader, answer, handshake, churn, outbox, stop, ran>>

\* Proposals are accepted and consumed, and the directory is scanned again;
\* a scan that raises leaves the registry as it is.
Install ==
    /\ pc = "tools"
    /\ \E some \in SUBSET (proposals \ disk) \ {{}} :
         /\ disk' = disk \cup some
         /\ proposals' = proposals \ some
         /\ \/ /\ registry' = disk'
               /\ pc' = IF registry' = registry THEN "handle" ELSE "announce"
            \/ pc' = "handle" /\ UNCHANGED registry
    /\ UNCHANGED <<client, reader, answer, handshake, churn, outbox, stop, ran>>

Changed == [to |-> 0, is |-> "list_changed", names |-> {}]

\* list_changed; a client that is gone ends serve.
Announce ==
    /\ pc = "announce"
    /\ IF gone THEN stop' = "gone" /\ UNCHANGED outbox
       ELSE outbox' = Append(outbox, Changed) /\ UNCHANGED stop
    /\ pc' = "handle"
    /\ UNCHANGED <<client, reader, answer, handshake, tools, ran>>

--------------------------------------------------------------------------------
(* One message *)

Handling == pc = "handle" /\ stop = "none"
Line == script[reading]

\* _request_is_stateless
Stateless(l) == l.version \notin {"none", "legacy"}
\* mutant: any version named in _meta excuses the handshake.
OwesHandshakeUnversioned(l) ==
    ~handshake /\ l.version = "none" /\ l.method \notin PreHandshake

OwesHandshake(l) == ~handshake /\ ~Stateless(l) /\ l.method \notin PreHandshake

\* mutant: the version is checked for its spelling alone.
VersionErrorSyntax(l) ==
    IF l.version = "malformed" THEN "invalid_params" ELSE "none"

\* _check_request_version
VersionError(l) ==
    CASE l.version \in {"malformed", "bare"} -> "invalid_params"
      [] l.version = "unsupported" -> "unsupported_version"
      [] OTHER -> "none"

SecondInitialize(l) == l.method = "initialize" /\ handshake

\* mutant: whether an answer is due is asked after the handshake.
RefusalNotesLater(l) ==
    IF l.kind \in {"blank", "deep"} THEN "silent"
    ELSE IF l.kind = "garbage" THEN "parse_error"
    ELSE IF l.kind = "invalid" \/ l.method = "none" THEN "invalid_request"
    ELSE IF OwesHandshake(l) \/ SecondInitialize(l) THEN "invalid_request"
    ELSE IF l.note THEN "silent"
    ELSE IF l.method \notin Methods THEN "method_not_found"
    ELSE IF l.method # "initialize" THEN VersionError(l)
    ELSE "none"

\* The parse and the checks before a handler, in their order: the error, or
\* "silent" where no answer is due, or "none" for a request to be handled.
Refusal(l) ==
    IF l.kind \in {"blank", "deep"} THEN "silent"
    ELSE IF l.kind = "garbage" THEN "parse_error"
    ELSE IF l.kind = "invalid" \/ l.method = "none" THEN "invalid_request"
    ELSE IF l.note THEN "silent"
    ELSE IF OwesHandshake(l) \/ SecondInitialize(l) THEN "invalid_request"
    ELSE IF l.method \notin Methods THEN "method_not_found"
    ELSE IF l.method # "initialize" THEN VersionError(l)
    ELSE "none"

Say(code, names) ==
    /\ answer' = <<[to |-> reading, is |-> code, names |-> names]>>
    /\ pc' = "send"

\* A line whose answer is an error, and one that gets none: serve goes on with
\* the next line also when handle_line raised.
RejectLine ==
    /\ Handling /\ Refusal(Line) \notin {"silent", "none"}
    /\ Say(Refusal(Line), {})
    /\ UNCHANGED <<client, reader, handshake, tools, outbox, stop, ran>>

IgnoreLine ==
    /\ Handling /\ Refusal(Line) = "silent"
    /\ pc' = "read"
    /\ UNCHANGED <<client, reader, answer, handshake, tools, outbox, stop, ran>>

Serving(method) ==
    Handling /\ Refusal(Line) = "none" /\ Line.method = method

Initialize ==
    /\ Serving("initialize")
    /\ Say("result", {}) /\ handshake' = TRUE
    /\ UNCHANGED <<client, reader, tools, outbox, stop, ran>>

Discover ==
    /\ Serving("server/discover")
    /\ Say("result", {})
    /\ UNCHANGED <<client, reader, handshake, tools, outbox, stop, ran>>

ListTools ==
    /\ Serving("tools/list")
    /\ Say("listing", registry)
    /\ UNCHANGED <<client, reader, handshake, tools, outbox, stop, ran>>

KnownTool(l) == l.tool \in registry

\* The policy with its attestations: a grant book that cannot be read is said
\* to be unreadable, and the policy is reported all the same.
Policies == {"policy", "policy_unreadable_book"}

\* The tool get-policy is asked for may be unknown.
GetPolicy ==
    /\ Serving("tools/call") /\ Line.tool = "native"
    /\ \E code \in Policies \cup {"invalid_params"} : Say(code, {})
    /\ UNCHANGED <<client, reader, handshake, tools, outbox, stop, ran>>

RejectCall ==
    /\ Serving("tools/call") /\ Line.tool # "native" /\ ~KnownTool(Line)
    /\ Say("invalid_params", {})
    /\ UNCHANGED <<client, reader, handshake, tools, outbox, stop, ran>>

\* engine.execute refuses to start the run (ToolExecutionError).
CallRefused ==
    /\ Serving("tools/call") /\ KnownTool(Line)
    /\ Say("tool_error", {})
    /\ UNCHANGED <<client, reader, handshake, tools, outbox, stop, ran>>

\* The run is over and its result is built; what the guest printed may be text
\* that cannot be encoded.
CallRuns ==
    /\ Serving("tools/call") /\ KnownTool(Line)
    /\ ran' = ran \cup {reading}
    /\ \E code \in {"result", "unencodable"} : Say(code, {})
    /\ UNCHANGED <<client, reader, handshake, tools, outbox, stop>>

\* The run, the mediation or the signing of the receipt raised: the answer is
\* an internal error, and the tool may have run.
CallRaises ==
    /\ Serving("tools/call") /\ KnownTool(Line)
    /\ ran' \in {ran, ran \cup {reading}}
    /\ Say("internal_error", {})
    /\ UNCHANGED <<client, reader, handshake, tools, outbox, stop>>

Encodable(message) == message.is # "unencodable" /\ Line.clean

\* mutant: what cannot be encoded is dropped and the loop goes on.
SendDropping ==
    /\ pc = "send" /\ stop = "none"
    /\ outbox' = IF Encodable(Head(answer)) /\ ~gone THEN outbox \o answer ELSE outbox
    /\ stop' = IF gone THEN "gone" ELSE "none"
    /\ answer' = <<>> /\ pc' = "read"
    /\ UNCHANGED <<client, reader, handshake, tools, ran>>

\* serve catches BrokenPipeError alone.  The message is encoded before it is
\* written; the answer to garbage repeats nothing of it.
Send ==
    /\ pc = "send" /\ stop = "none"
    /\ stop' = IF ~Encodable(Head(answer)) THEN "crash"
               ELSE IF gone THEN "gone" ELSE "none"
    /\ outbox' = IF stop' = "none" THEN outbox \o answer ELSE outbox
    /\ answer' = <<>> /\ pc' = "read"
    /\ UNCHANGED <<client, reader, handshake, tools, ran>>

--------------------------------------------------------------------------------

Ended == stop # "none" /\ UNCHANGED vars

ReaderSteps == TakeLine \/ StartDiscard \/ ReadChunk \/ DiscardChunk \/ EndOfInput
InboxSteps == PassWithoutInstall \/ Install \/ Announce
HandlerSteps ==
    \/ RejectLine \/ IgnoreLine \/ Initialize \/ Discover \/ ListTools
    \/ GetPolicy \/ RejectCall \/ CallRefused \/ CallRuns \/ CallRaises

ServerSteps == ReaderSteps \/ InboxSteps \/ HandlerSteps \/ Send

Next ==
    \/ Write \/ HangUp \/ StopReading \/ Propose \/ RemoveTool
    \/ ServerSteps
    \/ Ended

\* The serve loop goes on: a run returns (RunPath), and a pass over the
\* proposals ends.  Nothing is assumed of the client.
Fairness == WF_vars(ServerSteps)

Spec == Init /\ [][Next]_vars /\ Fairness

--------------------------------------------------------------------------------
(* Properties *)


Codes == Policies \cup
         {"result", "listing", "tool_error", "unencodable", "parse_error",
          "invalid_request", "method_not_found", "invalid_params",
          "unsupported_version", "internal_error"}

Message == [to : Nat, is : Codes \cup {"too_long", "list_changed"}, names : SUBSET Tools]
Piece == [line : Nat, part : Nat, last : BOOLEAN]

TypeOK ==
    /\ script \in Seq(Lines) /\ closed \in BOOLEAN /\ gone \in BOOLEAN
    /\ wire \in Seq(Piece) /\ carry \in Seq(Piece) /\ discarding \in BOOLEAN
    /\ reading \in 0..Len(script)
    /\ pc \in {"read", "tools", "announce", "handle", "send"}
    /\ pc # "read" => reading # 0
    /\ pc # "send" => answer = <<>>
    /\ answer \in Seq(Message) /\ outbox \in Seq(Message)
    /\ handshake \in BOOLEAN /\ ran \subseteq 1..reading
    /\ registry \subseteq Tools /\ disk \subseteq Tools /\ proposals \subseteq Tools
    /\ stop \in {"none", "eof", "gone", "crash"}

Ahead == carry \o wire

\* The pieces are those of the lines of text behind number taken, whole and in
\* order, but for the first dropped ones: each is followed by the next of its
\* line or by the first of the next line, up to the last line's last.  Where a
\* line ends, a piece says so, unless the client hung up there.
Framed(text, hungUp, pieces, taken, dropped) ==
    LET size(k) == text[k].size
        newline(k) == k < Len(text) \/ ~hungUp
        follows(q, p) ==
            IF p.part < size(p.line) THEN q.line = p.line /\ q.part = p.part + 1
            ELSE q.line = p.line + 1 /\ q.part = 1
    IN
    /\ \A i \in DOMAIN pieces :
         LET p == pieces[i] IN
         /\ p.line \in (taken + 1)..Len(text) /\ p.part \in 1..size(p.line)
         /\ p.last => p.part = size(p.line)
         /\ p.part = size(p.line) /\ newline(p.line) => p.last
         /\ i = 1 => p.line = taken + 1 /\ p.part = dropped + 1
         /\ i < Len(pieces) => follows(pieces[i + 1], p)
         /\ i = Len(pieces) => p.line = Len(text) /\ p.part = size(p.line)
    /\ pieces = <<>> =>
         \/ taken = Len(text) /\ dropped = 0
         \/ taken + 1 = Len(text) /\ hungUp /\ dropped = size(taken + 1)

\* However the reads cut the stream, what lies ahead of the reader is exactly
\* the lines it has not taken, and a line is refused for its length exactly when
\* it is over the bound.
LinesArriveWhole ==
    /\ ~discarding => Framed(script, closed, Ahead, reading, 0)
    /\ discarding =>
         /\ carry = <<>> /\ reading < Len(script) /\ pc = "read"
         /\ \E n \in (MaxLineSize + 1)..script[reading + 1].size :
              Framed(script, closed, wire, reading, n)
    /\ pc # "read" => ~TooLong(Line.size)
    /\ \A i \in DOMAIN outbox :
         outbox[i].is = "too_long" => TooLong(script[outbox[i].to].size)

Silent(l) ==
    /\ ~TooLong(l.size)
    /\ \/ l.kind \in {"blank", "deep"}
       \/ l.kind = "message" /\ l.note /\ l.method # "none"

Served(m) ==
    m.is \in Policies \cup {"result", "listing", "tool_error", "internal_error"}

InitialResult(m) == m.is = "result" /\ script[m.to].method = "initialize"

\* initialize is served once, the methods behind it only to a client that was
\* answered one, or that named a version of the stateless era.
MayServe(l, initialized) ==
    /\ l.method = "initialize" => ~initialized
    /\ l.method \notin PreHandshake => initialized \/ Stateless(l)

Initialized == \E i \in DOMAIN outbox : InitialResult(outbox[i])

\* A call is for an answer the server owes, in a version it supports.
Callable(l) == l.version \notin {"unsupported", "malformed", "bare"} /\ ~l.note

\* What handle_line returned is one message, to the line taken last, that may
\* be served, lists the registry as it is, and tells whether a tool ran.
AnswerIsDue ==
    pc = "send" =>
      LET m == answer[1] IN
      /\ Len(answer) = 1 /\ m.to = reading /\ m.is \in Codes
      /\ ~Silent(Line)
      /\ Served(m) => MayServe(Line, Initialized)
      /\ m.is = "listing" => m.names = registry
      /\ reading \in ran => m.is \in {"result", "internal_error", "unencodable"}
      /\ m.is = "unencodable" => reading \in ran

\* The handshake is complete when its answer is out, or about to be.
HandshakeKnown ==
    /\ Initialized => handshake
    /\ pc = "send" /\ InitialResult(answer[1]) => handshake
    /\ handshake /\ stop = "none" =>
         Initialized \/ (pc = "send" /\ InitialResult(answer[1]))

Answers(k) == {i \in DOMAIN outbox : outbox[i].to = k}

\* What was sent was for the lines up to the one taken last, which waits for
\* its answer and has run nothing until it is handled.
SentForTheTaken ==
    /\ \A i \in DOMAIN outbox :
         outbox[i].to <= reading /\ (outbox[i].to = 0 <=> outbox[i].is = "list_changed")
    /\ pc # "read" => Answers(reading) = {}
    /\ pc \in {"tools", "announce", "handle"} => reading \notin ran

\* serve ends on the end of the input with every line taken, on a client that
\* reads no more, or on an exception over the line taken last: its answer cannot
\* be encoded, or it is oversized and nobody reads the refusal.
StopsAreExplained ==
    /\ stop = "eof" => closed /\ reading = Len(script)
    /\ stop = "gone" => gone
    /\ stop = "crash" =>
         /\ reading # 0
         /\ (gone /\ TooLong(Line.size)) \/ ~Line.clean \/ reading \in ran

\* The inductive invariant of the session.
SessionInv ==
    /\ TypeOK
    /\ LinesArriveWhole
    /\ SentForTheTaken
    /\ AnswerIsDue
    /\ HandshakeKnown
    /\ StopsAreExplained

\* Answers come one for each line that is due one, in the order of the lines,
\* and none for a notification: a client may pair them by counting.
OneAnswerEach ==
    /\ \A k \in 1..reading :
         k < reading \/ (pc = "read" /\ stop \in {"none", "eof"}) =>
           Cardinality(Answers(k)) = IF Silent(script[k]) THEN 0 ELSE 1
    /\ \A i, j \in DOMAIN outbox :
         i < j /\ outbox[i].to # 0 /\ outbox[j].to # 0 => outbox[i].to < outbox[j].to

\* A request that names no version of the stateless era is served only behind
\* an initialize that was answered, and initialize is served once.
HandshakeFirst ==
    \A j \in DOMAIN outbox :
      Served(outbox[j]) =>
        MayServe(script[outbox[j].to], \E i \in 1..(j - 1) : InitialResult(outbox[i]))

\* A tool runs only for a request the server owes an answer, in a version it
\* supports, and an answer that refuses a request means that nothing ran.
OnlyServedCallsRun ==
    \A k \in ran :
      /\ Callable(script[k])
      /\ \A i \in Answers(k) : outbox[i].is \in {"result", "internal_error"}

\* The last list a client got is the registry, or list_changed came after it.
StaleListAnnounced ==
    stop = "none" /\ pc # "announce" =>
      \A i \in DOMAIN outbox :
        outbox[i].is = "listing" =>
          \/ outbox[i].names = registry
          \/ \E j \in (i + 1)..Len(outbox) : outbox[j].is = "list_changed"

\* What handle_line's doc says (server.py:309, "one bad tool call or malformed
\* line can never kill the server"): an exception ends serve only when nobody
\* reads its answers any more.
LinesNeverStopServe == stop = "crash" => gone

\* Every line that is due an answer gets it, or serve ends.
EveryRequestAnswered ==
    \A k \in 1..MaxLines :
      Len(script) >= k ~>
        \/ stop # "none"
        \/ Len(script) >= k /\ (Silent(script[k]) \/ Answers(k) # {})
===============================================================================
