------------------------ MODULE McpWebSocketSession ------------------------
(***************************************************************************)
(* One MCP session over a WebSocket: the endpoint (HandleWebSocketAsync),  *)
(* the transport's receive loop, send lock and disposal                    *)
(* (WebSocketServerTransport), and the tool calls whose answers it sends   *)
(* (LegacyMcpServerToolAdapter).  The MCP library's server reads the       *)
(* messages, runs each call as a task of its own, and cancels the calls    *)
(* when it is disposed.                                                    *)
(***************************************************************************)
EXTENDS Integers, Sequences, FiniteSets, SequencesExt

CONSTANTS
    MaxMessages,    \* the number of messages the client sends: 1, 2, ...
    Fragments,      \* the number of WebSocket frames each is sent in
    Broken          \* those that are no JSON-RPC message, or are null

Messages == 1 .. MaxMessages

ASSUME SessionAssumption ==
    /\ MaxMessages \in Nat
    /\ Fragments \in [Messages -> Nat \ {0}]
    /\ Broken \subseteq Messages

VARIABLES
    phase,      \* where HandleWebSocketAsync and DisposeAsync are
    peer,       \* the client's end: "open", "closed" or "gone"
    begun,      \* history: the number of messages the client has begun to send
    unsent,     \* the frames left of the last of them
    wire,       \* the frames on their way to the service
    socket,     \* _socket.State, "none" before it is accepted
    loop,       \* where ReceiveMessagesAsync is
    payload,    \* payloadStream: the frames in it
    delivered,  \* history: the messages written to the channel
    taken,      \* how many of them the server has read
    connected,  \* IsConnected; the channel is complete once it is reset
    shutdown,   \* _shutdownCts is cancelled
    cancelled,  \* the server is disposed and has cancelled its calls
    calls,      \* where each call is
    lock        \* _sendLock: "free", "held" or "disposed"

clientVars == <<peer, begun, unsent, wire>>
loopVars == <<loop, payload, delivered>>
callVars == <<calls, lock>>
vars == <<phase, clientVars, socket, loopVars, taken, connected, shutdown, cancelled, callVars>>

Frame(m, k) == [message |-> m, k |-> k]
Frames(m) == [k \in 1 .. Fragments[m] |-> Frame(m, k)]
Close == Frame(0, 1)

Good(m) == m \notin Broken
Underway == {"invoked", "answering", "checked", "queued", "sending"}
Queued == {m \in Messages : calls[m] = "queued"}

Init ==
    /\ phase = "request"
    /\ peer = "open" /\ begun = 0 /\ unsent = <<>> /\ wire = <<>>
    /\ socket = "none"
    /\ loop = "check" /\ payload = <<>> /\ delivered = <<>> /\ taken = 0
    /\ connected = FALSE /\ shutdown = FALSE /\ cancelled = FALSE
    /\ calls = [m \in Messages |-> "none"] /\ lock = "free"

-----------------------------------------------------------------------------
\* The client.  It may close or vanish in the middle of a message.
BeginMessage ==
    /\ phase # "request" /\ peer = "open"
    /\ unsent = <<>> /\ begun < MaxMessages
    /\ begun' = begun + 1
    /\ unsent' = Frames(begun')
    /\ UNCHANGED <<peer, wire>>

SendFrame ==
    /\ peer = "open" /\ unsent # <<>>
    /\ wire' = Append(wire, Head(unsent))
    /\ unsent' = Tail(unsent)
    /\ UNCHANGED <<peer, begun>>

Leave ==
    /\ phase # "request" /\ peer = "open"
    /\ \/ peer' = "closed" /\ wire' = Append(wire, Close)
       \/ peer' = "gone" /\ UNCHANGED wire
    /\ UNCHANGED <<begun, unsent>>

ClientSends ==
    /\ BeginMessage \/ SendFrame
    /\ UNCHANGED <<phase, socket, loopVars, taken, connected, shutdown, cancelled, callVars>>

ClientLeaves ==
    /\ Leave
    /\ UNCHANGED <<phase, socket, loopVars, taken, connected, shutdown, cancelled, callVars>>

\* The connection of a client that is gone breaks; RequestAborted follows.
ConnectionBreaks ==
    /\ peer = "gone" /\ socket \in {"open", "closeReceived"}
    /\ socket' = "aborted"
    /\ UNCHANGED <<phase, clientVars, loopVars, taken, connected, shutdown, cancelled, callVars>>

-----------------------------------------------------------------------------
\* The endpoint: 400 for what is no WebSocket request, 500 if accepting fails.
HandleWebSocketAsync ==
    /\ phase = "request"
    /\ \/ phase' = "ended" /\ UNCHANGED <<socket, connected>>
       \/ phase' = "running" /\ socket' = "open" /\ connected' = TRUE
    /\ UNCHANGED <<clientVars, loopVars, taken, shutdown, cancelled, callVars>>

\* server.RunAsync returns or throws, and the server is disposed.
StopServer ==
    /\ phase = "running"
    /\ phase' = "dispose"
    /\ cancelled' = TRUE
    /\ UNCHANGED <<clientVars, socket, loopVars, taken, connected, shutdown, callVars>>

\* It does so when the channel is complete and read, or the request aborted.
RunEnds ==
    /\ \/ ~connected /\ taken = Len(delivered)
       \/ socket = "aborted"
    /\ StopServer

-----------------------------------------------------------------------------
LoopEnds == loop' = "ended" /\ connected' = FALSE

LoopCheck ==
    /\ phase # "request" /\ loop = "check"
    /\ \/ (shutdown \/ socket # "open") /\ LoopEnds
       \/ ~shutdown /\ socket = "open" /\ loop' = "receiving" /\ UNCHANGED connected
    /\ UNCHANGED <<wire, socket, payload, delivered>>

\* ReceiveAsync has a frame, perhaps just before it is cancelled.
Receive ==
    /\ loop = "receiving" /\ socket = "open" /\ wire # <<>>
    /\ wire' = Tail(wire)
    /\ IF Head(wire) = Close
       THEN LoopEnds /\ socket' = "closeReceived" /\ UNCHANGED payload
       ELSE /\ payload' = Append(payload, Head(wire))
            /\ loop' = IF Head(wire).k = Fragments[Head(wire).message] THEN "parsing" ELSE "check"
            /\ UNCHANGED <<socket, connected>>
    /\ UNCHANGED delivered

\* Cancelling ReceiveAsync aborts the socket.
ReceiveFails ==
    /\ loop = "receiving"
    /\ shutdown \/ socket = "aborted"
    /\ LoopEnds
    /\ socket' = "aborted"
    /\ UNCHANGED <<wire, payload, delivered>>

\* Variant: the stream is reset only after a message that could be read.
ParseKeepsBroken ==
    /\ loop = "parsing"
    /\ \/ /\ ~shutdown
          /\ \E m \in Messages \ Broken : payload = Frames(m) /\ delivered' = Append(delivered, m)
          /\ payload' = <<>>
          /\ loop' = "check" /\ UNCHANGED connected
       \/ /\ \A m \in Messages \ Broken : payload # Frames(m)
          /\ loop' = "check" /\ UNCHANGED <<delivered, connected, payload>>
       \/ shutdown /\ LoopEnds /\ UNCHANGED <<payload, delivered>>
    /\ UNCHANGED <<wire, socket>>

\* Variant: null is passed on.
ParseAnything ==
    /\ loop = "parsing"
    /\ payload' = <<>>
    /\ delivered' = Append(delivered, Last(payload).message)
    /\ loop' = "check"
    /\ UNCHANGED <<wire, socket, connected>>

\* Deserialize and WriteMessageAsync, which throws once the token is cancelled.
Parse ==
    /\ loop = "parsing"
    /\ payload' = <<>>
    /\ IF \A m \in Messages \ Broken : payload # Frames(m)
       THEN loop' = "check" /\ UNCHANGED <<delivered, connected>>
       ELSE \/ shutdown /\ LoopEnds /\ UNCHANGED delivered
            \/ /\ ~shutdown
               /\ \E m \in Messages \ Broken : payload = Frames(m) /\ delivered' = Append(delivered, m)
               /\ loop' = "check" /\ UNCHANGED connected
    /\ UNCHANGED <<wire, socket>>

ReceiveMessagesAsync ==
    /\ LoopCheck \/ Receive \/ ReceiveFails \/ Parse
    /\ UNCHANGED <<phase, peer, begun, unsent, taken, shutdown, cancelled, callVars>>

-----------------------------------------------------------------------------
\* Variant: the loop is awaited without being cancelled.
DisposeWithoutCancel ==
    /\ phase = "dispose"
    /\ phase' = "awaiting"
    /\ UNCHANGED <<clientVars, socket, loopVars, taken, connected, shutdown, cancelled, callVars>>

DisposeAsync ==
    /\ phase = "dispose"
    /\ phase' = "awaiting"
    /\ shutdown' = TRUE
    /\ UNCHANGED <<clientVars, socket, loopVars, taken, connected, cancelled, callVars>>

\* _receiveLoop has ended; CloseAsync only if there is somebody to tell.
LoopAwaited ==
    /\ phase = "awaiting" /\ loop = "ended"
    /\ phase' = IF socket \in {"open", "closeReceived"} THEN "closing" ELSE "closed"
    /\ UNCHANGED <<clientVars, socket, loopVars, taken, connected, shutdown, cancelled, callVars>>

\* CloseAsync throws frames away until the client's close frame has come.
CloseAsync ==
    /\ phase = "closing"
    /\ socket \in {"closeReceived", "aborted"} \/ Close \in ToSet(wire)
    /\ phase' = "closed"
    /\ UNCHANGED <<clientVars, socket, loopVars, taken, connected, shutdown, cancelled, callVars>>

Disposed ==
    /\ phase = "closed"
    /\ phase' = "ended"
    /\ socket' = "disposed" /\ lock' = "disposed" /\ connected' = FALSE
    /\ UNCHANGED <<clientVars, loopVars, taken, shutdown, cancelled, calls>>

-----------------------------------------------------------------------------
Goto(m, where) == calls' = [calls EXCEPT ![m] = where]

\* The server reads a message and starts its call.
Take ==
    /\ phase = "running" /\ taken < Len(delivered)
    /\ taken' = taken + 1
    /\ Goto(delivered[taken'], "invoked")
    /\ UNCHANGED <<phase, clientVars, socket, loopVars, connected, shutdown, cancelled, lock>>

\* Whatever a tool does ends in an answer, an exception in one with IsError,
\* unless it finds itself cancelled.
InvokeAsync(m) ==
    /\ calls[m] = "invoked"
    /\ \/ Goto(m, "answering")
       \/ cancelled /\ Goto(m, "cancelled")
    /\ UNCHANGED <<socket, lock>>

SendMessageAsync(m) ==
    /\ calls[m] = "answering"
    /\ Goto(m, IF connected THEN "checked" ELSE "failed")
    /\ UNCHANGED <<socket, lock>>

WaitAsync(m) ==
    /\ calls[m] = "checked"
    /\ \/ lock = "disposed" /\ Goto(m, "failed") /\ UNCHANGED lock
       \/ lock # "disposed" /\ cancelled /\ Goto(m, "cancelled") /\ UNCHANGED lock
       \/ lock = "held" /\ ~cancelled /\ Goto(m, "queued") /\ UNCHANGED lock
       \/ lock = "free" /\ ~cancelled /\ Goto(m, "sending") /\ lock' = "held"
    /\ UNCHANGED socket

\* The call goes on to its end and releases the lock, which goes to a waiter;
\* a lock that is disposed throws, and nobody gets it any more.
Release(m, end) ==
    \/ lock = "disposed" /\ Goto(m, "failed") /\ UNCHANGED lock
    \/ lock # "disposed" /\ Queued \ {m} = {} /\ Goto(m, end) /\ lock' = "free"
    \/ /\ lock # "disposed"
       /\ \E next \in Queued \ {m} : calls' = [calls EXCEPT ![m] = end, ![next] = "sending"]
       /\ UNCHANGED lock

\* Variant: WaitAsync does not get the token, and only a release ends it.
WaitForRelease(m) ==
    /\ calls[m] = "queued" /\ lock = "free"
    /\ Goto(m, "sending") /\ lock' = "held"
    /\ UNCHANGED socket

\* Variant: WaitAsync stands inside the try whose finally releases the lock.
WaitCancelledReleases(m) ==
    /\ calls[m] = "queued" /\ cancelled
    /\ Release(m, "cancelled")
    /\ UNCHANGED socket

WaitCancelled(m) ==
    /\ calls[m] = "queued" /\ cancelled
    /\ Goto(m, "cancelled")
    /\ UNCHANGED <<socket, lock>>

\* A client that does not read may keep SendAsync waiting for ever.
Sent(m) ==
    /\ calls[m] = "sending" /\ socket \in {"open", "closeReceived"}
    /\ Release(m, "answered")
    /\ UNCHANGED <<phase, clientVars, socket, loopVars, taken, connected, shutdown, cancelled>>

\* Cancelling SendAsync aborts the socket.
SendFails(m) ==
    /\ calls[m] = "sending"
    /\ \/ socket \in {"aborted", "disposed"} /\ Release(m, "failed") /\ UNCHANGED socket
       \/ /\ cancelled /\ Release(m, "cancelled")
          /\ socket' = IF socket = "disposed" THEN socket ELSE "aborted"

CallStep(m) ==
    /\ InvokeAsync(m) \/ SendMessageAsync(m) \/ WaitAsync(m) \/ WaitCancelled(m) \/ SendFails(m)
    /\ UNCHANGED <<phase, clientVars, loopVars, taken, connected, shutdown, cancelled>>

-----------------------------------------------------------------------------
Next ==
    \/ ClientSends \/ ClientLeaves \/ ConnectionBreaks
    \/ HandleWebSocketAsync \/ StopServer
    \/ ReceiveMessagesAsync
    \/ DisposeAsync \/ LoopAwaited \/ CloseAsync \/ Disposed
    \/ Take
    \/ \E m \in Messages : CallStep(m) \/ Sent(m)

\* The service's own steps are scheduled; a broken connection is noticed, and
\* a client that is asked to close closes or goes.
Fairness ==
    /\ WF_vars(ReceiveMessagesAsync)
    /\ WF_vars(Take) /\ WF_vars(RunEnds)
    /\ WF_vars(DisposeAsync \/ LoopAwaited \/ CloseAsync \/ Disposed)
    /\ \A m \in Messages : WF_vars(CallStep(m))
    /\ WF_vars(ConnectionBreaks)
    /\ WF_vars(phase = "closing" /\ ClientLeaves)

Spec == Init /\ [][Next]_vars /\ Fairness

-----------------------------------------------------------------------------
\* Every variable keeps to its type; only JSON-RPC messages are delivered.
TypeOK ==
    /\ phase \in {"request", "running", "dispose", "awaiting", "closing", "closed", "ended"}
    /\ peer \in {"open", "closed", "gone"}
    /\ begun \in 0 .. MaxMessages
    /\ socket \in {"none", "open", "closeReceived", "aborted", "disposed"}
    /\ loop \in {"check", "receiving", "parsing", "ended"}
    /\ delivered \in Seq(Messages \ Broken)
    /\ taken \in 0 .. Len(delivered)
    /\ connected \in BOOLEAN /\ shutdown \in BOOLEAN /\ cancelled \in BOOLEAN
    /\ calls \in [Messages -> Underway \cup {"none", "answered", "failed", "cancelled"}]
    /\ lock \in {"free", "held", "disposed"}

(***************************************************************************)
(* The server reads what the client sent: every JSON-RPC message whose     *)
(* frames have all come, whole, once and in order, whatever broken or      *)
(* unfinished messages stand between them.  Only a disposal drops one.     *)
(***************************************************************************)
Arrived(m) ==
    /\ \A frame \in ToSet(unsent) \cup ToSet(wire) : frame.message # m
    /\ loop = "parsing" => Last(payload).message # m

Ascending(s) == \A i, j \in DOMAIN s : i < j => s[i] < s[j]

MessagesComeWhole ==
    LET sent == {m \in 1 .. begun : Good(m)}
        read == ToSet(delivered)
    IN  /\ Ascending(delivered)
        /\ read \subseteq sent
        /\ \A m \in read, n \in sent : n < m => n \in read
        /\ ~shutdown => read = {m \in sent : Arrived(m)}

(***************************************************************************)
(* A WebSocket takes one SendAsync at a time: answers never overlap, not   *)
(* even while waiting calls are cancelled.                                 *)
(***************************************************************************)
OneSendAtATime == Cardinality({m \in Messages : calls[m] = "sending"}) <= 1

(***************************************************************************)
(* When the client has left, the connection is broken or the server has    *)
(* stopped, the endpoint disposes of everything and returns at last.       *)
(***************************************************************************)
SessionEnds == socket \in {"closeReceived", "aborted"} \/ cancelled ~> phase = "ended"

(***************************************************************************)
(* Once the session has ended, no call waits for ever for the send lock    *)
(* that was disposed under it.                                             *)
(***************************************************************************)
CallsEnd == phase = "ended" ~> \A m \in Messages : calls[m] \notin Underway

=============================================================================
