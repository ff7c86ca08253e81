--------------------- MODULE McpWebSocketSession_proofs ---------------------
(***************************************************************************)
(* For any number of messages, frames and broken messages: the send lock   *)
(* of the transport does its work, also while it is disposed of under its  *)
(* holder and while waiting calls are cancelled; and the receive loop      *)
(* delivers the JSON-RPC messages whole, once and in order.                *)
(***************************************************************************)
EXTENDS McpWebSocketSession, FiniteSetTheorems, TLAPS

CallStates == Underway \cup {"none", "answered", "failed", "cancelled"}

\* A lock that is free has no holder; one that is held or disposed has at
\* most one, since a disposed lock is never granted again.
LockInv ==
    /\ calls \in [Messages -> CallStates]
    /\ \A m, n \in Messages : calls[m] = "sending" /\ calls[n] = "sending" => m = n
    /\ lock = "free" => \A m \in Messages : calls[m] # "sending"

-----------------------------------------------------------------------------
\* The invariant gives what the runs check.
LEMMA LockInvSuffices == LockInv => OneSendAtATime
<1> DEFINE Senders == {m \in Messages : calls[m] = "sending"}
<1>1. SUFFICES ASSUME LockInv PROVE Cardinality(Senders) <= 1
    BY DEF OneSendAtATime
<1>2. CASE Senders = {}
    BY <1>2, FS_EmptySet
<1>3. CASE Senders # {}
    <2>1. PICK m : m \in Senders
        BY <1>3
    <2>2. Senders = {m}
        BY <1>1, <2>1 DEF LockInv
    <2> QED
        BY <2>2, FS_Singleton
<1> QED
    BY <1>2, <1>3

\* A call that is not sending goes where it does not send either.
LEMMA GotoInv ==
    ASSUME LockInv, NEW m, NEW where \in CallStates \ {"sending"},
           Goto(m, where), UNCHANGED lock
    PROVE  LockInv'
BY DEF LockInv, Goto

\* The holder releases the lock, to a waiter or to nobody.
LEMMA ReleaseInv ==
    ASSUME LockInv, NEW m \in Messages, calls[m] = "sending",
           NEW end \in CallStates \ {"sending"}, Release(m, end)
    PROVE  LockInv'
<1>1. CASE lock = "disposed" /\ Goto(m, "failed") /\ UNCHANGED lock
    BY <1>1, GotoInv DEF CallStates
<1>2. CASE Goto(m, end) /\ lock' = "free"
    BY <1>2 DEF LockInv, Goto
<1>3. CASE /\ \E next \in Queued \ {m} : calls' = [calls EXCEPT ![m] = end, ![next] = "sending"]
           /\ UNCHANGED lock
    <2>1. PICK next \in Queued \ {m} : calls' = [calls EXCEPT ![m] = end, ![next] = "sending"]
        BY <1>3
    <2>2. lock # "free"
        BY DEF LockInv
    <2>3. next \in Messages /\ next # m
        BY <2>1 DEF Queued
    <2>4. \A n \in Messages : calls'[n] = "sending" <=> n = next
        BY <2>1, <2>3 DEF LockInv
    <2>5. calls' \in [Messages -> CallStates]
        BY <2>1 DEF LockInv, CallStates, Underway
    <2> QED
        BY <1>3, <2>2, <2>4, <2>5 DEF LockInv
<1> QED
    BY <1>1, <1>2, <1>3 DEF Release

\* The server starts a call for a message it reads.
LEMMA TakeInv == ASSUME LockInv, Take PROVE LockInv'
<1>1. "invoked" \in CallStates \ {"sending"}
    BY DEF CallStates, Underway
<1>2. Goto(delivered[taken'], "invoked") /\ UNCHANGED lock
    BY DEF Take
<1> QED
    BY <1>1, <1>2, GotoInv

\* Each step of a call keeps the lock's promise.
LEMMA CallInv ==
    ASSUME LockInv, NEW m \in Messages, CallStep(m) \/ Sent(m)
    PROVE  LockInv'
<1> USE DEF CallStates, Underway
<1>1. CASE InvokeAsync(m)
    BY <1>1, GotoInv DEF InvokeAsync
<1>2. CASE SendMessageAsync(m)
    BY <1>2, GotoInv DEF SendMessageAsync
<1>3. CASE WaitAsync(m)
    <2>1. CASE lock = "free" /\ Goto(m, "sending") /\ lock' = "held"
        BY <2>1 DEF LockInv, Goto
    <2>2. CASE UNCHANGED lock /\ \E where \in {"failed", "cancelled", "queued"} : Goto(m, where)
        BY <2>2, GotoInv
    <2> QED
        BY <1>3, <2>1, <2>2 DEF WaitAsync
<1>4. CASE WaitCancelled(m)
    BY <1>4, GotoInv DEF WaitCancelled
<1>5. CASE SendFails(m)
    <2>1. calls[m] = "sending" /\ (Release(m, "failed") \/ Release(m, "cancelled"))
        BY <1>5 DEF SendFails
    <2> QED
        BY <2>1, ReleaseInv
<1>6. CASE Sent(m)
    BY <1>6, ReleaseInv DEF Sent
<1> QED
    BY <1>1, <1>2, <1>3, <1>4, <1>5, <1>6 DEF CallStep

\* No other step touches a call, and none but the disposal touches the lock.
LEMMA NextInv == LockInv /\ [Next]_vars => LockInv'
<1> SUFFICES ASSUME LockInv, [Next]_vars PROVE LockInv'
    OBVIOUS
<1>1. CASE UNCHANGED callVars
    BY <1>1 DEF LockInv, callVars
<1>2. CASE Disposed
    BY <1>2 DEF LockInv, Disposed
<1>3. CASE Take
    BY <1>3, TakeInv
<1>4. CASE \E m \in Messages : CallStep(m) \/ Sent(m)
    BY <1>4, CallInv
<1>5. CASE ClientSends \/ ClientLeaves \/ ConnectionBreaks
    BY <1>1, <1>5 DEF ClientSends, ClientLeaves, ConnectionBreaks
<1>6. CASE HandleWebSocketAsync \/ StopServer \/ ReceiveMessagesAsync
    BY <1>1, <1>6 DEF HandleWebSocketAsync, StopServer, ReceiveMessagesAsync
<1>7. CASE DisposeAsync \/ LoopAwaited \/ CloseAsync
    BY <1>1, <1>7 DEF DisposeAsync, LoopAwaited, CloseAsync
<1>8. CASE UNCHANGED vars
    BY <1>1, <1>8 DEF vars
<1> QED
    BY <1>2, <1>3, <1>4, <1>5, <1>6, <1>7, <1>8 DEF Next

(***************************************************************************)
(* SendMessageAsync never has two SendAsync on one socket, for any number  *)
(* of calls, whenever they are cancelled and the transport is disposed of. *)
(***************************************************************************)
THEOREM AnswersNeverOverlap == Spec => []OneSendAtATime
<1>1. Init => LockInv
    BY DEF Init, LockInv, CallStates
<1> QED
    BY <1>1, NextInv, LockInvSuffices, PTL DEF Spec

-----------------------------------------------------------------------------
\* The client and the connection.
LEMMA ClientKeepsType ==
    ASSUME TypeOK, ClientSends \/ ClientLeaves \/ ConnectionBreaks
    PROVE  TypeOK'
<1> USE SessionAssumption
<1>1. UNCHANGED <<phase, loopVars, taken, connected, shutdown, cancelled, callVars>>
    BY DEF ClientSends, ClientLeaves, ConnectionBreaks
<1>2. begun' \in 0 .. MaxMessages
    BY DEF ClientSends, BeginMessage, SendFrame, ClientLeaves, Leave, ConnectionBreaks,
           clientVars, TypeOK
<1>3. peer' \in {"open", "closed", "gone"} /\ socket' \in {"open", "aborted", socket}
    BY DEF ClientSends, BeginMessage, SendFrame, ClientLeaves, Leave, ConnectionBreaks,
           clientVars, TypeOK
<1> QED
    BY <1>1, <1>2, <1>3 DEF TypeOK, loopVars, callVars

\* The endpoint and the disposal.
LEMMA EndpointKeepsType ==
    ASSUME TypeOK, \/ HandleWebSocketAsync \/ StopServer
                   \/ DisposeAsync \/ LoopAwaited \/ CloseAsync \/ Disposed
    PROVE  TypeOK'
BY DEF HandleWebSocketAsync, StopServer, DisposeAsync, LoopAwaited, CloseAsync, Disposed,
       TypeOK, clientVars, loopVars, callVars

\* The receive loop delivers only messages that are not broken.
LEMMA LoopKeepsType ==
    ASSUME TypeOK, ReceiveMessagesAsync
    PROVE  TypeOK'
<1>1. UNCHANGED <<phase, peer, begun, taken, shutdown, cancelled, calls, lock>>
    BY DEF ReceiveMessagesAsync, callVars
<1>2. /\ loop' \in {"check", "receiving", "parsing", "ended"}
      /\ connected' \in BOOLEAN
      /\ socket' \in {"closeReceived", "aborted", socket}
    BY DEF ReceiveMessagesAsync, LoopCheck, Receive, ReceiveFails, Parse, LoopEnds, TypeOK
<1>3. \/ delivered' = delivered
      \/ \E m \in Messages \ Broken : delivered' = Append(delivered, m)
    BY DEF ReceiveMessagesAsync, LoopCheck, Receive, ReceiveFails, Parse
<1>4. delivered' \in Seq(Messages \ Broken) /\ Len(delivered) <= Len(delivered')
    BY <1>3 DEF TypeOK
<1>5. taken' \in 0 .. Len(delivered')
    BY <1>1, <1>4 DEF TypeOK
<1> QED
    BY <1>1, <1>2, <1>4, <1>5 DEF TypeOK

\* The server takes a message that has been delivered.
LEMMA TakeKeepsType == ASSUME TypeOK, LockInv', Take PROVE TypeOK'
<1>1. taken' \in 0 .. Len(delivered)
    BY DEF Take, TypeOK
<1> QED
    BY <1>1 DEF Take, TypeOK, LockInv, CallStates, clientVars, loopVars

\* A call.
LEMMA CallKeepsType ==
    ASSUME TypeOK, LockInv', NEW m \in Messages, CallStep(m) \/ Sent(m)
    PROVE  TypeOK'
<1>1. UNCHANGED <<phase, clientVars, loopVars, taken, connected, shutdown, cancelled>>
    BY DEF CallStep, Sent
<1>2. /\ lock' \in {"free", "held", lock}
      /\ socket' \in {"aborted", socket}
    BY DEF CallStep, Sent, InvokeAsync, SendMessageAsync, WaitAsync, WaitCancelled, SendFails,
           Release
<1> QED
    BY <1>1, <1>2 DEF TypeOK, LockInv, CallStates, clientVars, loopVars

(***************************************************************************)
(* Every variable of a session keeps to its type, and nothing but whole    *)
(* JSON-RPC messages is delivered to the server, for any number of         *)
(* messages in any number of frames.                                       *)
(***************************************************************************)
THEOREM TypeCorrect == Spec => []TypeOK
<1>1. Init => LockInv /\ TypeOK
    <2>1. <<>> \in Seq(Messages \ Broken) /\ Len(<<>>) = 0
        OBVIOUS
    <2>2. Init => LockInv
        BY DEF Init, LockInv, CallStates
    <2>3. Init => /\ begun \in 0 .. MaxMessages
                  /\ delivered \in Seq(Messages \ Broken)
                  /\ taken \in 0 .. Len(delivered)
        <3>1. 0 \in 0 .. MaxMessages
            BY SessionAssumption
        <3> QED
            BY <2>1, <3>1 DEF Init
    <2> QED
        BY <2>2, <2>3 DEF Init, LockInv, CallStates, TypeOK
<1>2. LockInv /\ TypeOK /\ [Next]_vars => LockInv' /\ TypeOK'
    <2> SUFFICES ASSUME LockInv, TypeOK, [Next]_vars PROVE LockInv' /\ TypeOK'
        OBVIOUS
    <2>1. LockInv'
        BY NextInv
    <2>2. CASE UNCHANGED vars
        BY <2>1, <2>2 DEF TypeOK, vars, clientVars, loopVars, callVars
    <2> QED
        BY <2>1, <2>2, ClientKeepsType, EndpointKeepsType, LoopKeepsType, TakeKeepsType,
           CallKeepsType DEF Next
<1> QED
    BY <1>1, <1>2, PTL DEF Spec

-----------------------------------------------------------------------------
\* The frames of messages, all but the close frame.
DataFrames == {f \in [message : Messages, k : Nat \ {0}] : f.k <= Fragments[f.message]}

\* The frame the client sends after f.
After(f) ==
    IF f.k < Fragments[f.message] THEN Frame(f.message, f.k + 1) ELSE Frame(f.message + 1, 1)

\* The next frame to be sent; what follows the i-th on the wire; the message
\* that the loop reads, or reads next.
NextSent == IF unsent = <<>> THEN Frame(begun + 1, 1) ELSE unsent[1]
Following(i) == IF i < Len(wire) /\ wire[i + 1] # Close THEN wire[i + 1] ELSE NextSent
Current == IF payload = <<>> THEN Following(0).message ELSE payload[1].message

\* The kinds of what is in the pipe.
PipeKinds ==
    /\ begun \in 0 .. MaxMessages
    /\ unsent \in Seq(DataFrames)
    /\ wire \in Seq(DataFrames \cup {Close})
    /\ payload \in Seq(DataFrames)

\* What is unsent is the end of the last message begun.
UnsentInv ==
    unsent # <<>> =>
        /\ begun \in Messages /\ Len(unsent) <= Fragments[begun]
        /\ \A i \in DOMAIN unsent : unsent[i] = Frame(begun, Fragments[begun] - Len(unsent) + i)

\* Frames follow each other on the wire, and nothing follows the close frame.
WireInv ==
    /\ \A i \in DOMAIN wire : wire[i] = Close => i = Len(wire) /\ peer # "open"
    /\ \A i \in DOMAIN wire : wire[i] # Close =>
          wire[i].message <= begun /\ After(wire[i]) = Following(i)
    /\ \A i, j \in DOMAIN wire : i < j /\ wire[j] # Close => wire[i].message <= wire[j].message

\* The stream holds the beginning of one message, and what is read next goes on
\* with it; a message that is complete is being parsed.
PayloadInv ==
    /\ payload = <<>> => Following(0).k = 1 /\ loop # "parsing"
    /\ payload # <<>> =>
        LET n == Len(payload)
            m == payload[1].message
        IN  /\ m \in Messages /\ n <= Fragments[m]
            /\ \A i \in DOMAIN payload : payload[i] = Frame(m, i)
            /\ After(payload[n]) = Following(0)
            /\ loop = "parsing" <=> n = Fragments[m]

\* Of each message that is not yet past the loop, something is still to come.
Covered ==
    \A m \in 1 .. begun : m >= Current =>
        \/ \E i \in DOMAIN wire : wire[i].message = m
        \/ unsent # <<>> /\ m = begun
        \/ loop = "parsing" /\ m = Current

\* The frames between the client and the parser, from end to end.
PipeInv == PipeKinds /\ UnsentInv /\ WireInv /\ PayloadInv /\ Covered

\* Numbers of messages and of frames.
LEMMA FragmentsAreNat ==
    ASSUME NEW m \in Messages
    PROVE  Fragments[m] \in Nat \ {0} /\ m \in Nat /\ m >= 1 /\ m <= MaxMessages
  BY SessionAssumption DEF Messages

\* What a frame of a message is.
LEMMA DataFrameKinds ==
    ASSUME NEW f \in DataFrames
    PROVE  /\ f.message \in Messages /\ f.k \in Nat \ {0} /\ f.k <= Fragments[f.message]
           /\ f = Frame(f.message, f.k) /\ f # Close /\ f.message \in Nat /\ f.message >= 1
<1>1. f.message \in Messages /\ f.k \in Nat \ {0} /\ f.k <= Fragments[f.message]
      /\ f = Frame(f.message, f.k)
  BY DEF DataFrames, Frame
<1>2. f.message \in Nat /\ f.message >= 1
  BY <1>1, FragmentsAreNat
<1>3. Close.message = 0
  BY DEF Close, Frame
<1> QED
  BY <1>1, <1>2, <1>3

\* What may be on the wire.
LEMMA WireKinds ==
    ASSUME PipeKinds, NEW i \in DOMAIN wire
    PROVE  /\ Len(wire) \in Nat /\ DOMAIN wire = 1 .. Len(wire)
           /\ i \in Nat /\ 1 <= i /\ i <= Len(wire)
           /\ wire[i] \in DataFrames \/ (wire[i] = Close /\ wire[i].message = 0)
           /\ wire[i].message \in Nat /\ (wire[i].message = 0 <=> wire[i] = Close)
<1>1. Len(wire) \in Nat /\ DOMAIN wire = 1 .. Len(wire) /\ wire[i] \in DataFrames \cup {Close}
      /\ i \in Nat /\ 1 <= i /\ i <= Len(wire)
  BY DEF PipeKinds
<1>2. Close.message = 0
  BY DEF Close, Frame
<1>3. CASE wire[i] \in DataFrames
  BY <1>1, <1>2, <1>3, DataFrameKinds
<1>4. CASE wire[i] = Close
  BY <1>1, <1>2, <1>4
<1> QED
  BY <1>1, <1>3, <1>4

\* What is left when a sequence loses its first element.
LEMMA TailFacts ==
    ASSUME NEW S, NEW s \in Seq(S), s # <<>>
    PROVE  /\ Len(s) \in Nat \ {0} /\ Len(Tail(s)) = Len(s) - 1 /\ Tail(s) \in Seq(S)
           /\ DOMAIN s = 1 .. Len(s) /\ DOMAIN Tail(s) = 1 .. Len(s) - 1
           /\ Tail(s) = <<>> <=> Len(s) = 1
           /\ \A i \in 1 .. Len(s) - 1 : Tail(s)[i] = s[i + 1]
           /\ s[1] \in S
<1>1. Len(s) \in Nat \ {0} /\ DOMAIN s = 1 .. Len(s) /\ s[1] \in S
  OBVIOUS
<1>2. Tail(s) \in Seq(S) /\ Len(Tail(s)) = Len(s) - 1
  OBVIOUS
<1>3. \A i \in 1 .. Len(s) - 1 : Tail(s)[i] = s[i + 1]
  OBVIOUS
<1>4. DOMAIN Tail(s) = 1 .. Len(s) - 1
  BY <1>2
<1>5. Tail(s) = <<>> <=> Len(s) = 1
  <2>1. \A t \in Seq(S) : t = <<>> <=> Len(t) = 0
    OBVIOUS
  <2>2. Tail(s) = <<>> <=> Len(Tail(s)) = 0
    BY <1>2, <2>1
  <2>3. Len(s) - 1 = 0 <=> Len(s) = 1
    BY <1>1
  <2> QED
    BY <1>2, <2>2, <2>3
<1> QED
  BY <1>1, <1>2, <1>3, <1>4, <1>5

\* Nothing is in the pipe at first.
LEMMA PipeInit == Init => PipeInv
<1> SUFFICES ASSUME Init PROVE PipeInv
  OBVIOUS
<1>1. unsent = <<>> /\ wire = <<>> /\ payload = <<>> /\ begun = 0 /\ loop = "check"
  BY DEF Init
<1>2. Following(0) = Frame(1, 1)
  BY <1>1 DEF Following, NextSent
<1>3. PipeKinds
  BY <1>1, SessionAssumption DEF PipeKinds
<1> QED
  BY <1>1, <1>2, <1>3 DEF PipeInv, UnsentInv, WireInv, PayloadInv, Covered, Frame

\* The next frame a client has is one of the last message it has begun.
LEMMA NextSentKinds ==
    ASSUME PipeKinds, UnsentInv
    PROVE  /\ unsent # <<>> => /\ begun \in Messages /\ NextSent.message = begun
                               /\ NextSent \in DataFrames /\ NextSent # Close
           /\ unsent = <<>> => NextSent.message = begun + 1 /\ NextSent.k = 1
           /\ NextSent.message \in Nat /\ begun \in Nat /\ NextSent.message >= begun
<1>1. begun \in Nat
  BY SessionAssumption DEF PipeKinds
<1>2. CASE unsent = <<>>
  BY <1>1, <1>2 DEF NextSent, Frame
<1>3. CASE unsent # <<>>
  <2>1. 1 \in DOMAIN unsent /\ unsent[1] \in DataFrames
    BY <1>3 DEF PipeKinds
  <2>2. begun \in Messages /\ unsent[1].message = begun
    BY <1>3, <2>1 DEF UnsentInv, Frame
  <2>3. NextSent = unsent[1]
    BY <1>3 DEF NextSent
  <2> QED
    BY <1>1, <1>3, <2>1, <2>2, <2>3, DataFrameKinds
<1> QED
  BY <1>2, <1>3

\* A message is begun: its first frame was the next already.
LEMMA BeginKeepsPipe ==
    ASSUME PipeInv, BeginMessage, UNCHANGED loopVars
    PROVE  PipeInv' /\ Current' = Current
<1>1. /\ begun' = begun + 1 /\ begun' \in Messages /\ begun \in Nat /\ unsent = <<>>
      /\ unsent' = Frames(begun') /\ UNCHANGED <<peer, wire, loop, payload>>
  BY SessionAssumption DEF BeginMessage, PipeInv, PipeKinds, loopVars, Messages
<1>2. /\ Len(unsent') = Fragments[begun'] /\ DOMAIN unsent' = 1 .. Fragments[begun']
      /\ \A k \in 1 .. Fragments[begun'] : unsent'[k] = Frame(begun', k)
      /\ Fragments[begun'] \in Nat \ {0}
  BY <1>1, FragmentsAreNat DEF Frames
<1>3. unsent' \in Seq(DataFrames) /\ unsent' # <<>>
  <2>1. \A k \in 1 .. Fragments[begun'] : Frame(begun', k) \in DataFrames
    BY <1>1, <1>2 DEF DataFrames, Frame
  <2>2. unsent' \in [1 .. Fragments[begun'] -> DataFrames]
    BY <1>1, <2>1 DEF Frames
  <2> QED
    BY <1>2, <2>2
<1>4. NextSent' = NextSent
  BY <1>1, <1>2, <1>3 DEF NextSent
<1>5. \A i \in Nat : Following(i)' = Following(i)
  BY <1>1, <1>4 DEF Following
<1>6. Current' = Current
  BY <1>1, <1>5 DEF Current
<1>7. PipeKinds' /\ UnsentInv'
  BY <1>1, <1>2, <1>3, SessionAssumption DEF PipeInv, PipeKinds, UnsentInv, Messages
<1>8. WireInv'
  <2>1. \A i \in DOMAIN wire : i \in Nat /\ wire[i].message \in Nat
    BY WireKinds DEF PipeInv
  <2>2. \A i \in DOMAIN wire : wire'[i] # Close => wire'[i].message <= begun'
    BY <1>1, <2>1 DEF PipeInv, WireInv
  <2>3. \A f : After(f)' = After(f)
    BY DEF After
  <2> QED
    BY <1>1, <1>5, <2>1, <2>2 DEF PipeInv, WireInv, After
<1>9. PayloadInv'
  BY <1>1, <1>5 DEF PipeInv, PayloadInv, After
<1>10. Covered'
  <2>1. ASSUME NEW m \in 1 .. begun', m >= Current
        PROVE  \/ \E i \in DOMAIN wire : wire[i].message = m
               \/ m = begun'
               \/ loop = "parsing" /\ m = Current
    BY <1>1, <2>1 DEF PipeInv, Covered
  <2> QED
    BY <1>1, <1>3, <1>6, <2>1 DEF Covered
<1> QED
  BY <1>6, <1>7, <1>8, <1>9, <1>10 DEF PipeInv

\* A frame goes out: the next to be sent follows it.
LEMMA SendKeepsPipe ==
    ASSUME PipeInv, SendFrame, UNCHANGED loopVars
    PROVE  PipeInv' /\ Current' = Current
<1> DEFINE f == unsent[1]
           u == Len(unsent)
<1>0. PICK w : w = Len(wire)
  OBVIOUS
<1>1. /\ unsent # <<>> /\ u \in Nat \ {0} /\ DOMAIN unsent = 1 .. u /\ f = NextSent
      /\ f \in DataFrames /\ f # Close /\ peer = "open"
      /\ UNCHANGED <<peer, begun, loop, payload>>
      /\ wire' = Append(wire, f) /\ unsent' = Tail(unsent)
  BY NextSentKinds DEF SendFrame, PipeInv, PipeKinds, NextSent, loopVars
<1>2. /\ begun \in Messages /\ begun \in Nat /\ Fragments[begun] \in Nat \ {0}
      /\ u <= Fragments[begun]
      /\ \A i \in 1 .. u : unsent[i] = Frame(begun, Fragments[begun] - u + i)
      /\ f = Frame(begun, Fragments[begun] - u + 1) /\ f.message = begun
  <2>1. begun \in Messages /\ u <= Fragments[begun]
        /\ \A i \in 1 .. u : unsent[i] = Frame(begun, Fragments[begun] - u + i)
    BY <1>1 DEF PipeInv, UnsentInv
  <2>2. f = Frame(begun, Fragments[begun] - u + 1)
    BY <1>1, <2>1
  <2> QED
    BY <2>1, <2>2, FragmentsAreNat DEF Frame
<1>3. /\ Len(unsent') = u - 1 /\ DOMAIN unsent' = 1 .. u - 1
      /\ unsent' \in Seq(DataFrames) /\ (unsent' = <<>> <=> u = 1)
      /\ \A i \in 1 .. u - 1 : unsent'[i] = unsent[i + 1]
  <2>1. unsent \in Seq(DataFrames)
    BY DEF PipeInv, PipeKinds
  <2> QED
    BY <1>1, <2>1, TailFacts
<1>4. /\ w \in Nat /\ DOMAIN wire = 1 .. w /\ Len(wire') = w + 1 /\ DOMAIN wire' = 1 .. w + 1
      /\ wire' \in Seq(DataFrames \cup {Close}) /\ wire'[w + 1] = f
      /\ \A i \in 1 .. w : wire'[i] = wire[i] /\ wire[i] # Close
  BY <1>0, <1>1 DEF PipeInv, PipeKinds, WireInv
<1> HIDE DEF f, u
<1>5. NextSent' = After(f)
  <2>1. CASE u = 1
    <3>1. NextSent' = Frame(begun + 1, 1)
      BY <1>1, <1>3, <2>1 DEF NextSent
    <3>2. f.k = Fragments[f.message] /\ f.message = begun
      BY <1>2, <2>1 DEF Frame
    <3> QED
      BY <1>2, <3>1, <3>2 DEF After
  <2>2. CASE u # 1
    <3>1. NextSent' = unsent[2] /\ 2 \in 1 .. u
      BY <1>1, <1>3, <2>2 DEF NextSent
    <3>2. unsent[2] = Frame(begun, Fragments[begun] - u + 2)
      BY <1>2, <3>1
    <3>3. f.message = begun /\ f.k = Fragments[begun] - u + 1 /\ f.k < Fragments[begun]
          /\ f.k + 1 = Fragments[begun] - u + 2
      BY <1>1, <1>2, <2>2 DEF Frame
    <3> QED
      BY <3>1, <3>2, <3>3 DEF After
  <2> QED
    BY <2>1, <2>2
<1>6. /\ \A i \in 0 .. w : Following(i)' = Following(i)
      /\ Following(w + 1)' = After(f)
  <2>1. ASSUME NEW i \in 0 .. w PROVE Following(i)' = Following(i)
    <3>1. CASE i < w
      <4>1. i + 1 \in 1 .. w /\ i < w + 1
        BY <1>4, <3>1
      <4> QED
        BY <1>0, <1>4, <3>1, <4>1 DEF Following
    <3>2. CASE i = w
      <4>1. Following(i) = NextSent
        BY <1>0, <1>4, <3>2 DEF Following
      <4>2. Following(i)' = f
        BY <1>1, <1>4, <3>2 DEF Following
      <4> QED
        BY <1>1, <4>1, <4>2
    <3> QED
      BY <1>4, <3>1, <3>2
  <2>2. Following(w + 1)' = NextSent'
    <3>1. ~(w + 1 < Len(wire'))
      BY <1>4
    <3> QED
      BY <3>1 DEF Following
  <2> QED
    BY <1>5, <2>1, <2>2
<1>7. Following(0)' = Following(0) /\ Current' = Current
  <2>1. Following(0)' = Following(0)
    BY <1>4, <1>6
  <2> QED
    BY <1>1, <2>1 DEF Current
<1>8. PipeKinds' /\ UnsentInv'
  <2>1. PipeKinds'
    BY <1>1, <1>3, <1>4 DEF PipeInv, PipeKinds
  <2>2. ASSUME NEW i \in 1 .. u - 1
        PROVE  unsent'[i] = Frame(begun, Fragments[begun] - (u - 1) + i)
    <3>1. \A n \in Nat : i + 1 \in 1 .. u /\ n - (u - 1) + i = n - u + (i + 1)
      BY <1>1
    <3> QED
      BY <1>2, <1>3, <3>1
  <2>3. u - 1 <= Fragments[begun]
    BY <1>1, <1>2
  <2> QED
    BY <1>1, <1>2, <1>3, <2>1, <2>2, <2>3 DEF UnsentInv
<1>9. WireInv'
  <2>1. ASSUME NEW i \in 1 .. w + 1
        PROVE  wire'[i] # Close /\ wire'[i].message <= begun /\ After(wire'[i]) = Following(i)'
    <3>1. CASE i \in 1 .. w
      <4>1. wire[i].message <= begun /\ After(wire[i]) = Following(i)
        BY <1>4, <3>1 DEF PipeInv, WireInv
      <4>2. Following(i)' = Following(i)
        BY <1>4, <1>6, <3>1
      <4> QED
        BY <1>4, <3>1, <4>1, <4>2
    <3>2. CASE i = w + 1
      <4>1. wire'[i] = f /\ Following(i)' = After(f)
        BY <1>4, <1>6, <3>2
      <4>2. f # Close /\ f.message <= begun
        BY <1>1, <1>2
      <4>3. After(wire'[i]) = After(f)
        BY <4>1
      <4> QED
        BY <4>1, <4>2, <4>3
    <3> QED
      BY <1>4, <3>1, <3>2
  <2>2. ASSUME NEW i \in 1 .. w + 1, NEW j \in 1 .. w + 1, i < j
        PROVE  wire'[i].message <= wire'[j].message
    <3>1. i \in 1 .. w
      BY <1>4, <2>2
    <3>2. CASE j \in 1 .. w
      BY <1>4, <2>2, <3>1, <3>2 DEF PipeInv, WireInv
    <3>3. CASE j = w + 1
      BY <1>2, <1>4, <2>1, <3>1, <3>3
    <3> QED
      BY <1>4, <3>2, <3>3
  <2> QED
    BY <1>1, <1>4, <2>1, <2>2 DEF WireInv, After
<1>10. PayloadInv'
  BY <1>1, <1>7 DEF PipeInv, PayloadInv, After
<1>11. Covered'
  <2> SUFFICES ASSUME NEW m \in 1 .. begun, m >= Current
               PROVE  \/ \E i \in DOMAIN wire' : wire'[i].message = m
                      \/ unsent' # <<>> /\ m = begun
                      \/ loop = "parsing" /\ m = Current
    BY <1>1, <1>7 DEF Covered
  <2>1. CASE \E i \in DOMAIN wire : wire[i].message = m
    BY <1>4, <2>1
  <2>2. CASE m = begun
    <3>1. w + 1 \in DOMAIN wire' /\ wire'[w + 1].message = m
      BY <1>2, <1>4, <2>2
    <3> QED
      BY <3>1
  <2>3. \/ \E i \in DOMAIN wire : wire[i].message = m
        \/ m = begun
        \/ loop = "parsing" /\ m = Current
    BY DEF PipeInv, Covered
  <2> QED
    BY <2>1, <2>2, <2>3
<1> QED
  BY <1>7, <1>8, <1>9, <1>10, <1>11 DEF PipeInv

\* The close frame comes last, or the client vanishes.
LEMMA LeaveKeepsPipe ==
    ASSUME PipeInv, Leave, UNCHANGED loopVars
    PROVE  PipeInv' /\ Current' = Current
<1> DEFINE w == Len(wire)
<1>1. /\ UNCHANGED <<begun, unsent, loop, payload>> /\ peer = "open" /\ peer' # "open"
      /\ wire' = wire \/ wire' = Append(wire, Close)
  BY DEF Leave, loopVars
<1>2. /\ w \in Nat /\ DOMAIN wire = 1 .. w /\ wire \in Seq(DataFrames \cup {Close})
      /\ \A i \in 1 .. w : wire[i] # Close
  BY <1>1 DEF PipeInv, PipeKinds, WireInv
<1>3. NextSent' = NextSent
  BY <1>1 DEF NextSent
<1>4. CASE wire' = wire
  <2>1. \A i \in Nat : Following(i)' = Following(i)
    BY <1>3, <1>4 DEF Following
  <2>2. Current' = Current
    BY <1>1, <2>1 DEF Current
  <2>3. WireInv'
    BY <1>1, <1>2, <1>4, <2>1 DEF PipeInv, WireInv, After
  <2> QED
    BY <1>1, <1>4, <2>1, <2>2, <2>3
       DEF PipeInv, PipeKinds, UnsentInv, PayloadInv, Covered, After
<1>5. CASE wire' = Append(wire, Close)
  <2>1. /\ Len(wire') = w + 1 /\ DOMAIN wire' = 1 .. w + 1 /\ wire'[w + 1] = Close
        /\ wire' \in Seq(DataFrames \cup {Close})
        /\ \A i \in 1 .. w : wire'[i] = wire[i]
    BY <1>2, <1>5
  <2> HIDE DEF w
  <2>2. ASSUME NEW i \in 0 .. w PROVE Following(i)' = Following(i)
    <3>1. CASE i < w
      <4>1. i + 1 \in 1 .. w /\ i < w + 1
        BY <1>2, <3>1
      <4> QED
        BY <1>2, <2>1, <3>1, <4>1 DEF Following, w
    <3>2. CASE i = w
      <4>1. Following(i) = NextSent
        BY <1>2, <3>2 DEF Following, w
      <4>2. Following(i)' = NextSent'
        BY <2>1, <3>2 DEF Following
      <4> QED
        BY <1>3, <4>1, <4>2
    <3> QED
      BY <1>2, <3>1, <3>2
  <2>3. Following(0)' = Following(0) /\ Current' = Current
    <3>1. Following(0)' = Following(0)
      BY <1>2, <2>2
    <3> QED
      BY <1>1, <3>1 DEF Current
  <2>4. WireInv'
    <3>1. ASSUME NEW i \in 1 .. w + 1
          PROVE  wire'[i] = Close => i = w + 1
      BY <1>2, <2>1
    <3>2. ASSUME NEW i \in 1 .. w + 1, wire'[i] # Close
          PROVE  i \in 1 .. w /\ wire'[i].message <= begun /\ After(wire'[i]) = Following(i)'
      <4>1. i \in 1 .. w
        BY <1>2, <2>1, <3>2
      <4>2. wire[i].message <= begun /\ After(wire[i]) = Following(i)
        BY <1>2, <4>1 DEF PipeInv, WireInv
      <4>3. Following(i)' = Following(i)
        BY <1>2, <2>2, <4>1
      <4> QED
        BY <2>1, <4>1, <4>2, <4>3
    <3>3. ASSUME NEW i \in 1 .. w + 1, NEW j \in 1 .. w + 1, i < j, wire'[j] # Close
          PROVE  wire'[i].message <= wire'[j].message
      <4>1. j \in 1 .. w
        BY <3>2, <3>3
      <4>2. i \in 1 .. w
        BY <1>2, <3>3, <4>1
      <4> QED
        BY <1>2, <2>1, <3>3, <4>1, <4>2 DEF PipeInv, WireInv
    <3> QED
      BY <1>1, <2>1, <3>1, <3>2, <3>3 DEF WireInv, After
  <2>5. PipeKinds' /\ UnsentInv' /\ PayloadInv'
    BY <1>1, <2>1, <2>3 DEF PipeInv, PipeKinds, UnsentInv, PayloadInv, After
  <2>6. Covered'
    <3>1. ASSUME NEW m \in 1 .. begun, m >= Current
          PROVE  \/ \E i \in 1 .. w : wire[i].message = m
                 \/ unsent # <<>> /\ m = begun
                 \/ loop = "parsing" /\ m = Current
      <4>1. \/ \E i \in DOMAIN wire : wire[i].message = m
            \/ unsent # <<>> /\ m = begun
            \/ loop = "parsing" /\ m = Current
        BY <3>1 DEF PipeInv, Covered
      <4> QED
        BY <1>2, <4>1
    <3>2. \A m : (\E i \in 1 .. w : wire[i].message = m) => \E i \in DOMAIN wire' : wire'[i].message = m
      BY <1>2, <2>1
    <3> QED
      BY <1>1, <2>3, <3>1, <3>2 DEF Covered
  <2> QED
    BY <2>3, <2>4, <2>5, <2>6 DEF PipeInv
<1> QED
  BY <1>1, <1>4, <1>5

\* What the next frame to be read can be.
LEMMA FollowingKinds ==
    ASSUME PipeInv
    PROVE  /\ Following(0).message \in Nat \ {0} /\ Following(0).message <= begun + 1
           /\ unsent # <<>> \/ Following(0).k # 1 => Following(0).message <= begun
           /\ begun \in Nat
<1>1. begun \in Nat
  BY NextSentKinds DEF PipeInv
<1>2. CASE wire # <<>> /\ wire[1] # Close
  <2>1. 1 \in DOMAIN wire /\ 0 < Len(wire)
    BY <1>2 DEF PipeInv, PipeKinds
  <2>2. Following(0) = wire[1]
    BY <1>2, <2>1 DEF Following
  <2>3. wire[1].message \in Nat \ {0} /\ wire[1].message <= begun
    BY <1>2, <2>1, WireKinds DEF PipeInv, WireInv
  <2> QED
    BY <1>1, <2>2, <2>3
<1>3. CASE ~(wire # <<>> /\ wire[1] # Close)
  <2>1. Following(0) = NextSent
    BY <1>3 DEF Following, PipeInv, PipeKinds
  <2>2. begun \in Messages => begun >= 1
    BY DEF Messages
  <2> QED
    BY <1>1, <2>1, <2>2, NextSentKinds DEF PipeInv
<1> QED
  BY <1>2, <1>3

\* The payload holds the beginning of the message that is read.
LEMMA PayloadKinds ==
    ASSUME PipeInv, payload # <<>>
    PROVE  LET n == Len(payload)
           IN  /\ n \in Nat \ {0} /\ DOMAIN payload = 1 .. n
               /\ Current \in Messages /\ Current \in Nat \ {0} /\ Fragments[Current] \in Nat \ {0}
               /\ n <= Fragments[Current] /\ (loop = "parsing" <=> n = Fragments[Current])
               /\ \A i \in 1 .. n : payload[i] = Frame(Current, i)
               /\ n < Fragments[Current] => Following(0) = Frame(Current, n + 1)
               /\ n = Fragments[Current] => Following(0) = Frame(Current + 1, 1)
<1>0. PICK n : n = Len(payload)
  OBVIOUS
<1>1. n \in Nat \ {0} /\ DOMAIN payload = 1 .. n
  BY <1>0 DEF PipeInv, PipeKinds
<1>2. Current = payload[1].message
  BY DEF Current
<1>3. /\ Current \in Messages /\ n <= Fragments[Current]
      /\ \A i \in 1 .. n : payload[i] = Frame(Current, i)
      /\ After(payload[n]) = Following(0)
      /\ loop = "parsing" <=> n = Fragments[Current]
  BY <1>0, <1>1, <1>2 DEF PipeInv, PayloadInv
<1>4. Fragments[Current] \in Nat \ {0} /\ Current \in Nat \ {0}
  BY <1>3, FragmentsAreNat
<1>5. payload[n].message = Current /\ payload[n].k = n
  BY <1>1, <1>3 DEF Frame
<1>6. /\ n < Fragments[Current] => Following(0) = Frame(Current, n + 1)
      /\ n = Fragments[Current] => Following(0) = Frame(Current + 1, 1)
  BY <1>1, <1>3, <1>4, <1>5 DEF After
<1> QED
  BY <1>0, <1>1, <1>3, <1>4, <1>6

\* The message that is read has been begun, or is the next to be.
LEMMA CurrentKinds ==
    ASSUME PipeInv
    PROVE  /\ Current \in Nat \ {0} /\ Current <= begun + 1 /\ begun \in Nat
           /\ Current <= Following(0).message /\ Following(0).message \in Nat
           /\ unsent # <<>> \/ payload # <<>> => Current <= begun
<1>1. CASE payload = <<>>
  BY <1>1, FollowingKinds DEF Current
<1>2. CASE payload # <<>>
  <2>0. PICK n : n = Len(payload)
    OBVIOUS
  <2>1. /\ n \in Nat \ {0} /\ Current \in Nat \ {0} /\ Fragments[Current] \in Nat \ {0}
        /\ n <= Fragments[Current]
        /\ n < Fragments[Current] => Following(0) = Frame(Current, n + 1)
        /\ n = Fragments[Current] => Following(0) = Frame(Current + 1, 1)
    BY <1>2, <2>0, PayloadKinds
  <2>2. \/ Following(0).message = Current /\ Following(0).k # 1
        \/ Following(0).message = Current + 1
    <3>1. CASE n < Fragments[Current]
      <4>1. Following(0).message = Current /\ Following(0).k = n + 1
        BY <2>1, <3>1 DEF Frame
      <4> QED
        BY <2>1, <4>1
    <3>2. CASE n = Fragments[Current]
      BY <2>1, <3>2 DEF Frame
    <3> QED
      BY <2>1, <3>1, <3>2
  <2> QED
    BY <2>1, <2>2, FollowingKinds
<1> QED
  BY <1>1, <1>2

\* A step that leaves the frames alone, and does not end or begin a parse.
LEMMA OthersKeepPipe ==
    ASSUME PipeInv, UNCHANGED <<clientVars, payload>>, loop = "parsing" <=> loop' = "parsing"
    PROVE  PipeInv' /\ Current' = Current
<1>1. UNCHANGED <<peer, begun, unsent, wire, payload>>
  BY DEF clientVars
<1>2. \A i : Following(i)' = Following(i)
  BY <1>1 DEF Following, NextSent
<1>3. Current' = Current
  BY <1>1, <1>2 DEF Current
<1>4. PipeKinds' /\ UnsentInv' /\ WireInv' /\ PayloadInv'
  BY <1>1, <1>2 DEF PipeInv, PipeKinds, UnsentInv, WireInv, PayloadInv, After
<1>5. Covered'
  BY <1>1, <1>3 DEF PipeInv, Covered
<1> QED
  BY <1>3, <1>4, <1>5 DEF PipeInv

\* A message is parsed: the next to be read is the one after it.
LEMMA ParseKeepsPipe ==
    ASSUME PipeInv, Parse, UNCHANGED <<peer, begun, unsent>>
    PROVE  PipeInv' /\ Current' = Current + 1 /\ payload = Frames(Current) /\ Current \in Messages
<1>1. /\ loop = "parsing" /\ loop' # "parsing" /\ payload' = <<>> /\ payload # <<>>
      /\ UNCHANGED <<peer, begun, unsent, wire>>
  BY DEF Parse, LoopEnds, PipeInv, PayloadInv
<1>2. /\ Len(payload) = Fragments[Current] /\ DOMAIN payload = 1 .. Fragments[Current]
      /\ \A i \in 1 .. Fragments[Current] : payload[i] = Frame(Current, i)
      /\ Following(0) = Frame(Current + 1, 1) /\ Current \in Messages /\ Current \in Nat
  BY <1>1, PayloadKinds
<1>3. payload = Frames(Current)
  <2>1. payload = [i \in 1 .. Fragments[Current] |-> payload[i]]
    BY <1>2 DEF PipeInv, PipeKinds
  <2> QED
    BY <1>2, <2>1 DEF Frames
<1>4. \A i : Following(i)' = Following(i)
  BY <1>1 DEF Following, NextSent
<1>5. Current' = Current + 1 /\ Following(0)'.k = 1
  BY <1>1, <1>2, <1>4 DEF Current, Frame
<1>6. PipeKinds' /\ UnsentInv'
  BY <1>1 DEF PipeInv, PipeKinds, UnsentInv
<1>7. WireInv'
  BY <1>1, <1>4 DEF PipeInv, WireInv, After
<1>8. PayloadInv'
  BY <1>1, <1>5 DEF PayloadInv
<1>9. Covered'
  <2> SUFFICES ASSUME NEW m \in 1 .. begun, m >= Current + 1
               PROVE  \/ \E i \in DOMAIN wire : wire[i].message = m
                      \/ unsent # <<>> /\ m = begun
    BY <1>1, <1>5 DEF Covered
  <2>1. m >= Current /\ m # Current
    BY <1>2
  <2> QED
    BY <2>1 DEF PipeInv, Covered
<1> QED
  BY <1>2, <1>3, <1>5, <1>6, <1>7, <1>8, <1>9 DEF PipeInv

\* The close frame comes: it was the last.
LEMMA CloseKeepsPipe ==
    ASSUME PipeInv, Receive, Head(wire) = Close, UNCHANGED <<peer, begun, unsent>>
    PROVE  PipeInv' /\ Current' = Current
<1>1. /\ loop = "receiving" /\ loop' = "ended" /\ wire # <<>> /\ wire' = Tail(wire)
      /\ UNCHANGED <<peer, begun, unsent, payload>>
  BY DEF Receive, LoopEnds
<1>2. wire[1] = Close /\ 1 \in DOMAIN wire /\ wire \in Seq(DataFrames \cup {Close})
  BY <1>1 DEF PipeInv, PipeKinds
<1>3. Len(wire) = 1
  BY <1>2 DEF PipeInv, WireInv
<1>4. wire' = <<>>
  BY <1>1, <1>2, <1>3
<1>5. Following(0)' = NextSent' /\ NextSent' = NextSent /\ Following(0) = NextSent
  <2>1. ~(0 < Len(wire')) /\ ~(0 < Len(wire) /\ wire[0 + 1] # Close)
    BY <1>2, <1>4
  <2>2. NextSent' = NextSent
    BY <1>1 DEF NextSent
  <2> QED
    BY <2>1, <2>2 DEF Following
<1>6. Current' = Current /\ Following(0)' = Following(0)
  BY <1>1, <1>5 DEF Current
<1>7. PipeKinds' /\ UnsentInv' /\ WireInv' /\ PayloadInv'
  <2>1. PipeKinds' /\ UnsentInv'
    BY <1>1, <1>4 DEF PipeInv, PipeKinds, UnsentInv
  <2>2. WireInv'
    BY <1>4 DEF WireInv
  <2>3. PayloadInv'
    BY <1>1, <1>6 DEF PipeInv, PayloadInv, After
  <2> QED
    BY <2>1, <2>2, <2>3
<1>8. Covered'
  <2> SUFFICES ASSUME NEW m \in 1 .. begun, m >= Current
               PROVE  unsent # <<>> /\ m = begun
    BY <1>1, <1>6 DEF Covered
  <2>1. \A i \in DOMAIN wire : wire[i].message # m
    <3>1. \A i \in DOMAIN wire : i = 1
      BY <1>2, <1>3
    <3> QED
      BY <1>2, <3>1, WireKinds DEF PipeInv
  <2> QED
    BY <1>1, <2>1 DEF PipeInv, Covered
<1> QED
  BY <1>6, <1>7, <1>8 DEF PipeInv

\* A frame of the message that is read comes.
LEMMA DataKeepsPipe ==
    ASSUME PipeInv, Receive, Head(wire) # Close, UNCHANGED <<peer, begun, unsent>>
    PROVE  PipeInv' /\ Current' = Current
<1> DEFINE f == wire[1]
<1>0. PICK n, w : n = Len(payload) /\ w = Len(wire)
  OBVIOUS
<1>1. /\ loop = "receiving" /\ wire # <<>> /\ wire' = Tail(wire) /\ f # Close
      /\ payload' = Append(payload, f)
      /\ loop' = IF f.k = Fragments[f.message] THEN "parsing" ELSE "check"
      /\ UNCHANGED <<peer, begun, unsent>>
  BY DEF Receive, PipeInv, PipeKinds
<1>2. /\ w \in Nat \ {0} /\ DOMAIN wire = 1 .. w /\ Len(wire') = w - 1 /\ DOMAIN wire' = 1 .. w - 1
      /\ wire' \in Seq(DataFrames \cup {Close}) /\ \A i \in 1 .. w - 1 : wire'[i] = wire[i + 1]
      /\ f \in DataFrames /\ 1 \in DOMAIN wire
  <2>1. wire \in Seq(DataFrames \cup {Close})
    BY DEF PipeInv, PipeKinds
  <2> QED
    BY <1>0, <1>1, <2>1, TailFacts
<1>3. /\ n \in Nat /\ DOMAIN payload = 1 .. n /\ payload' \in Seq(DataFrames)
      /\ Len(payload') = n + 1 /\ DOMAIN payload' = 1 .. n + 1
      /\ payload'[n + 1] = f /\ \A i \in 1 .. n : payload'[i] = payload[i]
      /\ payload' # <<>> /\ (payload = <<>> <=> n = 0)
  <2>1. payload \in Seq(DataFrames)
    BY DEF PipeInv, PipeKinds
  <2> QED
    BY <1>0, <1>1, <1>2, <2>1
<1> HIDE DEF f
<1>4. Following(0) = f
  BY <1>0, <1>1, <1>2 DEF Following, f
<1>5. NextSent' = NextSent
  BY <1>1 DEF NextSent
<1>6. ASSUME NEW i \in 0 .. w - 1 PROVE Following(i)' = Following(i + 1)
  <2>1. CASE i < w - 1
    <3>1. i + 1 \in 1 .. w - 1 /\ i + 1 < w /\ wire'[i + 1] = wire[(i + 1) + 1]
      BY <1>2, <2>1
    <3> QED
      BY <1>0, <1>2, <1>5, <2>1, <3>1 DEF Following
  <2>2. CASE i = w - 1
    <3>1. ~(i < w - 1) /\ ~(i + 1 < w)
      BY <1>2, <2>2
    <3>2. Following(i)' = NextSent'
      BY <1>2, <3>1 DEF Following
    <3>3. Following(i + 1) = NextSent
      BY <1>0, <3>1 DEF Following
    <3> QED
      BY <1>5, <3>2, <3>3
  <2> QED
    BY <1>2, <2>1, <2>2
<1>7. After(f) = Following(1) /\ Following(1) = Following(0)'
  <2>1. After(f) = Following(1)
    BY <1>1, <1>2 DEF PipeInv, WireInv, f
  <2>2. 0 \in 0 .. w - 1 /\ 0 + 1 = 1
    BY <1>2
  <2> QED
    BY <1>6, <2>1, <2>2
\* It is the next of that message.
<1>8. /\ f = Frame(Current, n + 1) /\ Current \in Messages /\ Current \in Nat
      /\ Fragments[Current] \in Nat \ {0} /\ n + 1 <= Fragments[Current]
      /\ \A i \in 1 .. n : payload[i] = Frame(Current, i)
      /\ f.message = Current /\ f.k = n + 1
  <2>1. CASE n = 0
    <3>1. Current = f.message /\ f.k = 1
      BY <1>3, <1>4, <2>1 DEF Current, PipeInv, PayloadInv
    <3> QED
      BY <1>2, <1>3, <2>1, <3>1, DataFrameKinds, FragmentsAreNat
  <2>2. CASE n # 0
    <3>1. /\ n \in Nat \ {0} /\ Current \in Messages /\ Current \in Nat
          /\ Fragments[Current] \in Nat \ {0}
          /\ n <= Fragments[Current] /\ n # Fragments[Current]
          /\ \A i \in 1 .. n : payload[i] = Frame(Current, i)
          /\ n < Fragments[Current] => Following(0) = Frame(Current, n + 1)
      BY <1>0, <1>1, <1>3, <2>2, PayloadKinds
    <3>2. n < Fragments[Current] /\ n + 1 <= Fragments[Current]
      BY <3>1
    <3>3. f = Frame(Current, n + 1)
      BY <1>4, <3>1, <3>2
    <3>4. f.message = Current /\ f.k = n + 1
      BY <3>3 DEF Frame
    <3> QED
      BY <3>1, <3>2, <3>3, <3>4
  <2> QED
    BY <2>1, <2>2
<1>9. PICK c : c = Current
  OBVIOUS
<1>10. ASSUME NEW i \in 1 .. n + 1 PROVE payload'[i] = Frame(c, i)
  <2>1. CASE i \in 1 .. n
    BY <1>3, <1>8, <1>9, <2>1
  <2>2. CASE i = n + 1
    BY <1>3, <1>8, <1>9, <2>2
  <2> QED
    BY <1>3, <2>1, <2>2
<1>11. Current' = c /\ payload'[1].message = c
  <2>1. payload'[1] = Frame(c, 1)
    BY <1>3, <1>10
  <2>2. payload'[1].message = c
    BY <2>1 DEF Frame
  <2> QED
    BY <1>3, <2>2 DEF Current
<1>12. PipeKinds' /\ UnsentInv'
  BY <1>1, <1>2, <1>3 DEF PipeInv, PipeKinds, UnsentInv
<1>13. WireInv'
  <2>1. ASSUME NEW i \in 1 .. w - 1
        PROVE  /\ i + 1 \in 1 .. w /\ wire'[i] = wire[i + 1] /\ i \in Nat
               /\ Following(i)' = Following(i + 1)
    BY <1>2, <1>6
  <2>2. ASSUME NEW i \in 1 .. w - 1, wire'[i] = Close PROVE i = w - 1 /\ peer # "open"
    <3>1. i + 1 = w /\ peer # "open"
      BY <1>0, <1>2, <2>1, <2>2 DEF PipeInv, WireInv
    <3> QED
      BY <1>2, <3>1
  <2>3. ASSUME NEW i \in 1 .. w - 1, wire'[i] # Close
        PROVE  wire'[i].message <= begun /\ After(wire'[i]) = Following(i)'
    <3>1. wire[i + 1].message <= begun /\ After(wire[i + 1]) = Following(i + 1)
      BY <1>2, <2>1, <2>3 DEF PipeInv, WireInv
    <3> QED
      BY <2>1, <3>1
  <2>4. ASSUME NEW i \in 1 .. w - 1, NEW j \in 1 .. w - 1, i < j, wire'[j] # Close
        PROVE  wire'[i].message <= wire'[j].message
    <3>1. i + 1 < j + 1 /\ wire[j + 1] # Close
      BY <2>1, <2>4
    <3>2. wire[i + 1].message <= wire[j + 1].message
      BY <1>2, <2>1, <3>1 DEF PipeInv, WireInv
    <3> QED
      BY <2>1, <3>2
  <2> QED
    BY <1>1, <1>2, <2>2, <2>3, <2>4 DEF WireInv, After
<1>14. PayloadInv'
  <2>1. loop' = "parsing" <=> n + 1 = Fragments[c]
    BY <1>1, <1>8, <1>9
  <2>2. After(payload'[n + 1]) = Following(0)'
    BY <1>3, <1>7
  <2> QED
    BY <1>3, <1>8, <1>9, <1>10, <1>11, <2>1, <2>2 DEF PayloadInv, After
<1>15. Covered'
  <2> SUFFICES ASSUME NEW m \in 1 .. begun, m >= c
               PROVE  \/ \E i \in 1 .. w - 1 : wire'[i].message = m
                      \/ unsent # <<>> /\ m = begun
                      \/ loop' = "parsing" /\ m = c
    BY <1>1, <1>2, <1>11 DEF Covered
  <2>1. \/ \E i \in 1 .. w : wire[i].message = m
        \/ unsent # <<>> /\ m = begun
    <3>1. \/ \E i \in DOMAIN wire : wire[i].message = m
          \/ unsent # <<>> /\ m = begun
      BY <1>1, <1>9 DEF PipeInv, Covered
    <3> QED
      BY <1>2, <3>1
  <2>2. ASSUME NEW i \in 1 .. w, wire[i].message = m, i # 1
        PROVE  \E j \in 1 .. w - 1 : wire'[j].message = m
    <3>1. i - 1 \in 1 .. w - 1 /\ (i - 1) + 1 = i
      BY <1>2, <2>2
    <3>2. wire'[i - 1] = wire[i]
      BY <1>2, <3>1
    <3> QED
      BY <2>2, <3>1, <3>2
  <2>3. CASE m = c /\ loop' # "parsing"
    <3>1. n + 1 < Fragments[c] /\ f.k < Fragments[f.message]
      BY <1>1, <1>3, <1>8, <1>9, <2>3
    <3>2. Following(1) = Frame(c, n + 2)
      BY <1>3, <1>7, <1>8, <1>9, <3>1 DEF After
    <3>3. Following(1).message = m /\ Following(1).k # 1
      BY <1>3, <2>3, <3>2 DEF Frame
    <3>4. CASE 1 < w /\ wire[2] # Close
      <4>1. Following(1) = wire[2] /\ 2 \in 1 .. w
        BY <1>0, <1>2, <3>4 DEF Following
      <4> QED
        BY <2>2, <3>3, <4>1
    <3>5. CASE ~(1 < w /\ wire[2] # Close)
      <4>1. Following(1) = NextSent
        BY <1>0, <3>5 DEF Following
      <4> QED
        BY <3>3, <4>1, NextSentKinds DEF PipeInv
    <3> QED
      BY <3>4, <3>5
  <2>4. ASSUME wire[1].message = m PROVE m = c
    BY <1>8, <1>9, <2>4 DEF f
  <2> QED
    BY <2>1, <2>2, <2>3, <2>4
<1> QED
  BY <1>9, <1>11, <1>12, <1>13, <1>14, <1>15 DEF PipeInv

\* Every step moves the frames on, and only a parse moves on to a message.
LEMMA PipeSteps ==
    ASSUME PipeInv, [Next]_vars
    PROVE  /\ PipeInv'
           /\ \/ Current' = Current /\ delivered' = delivered
              \/ /\ Parse /\ Current' = Current + 1 /\ shutdown' = shutdown
                 /\ payload = Frames(Current) /\ Current \in Messages
           /\ shutdown => shutdown'
           /\ loop = "ended" => loop' = "ended"
<1>1. CASE ClientSends
  <2>1. UNCHANGED loopVars /\ shutdown' = shutdown
    BY <1>1 DEF ClientSends
  <2> QED
    BY <1>1, <2>1, BeginKeepsPipe, SendKeepsPipe DEF ClientSends, loopVars
<1>2. CASE ClientLeaves
  <2>1. UNCHANGED loopVars /\ shutdown' = shutdown
    BY <1>2 DEF ClientLeaves
  <2> QED
    BY <1>2, <2>1, LeaveKeepsPipe DEF ClientLeaves, loopVars
<1>3. CASE ReceiveMessagesAsync
  <2>1. UNCHANGED <<peer, begun, unsent, shutdown>>
    BY <1>3 DEF ReceiveMessagesAsync
  <2>2. CASE LoopCheck \/ ReceiveFails
    <3>1. /\ UNCHANGED <<clientVars, payload, delivered>>
          /\ loop # "parsing" /\ loop' # "parsing" /\ (loop = "ended" => loop' = "ended")
      BY <2>1, <2>2 DEF LoopCheck, ReceiveFails, LoopEnds, clientVars
    <3> QED
      BY <2>1, <3>1, OthersKeepPipe
  <2>3. CASE Receive
    <3>1. delivered' = delivered /\ loop # "ended"
      BY <2>3 DEF Receive
    <3> QED
      BY <2>1, <2>3, <3>1, CloseKeepsPipe, DataKeepsPipe
  <2>4. CASE Parse
    <3>1. loop # "ended"
      BY <2>4 DEF Parse
    <3> QED
      BY <2>1, <2>4, <3>1, ParseKeepsPipe
  <2> QED
    BY <1>3, <2>2, <2>3, <2>4 DEF ReceiveMessagesAsync
<1>4. ASSUME UNCHANGED <<clientVars, loopVars>>, shutdown => shutdown'
      PROVE  /\ PipeInv' /\ Current' = Current /\ delivered' = delivered
             /\ shutdown => shutdown'
             /\ loop = "ended" => loop' = "ended"
  <2>1. UNCHANGED <<clientVars, payload, delivered, loop>>
    BY <1>4 DEF loopVars
  <2> QED
    BY <1>4, <2>1, OthersKeepPipe
<1>5. CASE ConnectionBreaks \/ HandleWebSocketAsync \/ StopServer \/ LoopAwaited \/ CloseAsync
           \/ Disposed \/ Take
  BY <1>4, <1>5
     DEF ConnectionBreaks, HandleWebSocketAsync, StopServer, LoopAwaited, CloseAsync, Disposed, Take
<1>6. CASE DisposeAsync
  BY <1>4, <1>6 DEF DisposeAsync
<1>7. CASE \E m \in Messages : CallStep(m) \/ Sent(m)
  BY <1>4, <1>7 DEF CallStep, Sent
<1>8. CASE UNCHANGED vars
  BY <1>4, <1>8 DEF vars
<1> QED
  BY <1>1, <1>2, <1>3, <1>5, <1>6, <1>7, <1>8 DEF Next

-----------------------------------------------------------------------------
\* Delivered is what is good before the message that is read; the last of it
\* may be dropped when the loop is cancelled, and then it delivers no more.
Dropping == shutdown /\ loop = "ended"

DeliveredInv ==
    /\ delivered \in Seq(Messages \ Broken)
    /\ Ascending(delivered)
    /\ \A m \in ToSet(delivered) : m < Current
    /\ \A m \in ToSet(delivered), n \in Messages : n < m /\ Good(n) => n \in ToSet(delivered)
    /\ ~Dropping => \A m \in Messages : m < Current /\ Good(m) => m \in ToSet(delivered)

\* Messages are numbers.
LEMMA MessagesKinds == \A m \in Messages : m \in Nat /\ m >= 1
  BY SessionAssumption DEF Messages

\* A message that is appended stands behind the others.
LEMMA AppendFacts ==
    ASSUME NEW S, NEW s \in Seq(S), NEW e \in S
    PROVE  /\ ToSet(Append(s, e)) = ToSet(s) \cup {e}
           /\ ToSet(s) \subseteq S
<1> DEFINE t == Append(s, e)
<1>1. /\ Len(s) \in Nat /\ DOMAIN s = 1 .. Len(s) /\ DOMAIN t = 1 .. Len(s) + 1
      /\ \A i \in 1 .. Len(s) : t[i] = s[i]
      /\ t[Len(s) + 1] = e
  OBVIOUS
<1> HIDE DEF t
<1>2. ASSUME NEW m \in ToSet(t) PROVE m \in ToSet(s) \cup {e}
  <2>1. PICK i \in 1 .. Len(s) + 1 : m = t[i]
    BY <1>1, <1>2 DEF ToSet
  <2>2. i \in 1 .. Len(s) \/ i = Len(s) + 1
    BY <1>1
  <2> QED
    BY <1>1, <2>1, <2>2 DEF ToSet
<1>3. e \in ToSet(t)
  <2>1. Len(s) + 1 \in DOMAIN t
    BY <1>1
  <2> QED
    BY <1>1, <2>1 DEF ToSet
<1>4. ASSUME NEW m \in ToSet(s) PROVE m \in ToSet(t)
  <2>1. PICK i \in 1 .. Len(s) : m = s[i]
    BY <1>1, <1>4 DEF ToSet
  <2>2. i \in DOMAIN t /\ t[i] = m
    BY <1>1, <2>1
  <2> QED
    BY <2>2 DEF ToSet
<1>5. ToSet(s) \subseteq S
  BY DEF ToSet
<1> QED
  BY <1>2, <1>3, <1>4, <1>5 DEF t

\* The sequence ascends still when something larger is appended.
LEMMA AscendingGrows ==
    ASSUME NEW s \in Seq(Messages), Ascending(s), NEW e \in Messages,
           \A m \in ToSet(s) : m < e
    PROVE  Ascending(Append(s, e))
<1> DEFINE t == Append(s, e)
<1>1. /\ Len(s) \in Nat /\ DOMAIN s = 1 .. Len(s) /\ DOMAIN t = 1 .. Len(s) + 1
      /\ \A i \in 1 .. Len(s) : t[i] = s[i]
      /\ t[Len(s) + 1] = e
  OBVIOUS
<1> HIDE DEF t
<1>2. ASSUME NEW i \in 1 .. Len(s) + 1, NEW j \in 1 .. Len(s) + 1, i < j PROVE t[i] < t[j]
  <2>1. i \in 1 .. Len(s) /\ (j \in 1 .. Len(s) \/ j = Len(s) + 1)
    BY <1>1, <1>2
  <2>2. s[i] < e
    BY <1>1, <2>1 DEF ToSet
  <2>3. CASE j \in 1 .. Len(s)
    BY <1>1, <1>2, <2>1, <2>3 DEF Ascending
  <2>4. CASE j = Len(s) + 1
    BY <1>1, <2>1, <2>2, <2>4
  <2> QED
    BY <2>1, <2>3, <2>4
<1> QED
  BY <1>1, <1>2 DEF Ascending, t

\* The frames tell which message they are of.
LEMMA PayloadIsCurrent ==
    ASSUME NEW m \in Messages, NEW n \in Messages, Frames(m) = Frames(n)
    PROVE  m = n
<1>1. 1 \in 1 .. Fragments[m] /\ 1 \in 1 .. Fragments[n]
  BY FragmentsAreNat
<1>2. Frames(m)[1].message = m /\ Frames(n)[1].message = n
  BY <1>1 DEF Frames, Frame
<1> QED
  BY <1>2

\* Nothing is delivered at first.
LEMMA DeliveredInit == Init => DeliveredInv
<1> SUFFICES ASSUME Init PROVE DeliveredInv
  OBVIOUS
<1>1. delivered = <<>> /\ begun = 0
  BY DEF Init
<1>2. ToSet(delivered) = {} /\ DOMAIN delivered = {}
  BY <1>1 DEF ToSet
<1>3. Current <= 1 /\ Current \in Nat
  BY <1>1, PipeInit, CurrentKinds
<1>4. \A m \in Messages : ~(m < Current)
  BY <1>3, MessagesKinds
<1>5. delivered \in Seq(Messages \ Broken)
  BY <1>1
<1> QED
  BY <1>2, <1>4, <1>5 DEF DeliveredInv, Ascending

\* What is parsed is delivered when it is good, and dropped only at the end.
LEMMA DeliveredStep ==
    ASSUME PipeInv, DeliveredInv, [Next]_vars
    PROVE  DeliveredInv'
<1>0. PICK c : c = Current
  OBVIOUS
<1>1. c \in Nat
  BY <1>0, CurrentKinds
<1>2. CASE Current' = Current /\ delivered' = delivered
  <2>1. Dropping => Dropping'
    BY PipeSteps DEF Dropping
  <2> QED
    BY <1>2, <2>1 DEF DeliveredInv, Good
<1>3. CASE Parse /\ Current' = c + 1 /\ shutdown' = shutdown /\ payload = Frames(c) /\ c \in Messages
  <2>1. loop = "parsing" /\ ~Dropping
    BY <1>3 DEF Parse, Dropping
  <2>2. \A m \in Messages : m \in Nat
    BY MessagesKinds
  <2>3. ToSet(delivered) \subseteq Messages
    <3>1. delivered \in Seq(Messages)
      BY DEF DeliveredInv
    <3> QED
      BY <1>3, <3>1, AppendFacts
  <2>4. CASE delivered' = delivered /\ (c \in Broken \/ Dropping')
    <3>1. \A m \in ToSet(delivered) : m < c + 1
      BY <1>0, <1>1, <2>2, <2>3 DEF DeliveredInv
    <3>2. ~Dropping' => \A m \in Messages : m < c + 1 /\ Good(m) => m \in ToSet(delivered)
      <4> SUFFICES ASSUME ~Dropping', NEW m \in Messages, m < c + 1, Good(m)
                   PROVE  m \in ToSet(delivered)
        OBVIOUS
      <4>1. m # c /\ m < c
        BY <1>1, <2>2, <2>4 DEF Good
      <4> QED
        BY <1>0, <2>1, <4>1 DEF DeliveredInv
    <3> QED
      BY <1>3, <2>4, <3>1, <3>2 DEF DeliveredInv, Good
  <2>5. CASE delivered' = Append(delivered, c) /\ c \notin Broken
    <3>1. ToSet(delivered') = ToSet(delivered) \cup {c} /\ delivered' \in Seq(Messages \ Broken)
      BY <1>3, <2>5, AppendFacts DEF DeliveredInv
    <3>2. \A m \in ToSet(delivered) : m < c
      BY <1>0 DEF DeliveredInv
    <3>3. Ascending(delivered')
      <4>1. delivered \in Seq(Messages)
        BY DEF DeliveredInv
      <4> QED
        BY <1>3, <2>5, <3>2, <4>1, AscendingGrows DEF DeliveredInv
    <3>4. \A m \in Messages : m < c /\ Good(m) => m \in ToSet(delivered)
      BY <1>0, <2>1 DEF DeliveredInv
    <3>5. \A m \in ToSet(delivered') : m < c + 1
      BY <1>1, <2>2, <2>3, <3>1, <3>2
    <3>6. \A m \in Messages : m < c + 1 /\ Good(m) => m \in ToSet(delivered')
      BY <1>1, <2>2, <3>1, <3>4
    <3>7. ASSUME NEW m \in ToSet(delivered'), NEW n \in Messages, n < m, Good(n)
          PROVE  n \in ToSet(delivered')
      <4>1. m \in Messages /\ m < c + 1
        BY <1>3, <2>3, <3>1, <3>5
      <4>2. n < c + 1
        BY <1>1, <2>2, <3>7, <4>1
      <4> QED
        BY <3>6, <3>7, <4>2
    <3> QED
      BY <1>3, <3>1, <3>3, <3>5, <3>6, <3>7 DEF DeliveredInv, Good
  <2>6. c \in Broken \/ \E m \in Messages \ Broken : payload = Frames(m)
    BY <1>3
  <2>7. \A m \in Messages : payload = Frames(m) => m = c
    BY <1>3, PayloadIsCurrent
  <2>8. CASE \A m \in Messages \ Broken : payload # Frames(m)
    BY <1>3, <2>4, <2>6, <2>8 DEF Parse
  <2>9. CASE ~(\A m \in Messages \ Broken : payload # Frames(m))
    <3>1. CASE shutdown /\ LoopEnds /\ UNCHANGED delivered
      BY <1>3, <2>4, <3>1 DEF Dropping, LoopEnds
    <3>2. CASE \E m \in Messages \ Broken : payload = Frames(m) /\ delivered' = Append(delivered, m)
      BY <2>5, <2>7, <3>2
    <3> QED
      BY <1>3, <2>9, <3>1, <3>2 DEF Parse
  <2> QED
    BY <2>8, <2>9
<1> QED
  BY <1>0, <1>2, <1>3, PipeSteps

-----------------------------------------------------------------------------
\* A message begun has arrived when the loop is past it.
LEMMA ArrivedMeansRead ==
    ASSUME PipeInv, NEW m \in 1 .. begun
    PROVE  Arrived(m) <=> m < Current
<1>1. /\ Current \in Nat \ {0} /\ begun \in Nat /\ m \in Nat
      /\ Current <= Following(0).message /\ Following(0).message \in Nat
      /\ unsent # <<>> \/ payload # <<>> => Current <= begun
  BY CurrentKinds
<1>2. loop = "parsing" => Last(payload).message = Current
  <2> SUFFICES ASSUME loop = "parsing" PROVE Last(payload).message = Current
    OBVIOUS
  <2>1. payload # <<>>
    BY DEF PipeInv, PayloadInv
  <2>2. Len(payload) \in 1 .. Len(payload) /\ payload[Len(payload)] = Frame(Current, Len(payload))
    BY <2>1, PayloadKinds
  <2> QED
    BY <2>2 DEF Last, Frame
<1>3. ASSUME NEW frame \in ToSet(unsent) PROVE unsent # <<>> /\ frame.message = begun
  <2>1. PICK i \in DOMAIN unsent : frame = unsent[i]
    BY <1>3 DEF ToSet
  <2>2. unsent # <<>>
    BY <2>1
  <2> QED
    BY <2>1, <2>2 DEF PipeInv, UnsentInv, Frame
<1>4. ASSUME NEW frame \in ToSet(wire) PROVE frame.message = 0 \/ frame.message >= Current
  <2>1. PICK i \in DOMAIN wire : frame = wire[i]
    BY <1>4 DEF ToSet
  <2>2. CASE wire[i] = Close
    BY <2>1, <2>2, WireKinds DEF PipeInv
  <2>3. CASE wire[i] # Close
    <3>1. 1 \in DOMAIN wire /\ i \in Nat /\ i >= 1 /\ 0 < Len(wire)
          /\ wire[1].message \in Nat /\ wire[i].message \in Nat
      BY WireKinds DEF PipeInv, PipeKinds
    <3>2. wire[1] # Close
      <4>1. wire[1] = Close => 1 = Len(wire)
        BY <3>1 DEF PipeInv, WireInv
      <4>2. i <= Len(wire)
        BY WireKinds DEF PipeInv
      <4> QED
        BY <2>3, <3>1, <4>1, <4>2
    <3>3. Following(0) = wire[1]
      BY <3>1, <3>2 DEF Following
    <3>4. wire[1].message <= wire[i].message
      <4>1. CASE i = 1
        BY <3>1, <4>1
      <4>2. CASE 1 < i
        BY <2>3, <3>1, <4>2 DEF PipeInv, WireInv
      <4> QED
        BY <3>1, <4>1, <4>2
    <3> QED
      BY <1>1, <2>1, <3>1, <3>3, <3>4
  <2> QED
    BY <2>2, <2>3
<1>5. ASSUME m < Current PROVE Arrived(m)
  <2>1. \A frame \in ToSet(unsent) : frame.message # m
    BY <1>1, <1>3, <1>5
  <2>2. \A frame \in ToSet(wire) : frame.message # m
    BY <1>1, <1>4, <1>5
  <2>3. loop = "parsing" => Last(payload).message # m
    BY <1>1, <1>2, <1>5
  <2> QED
    BY <2>1, <2>2, <2>3 DEF Arrived
<1>6. ASSUME m >= Current PROVE ~Arrived(m)
  <2>1. CASE \E i \in DOMAIN wire : wire[i].message = m
    BY <2>1 DEF Arrived, ToSet
  <2>2. CASE unsent # <<>> /\ m = begun
    <3>1. 1 \in DOMAIN unsent
      BY <2>2 DEF PipeInv, PipeKinds
    <3>2. unsent[1] \in ToSet(unsent)
      BY <3>1 DEF ToSet
    <3> QED
      BY <1>3, <2>2, <3>2 DEF Arrived
  <2>3. CASE loop = "parsing" /\ m = Current
    BY <1>2, <2>3 DEF Arrived
  <2> QED
    BY <1>6, <2>1, <2>2, <2>3 DEF PipeInv, Covered
<1> QED
  BY <1>1, <1>5, <1>6

\* The invariants give what the runs check.
LEMMA InvariantsSuffice == PipeInv /\ DeliveredInv => MessagesComeWhole
<1> SUFFICES ASSUME PipeInv, DeliveredInv PROVE MessagesComeWhole
  OBVIOUS
<1> DEFINE sent == {m \in 1 .. begun : Good(m)}
           read == ToSet(delivered)
<1>1. begun \in 0 .. MaxMessages /\ Current \in Nat \ {0} /\ Current <= begun + 1 /\ begun \in Nat
  BY CurrentKinds DEF PipeInv, PipeKinds
<1>2. ASSUME NEW m \in read PROVE m \in Messages /\ Good(m) /\ m < Current /\ m \in Nat /\ m >= 1
  <2>1. m \in Messages \ Broken
    BY <1>2 DEF DeliveredInv, ToSet
  <2> QED
    BY <1>2, <2>1, MessagesKinds DEF DeliveredInv, Good
<1>3. read \subseteq sent
  BY <1>1, <1>2
<1>4. ASSUME NEW n \in sent PROVE n \in Messages /\ Good(n)
  BY <1>1, SessionAssumption DEF Messages
<1>5. \A m \in read, n \in sent : n < m => n \in read
  BY <1>4 DEF DeliveredInv
<1>6. ASSUME ~shutdown PROVE read = {m \in sent : Arrived(m)}
  <2>1. ASSUME NEW m \in sent PROVE m \in read <=> Arrived(m)
    <3>1. Arrived(m) <=> m < Current
      BY ArrivedMeansRead
    <3> QED
      BY <1>2, <1>4, <1>6, <2>1, <3>1 DEF DeliveredInv, Dropping
  <2> QED
    BY <1>3, <2>1
<1>7. Ascending(delivered)
  BY DEF DeliveredInv
<1> QED
  BY <1>3, <1>5, <1>6, <1>7 DEF MessagesComeWhole

(***************************************************************************)
(* The receive loop puts every message together from its frames, and the   *)
(* server reads each good one whole, once and in order, for any number of  *)
(* messages in any number of frames, with broken and unfinished ones among *)
(* them; only a disposal drops one.                                        *)
(***************************************************************************)
THEOREM MessagesArriveWhole == Spec => []MessagesComeWhole
<1>1. Init => PipeInv /\ DeliveredInv
  BY PipeInit, DeliveredInit
<1>2. PipeInv /\ DeliveredInv /\ [Next]_vars => PipeInv' /\ DeliveredInv'
  BY PipeSteps, DeliveredStep
<1> QED
  BY <1>1, <1>2, InvariantsSuffice, PTL DEF Spec

=============================================================================
