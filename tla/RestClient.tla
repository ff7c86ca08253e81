----------------------------- MODULE RestClient -----------------------------
(***************************************************************************)
(* The service as its own web pages see it: an HTTP client with one call   *)
(* in flight per task.  The service answers as RestContract promises; on   *)
(* the way a call or its answer may be lost, and a call that the client    *)
(* has given up may still be executed.  The handlers of one circuit run    *)
(* one at a time, but each await lets others in.                           *)
(***************************************************************************)
EXTENDS Integers, FiniteSets

CONSTANTS
    Ids,        \* Guids of calculation orders
    Contents,   \* names, descriptions and raw tables of orders
    Points,     \* those of temporary orders: one point, and named as temporary
    Invalid,    \* the contents with a point out of range
    Tasks,      \* event handlers that can be under way at once
    MaxAbandoned, \* bound of abandoned
    Others,     \* what other clients turn orders into
    Absent,     \* no order under this Guid
    NoCall, NoId

ASSUME ClientAssumption ==
    /\ Invalid \subseteq Contents /\ Points \subseteq Contents
    /\ Others \subseteq (Contents \ (Invalid \cup Points)) \cup {Absent}
    /\ MaxAbandoned \in Nat
    /\ Absent \notin Contents

VARIABLES
    stored,     \* the orders in the service: their contents or Absent
    versions,   \* history: every content the order has had since it was posted
    calls,      \* the call each task waits for
    answers,    \* what the task will find when it runs again
    abandoned,  \* the POSTs given up by their task that the service may execute yet
    task,       \* where each handler is, and its locals
    orphans     \* the handlers that go on although their component has left the
                \* screen: what they change is seen by nobody

serviceVars == <<stored, versions, abandoned>>
handlerVars == <<calls, answers, task>>
clientVars == <<serviceVars, handlerVars, orphans>>

Idle == [at |-> "idle"]

Valid == Contents \ Invalid
Call == [op : {"POST", "PUT"}, id : Ids, content : Valid]
            \cup [op : {"GET", "DELETE"}, id : Ids]
            \cup [op : {"GETALL"}]

Reads == {"GET", "GETALL"}

\* A PUT or DELETE that is executed after its client has given it up is what
\* another client may do at any time; only a POST makes a difference.
MayBeLate(c) == c # NoCall /\ c.op = "POST"

Stored == {i \in Ids : stored[i] # Absent}

InitClient ==
    /\ stored \in {s \in [Ids -> (Valid \ Points) \cup {Absent}] : Cardinality({i \in Ids : s[i] # Absent}) <= 1}
    /\ versions = [i \in Ids |-> {stored[i]} \ {Absent}]
    /\ calls = [t \in Tasks |-> NoCall]
    /\ answers = [t \in Tasks |-> NoCall]
    /\ abandoned = {}
    /\ task = [t \in Tasks |-> Idle]
    /\ orphans = {}

\* A Guid nobody has seen: what nothing refers to any more is as good as new.
Unused(i) ==
    /\ stored[i] = Absent
    /\ \A c \in abandoned \cup {calls[t] : t \in Tasks} : c # NoCall /\ c.op # "GETALL" => c.id # i

-----------------------------------------------------------------------------
Store(i, content) ==
    /\ stored' = [stored EXCEPT ![i] = content]
    /\ versions' = [versions EXCEPT ![i] =
                        IF content = Absent THEN {} ELSE @ \cup {content}]

\* The controllers, as atomic as RestContract says: what leads to a 200.
PostGravitationalFieldCalculationOrder(c) ==
    c.op = "POST" /\ stored[c.id] = Absent /\ Store(c.id, c.content)

PutGravitationalFieldCalculationOrderById(c) ==
    c.op = "PUT" /\ stored[c.id] # Absent /\ Store(c.id, c.content)

DeleteGravitationalFieldCalculationOrderById(c) ==
    c.op = "DELETE" /\ stored[c.id] # Absent /\ Store(c.id, Absent)

GetGravitationalFieldCalculationOrderById(c) ==
    c.op = "GET" /\ stored[c.id] # Absent /\ UNCHANGED <<stored, versions>>

GetAllGravitationalFieldCalculationOrder(c) ==
    c.op = "GETALL" /\ UNCHANGED <<stored, versions>>

Execute(c) ==
    \/ PostGravitationalFieldCalculationOrder(c)
    \/ PutGravitationalFieldCalculationOrderById(c)
    \/ DeleteGravitationalFieldCalculationOrderById(c)
    \/ GetGravitationalFieldCalculationOrderById(c)
    \/ GetAllGravitationalFieldCalculationOrder(c)

\* What a 200 carries.
Body(c) ==
    CASE c.op = "GETALL" -> Stored
      [] c.op = "GET" -> stored[c.id]
      [] OTHER -> Absent

-----------------------------------------------------------------------------
Pending(t) == calls[t] # NoCall
Answered(t, kind) == answers[t] # NoCall /\ answers[t].kind = kind

Send(t, c) ==
    /\ calls' = [calls EXCEPT ![t] = c]
    /\ answers' = [answers EXCEPT ![t] = NoCall]

\* The handler runs on to its next await, or to its end.
Await(t, where, c) == task' = [task EXCEPT ![t] = where] /\ Send(t, c)
Finish(t) == Await(t, Idle, NoCall)
Resumes(t, place) == task[t].at = place /\ answers[t] # NoCall

Answer(t, kind, body) ==
    /\ calls' = [calls EXCEPT ![t] = NoCall]
    /\ answers' = [answers EXCEPT ![t] = [kind |-> kind, body |-> body]]

Serve(t) ==
    /\ Pending(t)
    /\ Execute(calls[t])
    /\ Answer(t, "ok", Body(calls[t]))
    /\ UNCHANGED <<abandoned, task, orphans>>

\* A status that the generated client turns into an ApiException (the contract
\* permits a failure at any time), a broken connection, or a timeout: before
\* the service has the call, after it has executed it, or in between.
Fail(t) ==
    /\ Pending(t)
    /\ Answer(t, "failed", Absent)
    /\ UNCHANGED <<task, orphans>>
    /\ \/ UNCHANGED serviceVars
       \/ calls[t].op \notin Reads /\ Execute(calls[t]) /\ UNCHANGED abandoned
       \/ /\ MayBeLate(calls[t])
          /\ Cardinality(abandoned) < MaxAbandoned
          /\ abandoned' = abandoned \cup {calls[t]}
          /\ UNCHANGED <<stored, versions>>

ExecuteLate(c) ==
    /\ \/ PostGravitationalFieldCalculationOrder(c)
       \/ stored[c.id] # Absent /\ UNCHANGED <<stored, versions>>
    /\ abandoned' = abandoned \ {c}
    /\ UNCHANGED <<handlerVars, orphans>>

\* MCP clients, other browsers and the cleaner.
OtherClient(i, content) ==
    /\ stored[i] # Absent
    /\ stored[i] # content
    /\ Store(i, content)
    /\ UNCHANGED <<handlerVars, orphans, abandoned>>

=============================================================================
