--------------------------- MODULE WebPages_proofs ---------------------------
(***************************************************************************)
(* For any number of handlers, orders and contents, and whatever is lost   *)
(* or late: what the editor takes for saved has been stored, no deletion   *)
(* exceeds what was confirmed, and temporary orders go.                    *)
(*                                                                         *)
(* All three rest on one fact about Guids: the service holds nothing under *)
(* the Guid of a POST that is still on its way, and no two POSTs on their  *)
(* way carry the same one.                                                 *)
(***************************************************************************)
EXTENDS WebPages, TLAPS

\* Where a handler can be, with its locals.
Deletions == [at : {"confirming", "deleting", "left"}, rest : SUBSET Ids,
              byList : BOOLEAN, moved : BOOLEAN, asked : SUBSET Ids]
Steps == [at : Calculating, id : Ids, content : Points \ Invalid,
          found : Valid \cup {NoGravity, NoResult}]
States ==
    {Idle} \cup [at : {"getting"}] \cup [at : {"listing"}, next : Ids \cup {NoId}]
        \cup [at : {"adding", "opening", "putting"}, id : Ids]
        \cup Deletions \cup Steps

\* The handlers of each page.
Places ==
    IF page = "single" THEN {"idle"} \cup Calculating
    ELSE {"idle", "listing", "adding", "opening", "putting", "getting",
          "confirming", "deleting", "left"}

Answers == [kind : {"ok", "failed"}, body : Valid \cup {Absent} \cup SUBSET Ids]

\* What each await waits for.
CallFits(s, c) ==
    /\ s.at \notin {"idle", "confirming"}
    /\ s.at = "listing" => c.op = "GETALL"
    /\ s.at \in {"adding", "posting"} => c.op = "POST"
    /\ s.at = "putting" => c.op = "PUT"
    /\ s.at \in {"opening", "getting", "reading"} => c.op = "GET"
    /\ s.at \in {"deleting", "removing"} => c.op = "DELETE"
    /\ s.at \in {"adding", "opening", "putting"} \cup Calculating => c.id = s.id
    /\ s.at = "deleting" => c.id \in s.asked

AnswerFits(s, body) ==
    /\ s.at = "listing" => body \in SUBSET Ids
    /\ s.at \in {"opening", "getting", "reading"} => body \in Valid

HandlersInv ==
    /\ task \in [Tasks -> States]
    /\ calls \in [Tasks -> Call \cup {NoCall}]
    /\ answers \in [Tasks -> Answers \cup {NoCall}]
    /\ \A t \in Tasks :
        /\ task[t].at \in Places
        /\ Pending(t) => CallFits(task[t], calls[t])
        /\ Answered(t, "ok") => AnswerFits(task[t], answers[t].body)
        /\ task[t].at \in {"confirming", "deleting"} => task[t].rest \subseteq task[t].asked

\* A handler that saves has its editor before it, unless it is an orphan.
ScreenInv ==
    /\ current # NoOrder => editor # NoEditor
    /\ \A t \in Tasks \ orphans : task[t].at \in Saving => editor # NoEditor

\* Nothing is stored under the Guid of a POST on its way, and no other POST has it.
Posting(t) == MayBeLate(calls[t])
PostInv ==
    /\ \A c \in abandoned : MayBeLate(c) /\ stored[c.id] = Absent
    /\ \A c, d \in abandoned : c.id = d.id => c = d
    /\ \A t \in Tasks : Posting(t) =>
        /\ stored[calls[t].id] = Absent
        /\ \A c \in abandoned : c.id # calls[t].id
    /\ \A t, u \in Tasks : Posting(t) /\ Posting(u) /\ calls[t].id = calls[u].id => t = u

VersionsInv == \A i \in Ids : stored[i] # Absent => stored[i] \in versions[i]

\* On the page of orders no temporary order is ever seen; on the other, each
\* has a handler or is left over, also one whose POST is late.
NoPoints ==
    /\ \A i \in Ids : stored[i] \notin Points
    /\ \A c \in abandoned : c.content \notin Points
    /\ \A t \in Tasks :
        /\ Pending(t) /\ calls[t].op \in {"POST", "PUT"} => calls[t].content \notin Points
        /\ Answered(t, "ok") /\ task[t].at \in {"opening", "getting"} => answers[t].body \notin Points
    /\ editor # NoEditor => editor.shown \notin Points /\ editor.clean \notin Points

Tracked(i) == i \in Temporary \cup leftovers
TemporaryInv ==
    /\ page = "orders" => NoPoints
    /\ page = "single" =>
        /\ \A t, u \in Tasks :
            task[t].at \in Calculating /\ task[u].at \in Calculating /\ task[t].id = task[u].id => t = u
        /\ \A c \in abandoned : Tracked(c.id)
        /\ \A i \in Ids : stored[i] \in Points => Tracked(i)
        /\ \A t \in Tasks : task[t].at = "removing" /\ Answered(t, "ok") =>
            /\ stored[task[t].id] = Absent
            /\ \A c \in abandoned : c.id # task[t].id

\* An order is as it was read, as long as it exists: no POST can replace it.
NoPost(i) ==
    /\ \A c \in abandoned : c.id # i
    /\ \A t \in Tasks : Posting(t) => calls[t].id # i
Claim(i, content) == stored[i] # Absent => content \in versions[i]
Kept(i, content) == NoPost(i) /\ Claim(i, content)

CleanInv ==
    /\ editor # NoEditor => NoPost(editor.id) /\ Claim(editor.id, editor.clean)
    /\ \A t \in Tasks : task[t].at = "opening" /\ Answered(t, "ok") =>
        NoPost(task[t].id) /\ Claim(task[t].id, answers[t].body)
    /\ \A t \in Tasks \ orphans :
        /\ task[t].at = "putting" => task[t].id = editor.id
        /\ task[t].at = "getting" /\ Pending(t) => calls[t].id = editor.id
        /\ task[t].at = "getting" /\ Answered(t, "ok") => Claim(editor.id, answers[t].body)

IInv ==
    /\ TypeOK /\ HandlersInv /\ ScreenInv /\ PostInv /\ VersionsInv
    /\ TemporaryInv /\ CleanInv


-----------------------------------------------------------------------------
(***************************************************************************)
(* What the data are.                                                      *)
(***************************************************************************)
LEMMA Data ==
    /\ Valid \subseteq Contents /\ Absent \notin Contents /\ Absent \notin Points
    /\ Default \in Valid /\ Default \notin Points
    /\ Points \ Invalid \subseteq Valid
    /\ \A x \in Others : x \in (Valid \ Points) \cup {Absent}
BY ClientAssumption, PagesAssumption DEF Valid

\* What a call carries.
LEMMA Calls ==
    ASSUME NEW c \in Call
    PROVE  /\ c.op \in {"POST", "PUT", "GET", "DELETE", "GETALL"}
           /\ c.op # "GETALL" => c.id \in Ids
           /\ c.op \in {"POST", "PUT"} => c.content \in Valid
BY DEF Call

\* The Guids that a handler holds are known.
LEMMA HeldIds ==
    ASSUME HandlersInv, NEW t \in Tasks,
           task[t].at \in {"adding", "opening", "putting"} \cup Calculating
    PROVE  task[t].id \in Ids /\ task[t].id \in Known
<1>1. task[t] \in [at : {"adding", "opening", "putting"}, id : Ids] \cup Steps
  BY DEF HandlersInv, States, Idle, Deletions, Calculating
<1>2. task[t].id \in Ids
  BY <1>1 DEF Steps
<1>3. "id" \in DOMAIN task[t] /\ task[t]["id"] = task[t].id
  BY <1>1 DEF Steps
<1>4. task[t].id \in HeldBy(t)
  <2>1. "id" \in DOMAIN task[t] \cap {"id", "next", "rest"}
    BY <1>3
  <2>2. (LET held == task[t]["id"] IN IF "id" = "rest" THEN held ELSE {held}) = {task[t].id}
    BY <1>3
  <2> QED
    BY <2>1, <2>2 DEF HeldBy
<1> QED
  BY <1>2, <1>4 DEF Known

\* The places of the two pages, and the records that go with them.
LEMMA PlaceOf ==
    ASSUME HandlersInv, NEW t \in Tasks
    PROVE  /\ task[t] \in States
           /\ page = "single" => task[t].at \in {"idle"} \cup Calculating
           /\ page # "single" => task[t].at \notin Calculating
           /\ task[t].at = "listing" => task[t].next \in Ids \cup {NoId}
           /\ task[t].at \in {"confirming", "deleting", "left"} => task[t] \in Deletions
           /\ task[t].at \in Calculating => task[t] \in Steps
           /\ task[t].at \in {"adding", "opening", "putting"} => task[t].id \in Ids
BY DEF HandlersInv, Places, States, Idle, Deletions, Steps, Calculating

\* A circuit starts with nothing on its way.
LEMMA InitInv == Init => IInv
<1> SUFFICES ASSUME Init PROVE IInv
  OBVIOUS
<1> USE DEF Init, InitClient, InitPages, InitSingle
<1>1. TypeOK
  BY DEF TypeOK, Valid
<1>2. HandlersInv
  BY DEF HandlersInv, States, Idle, Places, Pending, Answered
<1>3. ScreenInv /\ PostInv
  BY DEF ScreenInv, PostInv, Posting, MayBeLate, Idle, Saving
<1>4. VersionsInv
  BY DEF VersionsInv
<1>5. TemporaryInv
  BY Data DEF TemporaryInv, NoPoints, Tracked, Pending, Answered, Idle, Calculating, Valid
<1>6. CleanInv
  BY DEF CleanInv, Idle, Answered
<1> QED
  BY <1>1, <1>2, <1>3, <1>4, <1>5, <1>6 DEF IInv

-----------------------------------------------------------------------------
(***************************************************************************)
(* A handler that runs on to its next await, whatever its page shows then. *)
(***************************************************************************)
LEMMA MovesKeepHandlers ==
    ASSUME HandlersInv, NEW t \in Tasks, NEW s, NEW c,
           Await(t, s, c), UNCHANGED page,
           s \in States, s.at \in Places, c \in Call \cup {NoCall},
           c # NoCall => CallFits(s, c),
           s.at \in {"confirming", "deleting"} => s.rest \subseteq s.asked
    PROVE  HandlersInv'
<1> USE DEF Await, Send
<1>1. task' \in [Tasks -> States] /\ calls' \in [Tasks -> Call \cup {NoCall}]
  BY DEF HandlersInv
<1>2. answers' \in [Tasks -> Answers \cup {NoCall}]
  BY DEF HandlersInv
<1>3. ASSUME NEW u \in Tasks
      PROVE  /\ task'[u].at \in Places'
             /\ Pending(u)' => CallFits(task'[u], calls'[u])
             /\ Answered(u, "ok")' => AnswerFits(task'[u], answers'[u].body)
             /\ task'[u].at \in {"confirming", "deleting"} => task'[u].rest \subseteq task'[u].asked
  <2>1. Places' = Places
    BY DEF Places
  <2>2. CASE u = t
    BY <2>1, <2>2 DEF HandlersInv, Pending, Answered
  <2>3. CASE u # t
    BY <2>1, <2>3 DEF HandlersInv, Pending, Answered
  <2> QED
    BY <2>2, <2>3
<1> QED
  BY <1>1, <1>2, <1>3 DEF HandlersInv

\* A POST that is sent carries a Guid that nothing refers to.
LEMMA MovesKeepPosts ==
    ASSUME HandlersInv, PostInv, NEW t \in Tasks, NEW s, NEW c,
           Await(t, s, c), UNCHANGED serviceVars,
           c \in Call \cup {NoCall},
           MayBeLate(c) => Unused(c.id)
    PROVE  /\ PostInv'
           /\ \A i \in Ids : NoPost(i) /\ ~(MayBeLate(c) /\ c.id = i) => NoPost(i)'
<1> USE DEF Await, Send, serviceVars
<1>1. \A u \in Tasks : calls'[u] = IF u = t THEN c ELSE calls[u]
  BY DEF HandlersInv
<1>2. ASSUME MayBeLate(c)
      PROVE  /\ stored[c.id] = Absent
             /\ \A d \in abandoned : d.id # c.id
             /\ \A u \in Tasks : Posting(u) => calls[u].id # c.id
  <2>1. Unused(c.id)
    BY <1>2
  <2>2. \A d \in abandoned : d.id # c.id
    BY <2>1 DEF Unused, PostInv, MayBeLate
  <2> QED
    BY <2>1, <2>2 DEF Unused, Posting, MayBeLate
<1>3. PostInv'
  BY <1>1, <1>2 DEF PostInv, Posting
<1>4. \A i \in Ids : NoPost(i) /\ ~(MayBeLate(c) /\ c.id = i) => NoPost(i)'
  BY <1>1 DEF NoPost, Posting
<1> QED
  BY <1>3, <1>4

-----------------------------------------------------------------------------
(***************************************************************************)
(* The service executes a call, or not, and the call is answered.          *)
(***************************************************************************)
Typed == stored \in [Ids -> Valid \cup {Absent}] /\ versions \in [Ids -> SUBSET Valid]

\* What is claimed of an order outlives every change but the return of one
\* that was gone.
LEMMA StoreKeepsClaims ==
    ASSUME Typed, VersionsInv, NEW i \in Ids, NEW x \in Valid \cup {Absent}, Store(i, x)
    PROVE  /\ Typed' /\ VersionsInv'
           /\ \A j \in Ids : stored'[j] = IF j = i THEN x ELSE stored[j]
           /\ \A j \in Ids : \A y : /\ Claim(j, y)
                                    /\ j = i => x = Absent \/ stored[i] # Absent
                                    => Claim(j, y)'
<1>1. \A j \in Ids : stored'[j] = IF j = i THEN x ELSE stored[j]
  BY DEF Store, Typed
<1>2. \A j \in Ids : versions'[j] = IF j # i THEN versions[j]
                                    ELSE IF x = Absent THEN {} ELSE versions[i] \cup {x}
  BY DEF Store, Typed
<1>3. Typed'
  BY DEF Typed, Store
<1> QED
  BY <1>1, <1>2, <1>3 DEF VersionsInv, Claim

\* What the controllers do to the order of a call.
Changed(c) ==
    /\ Typed' /\ VersionsInv'
    /\ \A j \in Ids :
        \/ stored'[j] = stored[j]
        \/ /\ j = c.id
           /\ \/ c.op = "POST" /\ stored[j] = Absent /\ stored'[j] = c.content
              \/ c.op = "PUT" /\ stored[j] # Absent /\ stored'[j] = c.content
              \/ c.op = "DELETE" /\ stored'[j] = Absent
    /\ \A j \in Ids : \A y : Claim(j, y) /\ (c.op = "POST" => c.id # j) => Claim(j, y)'

\* A call that is executed, or not, changes at most its own order, and leaves
\* what is claimed of any other.
LEMMA ExecuteChanges ==
    ASSUME Typed, VersionsInv, NEW c \in Call,
           Execute(c) \/ UNCHANGED <<stored, versions>>
    PROVE  Changed(c)
<1>1. CASE UNCHANGED <<stored, versions>>
  BY <1>1 DEF Changed, Typed, VersionsInv, Claim
<1>2. CASE PostGravitationalFieldCalculationOrder(c)
  <2>1. c.id \in Ids /\ c.content \in Valid /\ c.op = "POST" /\ stored[c.id] = Absent
    BY <1>2, Calls DEF PostGravitationalFieldCalculationOrder
  <2>2. Store(c.id, c.content)
    BY <1>2 DEF PostGravitationalFieldCalculationOrder
  <2> QED
    BY <2>1, <2>2, StoreKeepsClaims DEF Changed
<1>3. CASE PutGravitationalFieldCalculationOrderById(c)
  <2>1. c.id \in Ids /\ c.content \in Valid /\ c.op = "PUT" /\ stored[c.id] # Absent
    BY <1>3, Calls DEF PutGravitationalFieldCalculationOrderById
  <2>2. Store(c.id, c.content)
    BY <1>3 DEF PutGravitationalFieldCalculationOrderById
  <2> QED
    BY <2>1, <2>2, StoreKeepsClaims DEF Changed
<1>4. CASE DeleteGravitationalFieldCalculationOrderById(c)
  <2>1. c.id \in Ids /\ c.op = "DELETE"
    BY <1>4, Calls DEF DeleteGravitationalFieldCalculationOrderById
  <2>2. Store(c.id, Absent)
    BY <1>4 DEF DeleteGravitationalFieldCalculationOrderById
  <2> QED
    BY <2>1, <2>2, StoreKeepsClaims DEF Changed
<1> QED
  BY <1>1, <1>2, <1>3, <1>4 DEF Execute, GetGravitationalFieldCalculationOrderById,
     GetAllGravitationalFieldCalculationOrder

\* A handler whose call has been answered waits for nothing.
LEMMA AnswersKeepHandlers ==
    ASSUME HandlersInv, NEW t \in Tasks, NEW kind \in {"ok", "failed"},
           NEW body \in Valid \cup {Absent} \cup SUBSET Ids,
           Answer(t, kind, body), UNCHANGED <<task, page>>,
           kind = "ok" => AnswerFits(task[t], body)
    PROVE  HandlersInv'
<1> USE DEF Answer
<1>1. calls' \in [Tasks -> Call \cup {NoCall}] /\ answers' \in [Tasks -> Answers \cup {NoCall}]
  BY DEF HandlersInv, Answers
<1>2. ASSUME NEW u \in Tasks
      PROVE  /\ Pending(u)' => Pending(u) /\ calls'[u] = calls[u]
             /\ Answered(u, "ok")' => AnswerFits(task[u], answers'[u].body)
  BY DEF HandlersInv, Pending, Answered
<1> QED
  BY <1>1, <1>2 DEF HandlersInv, Places

\* A pending call is one the handler waits for, and one of its page.
LEMMA PendingCall ==
    ASSUME HandlersInv, NEW t \in Tasks, Pending(t)
    PROVE  /\ calls[t] \in Call
           /\ CallFits(task[t], calls[t])
           /\ page = "single" =>
                /\ task[t].at \in Calculating /\ calls[t].id = task[t].id
                /\ calls[t].op = "POST" => task[t].at = "posting"
                /\ calls[t].op # "PUT"
           /\ calls[t].op = "PUT" => task[t].at \in {"putting", "left"}
BY DEF HandlersInv, Pending, Places, CallFits, Calculating, Call, States, Idle, Deletions, Steps

\* A 200 answers the question that was asked.
LEMMA BodyFits ==
    ASSUME TypeOK, HandlersInv, NEW t \in Tasks, Pending(t), Execute(calls[t])
    PROVE  /\ Body(calls[t]) \in Valid \cup {Absent} \cup SUBSET Ids
           /\ AnswerFits(task[t], Body(calls[t]))
           /\ calls[t].op = "GET" => /\ Body(calls[t]) = stored[calls[t].id]
                                     /\ stored[calls[t].id] # Absent
<1>1. calls[t] \in Call /\ CallFits(task[t], calls[t])
  BY PendingCall
<1>2. calls[t].op = "GET" => /\ Body(calls[t]) = stored[calls[t].id]
                             /\ stored[calls[t].id] # Absent
                             /\ stored[calls[t].id] \in Valid
  BY <1>1, Calls DEF Execute, Body, TypeOK, PostGravitationalFieldCalculationOrder,
     PutGravitationalFieldCalculationOrderById, DeleteGravitationalFieldCalculationOrderById,
     GetGravitationalFieldCalculationOrderById, GetAllGravitationalFieldCalculationOrder
<1>3. calls[t].op = "GETALL" => Body(calls[t]) \in SUBSET Ids
  BY DEF Body, Stored
<1>4. calls[t].op \notin {"GET", "GETALL"} => Body(calls[t]) = Absent
  BY DEF Body
<1> QED
  BY <1>1, <1>2, <1>3, <1>4 DEF AnswerFits, CallFits

\* A call that is answered after it was executed, or a failure before or after:
\* what a 200 to a GET says of an order stays true as long as it exists.
LEMMA AnsweredCallKeepsInv ==
    ASSUME IInv, NEW t \in Tasks, Pending(t),
           NEW kind \in {"ok", "failed"}, NEW body \in Valid \cup {Absent} \cup SUBSET Ids,
           Answer(t, kind, body),
           Execute(calls[t]) \/ UNCHANGED <<stored, versions>>,
           kind = "ok" => Execute(calls[t]) /\ body = Body(calls[t]),
           UNCHANGED <<abandoned, task, orphans, pageVars, singleVars, page>>
    PROVE  IInv'
<1> DEFINE c == calls[t]
<1> USE DEF pageVars, screenVars, editorVars, singleVars, formVars
<1>1. /\ c \in Call /\ CallFits(task[t], c)
      /\ page = "single" =>
            /\ task[t].at \in Calculating /\ c.id = task[t].id
            /\ c.op = "POST" => task[t].at = "posting"
            /\ c.op # "PUT"
  BY PendingCall DEF IInv
<1>2. Changed(c)
  BY <1>1, ExecuteChanges DEF IInv, TypeOK, Typed
<1>3. kind = "ok" => /\ AnswerFits(task[t], body)
                     /\ c.op = "GET" => body = stored[c.id] /\ stored[c.id] # Absent
  BY BodyFits DEF IInv
<1>4. /\ \A u \in Tasks : calls'[u] = IF u = t THEN NoCall ELSE calls[u]
      /\ \A u \in Tasks : answers'[u] = IF u = t THEN [kind |-> kind, body |-> body] ELSE answers[u]
  BY DEF IInv, HandlersInv, Answer
<1>5. HandlersInv'
  BY <1>3, AnswersKeepHandlers DEF IInv
<1>6. TypeOK'
  BY <1>2, <1>5 DEF IInv, TypeOK, Changed, Typed, HandlersInv
<1>7. ScreenInv'
  BY DEF IInv, ScreenInv
<1>8. PostInv' /\ \A i \in Ids : NoPost(i) => NoPost(i)'
  BY <1>1, <1>2, <1>4, Calls DEF IInv, PostInv, Posting, MayBeLate, Changed, NoPost, TypeOK, Pending
<1>9. VersionsInv'
  BY <1>2 DEF Changed
<1>10. TemporaryInv'
  <2>1. CASE page = "orders"
    <3>1. NoPoints
      BY <2>1 DEF IInv, TemporaryInv
    <3>2. \A i \in Ids : stored'[i] \notin Points
      BY <1>1, <1>2, <3>1, Data, Calls DEF NoPoints, Changed, Pending
    <3>3. Answered(t, "ok")' /\ task[t].at \in {"opening", "getting"} => body \notin Points
      BY <1>1, <1>3, <1>4, <3>1, Calls DEF NoPoints, CallFits, Answered
    <3> QED
      BY <1>4, <2>1, <3>1, <3>2, <3>3 DEF TemporaryInv, NoPoints, Pending, Answered
  <2>2. CASE page = "single"
    <3>1. \A i \in Ids : Tracked(i)' <=> Tracked(i)
      BY DEF Tracked, Temporary
    <3>2. \A i \in Ids : stored'[i] \in Points => Tracked(i)
      BY <1>1, <1>2, <2>2, Data DEF IInv, TemporaryInv, Changed, Tracked, Temporary, Calculating
    <3>3. ASSUME NEW u \in Tasks, task[u].at = "removing", Answered(u, "ok")'
          PROVE  stored'[task[u].id] = Absent /\ \A d \in abandoned : d.id # task[u].id
      <4>1. CASE u = t
        <5>1. kind = "ok" /\ c.op = "DELETE" /\ c.id \in Ids
          BY <1>1, <1>4, <3>3, <4>1, Calls DEF Answered, CallFits
        <5>2. DeleteGravitationalFieldCalculationOrderById(c)
          BY <5>1 DEF Execute, PostGravitationalFieldCalculationOrder,
             PutGravitationalFieldCalculationOrderById,
             GetGravitationalFieldCalculationOrderById, GetAllGravitationalFieldCalculationOrder
        <5> QED
          BY <1>1, <2>2, <4>1, <5>1, <5>2
             DEF DeleteGravitationalFieldCalculationOrderById, Store, IInv, PostInv, TypeOK
      <4>2. CASE u # t
        <5>1. Answered(u, "ok") /\ task[u].id \in Ids
          BY <1>4, <3>3, <4>2, HeldIds DEF Answered, IInv, Calculating
        <5>2. stored[task[u].id] = Absent /\ \A d \in abandoned : d.id # task[u].id
          BY <2>2, <3>3, <5>1 DEF IInv, TemporaryInv
        <5>3. c.id # task[u].id
          BY <1>1, <2>2, <3>3, <4>2 DEF IInv, TemporaryInv, Calculating
        <5> QED
          BY <1>2, <5>1, <5>2, <5>3 DEF Changed
      <4> QED
        BY <4>1, <4>2
    <3> QED
      BY <2>2, <3>1, <3>2, <3>3 DEF IInv, TemporaryInv, TypeOK, Tracked, Temporary
  <2> QED
    BY <2>1, <2>2 DEF IInv, TypeOK
<1>11. CleanInv'
  <2> USE DEF Kept
  <2>1. \A j \in Ids : \A y : Kept(j, y) => Kept(j, y)'
    BY <1>1, <1>2, <1>8 DEF Changed, NoPost, Posting, MayBeLate, Pending
  <2>2. ASSUME editor # NoEditor
        PROVE  Kept(editor.id, editor.clean)'
    <3>1. PICK i, y : i \in Ids /\ i = editor.id /\ y = editor.clean
      BY <2>2 DEF IInv, TypeOK
    <3>2. Kept(editor.id, editor.clean)
      BY <2>2 DEF IInv, CleanInv
    <3>3. Kept(i, y)
      BY ONLY <3>1, <3>2
    <3>4. Kept(i, y)'
      BY <2>1, <3>1, <3>3
    <3> QED
      BY <3>1, <3>4
  <2>3. ASSUME kind = "ok", c.op = "GET", NEW i \in Ids, i = c.id
        PROVE  Kept(i, body)'
    <3>1. Kept(i, body)
      BY <1>1, <1>3, <2>3 DEF IInv, PostInv, VersionsInv, NoPost, Claim, Posting
    <3> QED
      BY <2>1, <3>1
  <2>4. ASSUME NEW u \in Tasks, task[u].at = "opening", Answered(u, "ok")'
        PROVE  Kept(task[u].id, answers[u].body)'
    <3>1. PICK i \in Ids : i = task[u].id
      BY <2>4, HeldIds DEF IInv
    <3>2. PICK y : y = answers'[u].body
      OBVIOUS
    <3>3. CASE u = t
      <4>1. kind = "ok" /\ c.op = "GET" /\ i = c.id /\ y = body
        BY <1>1, <1>4, <2>4, <3>1, <3>2, <3>3 DEF CallFits, Answered
      <4> QED
        BY <2>3, <3>1, <3>2, <4>1
    <3>4. CASE u # t
      <4>1. Answered(u, "ok") /\ y = answers[u].body
        BY <1>4, <2>4, <3>2, <3>4 DEF Answered
      <4>2. Kept(i, y)
        BY <2>4, <3>1, <4>1 DEF IInv, CleanInv
      <4>3. Kept(i, y)'
        BY <2>1, <4>2
      <4> QED
        BY <3>1, <3>2, <4>3
    <3> QED
      BY <3>3, <3>4
  <2>5. ASSUME NEW u \in Tasks \ orphans, task[u].at = "getting", Answered(u, "ok")'
        PROVE  Claim(editor.id, answers[u].body)'
    <3>1. editor # NoEditor
      BY <2>5 DEF IInv, ScreenInv, Saving
    <3>2. PICK i \in Ids : i = editor.id
      BY <3>1 DEF IInv, TypeOK
    <3>3. PICK y : y = answers'[u].body
      OBVIOUS
    <3>4. CASE u = t
      <4>1. kind = "ok" /\ c.op = "GET" /\ i = c.id /\ y = body
        BY <1>1, <1>4, <2>5, <3>2, <3>3, <3>4 DEF CallFits, Answered, IInv, CleanInv
      <4> QED
        BY <2>3, <3>2, <3>3, <4>1
    <3>5. CASE u # t
      <4>1. Answered(u, "ok") /\ y = answers[u].body
        BY <1>4, <2>5, <3>3, <3>5 DEF Answered
      <4>2. Kept(i, y)
        BY <2>5, <3>1, <3>2, <4>1 DEF IInv, CleanInv
      <4>3. Kept(i, y)'
        BY <2>1, <4>2
      <4> QED
        BY <3>2, <3>3, <4>3
    <3> QED
      BY <3>4, <3>5
  <2>6. ASSUME NEW u \in Tasks, Pending(u)'
        PROVE  Pending(u) /\ calls'[u] = calls[u]
    BY <1>4, <2>6 DEF Pending
  <2> QED
    BY <2>2, <2>4, <2>5, <2>6 DEF IInv, CleanInv
<1> QED
  BY <1>5, <1>6, <1>7, <1>8, <1>9, <1>10, <1>11 DEF IInv

\* A POST that its task gives up may yet be executed.
LEMMA AbandonedCallKeepsInv ==
    ASSUME IInv, NEW t \in Tasks, MayBeLate(calls[t]),
           Answer(t, "failed", Absent),
           abandoned' = abandoned \cup {calls[t]},
           UNCHANGED <<stored, versions, task, orphans, pageVars, singleVars, page>>
    PROVE  IInv'
<1> DEFINE c == calls[t]
<1> USE DEF pageVars, screenVars, editorVars, singleVars, formVars
<1>1. /\ c \in Call /\ c.op = "POST" /\ c.id \in Ids /\ c.content \in Valid
      /\ page = "single" => task[t].at = "posting" /\ c.id = task[t].id
  BY PendingCall, Calls DEF IInv, MayBeLate, Pending
<1>2. /\ \A u \in Tasks : calls'[u] = IF u = t THEN NoCall ELSE calls[u]
      /\ \A u \in Tasks : answers'[u] = IF u = t THEN [kind |-> "failed", body |-> Absent] ELSE answers[u]
  BY DEF IInv, HandlersInv, Answer
<1>3. HandlersInv'
  BY AnswersKeepHandlers DEF IInv
<1>4. TypeOK'
  BY <1>1, <1>3 DEF IInv, TypeOK, HandlersInv
<1>5. ScreenInv' /\ VersionsInv'
  BY DEF IInv, ScreenInv, VersionsInv
<1>6. \A i \in Ids : NoPost(i) => NoPost(i)'
  BY <1>2 DEF NoPost, Posting, MayBeLate
<1>7. PostInv'
  BY <1>1, <1>2 DEF IInv, PostInv, Posting, MayBeLate
<1>8. ASSUME NEW u \in Tasks
      PROVE  /\ Pending(u)' => Pending(u) /\ calls'[u] = calls[u]
             /\ Answered(u, "ok")' => Answered(u, "ok") /\ answers'[u] = answers[u]
  BY <1>2 DEF Pending, Answered
<1>9. TemporaryInv'
  <2>1. CASE page = "orders"
    BY <1>1, <1>8, <2>1 DEF IInv, TemporaryInv, NoPoints, MayBeLate, Pending
  <2>2. CASE page = "single"
    <3>1. \A i \in Ids : Tracked(i)' <=> Tracked(i)
      BY DEF Tracked, Temporary
    <3>2. Tracked(c.id)
      BY <1>1, <2>2 DEF Tracked, Temporary, Calculating
    <3>3. \A u \in Tasks : task[u].at = "removing" => c.id # task[u].id
      BY <1>1, <2>2 DEF IInv, TemporaryInv, Calculating
    <3> QED
      BY <1>8, <2>2, <3>1, <3>2, <3>3 DEF IInv, TemporaryInv, Tracked, Temporary
  <2> QED
    BY <2>1, <2>2 DEF IInv, TypeOK
<1>10. CleanInv'
  <2>1. editor # NoEditor => editor.id \in Ids
    BY DEF IInv, TypeOK
  <2>2. \A u \in Tasks : task[u].at = "opening" => task[u].id \in Ids
    BY HeldIds DEF IInv
  <2>3. ASSUME NEW u \in Tasks, task[u].at = "opening", Answered(u, "ok")'
        PROVE  NoPost(task[u].id)' /\ Claim(task[u].id, answers[u].body)'
    BY <1>6, <1>8, <2>2, <2>3 DEF IInv, CleanInv, Claim, NoPost, Posting, MayBeLate
  <2> QED
    BY <1>6, <1>8, <2>1, <2>3 DEF IInv, CleanInv, Claim, NoPost, Posting, MayBeLate
<1> QED
  BY <1>3, <1>4, <1>5, <1>7, <1>9, <1>10 DEF IInv

\* Serve and Fail, in all their cases.
LEMMA ServiceKeepsInv ==
    ASSUME IInv, NEW t \in Tasks, Service(t)
    PROVE  IInv'
<1> USE DEF Service, singleVars, pageVars
<1>1. Pending(t)
  BY DEF Serve, Fail
<1>2. CASE Serve(t)
  BY <1>1, <1>2, BodyFits, AnsweredCallKeepsInv DEF Serve, IInv
<1>3. CASE Fail(t)
  <2>1. CASE MayBeLate(calls[t]) /\ abandoned' = abandoned \cup {calls[t]} /\ UNCHANGED <<stored, versions>>
    BY <1>3, <2>1, AbandonedCallKeepsInv DEF Fail
  <2>2. CASE (Execute(calls[t]) \/ UNCHANGED <<stored, versions>>) /\ UNCHANGED abandoned
    BY <1>1, <1>3, <2>2, AnsweredCallKeepsInv DEF Fail
  <2> QED
    BY <1>3, <2>1, <2>2 DEF Fail, serviceVars
<1> QED
  BY <1>2, <1>3

\* An order changes by itself: through a late POST, or another client.
LEMMA OrderChangesKeepInv ==
    ASSUME IInv, NEW i \in Ids, NEW x \in Valid \cup {Absent}, Store(i, x),
           abandoned' \subseteq abandoned,
           UNCHANGED <<handlerVars, orphans, pageVars, singleVars, page>>,
           \/ stored[i] # Absent /\ x \notin Points
           \/ \E c \in abandoned : c \notin abandoned' /\ c.id = i /\ c.content = x
    PROVE  IInv'
<1> USE DEF handlerVars, pageVars, screenVars, editorVars, singleVars, formVars
<1>1. /\ Typed' /\ VersionsInv'
      /\ \A j \in Ids : stored'[j] = IF j = i THEN x ELSE stored[j]
      /\ \A j \in Ids : \A y : /\ Claim(j, y)
                               /\ j = i => x = Absent \/ stored[i] # Absent
                               => Claim(j, y)'
  BY StoreKeepsClaims DEF IInv, TypeOK, Typed
<1>2. TypeOK' /\ HandlersInv' /\ ScreenInv'
  BY <1>1 DEF IInv, TypeOK, Typed, HandlersInv, ScreenInv, Pending, Answered, Places
<1>3. \A j \in Ids : NoPost(j) => NoPost(j)'
  BY DEF NoPost, Posting, MayBeLate
<1>4. NoPost(i) => stored[i] # Absent
  BY DEF NoPost
<1>5. PostInv'
  BY <1>1, Calls DEF IInv, PostInv, Posting, MayBeLate, HandlersInv, TypeOK
<1>6. \A j \in Ids : Tracked(j)' <=> Tracked(j)
  BY DEF Tracked, Temporary
<1>7. TemporaryInv'
  <2>1. CASE page = "orders"
    BY <1>1, <2>1, Data DEF IInv, TemporaryInv, NoPoints, Pending, Answered
  <2>2. CASE page = "single"
    <3>1. x \in Points => Tracked(i)
      BY <2>2 DEF IInv, TemporaryInv, Tracked, Temporary
    <3>2. \A j \in Ids : stored'[j] \in Points => Tracked(j)
      BY <1>1, <2>2, <3>1 DEF IInv, TemporaryInv, Tracked, Temporary
    <3>3. ASSUME NEW u \in Tasks, task[u].at = "removing", Answered(u, "ok")
          PROVE  stored'[task[u].id] = Absent /\ \A d \in abandoned : d.id # task[u].id
      BY <1>1, <2>2, <3>3, HeldIds DEF IInv, TemporaryInv, Calculating
    <3> QED
      BY <2>2, <1>6, <3>2, <3>3 DEF IInv, TemporaryInv, Tracked, Temporary, Answered
  <2> QED
    BY <2>1, <2>2 DEF IInv, TypeOK
<1>8. CleanInv'
  <2> USE DEF Kept
  <2>1. \A j \in Ids : \A y : Kept(j, y) => Kept(j, y)'
    BY <1>1, <1>3, <1>4
  <2>2. ASSUME NEW j \in Ids, NEW y, Kept(j, y) PROVE Kept(j, y)'
    BY <2>1, <2>2
  <2>3. editor # NoEditor => Kept(editor.id, editor.clean)'
    BY <2>1 DEF IInv, TypeOK, CleanInv, NoPost, Claim, Posting, MayBeLate
  <2>4. ASSUME NEW u \in Tasks, task[u].at = "opening", Answered(u, "ok")
        PROVE  Kept(task[u].id, answers[u].body)'
    <3>1. task[u].id \in Ids /\ Kept(task[u].id, answers[u].body)
      BY <2>4, HeldIds DEF IInv, CleanInv
    <3> QED
      BY <2>1, <3>1 DEF NoPost, Claim, Posting, MayBeLate
  <2>5. ASSUME NEW u \in Tasks \ orphans, task[u].at = "getting", Answered(u, "ok")
        PROVE  Claim(editor.id, answers[u].body)'
    <3>1. editor.id \in Ids /\ Kept(editor.id, answers[u].body)
      BY <2>5 DEF IInv, TypeOK, ScreenInv, CleanInv, Saving
    <3> QED
      BY <2>1, <3>1 DEF NoPost, Claim, Posting, MayBeLate
  <2> QED
    BY <2>3, <2>4, <2>5 DEF IInv, CleanInv, Pending, Answered
<1> QED
  BY <1>1, <1>2, <1>5, <1>7, <1>8 DEF IInv

\* A late POST and the writes of other clients.
LEMMA ElsewhereKeepsInv ==
    ASSUME IInv, Elsewhere
    PROVE  IInv'
<1> USE DEF Elsewhere
<1>1. CASE \E c \in abandoned : ExecuteLate(c)
  <2>1. PICK c \in abandoned : ExecuteLate(c)
    BY <1>1
  <2>2. /\ c \in Call /\ c.op = "POST" /\ stored[c.id] = Absent
        /\ c.id \in Ids /\ c.content \in Valid
    BY Calls DEF IInv, TypeOK, PostInv, MayBeLate
  <2>3. Store(c.id, c.content) /\ abandoned' = abandoned \ {c}
    BY <2>1, <2>2 DEF ExecuteLate, PostGravitationalFieldCalculationOrder
  <2> QED
    BY <1>1, <2>1, <2>2, <2>3, OrderChangesKeepInv DEF ExecuteLate
<1>2. CASE \E i \in Ids, content \in Others : OtherClient(i, content)
  <2>1. PICK i \in Ids, content \in Others : OtherClient(i, content)
    BY <1>2
  <2>2. content \in Valid \cup {Absent} /\ content \notin Points
    BY Data
  <2> QED
    BY <1>2, <2>1, <2>2, OrderChangesKeepInv DEF OtherClient
<1> QED
  BY <1>1, <1>2

-----------------------------------------------------------------------------
(***************************************************************************)
(* The page of orders.                                                     *)
(***************************************************************************)
\* An editor that shows what has been read, and no temporary order.
EditorFits(e) ==
    e # NoEditor => /\ Kept(e.id, e.clean)
                    /\ e.shown \notin Points /\ e.clean \notin Points

ScreenTyped ==
    /\ listed \subseteq Ids /\ selected \subseteq Ids
    /\ current \in [id : Ids, content : Valid] \cup {NoOrder}
    /\ editor \in [id : Ids, shown : Contents, clean : Valid] \cup {NoEditor}
    /\ asking \in BOOLEAN /\ consented \in BOOLEAN
    /\ orphans \subseteq Tasks

\* A handler runs on, and the screen changes in a way that fits.
LEMMA OrdersMoveKeepsInv ==
    ASSUME IInv, page = "orders", UNCHANGED <<serviceVars, singleVars, page>>,
           NEW t \in Tasks, NEW s \in States, NEW c \in Call \cup {NoCall},
           Await(t, s, c), s.at \notin Calculating,
           c # NoCall => CallFits(s, c),
           s.at \in {"confirming", "deleting"} => s.rest \subseteq s.asked,
           MayBeLate(c) => /\ Fresh(c.id)
                           /\ editor' # NoEditor => c.id # editor'.id,
           c # NoCall /\ c.op \in {"POST", "PUT"} => c.content \notin Points,
           ScreenTyped', ScreenInv',
           NEW e, e = editor', EditorFits(e),
           \A u \in (Tasks \ {t}) \ orphans' :
                task[u].at \in Saving => u \notin orphans /\ e.id = editor.id,
           t \notin orphans' => /\ s.at = "putting" => s.id = e.id
                                /\ s.at = "getting" => c.id = e.id
    PROVE  IInv'
<1>1. HandlersInv'
  <2>1. s.at \in Places
    BY DEF Places, States, Idle, Deletions, Steps, Calculating
  <2> QED
    BY <2>1, MovesKeepHandlers DEF IInv
<1>2. PostInv' /\ \A i \in Ids : NoPost(i) /\ ~(MayBeLate(c) /\ c.id = i) => NoPost(i)'
  BY MovesKeepPosts DEF IInv, Fresh
<1>3. TypeOK'
  BY <1>1 DEF IInv, TypeOK, ScreenTyped, HandlersInv, serviceVars, singleVars, formVars
<1>4. VersionsInv'
  BY DEF IInv, VersionsInv, serviceVars
<1>5. /\ \A u \in Tasks : task'[u] = IF u = t THEN s ELSE task[u]
      /\ \A u \in Tasks : calls'[u] = IF u = t THEN c ELSE calls[u]
      /\ \A u \in Tasks : answers'[u] = IF u = t THEN NoCall ELSE answers[u]
  BY DEF Await, Send, IInv, HandlersInv
<1>6. ASSUME NEW u \in Tasks
      PROVE  Answered(u, "ok")' => /\ u # t /\ task'[u] = task[u]
                                   /\ Answered(u, "ok") /\ answers'[u] = answers[u]
  BY <1>5 DEF Answered
<1>7. TemporaryInv'
  <2>1. NoPoints
    BY DEF IInv, TemporaryInv
  <2>2. \A u \in Tasks : Pending(u)' /\ calls'[u].op \in {"POST", "PUT"} => calls'[u].content \notin Points
    BY <1>5, <2>1 DEF NoPoints, Pending
  <2> QED
    BY <1>6, <2>1, <2>2 DEF TemporaryInv, NoPoints, EditorFits, serviceVars
<1>8. \A i \in Ids : \A y : Claim(i, y) => Claim(i, y)'
  BY DEF Claim, serviceVars
<1>9. CleanInv'
  <2>1. ASSUME e # NoEditor PROVE NoPost(editor.id)' /\ Claim(editor.id, editor.clean)'
    <3>1. e.id \in Ids /\ NoPost(e.id) /\ Claim(e.id, e.clean) /\ ~(MayBeLate(c) /\ c.id = e.id)
      BY <2>1 DEF ScreenTyped, EditorFits, Kept
    <3> QED
      BY <1>2, <3>1 DEF Claim, NoPost, Posting, MayBeLate, serviceVars
  <2>2. ASSUME NEW u \in Tasks, task'[u].at = "opening", Answered(u, "ok")'
        PROVE  NoPost(task[u].id)' /\ Claim(task[u].id, answers[u].body)'
    <3>1. /\ u # t /\ task'[u] = task[u] /\ task[u].at = "opening"
          /\ Answered(u, "ok") /\ answers'[u] = answers[u]
      BY <1>6, <2>2
    <3>2. task[u].id \in Ids /\ task[u].id \in Known
      BY <3>1, HeldIds DEF IInv
    <3>3. NoPost(task[u].id) /\ Claim(task[u].id, answers[u].body) /\ ~(MayBeLate(c) /\ c.id = task[u].id)
      BY <3>1, <3>2 DEF IInv, CleanInv, Fresh
    <3> QED
      BY <1>2, <3>1, <3>2, <3>3 DEF Claim, NoPost, Posting, MayBeLate, serviceVars
  <2>3. ASSUME NEW u \in Tasks, u \notin orphans'
        PROVE  /\ task'[u].at = "putting" => task'[u].id = e.id
               /\ task'[u].at = "getting" /\ Pending(u)' => calls'[u].id = e.id
               /\ task'[u].at = "getting" /\ Answered(u, "ok")' => Claim(editor.id, answers[u].body)'
    <3>1. CASE u = t
      BY <1>5, <1>6, <2>3, <3>1 DEF Pending
    <3>2. CASE u # t
      BY <1>5, <1>6, <2>3, <3>2 DEF Pending, Saving, IInv, CleanInv, Claim, serviceVars
    <3> QED
      BY <3>1, <3>2
  <2> QED
    BY <2>1, <2>2, <2>3 DEF CleanInv
<1> QED
  BY <1>1, <1>2, <1>3, <1>4, <1>7, <1>9 DEF IInv

\* No handler runs on, and the editor stays.
LEMMA OrdersStayKeepsInv ==
    ASSUME IInv, page = "orders",
           UNCHANGED <<serviceVars, singleVars, page, calls, answers, orphans>>,
           task' \in [Tasks -> States],
           \A u \in Tasks :
                \/ task'[u] = task[u]
                \/ /\ task[u].at = "deleting" /\ task'[u].at = "deleting"
                   /\ task'[u].rest = task[u].rest /\ task'[u].asked = task[u].asked
                \/ /\ task[u] = Idle /\ task'[u].at = "confirming"
                   /\ task'[u].rest \subseteq task'[u].asked,
           ScreenTyped', current' = current,
           NEW e, e = editor', EditorFits(e),
           editor = NoEditor <=> e = NoEditor,
           e # NoEditor => e.id = editor.id
    PROVE  IInv'
<1> USE DEF serviceVars, singleVars, formVars
<1>1. ASSUME NEW u \in Tasks
      PROVE  /\ task'[u].at \in Saving \cup {"opening", "listing", "adding"} => task'[u] = task[u]
             /\ task[u] = Idle => ~Pending(u)
  BY DEF Idle, Saving, IInv, HandlersInv, CallFits
<1>2. HandlersInv'
  <2>1. ASSUME NEW u \in Tasks
        PROVE  /\ task'[u].at \in Places
               /\ Pending(u) => CallFits(task'[u], calls[u])
               /\ Answered(u, "ok") => AnswerFits(task'[u], answers[u].body)
               /\ task'[u].at \in {"confirming", "deleting"} => task'[u].rest \subseteq task'[u].asked
    <3>1. CASE task'[u] = task[u]
      BY <3>1 DEF IInv, HandlersInv
    <3>2. CASE task[u] = Idle /\ task'[u].at = "confirming" /\ task'[u].rest \subseteq task'[u].asked
      BY <1>1, <3>2 DEF IInv, HandlersInv, AnswerFits, Places
    <3>3. CASE /\ task[u].at = "deleting" /\ task'[u].at = "deleting"
               /\ task'[u].rest = task[u].rest /\ task'[u].asked = task[u].asked
      BY <3>3 DEF IInv, HandlersInv, AnswerFits, CallFits, Places, Calculating
    <3> QED
      BY <3>1, <3>2, <3>3
  <2> QED
    BY <2>1 DEF IInv, HandlersInv, Places, Pending, Answered
<1>3. TypeOK'
  BY DEF IInv, TypeOK, ScreenTyped
<1>4. ScreenInv'
  BY <1>1 DEF IInv, ScreenInv
<1>5. PostInv' /\ VersionsInv'
  BY DEF IInv, PostInv, VersionsInv, Posting
<1>6. TemporaryInv'
  <2>1. NoPoints
    BY DEF IInv, TemporaryInv
  <2> QED
    BY <1>1, <2>1 DEF TemporaryInv, NoPoints, EditorFits, Pending, Answered, Saving
<1>7. CleanInv'
  <2>1. editor' # NoEditor => NoPost(editor.id)' /\ Claim(editor.id, editor.clean)'
    BY DEF EditorFits, Kept, NoPost, Claim, Posting
  <2>2. ASSUME NEW u \in Tasks, task'[u].at = "opening", Answered(u, "ok")'
        PROVE  NoPost(task[u].id)' /\ Claim(task[u].id, answers[u].body)'
    BY <1>1, <2>2 DEF IInv, CleanInv, Answered, NoPost, Claim, Posting
  <2>3. ASSUME NEW u \in Tasks \ orphans'
        PROVE  /\ task'[u].at = "putting" => task'[u].id = e.id
               /\ task'[u].at = "getting" /\ Pending(u)' => calls'[u].id = e.id
               /\ task'[u].at = "getting" /\ Answered(u, "ok")' => Claim(editor.id, answers[u].body)'
    BY <1>1, <1>4, <2>3 DEF IInv, CleanInv, ScreenInv, Saving, Pending, Answered, Claim
  <2> QED
    BY <2>1, <2>2, <2>3 DEF CleanInv
<1> QED
  BY <1>2, <1>3, <1>4, <1>5, <1>6, <1>7 DEF IInv

\* The screen is rendered: an editor appears with what has just been read, it
\* stays, or it goes and makes orphans of the handlers that save.
LEMMA RenderFits ==
    ASSUME IInv, page = "orders", NEW order, Render(order),
           \/ order = current
           \/ /\ order \in [id : Ids, content : Valid]
              /\ Kept(order.id, order.content) /\ order.content \notin Points,
           \A u \in Tasks : task'[u].at \in Saving => task'[u] = task[u]
    PROVE  /\ current' \in [id : Ids, content : Valid] \cup {NoOrder}
           /\ editor' \in [id : Ids, shown : Contents, clean : Valid] \cup {NoEditor}
           /\ asking' \in BOOLEAN /\ consented' \in BOOLEAN
           /\ orphans' \subseteq Tasks
           /\ ScreenInv'
           /\ \A e : e = editor' => EditorFits(e)
           /\ \A u \in Tasks \ orphans' :
                task[u].at \in Saving => u \notin orphans /\ editor'.id = editor.id
           /\ editor' # NoEditor => editor' = editor \/ editor'.id = order.id
<1> USE DEF Render
<1>1. order \in [id : Ids, content : Valid] \cup {NoOrder}
  BY DEF IInv, TypeOK
<1>2. EditorFits(editor)
  BY DEF EditorFits, Kept, IInv, CleanInv, TemporaryInv, NoPoints
<1>3. CASE order = NoOrder
  <2>1. editor' = NoEditor /\ orphans' = orphans \cup {u \in Tasks : task[u].at \in Saving}
    BY <1>3 DEF Shown
  <2> QED
    BY <1>3, <2>1 DEF IInv, TypeOK, ScreenInv, EditorFits
<1>4. CASE order # NoOrder /\ editor # NoEditor
  <2>1. editor' = editor /\ orphans' = orphans
    BY <1>4 DEF Shown
  <2> QED
    BY <1>1, <1>2, <1>4, <2>1 DEF IInv, TypeOK, ScreenInv
<1>5. CASE order # NoOrder /\ editor = NoEditor
  <2>1. order # current
    BY <1>5 DEF IInv, ScreenInv
  <2>2. /\ order \in [id : Ids, content : Valid]
        /\ Kept(order.id, order.content) /\ order.content \notin Points
    BY <2>1
  <2> DEFINE new == [id |-> order.id, shown |-> order.content, clean |-> order.content]
  <2>3. Shown(order) = new
    BY <1>5 DEF Shown
  <2>4. new \in [id : Ids, shown : Contents, clean : Valid] /\ new # NoEditor
    BY <2>2, Data, PagesAssumption
  <2>5. editor' = new /\ orphans' = orphans
    BY <2>3, <2>4
  <2>6. EditorFits(new)
    BY <2>2 DEF EditorFits
  <2>7. \A u \in Tasks \ orphans : task[u].at \notin Saving
    BY <1>5 DEF IInv, ScreenInv
  <2> QED
    BY <1>1, <2>4, <2>5, <2>6, <2>7 DEF IInv, TypeOK, ScreenInv
<1> QED
  BY <1>3, <1>4, <1>5

\* A handler of the list runs on and renders the screen.
LEMMA RenderedMoveKeepsInv ==
    ASSUME IInv, page = "orders", UNCHANGED <<serviceVars, singleVars, page>>,
           NEW t \in Tasks, NEW s \in States, NEW c \in Call \cup {NoCall},
           Await(t, s, c), s.at \notin Calculating \cup Saving,
           c # NoCall => CallFits(s, c) /\ c.op \notin {"POST", "PUT"},
           s.at \in {"confirming", "deleting"} => s.rest \subseteq s.asked,
           listed' \subseteq Ids, selected' \subseteq Ids,
           NEW order, Render(order),
           \/ order = current
           \/ /\ order \in [id : Ids, content : Valid]
              /\ Kept(order.id, order.content) /\ order.content \notin Points
    PROVE  IInv'
<1>1. \A u \in Tasks : task'[u] = IF u = t THEN s ELSE task[u]
  BY DEF Await, IInv, HandlersInv
<1>2. PICK e : e = editor'
  OBVIOUS
<1>3. /\ ScreenTyped' /\ ScreenInv' /\ EditorFits(e)
      /\ \A u \in Tasks \ orphans' :
            task[u].at \in Saving => u \notin orphans /\ e.id = editor.id
  BY <1>1, <1>2, RenderFits DEF ScreenTyped
<1> QED
  BY <1>2, <1>3, OrdersMoveKeepsInv DEF MayBeLate, Saving

\* A handler runs on and leaves the editor alone.
LEMMA QuietMoveKeepsInv ==
    ASSUME IInv, page = "orders", UNCHANGED <<serviceVars, singleVars, page>>,
           NEW t \in Tasks, NEW s \in States, NEW c \in Call \cup {NoCall},
           Await(t, s, c), s.at \notin Calculating \cup Saving,
           c # NoCall => CallFits(s, c) /\ c.op # "PUT",
           s.at \in {"confirming", "deleting"} => s.rest \subseteq s.asked,
           MayBeLate(c) => Fresh(c.id) /\ c.content \notin Points,
           listed' \subseteq Ids, selected' \subseteq Ids,
           asking' \in BOOLEAN, consented' \in BOOLEAN,
           current' \in {current, NoOrder}, UNCHANGED <<editor, orphans>>
    PROVE  IInv'
<1>1. \A u \in Tasks : task'[u] = IF u = t THEN s ELSE task[u]
  BY DEF Await, IInv, HandlersInv
<1>2. ScreenTyped'
  BY DEF IInv, TypeOK, ScreenTyped
<1>3. ScreenInv'
  BY <1>1 DEF IInv, ScreenInv
<1>4. EditorFits(editor)
  BY DEF EditorFits, Kept, IInv, CleanInv, TemporaryInv, NoPoints
<1>5. MayBeLate(c) => Fresh(c.id) /\ (editor # NoEditor => c.id # editor.id)
  BY DEF Fresh, Known
<1> QED
  BY <1>2, <1>3, <1>4, <1>5, OrdersMoveKeepsInv DEF MayBeLate, Saving

\* The states that handlers run on to.
LEMMA NextStates ==
    /\ Idle \in States
    /\ \A i \in Ids : [at |-> "adding", id |-> i] \in States /\ Opening(i) \in States
                      /\ [at |-> "putting", id |-> i] \in States
    /\ \A i \in Ids \cup {NoId} : [at |-> "listing", next |-> i] \in States
    /\ [at |-> "getting"] \in States
    /\ \A ids \in SUBSET Ids : \A at \in {"confirming", "left"} : \A byList \in BOOLEAN :
            Deletion(at, ids, byList) \in Deletions
    /\ Deletions \subseteq States /\ Steps \subseteq States
BY DEF States, Deletion, Deletions, Opening, Idle

\* A handler that ends, with or without a rendering.
LEMMA FinishKeepsInv ==
    ASSUME IInv, page = "orders", NEW t \in Tasks, Return(t) \/ (Finish(t) /\ UNCHANGED <<pageVars, orphans>>),
           UNCHANGED <<serviceVars, singleVars, page>>
    PROVE  IInv'
<1> USE NextStates DEF Finish, Idle, Calculating, Saving
<1>1. CASE Return(t)
  BY <1>1, RenderedMoveKeepsInv DEF Return, MayBeLate, IInv, TypeOK
<1>2. CASE Finish(t) /\ UNCHANGED <<pageVars, orphans>>
  BY <1>2, QuietMoveKeepsInv DEF pageVars, screenVars, editorVars, MayBeLate, IInv, TypeOK
<1> QED
  BY <1>1, <1>2

\* OnInitializedAsync begins.
LEMMA ReloadKeepsInv ==
    ASSUME IInv, page = "orders", NEW t \in Tasks, NEW next \in Ids \cup {NoId}, BeginReload(t, next),
           UNCHANGED <<serviceVars, singleVars, page, listed, selected, editor, orphans>>,
           asking' \in BOOLEAN, consented' \in BOOLEAN
    PROVE  IInv'
<1> DEFINE s == [at |-> "listing", next |-> next]
           c == [op |-> "GETALL"]
<1>1. s \in States /\ c \in Call /\ CallFits(s, c) /\ s.at = "listing" /\ c.op = "GETALL"
  BY NextStates DEF Call, CallFits, Calculating
<1> HIDE DEF s, c
<1>2. Await(t, s, c) /\ current' = NoOrder
  BY DEF BeginReload, s, c
<1> QED
  BY <1>1, <1>2, QuietMoveKeepsInv DEF IInv, TypeOK, MayBeLate, Calculating, Saving

\* A loop of deletions takes one of the orders it has left.
LEMMA DeleteOneFits ==
    ASSUME IInv, NEW t \in Tasks, task[t] \in Deletions, NEW ids \in SUBSET Ids,
           ids \subseteq task[t].asked \/ task[t].at = "left",
           DeleteOneOf(t, ids)
    PROVE  \E s \in Deletions, c \in Call :
                /\ Await(t, s, c) /\ CallFits(s, c) /\ c.op = "DELETE"
                /\ s.at \in {"deleting", "left"}
                /\ s.at = "deleting" => s.rest \subseteq s.asked
<1>1. PICK i \in ids :
        Await(t, [task[t] EXCEPT !.rest = ids \ {i}, !.at = IF @ = "left" THEN @ ELSE "deleting"],
                [op |-> "DELETE", id |-> i])
  BY DEF DeleteOneOf
<1> DEFINE s == [task[t] EXCEPT !.rest = ids \ {i}, !.at = IF @ = "left" THEN @ ELSE "deleting"]
           c == [op |-> "DELETE", id |-> i]
<1>2. /\ s \in Deletions /\ s.rest = ids \ {i} /\ s.asked = task[t].asked
      /\ s.at = IF task[t].at = "left" THEN "left" ELSE "deleting"
  BY DEF Deletions
<1>3. c \in Call /\ c.op = "DELETE" /\ c.id = i
  BY DEF Call
<1>4. Await(t, s, c)
  BY <1>1
<1> HIDE DEF s, c
<1>5. CallFits(s, c)
  BY <1>2, <1>3 DEF CallFits, Calculating
<1>6. /\ s.at \in {"deleting", "left"}
      /\ s.at = "deleting" => s.rest \subseteq s.asked
  BY <1>2
<1> QED
  BY <1>2, <1>3, <1>4, <1>5, <1>6

\* The steps of the list of orders.
LEMMA AddKeepsInv ==
    ASSUME IInv, page = "orders", NEW t \in Tasks, NEW i \in Ids, Fresh(i),
           AddGravitationalFieldCalculationOrder(t, i), UNCHANGED <<serviceVars, singleVars, page>>
    PROVE  IInv'
<1> DEFINE s == [at |-> "adding", id |-> i]
           c == [op |-> "POST", id |-> i, content |-> Default]
<1>1. s \in States /\ s.at = "adding" /\ s.id = i
  BY NextStates
<1>2. c \in Call /\ c.op = "POST" /\ c.id = i /\ c.content \notin Points
  BY Data DEF Call
<1> HIDE DEF s, c
<1>3. CallFits(s, c)
  BY <1>1, <1>2 DEF CallFits
<1>4. Await(t, s, c) /\ UNCHANGED <<pageVars, orphans>>
  BY DEF AddGravitationalFieldCalculationOrder, s, c
<1> QED
  BY <1>1, <1>2, <1>3, <1>4, QuietMoveKeepsInv
     DEF pageVars, screenVars, editorVars, IInv, TypeOK, Calculating, Saving

\* The GET that opens an order.
LEMMA OpenFits ==
    ASSUME NEW i \in Ids
    PROVE  /\ Opening(i) \in States /\ Opening(i).at = "opening"
           /\ [op |-> "GET", id |-> i] \in Call /\ [op |-> "GET", id |-> i].op = "GET"
           /\ CallFits(Opening(i), [op |-> "GET", id |-> i])
BY NextStates DEF Call, CallFits, Opening

\* A click on a row.
LEMMA RowClickedKeepsInv ==
    ASSUME IInv, page = "orders", NEW t \in Tasks, NEW i \in Ids, RowClicked(t, i),
           UNCHANGED <<serviceVars, singleVars, page>>
    PROVE  IInv'
<1>1. Await(t, Opening(i), [op |-> "GET", id |-> i]) /\ UNCHANGED <<pageVars, orphans>>
  BY DEF RowClicked
<1> QED
  BY <1>1, OpenFits, QuietMoveKeepsInv
     DEF pageVars, screenVars, editorVars, IInv, TypeOK, MayBeLate, Calculating, Saving

\* The list has been loaded, and the new order is opened if there is one.
LEMMA ListedKeepsInv ==
    ASSUME IInv, page = "orders", NEW t \in Tasks, Listed(t), UNCHANGED <<serviceVars, singleVars, page>>
    PROVE  IInv'
<1>1. listed' \subseteq Ids /\ selected' \subseteq Ids /\ Render(current)
  BY DEF Listed, Resumes, IInv, TypeOK, HandlersInv, AnswerFits
<1> DEFINE i == task[t].next
<1>2. CASE i \in listed'
  <2>1. Await(t, Opening(i), [op |-> "GET", id |-> i]) /\ i \in Ids
    BY <1>1, <1>2 DEF Listed
  <2> QED
    BY <1>1, <2>1, OpenFits, RenderedMoveKeepsInv DEF MayBeLate, Calculating, Saving
<1>3. CASE i \notin listed'
  <2>1. Await(t, Idle, NoCall)
    BY <1>3 DEF Listed, Finish
  <2> QED
    BY <1>1, <2>1, NextStates, RenderedMoveKeepsInv DEF MayBeLate, Calculating, Saving, Idle
<1> QED
  BY <1>2, <1>3

\* A new order has been posted, or not.
LEMMA AddedKeepsInv ==
    ASSUME IInv, page = "orders", NEW t \in Tasks, Added(t), UNCHANGED <<serviceVars, singleVars, page>>
    PROVE  IInv'
<1>1. task[t].id \in Ids
  BY HeldIds DEF Added, Resumes, IInv
<1>2. CASE Reload(t, task[t].id)
  BY <1>1, <1>2, ReloadKeepsInv DEF Reload, editorVars, IInv, TypeOK
<1>3. CASE Return(t)
  BY <1>3, FinishKeepsInv
<1> QED
  BY <1>2, <1>3 DEF Added

\* The order that was read goes into the editor: nothing can have replaced it
\* since.
LEMMA EditOrderKeepsInv ==
    ASSUME IInv, page = "orders", NEW t \in Tasks, EditGravitationalFieldCalculationOrder(t),
           UNCHANGED <<serviceVars, singleVars, page>>
    PROVE  IInv'
<1> DEFINE order == IF Answered(t, "ok") THEN [id |-> task[t].id, content |-> answers[t].body]
                                         ELSE current
<1>1. task[t].at = "opening" /\ task[t].id \in Ids
  BY HeldIds DEF EditGravitationalFieldCalculationOrder, Resumes, IInv
<1>2. Answered(t, "ok") =>
        /\ answers[t].body \in Valid /\ answers[t].body \notin Points
        /\ NoPost(task[t].id) /\ Claim(task[t].id, answers[t].body)
  BY <1>1 DEF IInv, HandlersInv, AnswerFits, TemporaryInv, NoPoints, CleanInv
<1>3. \/ order = current
      \/ /\ order \in [id : Ids, content : Valid]
         /\ Kept(order.id, order.content) /\ order.content \notin Points
  BY <1>1, <1>2 DEF Kept
<1>4. Render(order) /\ Await(t, Idle, NoCall) /\ UNCHANGED <<listed, selected>>
  BY DEF EditGravitationalFieldCalculationOrder, Finish
<1> HIDE DEF order
<1> QED
  BY <1>3, <1>4, NextStates, RenderedMoveKeepsInv DEF IInv, TypeOK, MayBeLate, Calculating, Saving, Idle

\* The user confirms a deletion, or does not.
LEMMA ConfirmDeletionKeepsInv ==
    ASSUME IInv, page = "orders", NEW t \in Tasks, ConfirmDeletion(t),
           UNCHANGED <<serviceVars, singleVars, page>>
    PROVE  IInv'
<1>1. /\ task[t] \in Deletions /\ task[t].rest \in SUBSET Ids
      /\ task[t].rest \subseteq task[t].asked
  BY PlaceOf DEF ConfirmDeletion, Deletions, IInv, HandlersInv
<1>2. Render(current) /\ UNCHANGED <<listed, selected>>
  BY DEF ConfirmDeletion
<1>3. CASE DeleteOneOf(t, task[t].rest)
  <2>1. PICK s \in Deletions, c \in Call :
            /\ Await(t, s, c) /\ CallFits(s, c) /\ c.op = "DELETE"
            /\ s.at \in {"deleting", "left"}
            /\ s.at = "deleting" => s.rest \subseteq s.asked
    BY <1>1, <1>3, DeleteOneFits
  <2>2. s \in States /\ s.at \notin Calculating \cup Saving /\ s.at # "confirming"
    BY <2>1, NextStates DEF Calculating, Saving
  <2>3. listed' \subseteq Ids /\ selected' \subseteq Ids
    BY <1>2 DEF IInv, TypeOK
  <2> QED
    BY <1>2, <2>1, <2>2, <2>3, RenderedMoveKeepsInv
<1>4. CASE Finish(t)
  BY <1>2, <1>4, FinishKeepsInv DEF Return
<1> QED
  BY <1>3, <1>4 DEF ConfirmDeletion

\* A loop of deletions goes on, is broken off or ends.
LEMMA DeletedKeepsInv ==
    ASSUME IInv, page = "orders", NEW t \in Tasks, Deleted(t) \/ LeftStep(t),
           UNCHANGED <<serviceVars, singleVars, page>>
    PROVE  IInv'
<1>1. /\ task[t] \in Deletions /\ task[t].rest \in SUBSET Ids
      /\ task[t].rest \subseteq task[t].asked \/ task[t].at = "left"
  BY PlaceOf DEF Deleted, LeftStep, Resumes, Deletions, IInv, HandlersInv
<1>2. CASE DeleteOneOf(t, task[t].rest) /\ UNCHANGED <<pageVars, orphans>>
  <2>1. PICK s \in Deletions, c \in Call :
            /\ Await(t, s, c) /\ CallFits(s, c) /\ c.op = "DELETE"
            /\ s.at \in {"deleting", "left"}
            /\ s.at = "deleting" => s.rest \subseteq s.asked
    BY <1>1, <1>2, DeleteOneFits
  <2>2. s \in States /\ s.at \notin Calculating \cup Saving /\ s.at # "confirming"
    BY <2>1, NextStates DEF Calculating, Saving
  <2> QED
    BY <1>2, <2>1, <2>2, QuietMoveKeepsInv
       DEF pageVars, screenVars, editorVars, IInv, TypeOK, MayBeLate
<1>3. CASE Reload(t, NoId)
  BY <1>3, ReloadKeepsInv DEF Reload, editorVars, IInv, TypeOK
<1>4. CASE Return(t) \/ (Finish(t) /\ UNCHANGED <<pageVars, orphans>>)
  BY <1>4, FinishKeepsInv
<1> QED
  BY <1>2, <1>3, <1>4 DEF Deleted, LeftStep

\* The steps of the editor.
LEMMA EditorHasFit ==
    ASSUME IInv, page = "orders"
    PROVE  EditorFits(editor)
BY DEF EditorFits, Kept, IInv, CleanInv, TemporaryInv, NoPoints

\* Save sends what the editor shows.
LEMMA SaveKeepsInv ==
    ASSUME IInv, page = "orders", NEW t \in Tasks, Save(t), UNCHANGED <<serviceVars, singleVars, page>>
    PROVE  IInv'
<1> DEFINE s == [at |-> "putting", id |-> editor.id]
           c == [op |-> "PUT", id |-> editor.id, content |-> editor.shown]
<1>1. editor # NoEditor /\ editor.id \in Ids /\ editor.shown \in Valid
  BY DEF Save, EditorOnScreen, IInv, TypeOK, Valid
<1>2. s \in States /\ s.at = "putting" /\ s.id = editor.id
  BY <1>1, NextStates
<1>3. c \in Call /\ c.op = "PUT" /\ c.id = editor.id /\ c.content \notin Points
  BY <1>1, EditorHasFit DEF Call, EditorFits
<1> HIDE DEF s, c
<1>4. CallFits(s, c)
  BY <1>2, <1>3 DEF CallFits, Calculating
<1>5. Await(t, s, c) /\ UNCHANGED <<pageVars, orphans>>
  BY DEF Save, s, c
<1>6. ScreenTyped' /\ ScreenInv'
  BY <1>1, <1>5 DEF pageVars, screenVars, editorVars, IInv, TypeOK, ScreenTyped, ScreenInv
<1> QED
  BY <1>2, <1>3, <1>4, <1>5, <1>6, EditorHasFit, OrdersMoveKeepsInv
     DEF pageVars, screenVars, editorVars, MayBeLate, Calculating, Saving

\* A save that was answered reads the order back.
LEMMA SavePutKeepsInv ==
    ASSUME IInv, page = "orders", NEW t \in Tasks, SavePut(t), UNCHANGED <<serviceVars, singleVars, page>>
    PROVE  IInv'
<1> DEFINE s == IF Answered(t, "ok") THEN [at |-> "getting"] ELSE Idle
           c == IF Answered(t, "ok") THEN [op |-> "GET", id |-> task[t].id] ELSE NoCall
<1>1. task[t].at = "putting" /\ task[t].id \in Ids
  BY HeldIds DEF SavePut, Resumes, IInv
<1>2. s \in States /\ s.at \in {"getting", "idle"} /\ (s.at = "getting" <=> Answered(t, "ok"))
  BY NextStates DEF Idle
<1>3. /\ c \in Call \cup {NoCall}
      /\ c # NoCall => CallFits(s, c) /\ c.op = "GET"
      /\ s.at = "getting" => c.id = task[t].id
  BY <1>1 DEF Call, CallFits, Calculating, Idle
<1>4. /\ Await(t, s, c)
      /\ orphans' = IF Answered(t, "ok") THEN orphans ELSE orphans \ {t}
      /\ UNCHANGED <<listed, selected, current, editor, asking, consented>>
  BY DEF SavePut, Finish
<1> HIDE DEF s, c
<1>5. \A u \in Tasks : task'[u] = IF u = t THEN s ELSE task[u]
  BY <1>4 DEF Await, IInv, HandlersInv
<1>6. ScreenTyped' /\ ScreenInv'
  BY <1>1, <1>2, <1>4, <1>5 DEF IInv, TypeOK, ScreenTyped, ScreenInv, Saving
<1>7. t \notin orphans' /\ s.at = "getting" => task[t].id = editor.id
  BY <1>1, <1>2, <1>4 DEF IInv, CleanInv
<1>8. \A u \in (Tasks \ {t}) \ orphans' : u \notin orphans
  BY <1>4
<1> QED
  BY <1>2, <1>3, <1>4, <1>6, <1>7, <1>8, EditorHasFit, OrdersMoveKeepsInv
     DEF MayBeLate, Calculating, Saving

\* What was read back replaces what the editor shows.
LEMMA SaveGotKeepsInv ==
    ASSUME IInv, page = "orders", NEW t \in Tasks, SaveGot(t), UNCHANGED <<serviceVars, singleVars, page>>
    PROVE  IInv'
<1>1. /\ Await(t, Idle, NoCall)
      /\ orphans' = orphans \ {t}
      /\ UNCHANGED <<listed, selected, current, asking, consented>>
      /\ task[t].at = "getting"
  BY DEF SaveGot, Finish, Resumes
<1>2. PICK e : e = editor'
  OBVIOUS
<1>3. \A u \in Tasks : task'[u] = IF u = t THEN Idle ELSE task[u]
  BY <1>1 DEF Await, IInv, HandlersInv
<1>4. /\ e \in [id : Ids, shown : Contents, clean : Valid] \cup {NoEditor}
      /\ EditorFits(e)
      /\ editor # NoEditor => e # NoEditor /\ e.id = editor.id
  <2>1. CASE Answered(t, "ok") /\ t \notin orphans
    <3>1. editor # NoEditor
      BY <1>1, <2>1 DEF IInv, ScreenInv, Saving
    <3> DEFINE body == answers[t].body
               new == [editor EXCEPT !.shown = body, !.clean = body]
    <3>2. e = new
      BY <1>2, <2>1 DEF SaveGot
    <3>3. body \in Valid /\ body \notin Points /\ Claim(editor.id, body) /\ NoPost(editor.id)
      BY <1>1, <2>1, <3>1 DEF IInv, HandlersInv, AnswerFits, TemporaryInv, NoPoints, CleanInv
    <3> HIDE DEF body
    <3>4. editor \in [id : Ids, shown : Contents, clean : Valid]
      BY <3>1 DEF IInv, TypeOK
    <3>5. /\ new \in [id : Ids, shown : Contents, clean : Valid]
          /\ new.id = editor.id /\ new.shown = body /\ new.clean = body
      BY <3>3, <3>4, Data
    <3>6. new # NoEditor
      BY <3>5, Data, PagesAssumption
    <3> QED
      BY <3>2, <3>3, <3>5, <3>6 DEF EditorFits, Kept
  <2>2. CASE ~(Answered(t, "ok") /\ t \notin orphans)
    <3>1. e = editor
      BY <1>2, <2>2 DEF SaveGot
    <3> QED
      BY <3>1, EditorHasFit DEF IInv, TypeOK
  <2> QED
    BY <2>1, <2>2
<1>5. ScreenTyped'
  BY <1>1, <1>2, <1>4 DEF IInv, TypeOK, ScreenTyped
<1>6. ScreenInv'
  BY <1>1, <1>2, <1>3, <1>4 DEF IInv, ScreenInv, Idle, Saving
<1>7. \A u \in (Tasks \ {t}) \ orphans' :
        task[u].at \in Saving => u \notin orphans /\ e.id = editor.id
  BY <1>1, <1>4 DEF IInv, ScreenInv
<1> QED
  BY <1>1, <1>2, <1>4, <1>5, <1>6, <1>7, NextStates, OrdersMoveKeepsInv
     DEF MayBeLate, Calculating, Idle

\* The editor is closed.
LEMMA ShowMainPanelKeepsInv ==
    ASSUME IInv, page = "orders", NEW t \in Tasks, ShowMainPanel(t),
           UNCHANGED <<serviceVars, singleVars, page, listed, selected, editor, orphans>>,
           asking' \in BOOLEAN
    PROVE  IInv'
BY ReloadKeepsInv DEF ShowMainPanel

\* The dialog, the selection and the fields of the editor change.
LEMMA StayKeepsInv ==
    ASSUME IInv, page = "orders", UNCHANGED <<serviceVars, singleVars, page, calls, answers, orphans>>,
           task' \in [Tasks -> States],
           \A u \in Tasks :
                \/ task'[u] = task[u]
                \/ /\ task[u].at = "deleting" /\ task'[u].at = "deleting"
                   /\ task'[u].rest = task[u].rest /\ task'[u].asked = task[u].asked
                \/ /\ task[u] = Idle /\ task'[u].at = "confirming"
                   /\ task'[u].rest \subseteq task'[u].asked,
           UNCHANGED <<listed, current, editor, consented>>,
           selected' \subseteq Ids, asking' \in BOOLEAN
    PROVE  IInv'
<1>1. ScreenTyped'
  BY DEF IInv, TypeOK, ScreenTyped
<1> QED
  BY <1>1, EditorHasFit, OrdersStayKeepsInv

\* Both ways to close the editor.
LEMMA CloseKeepsInv ==
    ASSUME IInv, page = "orders", NEW t \in Tasks,
           CloseEditorAsync(t) \/ ConfirmCloseWithoutSavingAsync(t),
           UNCHANGED <<serviceVars, singleVars, page>>
    PROVE  IInv'
<1>1. /\ UNCHANGED <<listed, selected, editor, orphans>>
      /\ asking' \in BOOLEAN
  BY DEF CloseEditorAsync, ConfirmCloseWithoutSavingAsync, IInv, TypeOK
<1>2. CASE ShowMainPanel(t)
  BY <1>1, <1>2, ShowMainPanelKeepsInv
<1>3. CASE UNCHANGED <<current, consented, handlerVars>>
  BY <1>1, <1>3, StayKeepsInv DEF handlerVars, IInv, TypeOK, HandlersInv
<1> QED
  BY <1>2, <1>3 DEF CloseEditorAsync, ConfirmCloseWithoutSavingAsync

\* The user edits.
LEMMA EditKeepsInv ==
    ASSUME IInv, page = "orders", NEW content \in Contents \ Points, Edit(content),
           UNCHANGED <<serviceVars, singleVars, page>>
    PROVE  IInv'
<1> DEFINE new == [editor EXCEPT !.shown = content]
<1>1. editor \in [id : Ids, shown : Contents, clean : Valid]
  BY DEF Edit, EditorOnScreen, IInv, TypeOK
<1>2. /\ new \in [id : Ids, shown : Contents, clean : Valid]
      /\ new.id = editor.id /\ new.shown = content /\ new.clean = editor.clean
  BY <1>1
<1>3. new # NoEditor
  BY <1>2, Data, PagesAssumption
<1>4. EditorFits(new)
  BY <1>2, EditorHasFit DEF EditorFits, Edit, EditorOnScreen
<1>5. editor # NoEditor /\ editor' = new
      /\ UNCHANGED <<listed, selected, current, orphans, asking, consented, handlerVars>>
  BY DEF Edit, EditorOnScreen
<1> HIDE DEF new
<1>6. ScreenTyped'
  BY <1>2, <1>5 DEF ScreenTyped, IInv, TypeOK
<1> QED
  BY <1>2, <1>3, <1>4, <1>5, <1>6, OrdersStayKeepsInv DEF handlerVars, IInv, HandlersInv

\* The user is asked what is to be deleted.
LEMMA ClickDeleteKeepsInv ==
    ASSUME IInv, page = "orders", NEW t \in Tasks, ClickDelete(t), UNCHANGED <<serviceVars, singleVars, page>>
    PROVE  IInv'
<1>1. PICK ids \in SUBSET Ids, byList \in BOOLEAN :
        task' = [task EXCEPT ![t] = Deletion("confirming", ids, byList)]
  BY DEF ClickDelete, IInv, TypeOK
<1>2. /\ Deletion("confirming", ids, byList) \in States
      /\ Deletion("confirming", ids, byList).at = "confirming"
      /\ Deletion("confirming", ids, byList).rest = Deletion("confirming", ids, byList).asked
  BY NextStates DEF Deletion
<1>3. task[t] = Idle /\ UNCHANGED <<pageVars, orphans, calls, answers>>
  BY DEF ClickDelete
<1>4. task' \in [Tasks -> States]
  BY <1>1, <1>2 DEF IInv, HandlersInv
<1>5. \A u \in Tasks : \/ task'[u] = task[u]
                       \/ /\ task[u] = Idle /\ task'[u].at = "confirming"
                          /\ task'[u].rest \subseteq task'[u].asked
  BY <1>1, <1>2, <1>3 DEF IInv, HandlersInv
<1> QED
  BY <1>3, <1>4, <1>5, StayKeepsInv DEF pageVars, screenVars, editorVars, IInv, TypeOK

\* The selection changes, also under a loop over it.
LEMMA SelectionKeepsInv ==
    ASSUME IInv, page = "orders", NEW items \in SUBSET Ids, SelectedItemsChanged(items),
           UNCHANGED <<serviceVars, singleVars, page>>
    PROVE  IInv'
<1>1. \A u \in Tasks : task'[u] = IF task[u].at = "deleting" /\ task[u].byList
                                  THEN [task[u] EXCEPT !.moved = TRUE] ELSE task[u]
  BY DEF SelectedItemsChanged
<1>2. ASSUME NEW u \in Tasks
      PROVE  /\ task'[u] \in States
             /\ \/ task'[u] = task[u]
                \/ /\ task[u].at = "deleting" /\ task'[u].at = "deleting"
                   /\ task'[u].rest = task[u].rest /\ task'[u].asked = task[u].asked
  <2>1. CASE task[u].at = "deleting" /\ task[u].byList
    <3>1. task[u] \in Deletions
      BY <2>1, PlaceOf DEF IInv
    <3>2. task'[u] = [task[u] EXCEPT !.moved = TRUE]
      BY <1>1, <2>1
    <3>3. /\ task'[u] \in Deletions /\ task'[u].at = task[u].at
          /\ task'[u].rest = task[u].rest /\ task'[u].asked = task[u].asked
      BY <3>1, <3>2 DEF Deletions
    <3> QED
      BY <2>1, <3>3, NextStates
  <2>2. CASE ~(task[u].at = "deleting" /\ task[u].byList)
    BY <1>1, <2>2 DEF IInv, HandlersInv
  <2> QED
    BY <2>1, <2>2
<1>3. task' \in [Tasks -> States]
  BY <1>2 DEF SelectedItemsChanged
<1> QED
  BY <1>2, <1>3, StayKeepsInv DEF SelectedItemsChanged, screenVars, editorVars, IInv, TypeOK

-----------------------------------------------------------------------------
(***************************************************************************)
(* The page of the single calculation.                                     *)
(***************************************************************************)
FormTyped ==
    /\ inputs \in Contents \cup {NoGravity} /\ isCalculating \in BOOLEAN
    /\ gravity \in Valid \cup {NoGravity} /\ leftovers \subseteq Ids
    /\ orphans \subseteq Tasks

\* A handler runs on, and loses track of nothing that is or may be stored.
LEMMA SingleMoveKeepsInv ==
    ASSUME IInv, page = "single", UNCHANGED <<serviceVars, pageVars, page>>,
           NEW t \in Tasks, NEW s \in {Idle} \cup Steps, NEW c \in Call \cup {NoCall},
           Await(t, s, c),
           c # NoCall => CallFits(s, c),
           MayBeLate(c) => Fresh(c.id),
           s # Idle => \/ Fresh(s.id)
                       \/ task[t].at \in Calculating /\ s.id = task[t].id,
           FormTyped',
           \A i \in Ids : Tracked(i) => Tracked(i)' \/ (stored[i] = Absent /\ \A d \in abandoned : d.id # i)
    PROVE  IInv'
<1> USE DEF pageVars, screenVars, editorVars
<1>1. s \in States /\ s.at \in {"idle"} \cup Calculating /\ (s.at \in Calculating <=> s # Idle)
  BY NextStates DEF Steps, Idle, Calculating
<1>2. HandlersInv'
  BY <1>1, MovesKeepHandlers DEF IInv, Places, Calculating
<1>3. PostInv' /\ \A i \in Ids : NoPost(i) /\ ~(MayBeLate(c) /\ c.id = i) => NoPost(i)'
  BY MovesKeepPosts DEF IInv, Fresh
<1>4. TypeOK'
  BY <1>2 DEF IInv, TypeOK, FormTyped, HandlersInv, serviceVars
<1>5. VersionsInv'
  BY DEF IInv, VersionsInv, serviceVars
<1>6. /\ \A u \in Tasks : task'[u] = IF u = t THEN s ELSE task[u]
      /\ \A u \in Tasks : answers'[u] = IF u = t THEN NoCall ELSE answers[u]
  BY DEF Await, Send, IInv, HandlersInv
<1>7. \A u \in Tasks : task'[u].at \in {"idle"} \cup Calculating
  BY <1>1, <1>6, PlaceOf DEF IInv
<1>8. ScreenInv'
  BY <1>7 DEF IInv, ScreenInv, Saving, Calculating
<1>9. TemporaryInv'
  <2>1. ASSUME NEW u \in Tasks, u # t, task[u].at \in Calculating, s # Idle
        PROVE  task[u].id # s.id
    <3>1. task[u].id \in Known
      BY <2>1, HeldIds DEF IInv
    <3> QED
      BY <2>1, <3>1 DEF Fresh, IInv, TemporaryInv
  <2>2. \A u, v \in Tasks :
            task'[u].at \in Calculating /\ task'[v].at \in Calculating /\ task'[u].id = task'[v].id => u = v
    BY <1>1, <1>6, <2>1 DEF IInv, TemporaryInv
  <2>3. \A i \in Ids : stored[i] \in Points => Tracked(i)'
    BY Data DEF IInv, TemporaryInv, Tracked, Temporary
  <2>4. \A d \in abandoned : d.id \in Ids /\ Tracked(d.id)
    BY Calls DEF IInv, TemporaryInv, TypeOK, PostInv, MayBeLate
  <2>5. \A d \in abandoned : d.id \in Temporary' \cup leftovers'
    BY <2>4 DEF Tracked
  <2>6. \A u \in Tasks : task'[u].at = "removing" /\ Answered(u, "ok")' =>
            stored[task'[u].id] = Absent /\ \A d \in abandoned : d.id # task'[u].id
    BY <1>6 DEF IInv, TemporaryInv, Answered
  <2> QED
    BY <2>2, <2>3, <2>5, <2>6 DEF TemporaryInv, Tracked, serviceVars
<1>10. CleanInv'
  <2>1. ASSUME editor # NoEditor PROVE NoPost(editor.id)' /\ Claim(editor.id, editor.clean)'
    <3>1. editor.id \in Ids /\ ~(MayBeLate(c) /\ c.id = editor.id)
      BY <2>1 DEF IInv, TypeOK, Fresh, Known
    <3> QED
      BY <1>3, <2>1, <3>1 DEF IInv, CleanInv, Claim, NoPost, Posting, MayBeLate, serviceVars
  <2> QED
    BY <1>7, <2>1 DEF CleanInv, Calculating
<1> QED
  BY <1>2, <1>3, <1>4, <1>5, <1>8, <1>9, <1>10 DEF IInv

\* The user fills in the form.
LEMMA TypeKeepsInv ==
    ASSUME IInv, NEW content \in Points, Type(content), UNCHANGED <<pageVars, serviceVars, page>>
    PROVE  IInv'
<1> USE DEF Type, pageVars, screenVars, editorVars, serviceVars, handlerVars
<1>1. TypeOK'
  BY ClientAssumption DEF IInv, TypeOK
<1>2. HandlersInv' /\ ScreenInv' /\ PostInv' /\ VersionsInv'
  BY DEF IInv, HandlersInv, ScreenInv, PostInv, VersionsInv, Posting, Pending, Answered, Places
<1>3. TemporaryInv' /\ CleanInv'
  BY DEF IInv, TemporaryInv, CleanInv, NoPoints, Tracked, Temporary, NoPost, Claim, Posting, Pending, Answered
<1> QED
  BY <1>1, <1>2, <1>3 DEF IInv

\* A temporary order is posted under a new Guid.
LEMMA CalculateKeepsInv ==
    ASSUME IInv, page = "single", NEW t \in Tasks, NEW i \in Ids, Fresh(i), CalculateAsync(t, i),
           UNCHANGED <<pageVars, serviceVars, page>>
    PROVE  IInv'
<1> DEFINE s == Step("posting", i, inputs, NoResult)
           c == [op |-> "POST", id |-> i, content |-> inputs]
<1>1. inputs \in Points \ Invalid /\ inputs \in Valid
  BY Data DEF CalculateAsync
<1>2. s \in Steps /\ s.at = "posting" /\ s.id = i /\ s # Idle
  BY <1>1 DEF Step, Steps, Calculating, Idle
<1>3. c \in Call /\ c.op = "POST" /\ c.id = i
  BY <1>1 DEF Call
<1>4. Await(t, s, c)
  BY DEF CalculateAsync
<1>5. task[t] = Idle /\ leftovers' = leftovers \ {i} /\ isCalculating' = TRUE
      /\ UNCHANGED <<inputs, gravity, orphans>>
  BY DEF CalculateAsync
<1> HIDE DEF s, c
<1>6. CallFits(s, c)
  BY <1>2, <1>3 DEF CallFits
<1>7. \A u \in Tasks : task'[u] = IF u = t THEN s ELSE task[u]
  BY <1>4 DEF Await, IInv, HandlersInv
<1>8. \A j \in Ids : Tracked(j) => Tracked(j)'
  BY <1>2, <1>5, <1>7 DEF Tracked, Temporary, Calculating, Idle
<1>9. FormTyped'
  BY <1>5 DEF FormTyped, IInv, TypeOK
<1> QED
  BY <1>2, <1>3, <1>4, <1>6, <1>8, <1>9, SingleMoveKeepsInv

\* The finally clause sends its DELETE.
LEMMA RemoveKeepsInv ==
    ASSUME IInv, page = "single", NEW t \in Tasks, task[t].at \in Calculating,
           NEW found \in Valid \cup {NoGravity, NoResult}, Remove(t, found),
           UNCHANGED <<singleVars, orphans, pageVars, serviceVars, page>>
    PROVE  IInv'
<1> DEFINE s == [task[t] EXCEPT !.at = "removing", !.found = found]
           c == [op |-> "DELETE", id |-> task[t].id]
<1>1. task[t] \in Steps
  BY PlaceOf DEF IInv
<1>2. s \in Steps /\ s.at = "removing" /\ s.id = task[t].id /\ s.id \in Ids
  BY <1>1 DEF Steps, Calculating
<1>3. c \in Call /\ c.op = "DELETE" /\ c.id = s.id
  BY <1>2 DEF Call
<1>4. Await(t, s, c)
  BY DEF Remove
<1> HIDE DEF s, c
<1>5. CallFits(s, c)
  BY <1>2, <1>3 DEF CallFits
<1>6. \A u \in Tasks : task'[u] = IF u = t THEN s ELSE task[u]
  BY <1>4 DEF Await, IInv, HandlersInv
<1>7. \A j \in Ids : Tracked(j) => Tracked(j)'
  BY <1>2, <1>6 DEF Tracked, Temporary, Calculating, singleVars
<1>8. FormTyped'
  BY DEF FormTyped, IInv, TypeOK, singleVars, formVars
<1> QED
  BY <1>2, <1>3, <1>4, <1>5, <1>7, <1>8, SingleMoveKeepsInv DEF MayBeLate

\* The POST of a temporary order has been answered.
LEMMA PostedKeepsInv ==
    ASSUME IInv, page = "single", NEW t \in Tasks, Posted(t), UNCHANGED <<pageVars, serviceVars, page>>
    PROVE  IInv'
<1>1. task[t].at = "posting" /\ task[t] \in Steps
  BY PlaceOf DEF Posted, Resumes, IInv, Calculating
<1>2. CASE ~Answered(t, "ok")
  BY <1>1, <1>2, RemoveKeepsInv DEF Posted, Calculating
<1>3. CASE Answered(t, "ok")
  <2> DEFINE s == [task[t] EXCEPT !.at = "reading"]
             c == [op |-> "GET", id |-> task[t].id]
  <2>1. s \in Steps /\ s.at = "reading" /\ s.id = task[t].id /\ s.id \in Ids
    BY <1>1 DEF Steps, Calculating
  <2>2. c \in Call /\ c.op = "GET" /\ c.id = s.id
    BY <2>1 DEF Call
  <2>3. Await(t, s, c) /\ UNCHANGED <<singleVars, orphans>>
    BY <1>3 DEF Posted
  <2> HIDE DEF s, c
  <2>4. CallFits(s, c)
    BY <2>1, <2>2 DEF CallFits
  <2>5. \A u \in Tasks : task'[u] = IF u = t THEN s ELSE task[u]
    BY <2>3 DEF Await, IInv, HandlersInv
  <2>6. \A j \in Ids : Tracked(j) => Tracked(j)'
    BY <1>1, <2>1, <2>3, <2>5 DEF Tracked, Temporary, Calculating, singleVars
  <2>7. FormTyped'
    BY <2>3 DEF FormTyped, IInv, TypeOK, singleVars, formVars
  <2> QED
    BY <1>1, <2>1, <2>2, <2>3, <2>4, <2>6, <2>7, SingleMoveKeepsInv DEF MayBeLate, Calculating
<1> QED
  BY <1>2, <1>3

\* The result has been read, or not.
LEMMA ReadKeepsInv ==
    ASSUME IInv, page = "single", NEW t \in Tasks, Read(t), UNCHANGED <<pageVars, serviceVars, page>>
    PROVE  IInv'
<1>1. PICK found \in IF Answered(t, "ok") THEN {answers[t].body, NoGravity} ELSE {NoResult} :
        Remove(t, found)
  BY DEF Read
<1>2. task[t].at \in Calculating /\ found \in Valid \cup {NoGravity, NoResult}
  BY <1>1 DEF Read, Resumes, Calculating, IInv, HandlersInv, AnswerFits
<1>3. UNCHANGED <<singleVars, orphans>>
  BY DEF Read
<1> QED
  BY <1>1, <1>2, <1>3, RemoveKeepsInv

\* A DELETE answered with 200 found the order, so that no POST of it is late;
\* any other leaves it over.
LEMMA RemovedKeepsInv ==
    ASSUME IInv, page = "single", NEW t \in Tasks, Removed(t), UNCHANGED <<pageVars, serviceVars, page>>
    PROVE  IInv'
<1>1. task[t].at = "removing" /\ task[t] \in Steps /\ task[t].id \in Ids
  BY PlaceOf DEF Removed, Resumes, IInv, Calculating, Steps
<1>2. Await(t, Idle, NoCall)
  BY DEF Removed, Finish
<1>3. \A u \in Tasks : task'[u] = IF u = t THEN Idle ELSE task[u]
  BY <1>2 DEF Await, IInv, HandlersInv
<1>4. leftovers' = IF Answered(t, "ok") THEN leftovers ELSE leftovers \cup {task[t].id}
  BY DEF Removed
<1>5. \A i \in Ids : Tracked(i) => Tracked(i)' \/ (stored[i] = Absent /\ \A d \in abandoned : d.id # i)
  <2>1. \A i \in Ids \ {task[t].id} : Tracked(i) => Tracked(i)'
    BY <1>3, <1>4 DEF Tracked, Temporary
  <2>2. Answered(t, "ok") => stored[task[t].id] = Absent /\ \A d \in abandoned : d.id # task[t].id
    BY <1>1 DEF IInv, TemporaryInv
  <2>3. ~Answered(t, "ok") => task[t].id \in leftovers'
    BY <1>4
  <2> QED
    BY <2>1, <2>2, <2>3 DEF Tracked
<1>6. FormTyped'
  BY <1>1, <1>4 DEF Removed, FormTyped, Steps, IInv, TypeOK
<1> QED
  BY <1>2, <1>5, <1>6, SingleMoveKeepsInv DEF MayBeLate

-----------------------------------------------------------------------------
(***************************************************************************)
(* The page is loaded anew, or the web application stops.                  *)
(***************************************************************************)
LEMMA LeavingFits ==
    ASSUME IInv, NEW u \in Tasks
    PROVE  /\ Leaving(u) \in States
           /\ Leaving(u).at \in Places
           /\ Leaving(u).at \notin {"opening", "listing", "adding", "confirming", "deleting"}
           /\ Leaving(u).at \in Saving \cup Calculating => Leaving(u) = task[u]
           /\ task[u].at \in Saving \cup Calculating => Leaving(u) = task[u]
           /\ Pending(u) => CallFits(Leaving(u), calls[u])
<1>1. CASE task[u].at = "deleting"
  <2> DEFINE s == [task[u] EXCEPT !.at = "left", !.asked = {}]
  <2>1. task[u] \in Deletions
    BY <1>1, PlaceOf DEF IInv
  <2>2. s \in Deletions /\ s.at = "left"
    BY <2>1 DEF Deletions
  <2>3. Leaving(u) = s
    BY <1>1 DEF Leaving
  <2> HIDE DEF s
  <2>4. page # "single"
    BY <1>1, PlaceOf DEF IInv, Calculating
  <2> QED
    BY <1>1, <2>2, <2>3, <2>4, NextStates DEF Places, CallFits, Saving, Calculating
<1>2. CASE task[u].at \in {"listing", "adding", "opening"}
  <2> DEFINE s == Deletion("left", {}, FALSE)
  <2>1. s \in Deletions /\ s.at = "left"
    BY NextStates DEF Deletion
  <2>2. Leaving(u) = s
    BY <1>2 DEF Leaving
  <2> HIDE DEF s
  <2>3. page # "single"
    BY <1>2, PlaceOf DEF IInv, Calculating
  <2> QED
    BY <1>2, <2>1, <2>2, <2>3, NextStates DEF Places, CallFits, Saving, Calculating
<1>3. CASE task[u].at = "confirming"
  <2>1. Leaving(u) = Idle /\ ~Pending(u)
    BY <1>3 DEF Leaving, IInv, HandlersInv, CallFits
  <2> QED
    BY <1>3, <2>1, NextStates DEF Places, Idle, Saving, Calculating
<1>4. CASE task[u].at \notin {"deleting", "listing", "adding", "opening", "confirming"}
  <2>1. Leaving(u) = task[u]
    BY <1>4 DEF Leaving
  <2> QED
    BY <1>4, <2>1 DEF IInv, HandlersInv
<1> QED
  BY <1>1, <1>2, <1>3, <1>4

\* Handlers of a page that is gone go on as orphans.
LEMMA LoadAgainKeepsInv ==
    ASSUME IInv, NEW t \in Tasks, LoadAgain(t)
    PROVE  IInv'
<1> DEFINE first == [at |-> "listing", next |-> NoId]
           c == [op |-> "GETALL"]
           left == [u \in Tasks |-> Leaving(u)]
<1> USE DEF LoadAgain, ClearPages, ClearForm, serviceVars
<1>1. task[t] = Idle /\ UNCHANGED page
  OBVIOUS
<1>2. first \in States /\ c \in Call /\ CallFits(first, c) /\ first.at = "listing" /\ c.op = "GETALL"
  BY NextStates DEF Call, CallFits, Calculating
<1>3. \/ /\ page = "orders"
         /\ task' = [left EXCEPT ![t] = first]
         /\ calls' = [calls EXCEPT ![t] = c] /\ answers' = [answers EXCEPT ![t] = NoCall]
      \/ page # "orders" /\ task' = left /\ UNCHANGED <<calls, answers>>
  BY DEF Send
<1> HIDE DEF first, c
<1>4. ASSUME NEW u \in Tasks
      PROVE  \/ /\ task'[u] = Leaving(u) /\ calls'[u] = calls[u] /\ answers'[u] = answers[u]
             \/ /\ u = t /\ page = "orders"
                /\ task'[u] = first /\ calls'[u] = c /\ answers'[u] = NoCall
  BY <1>3 DEF IInv, HandlersInv
<1>5. HandlersInv'
  <2>1. /\ task' \in [Tasks -> States] /\ calls' \in [Tasks -> Call \cup {NoCall}]
        /\ answers' \in [Tasks -> Answers \cup {NoCall}]
    BY <1>2, <1>3, LeavingFits DEF IInv, HandlersInv
  <2>2. ASSUME NEW u \in Tasks
        PROVE  /\ task'[u].at \in Places
               /\ Pending(u)' => CallFits(task'[u], calls'[u])
               /\ Answered(u, "ok")' => AnswerFits(task'[u], answers'[u].body)
               /\ task'[u].at \notin {"confirming", "deleting"}
    <3>1. CASE task'[u] = Leaving(u) /\ calls'[u] = calls[u] /\ answers'[u] = answers[u]
      <4>1. Answered(u, "ok") => AnswerFits(Leaving(u), answers[u].body)
        BY LeavingFits DEF IInv, HandlersInv, AnswerFits, Saving, Calculating
      <4> QED
        BY <3>1, <4>1, LeavingFits DEF Pending, Answered
    <3>2. CASE /\ u = t /\ page = "orders"
               /\ task'[u] = first /\ calls'[u] = c /\ answers'[u] = NoCall
      BY <1>2, <3>2 DEF Places, Pending, Answered
    <3> QED
      BY <1>4, <3>1, <3>2
  <2> QED
    BY <1>1, <2>1, <2>2 DEF HandlersInv, Places
<1>6. TypeOK'
  BY <1>5 DEF IInv, TypeOK, HandlersInv
<1>7. ASSUME NEW u \in Tasks, task'[u].at \in Saving \cup Calculating
      PROVE  /\ task'[u] = task[u] /\ u \in orphans'
             /\ calls'[u] = calls[u] /\ answers'[u] = answers[u]
  BY <1>2, <1>4, <1>7, LeavingFits DEF Saving, Calculating
<1>8. ScreenInv'
  BY <1>7 DEF ScreenInv
<1>9. PostInv' /\ VersionsInv'
  <2>1. \A u \in Tasks : Posting(u)' => Posting(u) /\ calls'[u] = calls[u]
    BY <1>2, <1>4 DEF Posting, MayBeLate
  <2> QED
    BY <2>1 DEF IInv, PostInv, VersionsInv
<1>10. TemporaryInv'
  <2>1. CASE page = "orders"
    <3>1. NoPoints
      BY <2>1 DEF IInv, TemporaryInv
    <3>2. ASSUME NEW u \in Tasks
          PROVE  /\ Pending(u)' /\ calls'[u].op \in {"POST", "PUT"} => Pending(u) /\ calls'[u] = calls[u]
                 /\ task'[u].at \in {"opening", "getting"} =>
                        task'[u] = task[u] /\ answers'[u] = answers[u]
      BY <1>2, <1>4, LeavingFits DEF Pending, Saving
    <3> QED
      BY <1>1, <2>1, <3>1, <3>2 DEF TemporaryInv, NoPoints, Answered
  <2>2. CASE page = "single"
    <3>1. \A u \in Tasks : /\ task'[u] = Leaving(u) /\ answers'[u] = answers[u]
                           /\ (task'[u].at \in Calculating <=> task[u].at \in Calculating)
      BY <1>4, <2>2, LeavingFits
    <3>2. \A u \in Tasks : task[u].at \in Calculating => task'[u] = task[u]
      BY <3>1, LeavingFits
    <3>3. Temporary' = Temporary
      BY <3>1, <3>2 DEF Temporary
    <3> QED
      BY <1>1, <2>2, <3>1, <3>2, <3>3 DEF IInv, TemporaryInv, Tracked, Answered, Calculating
  <2> QED
    BY <2>1, <2>2 DEF IInv, TypeOK
<1>11. CleanInv'
  <2>1. \A u \in Tasks : task'[u].at # "opening"
    BY <1>2, <1>4, LeavingFits
  <2> QED
    BY <1>7, <2>1 DEF CleanInv, Saving
<1> QED
  BY <1>5, <1>6, <1>8, <1>9, <1>10, <1>11 DEF IInv

\* Every handler ends; its POST may be late, and its temporary order is left over.
LEMMA WebAppStopsKeepsInv ==
    ASSUME IInv, WebAppStops
    PROVE  IInv'
<1> USE DEF WebAppStops, ClearPages, ClearForm
<1>1. PICK sent \in SUBSET {c \in {calls[t] : t \in Tasks} : MayBeLate(c)} :
        abandoned' = abandoned \cup sent
  OBVIOUS
<1>2. \A c \in sent : \E t \in Tasks : Posting(t) /\ calls[t] = c
  BY DEF Posting
<1>3. \A t \in Tasks : task'[t] = Idle /\ calls'[t] = NoCall /\ answers'[t] = NoCall
  OBVIOUS
<1>4. \A i \in Ids : i \in Temporary => i \in leftovers'
  OBVIOUS
<1>5. Temporary \subseteq Ids
  BY HeldIds DEF Temporary, IInv
<1>6. \A c \in sent : c \in Call
  BY <1>2, PendingCall DEF Posting, MayBeLate, Pending, IInv
<1>7. TypeOK'
  BY <1>1, <1>5, <1>6 DEF IInv, TypeOK
<1>8. HandlersInv'
  BY <1>3, NextStates DEF HandlersInv, Places, Idle, Pending, Answered
<1>9. ScreenInv' /\ VersionsInv'
  BY <1>3 DEF IInv, ScreenInv, VersionsInv, Idle, Saving
<1>10. PostInv'
  <2>1. \A c \in sent : MayBeLate(c) /\ stored[c.id] = Absent
    BY <1>2 DEF IInv, PostInv, Posting
  <2>2. \A c, d \in abandoned \cup sent : c.id = d.id => c = d
    BY <1>2 DEF IInv, PostInv
  <2>3. \A t \in Tasks : ~Posting(t)'
    BY <1>3 DEF Posting, MayBeLate
  <2> QED
    BY <1>1, <2>1, <2>2, <2>3 DEF IInv, PostInv
<1>11. TemporaryInv'
  <2>1. CASE page = "orders"
    <3>1. NoPoints
      BY <2>1 DEF IInv, TemporaryInv
    <3>2. \A c \in sent : c.content \notin Points
      BY <1>2, <3>1 DEF NoPoints, Posting, MayBeLate, Pending
    <3> QED
      BY <1>1, <1>3, <2>1, <3>1, <3>2 DEF TemporaryInv, NoPoints, Pending, Answered
  <2>2. CASE page = "single"
    <3>1. \A c \in sent : c.id \in Temporary
      BY <1>2, <2>2, PendingCall DEF IInv, Posting, MayBeLate, Pending, Temporary
    <3>2. \A i : Tracked(i) => i \in leftovers'
      BY DEF Tracked
    <3>3. \A c \in abandoned' : c.id \in leftovers'
      BY <1>1, <2>2, <3>1, <3>2 DEF IInv, TemporaryInv, Tracked
    <3>4. \A i \in Ids : stored[i] \in Points => i \in leftovers'
      BY <2>2, <3>2 DEF IInv, TemporaryInv
    <3> QED
      BY <1>3, <2>2, <3>3, <3>4 DEF TemporaryInv, Tracked, Idle, Calculating
  <2> QED
    BY <2>1, <2>2 DEF IInv, TypeOK
<1>12. CleanInv'
  BY <1>3 DEF CleanInv, Idle
<1> QED
  BY <1>7, <1>8, <1>9, <1>10, <1>11, <1>12 DEF IInv

\* A step of something else.
LEMMA StutterKeepsInv ==
    ASSUME IInv, UNCHANGED vars
    PROVE  IInv'
<1> USE DEF vars, clientVars, serviceVars, handlerVars, pageVars, screenVars, editorVars, singleVars, formVars
<1>1. TypeOK' /\ HandlersInv' /\ ScreenInv' /\ PostInv' /\ VersionsInv'
  BY DEF IInv, TypeOK, HandlersInv, ScreenInv, PostInv, VersionsInv, Posting, Pending, Answered, Places
<1>2. TemporaryInv' /\ CleanInv'
  BY DEF IInv, TemporaryInv, CleanInv, NoPoints, Tracked, Temporary, NoPost, Claim, Posting, Pending, Answered
<1> QED
  BY <1>1, <1>2 DEF IInv

\* Every step of the web application keeps the invariant.
LEMMA NextKeepsInv ==
    ASSUME IInv, [Next]_vars
    PROVE  IInv'
<1>1. CASE UserOfOrders
  <2>1. /\ page = "orders" /\ UNCHANGED <<serviceVars, singleVars, page>>
        /\ \/ \E t \in Tasks, i \in Ids : Fresh(i) /\ AddGravitationalFieldCalculationOrder(t, i)
           \/ \E t \in Tasks : UserStep(t)
           \/ \E items \in SUBSET Ids : SelectedItemsChanged(items)
           \/ \E content \in Contents \ Points : Edit(content)
    BY <1>1, PagesAssumption DEF UserOfOrders
  <2> QED
    BY <2>1, AddKeepsInv, RowClickedKeepsInv, ClickDeleteKeepsInv, ConfirmDeletionKeepsInv,
       SaveKeepsInv, CloseKeepsInv, SelectionKeepsInv, EditKeepsInv DEF UserStep
<1>2. CASE UserOfSingle
  BY <1>2, TypeKeepsInv, CalculateKeepsInv DEF UserOfSingle
<1>3. ASSUME NEW t \in Tasks, Handler(t) PROVE IInv'
  <2>1. CASE PageStep(t) /\ UNCHANGED <<singleVars, serviceVars, page>>
    <3>1. page = "orders"
      BY <2>1, PlaceOf DEF PageStep, Listed, Added, EditGravitationalFieldCalculationOrder, Deleted,
         SavePut, SaveGot, LeftStep, Resumes, Calculating, IInv, TypeOK
    <3> QED
      BY <2>1, <3>1, ListedKeepsInv, AddedKeepsInv, EditOrderKeepsInv, DeletedKeepsInv,
         SavePutKeepsInv, SaveGotKeepsInv DEF PageStep
  <2>2. CASE SingleStep(t) /\ UNCHANGED <<pageVars, serviceVars, page>>
    <3>1. page = "single"
      BY <2>2, PlaceOf DEF SingleStep, Posted, Read, Removed, Resumes, Calculating, IInv, TypeOK
    <3> QED
      BY <2>2, <3>1, PostedKeepsInv, ReadKeepsInv, RemovedKeepsInv DEF SingleStep
  <2> QED
    BY <1>3, <2>1, <2>2 DEF Handler
<1> QED
  BY <1>1, <1>2, <1>3, ServiceKeepsInv, ElsewhereKeepsInv, LoadAgainKeepsInv, WebAppStopsKeepsInv,
     StutterKeepsInv DEF Next

\* Every reachable state of the web application has IInv.
THEOREM InvariantHolds == Spec => []IInv
BY InitInv, NextKeepsInv, PTL DEF Spec

-----------------------------------------------------------------------------
\* Every variable of the web application keeps to its type.
THEOREM TypeCorrect == Spec => []TypeOK
<1>1. IInv => TypeOK
  BY DEF IInv
<1> QED
  BY <1>1, InvariantHolds, PTL

\* What the editor takes for saved, the order has contained as long as it
\* exists, for any number of saves, other clients, and calls that are lost or
\* executed late.
THEOREM CleanIsStored == Spec => []CleanWasStored
<1>1. IInv => CleanWasStored
  BY DEF IInv, CleanInv, Claim, CleanWasStored
<1> QED
  BY <1>1, InvariantHolds, PTL

\* No deletion loop takes more than the user was asked about, whatever is
\* selected while it waits.
THEOREM DeletionsAreConfirmed == Spec => []OnlyConfirmedAreDeleted
<1>1. IInv => OnlyConfirmedAreDeleted
  BY DEF IInv, HandlersInv, CallFits, OnlyConfirmedAreDeleted
<1> QED
  BY <1>1, InvariantHolds, PTL

\* A temporary order is either being calculated, or left over by a DELETE
\* that was not confirmed or by a stop of the web application.
THEOREM TemporaryOrdersAreTracked == Spec => []TemporaryOrdersGo
<1>1. IInv => TemporaryOrdersGo
  <2> SUFFICES ASSUME IInv, NEW i \in Ids, stored[i] \in Points PROVE i \in Temporary \cup leftovers
    BY DEF TemporaryOrdersGo
  <2> QED
    BY DEF IInv, TypeOK, TemporaryInv, NoPoints, Tracked
<1> QED
  BY <1>1, InvariantHolds, PTL

=============================================================================
