------------------------- MODULE McpHubRegistration -------------------------
(***************************************************************************)
(* McpHubRegistrationService: a background loop that announces the service *)
(* to an MCP hub (PUT, and POST if the hub does not know it), again after  *)
(* every retry interval, and a StopAsync that withdraws the registration   *)
(* before it cancels the loop.  The hub is another process: requests and   *)
(* answers get lost, an abandoned request may still arrive, and the hub    *)
(* may forget what it knew.                                                *)
(***************************************************************************)
EXTENDS FiniteSets

CONSTANTS
    Ids,            \* Guids that Guid.NewGuid can answer, or an operator configure
    Configurable,   \* those that an operator may configure as InstanceId
    Unregister,     \* options.UnregisterOnShutdown
    Faults,         \* what may happen, see FaultKinds
    NoId

(***************************************************************************)
(* lost    a request or its answer is lost, or the answer is an error      *)
(* late    HttpClient gives up a request that the hub receives later       *)
(* forget  the hub loses its registrations                                 *)
(* crash   the service stops without StopAsync                             *)
(* config  the configuration is completed or made incomplete, or its       *)
(*         InstanceId is set, changed or taken away, at run time           *)
(***************************************************************************)
FaultKinds == {"lost", "late", "forget", "crash", "config"}

ASSUME HubAssumption ==
    /\ Unregister \in BOOLEAN
    /\ Faults \subseteq FaultKinds
    /\ Configurable \subseteq Ids
    /\ NoId \notin Ids

VARIABLES
    complete,       \* whether Enabled, HubBaseUrl and PublicBaseUrl are set
    configured,     \* options.InstanceId, or NoId
    settings,       \* what configured has been so far
    loop,           \* where ExecuteAsync is
    stopping,       \* where StopAsync is
    registered,     \* _registeredInstanceId
    idFile,         \* gravitationalfield-mcp-hub-instance-id.txt
    instanceId,     \* the local variable of the loop
    hub,            \* the ids the hub has
    late            \* requests that were given up and are still on their way

options == <<complete, configured, settings>>
service == <<loop, stopping, registered, instanceId>>
vars == <<options, service, idFile, hub, late>>

LoopSteps == {"off", "attempt", "put", "putOK", "putNotFound", "post", "postOK", "delay", "ended"}
StopSteps == {"no", "delete", "cancel"}
Requests == [op : {"POST", "DELETE"}, id : Ids]     \* a late PUT changes nothing

Init ==
    /\ complete \in IF "config" \in Faults THEN BOOLEAN ELSE {TRUE}
    /\ configured \in Configurable \cup {NoId}
    /\ settings = {configured}
    /\ loop = "off"
    /\ stopping = "no"
    /\ registered = NoId
    /\ idFile = NoId
    /\ instanceId = NoId
    /\ hub = {}
    /\ late = {}

-----------------------------------------------------------------------------
(***************************************************************************)
(* ExecuteAsync.                                                           *)
(***************************************************************************)
Start ==
    /\ loop = "off"
    /\ loop' = IF complete THEN "attempt" ELSE "ended"
    /\ UNCHANGED <<options, stopping, registered, instanceId, idFile, hub, late>>

\* Variant: a generated id is not written.
ResolveInstanceIdAnew(id) ==
    \/ configured # NoId /\ id = configured /\ UNCHANGED idFile
    \/ configured = NoId /\ id # instanceId /\ UNCHANGED idFile

\* The configured id, and then the file is not looked at; or the id of the
\* file; or a new one, which is written before it is used.
ResolveInstanceId(id) ==
    \/ configured # NoId /\ id = configured /\ UNCHANGED idFile
    \/ configured = NoId /\ idFile # NoId /\ id = idFile /\ UNCHANGED idFile
    \/ configured = NoId /\ idFile = NoId /\ idFile' = id

\* The top of the loop, up to the PUT.
Attempt ==
    /\ loop = "attempt"
    /\ \/ /\ ~complete
          /\ loop' = "ended"
          /\ UNCHANGED <<instanceId, idFile>>
       \/ /\ complete
          /\ \E id \in Ids : ResolveInstanceId(id) /\ instanceId' = id
          /\ loop' = "put"
    /\ UNCHANGED <<options, stopping, registered, hub, late>>

\* The hub receives the PUT or the POST of the loop.
HubReceives ==
    /\ \/ /\ loop = "put"
          /\ loop' = IF instanceId \in hub THEN "putOK" ELSE "putNotFound"
          /\ UNCHANGED hub
       \/ /\ loop = "post"
          /\ loop' = "postOK"
          /\ hub' = hub \cup {instanceId}
    /\ UNCHANGED <<options, stopping, registered, instanceId, idFile, late>>

\* Variant: a hub that does not know the service is asked again.
HearAndAskAgain ==
    /\ \/ /\ loop \in {"putOK", "postOK"}
          /\ registered' = instanceId
          /\ loop' = "delay"
       \/ /\ loop = "putNotFound"
          /\ loop' = "attempt"
          /\ UNCHANGED registered
    /\ UNCHANGED <<options, stopping, instanceId, idFile, hub, late>>

\* The answer reaches the loop.
Hear ==
    /\ \/ /\ loop \in {"putOK", "postOK"}
          /\ registered' = instanceId
          /\ loop' = "delay"
       \/ /\ loop = "putNotFound"
          /\ loop' = "post"
          /\ UNCHANGED registered
    /\ UNCHANGED <<options, stopping, instanceId, idFile, hub, late>>

\* The request or the answer of the loop is lost, or a write of the id file
\* throws: the exception or the error status is logged.
AttemptFails ==
    /\ "lost" \in Faults
    /\ loop \in {"put", "putOK", "putNotFound", "post", "postOK"} \/ (loop = "attempt" /\ complete)
    /\ loop' = "delay"
    /\ UNCHANGED <<options, stopping, registered, instanceId, idFile, hub, late>>

\* Requests on their way that nobody waits for any more.
AbandonedPost ==
    IF "late" \in Faults /\ loop = "post" THEN {[op |-> "POST", id |-> instanceId]} ELSE {}
AbandonedDelete ==
    IF "late" \in Faults /\ stopping = "delete" THEN {[op |-> "DELETE", id |-> registered]} ELSE {}

\* HttpClient times out.
AttemptTimesOut ==
    /\ "late" \in Faults
    /\ loop = "post"
    /\ late' = late \cup AbandonedPost
    /\ loop' = "delay"
    /\ UNCHANGED <<options, stopping, registered, instanceId, idFile, hub>>

\* Variant: the loop goes back to the PUT.
RetryPut ==
    /\ loop = "delay"
    /\ loop' = "put"
    /\ UNCHANGED <<options, stopping, registered, instanceId, idFile, hub, late>>

\* The retry interval is over.
Retry ==
    /\ loop = "delay"
    /\ loop' = "attempt"
    /\ UNCHANGED <<options, stopping, registered, instanceId, idFile, hub, late>>

-----------------------------------------------------------------------------
(***************************************************************************)
(* StopAsync, while the loop goes on.                                      *)
(***************************************************************************)
\* An incomplete configuration may still have the HubBaseUrl.
Stop ==
    /\ loop # "off" /\ stopping = "no"
    /\ \/ stopping' = "delete" /\ Unregister /\ registered # NoId
       \/ stopping' = "cancel" /\ ~(Unregister /\ registered # NoId /\ complete)
    /\ UNCHANGED <<options, loop, registered, instanceId, idFile, hub, late>>

\* The DELETE, answered or failing; its failure is only logged.
Withdraw ==
    /\ stopping = "delete"
    /\ \/ hub' = hub \ {registered} /\ UNCHANGED late
       \/ UNCHANGED <<hub, late>> /\ "lost" \in Faults
       \/ "late" \in Faults /\ late' = late \cup AbandonedDelete /\ UNCHANGED hub
    /\ stopping' = "cancel"
    /\ UNCHANGED <<options, loop, registered, instanceId, idFile>>

\* The memory of the process is gone; what it last sent may still arrive.
Vanish ==
    /\ loop' = "off"
    /\ stopping' = "no"
    /\ registered' = NoId
    /\ instanceId' = NoId
    /\ late' = late \cup AbandonedPost \cup AbandonedDelete
    /\ UNCHANGED <<options, idFile, hub>>

\* base.StopAsync cancels the loop and waits for it; the process ends.
CancelLoop == stopping = "cancel" /\ Vanish

Crash == "crash" \in Faults /\ loop # "off" /\ Vanish

-----------------------------------------------------------------------------
(***************************************************************************)
(* The hub and the operator.                                               *)
(***************************************************************************)
HubReceivesLate ==
    /\ \E r \in late :
        /\ hub' = IF r.op = "POST" THEN hub \cup {r.id} ELSE hub \ {r.id}
        /\ late' = late \ {r}
    /\ UNCHANGED <<options, service, idFile>>

HubForgets ==
    /\ "forget" \in Faults
    /\ hub # {}
    /\ hub' = {}
    /\ UNCHANGED <<options, service, idFile, late>>

Configure ==
    /\ "config" \in Faults
    /\ \/ complete' = ~complete /\ UNCHANGED <<configured, settings>>
       \/ /\ configured' \in (Configurable \cup {NoId}) \ {configured}
          /\ settings' = settings \cup {configured'}
          /\ UNCHANGED complete
    /\ UNCHANGED <<service, idFile, hub, late>>

LoopStep == Attempt \/ HubReceives \/ Hear \/ Retry

Next ==
    \/ Start
    \/ LoopStep
    \/ AttemptFails
    \/ AttemptTimesOut
    \/ Stop
    \/ Withdraw
    \/ CancelLoop
    \/ Crash
    \/ HubReceivesLate
    \/ HubForgets
    \/ Configure

Spec == Init /\ [][Next]_vars

\* Fairness: the loop runs on, and a request that is neither lost nor given
\* up is answered.  Nothing obliges the service to start or to stop, a late
\* request to arrive, or anything to fail.
FairSpec == Spec /\ WF_vars(LoopStep)

-----------------------------------------------------------------------------
\* Every variable keeps to the values its C# counterpart can have; no
\* request goes out without an id.
TypeOK ==
    /\ complete \in BOOLEAN
    /\ settings \subseteq Configurable \cup {NoId} /\ configured \in settings
    /\ loop \in LoopSteps
    /\ stopping \in StopSteps
    /\ {registered, idFile, instanceId} \subseteq Ids \cup {NoId}
    /\ hub \subseteq Ids
    /\ late \subseteq Requests
    /\ loop \in LoopSteps \ {"off", "attempt", "delay", "ended"} => instanceId # NoId

\* The id that a setting of InstanceId stands for: itself, or the file's.
IdOf(setting) == IF setting = NoId THEN idFile ELSE setting
IdsOf(ss) == {IdOf(setting) : setting \in ss}

(***************************************************************************)
(* A setting of InstanceId brings the service one registration, whatever   *)
(* is lost, late or forgotten, and however often the service crashes and   *)
(* starts: unless the operator configures another id, the hub never lists  *)
(* the service twice, and an id of the service's own making is the one in  *)
(* its file, before the first request carries it.  What StopAsync          *)
(* withdraws is one of these ids, too.  (A registration under a former     *)
(* setting stays: nothing withdraws it.)                                   *)
(***************************************************************************)
OneRegistrationPerSetting ==
    /\ hub \cup {r.id : r \in late} \subseteq IdsOf(settings)
    /\ registered \in IdsOf(settings) \cup {NoId}

\* Once the loop runs for good, and the network, the hub and the operator
\* leave it alone, the hub lists the service at last under the id that is
\* configured, or else the file's, and keeps listing it, whatever was lost,
\* forgotten or configured before.
Troubles == AttemptFails \/ AttemptTimesOut \/ HubForgets \/ Configure
Settles == <>[][~Troubles]_vars /\ <>[](loop \notin {"off", "ended"} /\ stopping = "no")
ListedAtLast == Settles => <>[](IdOf(configured) \in hub)

=============================================================================
