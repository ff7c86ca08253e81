---------------------- MODULE McpHubRegistration_proofs ----------------------
(***************************************************************************)
(* Proof that each setting of InstanceId brings the service one            *)
(* registration at most, whatever is lost.                                 *)
(***************************************************************************)
EXTENDS McpHubRegistration, TLAPS

\* The loop sends the id of a setting, and so does StopAsync.
IInv ==
    /\ TypeOK
    /\ OneRegistrationPerSetting
    /\ loop \in {"put", "putOK", "putNotFound", "post", "postOK"} =>
            instanceId \in IdsOf(settings)
    /\ stopping = "delete" => registered # NoId

\* What is given up carries the id of a setting.
LEMMA LateIsOwn ==
    ASSUME IInv
    PROVE  /\ AbandonedPost \cup AbandonedDelete \subseteq Requests
           /\ \A r \in AbandonedPost \cup AbandonedDelete : r.id \in IdsOf(settings)
<1> USE DEF IInv
<1>1. \A r \in AbandonedPost : r \in Requests /\ r.id \in IdsOf(settings)
  BY HubAssumption DEF AbandonedPost, Requests, TypeOK, LoopSteps
<1>2. \A r \in AbandonedDelete : r \in Requests /\ r.id \in IdsOf(settings)
  BY DEF AbandonedDelete, Requests, TypeOK, OneRegistrationPerSetting
<1> QED
  BY <1>1, <1>2

\* The ids of the settings stay when neither they nor the file change.
LEMMA IdsStay ==
    ASSUME UNCHANGED <<settings, idFile>>
    PROVE  IdsOf(settings)' = IdsOf(settings)
BY DEF IdsOf, IdOf

\* A setting more, or a file that had no id before, takes no id away.
LEMMA IdsGrow ==
    ASSUME settings \subseteq settings', idFile # NoId => idFile' = idFile
    PROVE  IdsOf(settings) \ {NoId} \subseteq IdsOf(settings)'
BY DEF IdsOf, IdOf

\* The id that an attempt resolves is the one of the setting of that moment.
LEMMA ResolvedIsOwn ==
    ASSUME TypeOK, NEW id \in Ids, ResolveInstanceId(id), UNCHANGED settings
    PROVE  /\ id \in IdsOf(settings)'
           /\ idFile' \in {idFile, id}
           /\ idFile # NoId => idFile' = idFile
<1>1. idFile' \in {idFile, id} /\ (idFile # NoId => idFile' = idFile)
  BY DEF ResolveInstanceId
<1>2. configured \in settings'
  BY DEF TypeOK
<1>3. id = IF configured = NoId THEN idFile' ELSE configured
  BY DEF ResolveInstanceId
<1> QED
  BY <1>1, <1>2, <1>3 DEF IdsOf, IdOf

\* Nothing is registered at first.
LEMMA InitInv == Init => IInv
BY HubAssumption
   DEF Init, IInv, TypeOK, LoopSteps, StopSteps, OneRegistrationPerSetting

\* The steps of the loop.
LEMMA LoopKeepsInv ==
    ASSUME IInv, Start \/ Attempt \/ HubReceives \/ Hear \/ Retry \/ AttemptFails
    PROVE  IInv'
<1> USE HubAssumption DEF IInv, TypeOK, LoopSteps, OneRegistrationPerSetting, options
<1>1. CASE Start
  BY <1>1, IdsStay DEF Start
<1>2. CASE Attempt
  <2>1. CASE ~complete
    BY <1>2, <2>1, IdsStay DEF Attempt
  <2>2. CASE complete
    <3>1. PICK id \in Ids : ResolveInstanceId(id) /\ instanceId' = id
      BY <1>2, <2>2 DEF Attempt
    <3>2. /\ loop' = "put"
          /\ UNCHANGED <<complete, configured, settings, stopping, registered, hub, late>>
      BY <1>2, <2>2 DEF Attempt
    <3>3. /\ id \in IdsOf(settings)'
          /\ idFile' \in {idFile, id}
          /\ idFile # NoId => idFile' = idFile
      BY <3>1, <3>2, ResolvedIsOwn
    <3>4. IdsOf(settings) \ {NoId} \subseteq IdsOf(settings)'
      BY <3>2, <3>3, IdsGrow
    <3>5. \A r \in late : r.id \in Ids
      BY DEF Requests
    <3>6. TypeOK'
      BY <3>1, <3>2, <3>3
    <3>7. OneRegistrationPerSetting'
      BY <3>2, <3>4, <3>5
    <3> QED
      BY <3>1, <3>2, <3>3, <3>6, <3>7
  <2> QED
    BY <1>2, <2>1, <2>2 DEF Attempt
<1>3. CASE HubReceives
  BY <1>3, IdsStay DEF HubReceives
<1>4. CASE Hear
  BY <1>4, IdsStay DEF Hear
<1>5. CASE Retry
  BY <1>5, IdsStay DEF Retry
<1>6. CASE AttemptFails
  BY <1>6, IdsStay DEF AttemptFails
<1> QED
  BY <1>1, <1>2, <1>3, <1>4, <1>5, <1>6

\* A time-out, StopAsync and the end of the process.
LEMMA StopKeepsInv ==
    ASSUME IInv, AttemptTimesOut \/ Stop \/ Withdraw \/ Vanish
    PROVE  IInv'
<1>1. /\ AbandonedPost \cup AbandonedDelete \subseteq Requests
      /\ \A r \in AbandonedPost \cup AbandonedDelete : r.id \in IdsOf(settings)
  BY LateIsOwn
<1> USE HubAssumption DEF IInv, TypeOK, LoopSteps, StopSteps, OneRegistrationPerSetting, options
<1>2. CASE AttemptTimesOut
  BY <1>1, <1>2, IdsStay DEF AttemptTimesOut
<1>3. CASE Stop
  BY <1>3, IdsStay DEF Stop
<1>4. CASE Withdraw
  BY <1>1, <1>4, IdsStay DEF Withdraw
<1>5. CASE Vanish
  BY <1>1, <1>5, IdsStay DEF Vanish
<1> QED
  BY <1>2, <1>3, <1>4, <1>5

\* The hub and the operator.
LEMMA OthersKeepInv ==
    ASSUME IInv, HubReceivesLate \/ HubForgets \/ Configure \/ UNCHANGED vars
    PROVE  IInv'
<1> USE HubAssumption DEF IInv, TypeOK, OneRegistrationPerSetting, service, options
<1>1. CASE HubReceivesLate
  <2>1. PICK r \in late :
          /\ hub' = IF r.op = "POST" THEN hub \cup {r.id} ELSE hub \ {r.id}
          /\ late' = late \ {r}
    BY <1>1 DEF HubReceivesLate
  <2>2. r.id \in Ids /\ r.id \in IdsOf(settings)
    BY DEF Requests
  <2> QED
    BY <1>1, <2>1, <2>2, IdsStay DEF HubReceivesLate
<1>2. CASE HubForgets
  BY <1>2, IdsStay DEF HubForgets
<1>3. CASE Configure
  <2>1. /\ settings \subseteq settings' /\ configured' \in settings'
        /\ settings' \subseteq Configurable \cup {NoId} /\ complete' \in BOOLEAN
        /\ UNCHANGED <<loop, stopping, registered, instanceId, idFile, hub, late>>
    BY <1>3 DEF Configure
  <2>2. IdsOf(settings) \ {NoId} \subseteq IdsOf(settings)'
    BY <2>1, IdsGrow
  <2>3. \A r \in late : r.id \in Ids
    BY DEF Requests
  <2>4. TypeOK'
    BY <2>1
  <2>5. OneRegistrationPerSetting'
    BY <2>1, <2>2, <2>3
  <2> QED
    BY <2>1, <2>2, <2>4, <2>5
<1>4. CASE UNCHANGED vars
  BY <1>4, IdsStay DEF vars
<1> QED
  BY <1>1, <1>2, <1>3, <1>4

\* Every reachable state of the registration has IInv.
THEOREM InvariantHolds == Spec => []IInv
<1>1. IInv /\ [Next]_vars => IInv'
  BY LoopKeepsInv, StopKeepsInv, OthersKeepInv DEF Next, LoopStep, CancelLoop, Crash
<1> QED
  BY <1>1, InitInv, PTL DEF Spec

\* The loop, StopAsync and the hub never hold a value of a wrong kind: in
\* particular, no request is ever sent without an id.
THEOREM TypeCorrect == Spec => []TypeOK
<1>1. IInv => TypeOK
  BY DEF IInv
<1> QED
  BY <1>1, InvariantHolds, PTL

\* Whatever requests and answers are lost or late, however often the hub
\* forgets, the service crashes, stops and starts, and the operator changes
\* InstanceId: each setting brings one registration at most.  The id that
\* ResolveInstanceId generates is in its file before a request carries it,
\* and that file never gets another.
THEOREM OneListingPerSetting == Spec => []OneRegistrationPerSetting
<1>1. IInv => OneRegistrationPerSetting
  BY DEF IInv
<1> QED
  BY <1>1, InvariantHolds, PTL

=============================================================================
