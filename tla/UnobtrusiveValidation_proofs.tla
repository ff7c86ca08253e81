-------------------- MODULE UnobtrusiveValidation_proofs --------------------
(***************************************************************************)
(* For any form, values and remote verdicts: what a validated form sends   *)
(* has been confirmed, and what was refused is marked.                     *)
(***************************************************************************)
EXTENDS UnobtrusiveValidation, TLAPS

\* What the record of a remote check is worth: an approval of a value that
\* is not being asked about any more is the server's, and an answer under
\* way is about the value on record, unless a reset has dropped the record.
ApprovalInv ==
    /\ \A n \in Fields : previous[n].old # NoRequest /\ previous[n].valid /\ n \notin pending =>
            previous[n].old \in Approved
    /\ \A n \in Fields : flight[n] # NoRequest =>
            n \in pending /\ previous[n].old \in {NoRequest, flight[n]}

Containers == [Fields -> [class : {"valid", "error"}, message : {"none", "rules", "remote"}]]
Records == [Fields -> [old : (Values \ {Empty}) \cup {NoRequest}, valid : BOOLEAN]]

IInv == TypeOK /\ ApprovalInv /\ RefusedFieldsAreMarked

-----------------------------------------------------------------------------
(***************************************************************************)
(* What a check of some fields does.                                       *)
(***************************************************************************)
\* A field that is asked about has a value.
LEMMA AskedHasValue ==
    ASSUME NEW n, NEW prev, Verdict(n, prev) = "ask"
    PROVE  value[n] # Empty
BY DEF Verdict, AskedRemotely

\* A field that neither fails nor is asked about meets its rules, and what
\* is asked remotely about its value is on record as approved.
LEMMA PassingMeets ==
    ASSUME NEW n, NEW prev, Enforced(n), Verdict(n, prev) \notin {"rules", "remote", "ask"}
    PROVE  /\ \A r \in DOMAIN settings[n] : Meets(n, r)
           /\ AskedRemotely(n) => prev[n].old = value[n] /\ prev[n].valid
<1>1. \A r \in DOMAIN settings[n] : Meets(n, r)
    BY DEF Verdict
<1>2. ASSUME AskedRemotely(n) PROVE prev[n].old = value[n] /\ prev[n].valid
    BY <1>1, <1>2 DEF Verdict
<1> QED
    BY <1>1, <1>2

\* Labels keep to the containers' type, and those of failing fields are errors.
LEMMA LabelledMarks ==
    ASSUME NEW n, NEW verdict,
           NEW c \in [class : {"valid", "error"}, message : {"none", "rules", "remote"}]
    PROVE  /\ Labelled(n, c, verdict)
                    \in [class : {"valid", "error"}, message : {"none", "rules", "remote"}]
           /\ verdict \in {"rules", "remote"} =>
                    /\ Labelled(n, c, verdict).class = "error"
                    /\ n \in Replace => Labelled(n, c, verdict).message # "none"
BY DEF Labelled, OnError, OnSuccess

LEMMA ShowErrorsMarks ==
    ASSUME NEW shown \in Containers, NEW ns, NEW prev
    PROVE  /\ ShowErrors(shown, ns, prev) \in Containers
           /\ \A n \in Fields \cap Failing(ns, prev) :
                    /\ ShowErrors(shown, ns, prev)[n].class = "error"
                    /\ n \in Replace => ShowErrors(shown, ns, prev)[n].message # "none"
           /\ \A n \in Fields \ ns : ShowErrors(shown, ns, prev)[n] = shown[n]
<1> DEFINE S == ShowErrors(shown, ns, prev)
<1>1. \A n \in Fields : S[n] = IF n \in ns THEN Labelled(n, shown[n], Verdict(n, prev))
                               ELSE shown[n]
    BY DEF ShowErrors
<1>2. \A n \in Fields : S[n] \in [class : {"valid", "error"}, message : {"none", "rules", "remote"}]
    BY <1>1, LabelledMarks DEF Containers
<1>3. S \in Containers
    BY <1>2 DEF Containers, ShowErrors
<1>4. ASSUME NEW n \in Fields \cap Failing(ns, prev)
      PROVE  S[n].class = "error" /\ (n \in Replace => S[n].message # "none")
    <2>1. n \in ns /\ Verdict(n, prev) \in {"rules", "remote"}
        BY DEF Failing, WithVerdict
    <2> QED
        BY <1>1, <2>1, LabelledMarks DEF Containers
<1> QED
    BY <1>1, <1>3, <1>4

\* Asking puts the value on record and the field among the pending ones.
LEMMA AskInv ==
    ASSUME TypeOK, ApprovalInv, NEW ns \in SUBSET Fields, Ask(ns, previous)
    PROVE  /\ previous' \in Records
           /\ flight' \in [Fields -> (Values \ {Empty}) \cup {NoRequest}]
           /\ pending' \subseteq Fields
           /\ ApprovalInv'
<1> DEFINE A == Asking(ns, previous)
<1>1. A \subseteq ns /\ \A n \in A : value[n] \in Values \ {Empty}
    BY AskedHasValue DEF Asking, WithVerdict, TypeOK
<1>2. \A n \in Fields : previous'[n] = IF n \in A THEN [old |-> value[n], valid |-> previous[n].valid]
                                       ELSE previous[n]
    BY DEF Ask, Recorded
<1>3. \A n \in Fields : flight'[n] = IF n \in A THEN value[n] ELSE flight[n]
    BY DEF Ask
<1>4. pending' = pending \cup A
    BY DEF Ask
<1>5. previous' \in Records
    BY <1>1, <1>2 DEF Ask, Recorded, Records, TypeOK
<1>6. flight' \in [Fields -> (Values \ {Empty}) \cup {NoRequest}]
    BY <1>1, <1>3 DEF Ask, TypeOK
<1>7. pending' \subseteq Fields
    BY <1>1, <1>4 DEF TypeOK
<1>8. ASSUME NEW n \in Fields
      PROVE  /\ previous'[n].old # NoRequest /\ previous'[n].valid /\ n \notin pending' =>
                    previous'[n].old \in Approved
             /\ flight'[n] # NoRequest =>
                    n \in pending' /\ previous'[n].old \in {NoRequest, flight'[n]}
    <2>1. CASE n \in A
        <3>1. previous'[n] = [old |-> value[n], valid |-> previous[n].valid]
            BY <1>2, <2>1
        <3>2. previous'[n].old = value[n]
            BY <3>1
        <3>3. flight'[n] = value[n] /\ n \in pending'
            BY <1>3, <1>4, <2>1
        <3> QED
            BY <3>2, <3>3
    <2>2. CASE n \notin A
        <3>1. /\ previous'[n] = previous[n] /\ flight'[n] = flight[n]
              /\ n \in pending' <=> n \in pending
            BY <1>2, <1>3, <1>4, <2>2
        <3> QED
            BY <3>1 DEF ApprovalInv
    <2> QED
        BY <2>1, <2>2
<1>9. ApprovalInv'
    BY <1>8 DEF ApprovalInv
<1> QED
    BY <1>5, <1>6, <1>7, <1>9

-----------------------------------------------------------------------------
(***************************************************************************)
(* The steps, each with the conjuncts it can disturb.                      *)
(***************************************************************************)
\* A step that leaves the answers and the verdicts alone.
LEMMA PageStepInv ==
    ASSUME IInv, TypeOK', UNCHANGED <<container, invalid, remoteVars>>
    PROVE  IInv'
<1>1. ApprovalInv'
    BY DEF IInv, ApprovalInv, remoteVars
<1>2. RefusedFieldsAreMarked'
    BY DEF IInv, RefusedFieldsAreMarked
<1> QED
    BY <1>1, <1>2 DEF IInv

\* Parsing keeps to the fields of the document.
LEMMA ParseTypes ==
    ASSUME TypeOK, NEW ns \in SUBSET present', present \subseteq present', Parse(ns)
    PROVE  /\ DOMAIN options' \subseteq present'
           /\ settings' # NoValidator => DOMAIN settings' \subseteq DOMAIN options'
<1>1. DOMAIN options' = DOMAIN options \cup ns
    BY DEF Parse
<1>2. CASE settings = NoValidator
    <2>1. DOMAIN settings' = DOMAIN options'
        BY <1>2 DEF Parse, AttachValidation
    <2> QED
        BY <1>1, <2>1 DEF TypeOK
<1>3. CASE settings # NoValidator
    <2>1. settings' = settings
        BY <1>3 DEF Parse, AttachValidation
    <2> QED
        BY <1>1, <1>3, <2>1 DEF TypeOK
<1> QED
    BY <1>2, <1>3

LEMMA DocumentReadyInv == ASSUME IInv, ~sent, DocumentReady PROVE IInv'
<1>1. TypeOK'
    <2>1. present' = present /\ Parse(present)
        BY DEF DocumentReady, pageVars
    <2>2. /\ DOMAIN options' \subseteq present'
          /\ settings' # NoValidator => DOMAIN settings' \subseteq DOMAIN options'
        BY <2>1, ParseTypes DEF IInv
    <2> QED
        BY <2>2 DEF IInv, TypeOK, DocumentReady, pageVars, shownVars, remoteVars, submitVars
<1> QED
    BY <1>1, PageStepInv DEF DocumentReady, shownVars

LEMMA AddFieldInv == ASSUME IInv, ~sent, NEW n \in Fields, AddField(n) PROVE IInv'
<1>1. TypeOK'
    <2>1. present' = present \cup {n} /\ Parse({n})
        BY DEF AddField
    <2>2. /\ DOMAIN options' \subseteq present'
          /\ settings' # NoValidator => DOMAIN settings' \subseteq DOMAIN options'
        BY <2>1, ParseTypes DEF IInv
    <2> QED
        BY <2>1, <2>2 DEF IInv, TypeOK, AddField, shownVars, remoteVars, submitVars
<1> QED
    BY <1>1, PageStepInv DEF AddField, shownVars

LEMMA ChangeInv ==
    ASSUME IInv, ~sent, NEW n \in Fields, NEW v \in Inputs[n], Change(n, v) PROVE IInv'
<1>1. TypeOK'
    BY FieldAssumption DEF IInv, TypeOK, Change, parseVars, shownVars, remoteVars, submitVars
<1> QED
    BY <1>1, PageStepInv DEF Change, shownVars

LEMMA ToggleInv == ASSUME IInv, ~sent, NEW n \in Fields, Toggle(n) PROVE IInv'
<1>1. TypeOK'
    BY DEF IInv, TypeOK, Toggle, parseVars, shownVars, remoteVars, submitVars
<1> QED
    BY <1>1, PageStepInv DEF Toggle, shownVars

LEMMA RevisitInv == ASSUME IInv, ~sent, NEW n \in Fields, Revisit(n) PROVE IInv'
<1> DEFINE F == Failing({n}, previous)
<1>1. F \subseteq {n}
    BY DEF Failing, WithVerdict
<1>2. /\ previous' \in Records
      /\ flight' \in [Fields -> (Values \ {Empty}) \cup {NoRequest}]
      /\ pending' \subseteq Fields
      /\ ApprovalInv'
    BY AskInv DEF IInv, Revisit
<1>3. /\ container' \in Containers
      /\ \A m \in Fields \cap F : /\ container'[m].class = "error"
                                  /\ m \in Replace => container'[m].message # "none"
      /\ \A m \in Fields \ {n} : container'[m] = container[m]
    <2>1. container \in Containers
        BY DEF IInv, TypeOK, Containers
    <2>2. container' = ShowErrors(container, {n}, previous)
        BY DEF Revisit
    <2> HIDE DEF F
    <2>3. F = Failing({n}, previous)
        BY DEF F
    <2> QED
        BY <2>1, <2>2, <2>3, ShowErrorsMarks
<1>4. invalid' = [invalid EXCEPT ![n] = IF F # {} THEN "yes" ELSE "no"]
    BY DEF Revisit
<1>5. RefusedFieldsAreMarked'
    <2>1. \A m \in Fields : invalid'[m] = "yes" =>
                \/ m \in F
                \/ m # n /\ invalid[m] = "yes"
        BY <1>1, <1>4 DEF IInv, TypeOK
    <2> QED
        BY <1>3, <2>1 DEF IInv, RefusedFieldsAreMarked
<1>6. TypeOK'
    <2>1. /\ submitted' = submitted \cup F
          /\ n \in present
          /\ UNCHANGED <<pageVars, parseVars, summary, submitVars>>
        BY DEF Revisit
    <2> QED
        BY <1>1, <1>2, <1>3, <1>4, <2>1
           DEF IInv, TypeOK, Records, Containers, pageVars, parseVars, submitVars
<1> QED
    BY <1>2, <1>5, <1>6 DEF IInv, Revisit

\* A form is confirmed that passes with nothing left to ask, as long as the
\* approvals on record are the server's.
LEMMA PassingConfirms ==
    ASSUME TypeOK, NEW prev,
           \A n \in Fields : prev[n].old # NoRequest /\ prev[n].valid => prev[n].old \in Approved,
           Failing(Elements, prev) = {}, Asking(Elements, prev) = {}
    PROVE  Confirmed
<1>1. SUFFICES ASSUME NEW n \in Elements
               PROVE  /\ \A r \in DOMAIN settings[n] : Meets(n, r)
                      /\ AskedRemotely(n) => value[n] \in Approved
    BY DEF Confirmed
<1>2. n \in Fields /\ Enforced(n) /\ value[n] \in Values
    BY DEF Elements, TypeOK
<1>3. Verdict(n, prev) \notin {"rules", "remote", "ask"}
    BY DEF Failing, Asking, WithVerdict
<1>4. /\ \A r \in DOMAIN settings[n] : Meets(n, r)
      /\ AskedRemotely(n) => prev[n].old = value[n] /\ prev[n].valid
    BY <1>2, <1>3, PassingMeets
<1>5. value[n] # NoRequest
    BY <1>2, FieldAssumption
<1> QED
    BY <1>2, <1>4, <1>5

\* A click on a cancel button, or a submission that nothing is checked in.
LEMMA UncheckedInv == ASSUME IInv, ~sent, ClickCancel \/ SubmitUnchecked PROVE IInv'
<1>1. /\ UNCHANGED <<pageVars, parseVars, shownVars, submitted, invalid, remoteVars,
                       formSubmitted>>
      /\ cancelSubmit' \in BOOLEAN /\ sent' \in BOOLEAN
    BY DEF IInv, TypeOK, ClickCancel, SubmitUnchecked
<1>2. TypeOK'
    BY <1>1 DEF IInv, TypeOK, pageVars, parseVars, shownVars, remoteVars
<1> QED
    BY <1>1, <1>2, PageStepInv DEF shownVars

LEMMA SubmitInv == ASSUME IInv, ~sent, Submit PROVE IInv'
<1> DEFINE F == Failing(Elements, previous)
<1>1. Elements \subseteq present /\ present \subseteq Fields
    BY DEF IInv, TypeOK, Elements
<1>2. F \subseteq Elements
    BY DEF Failing, WithVerdict
<1>3. /\ previous' \in Records
      /\ flight' \in [Fields -> (Values \ {Empty}) \cup {NoRequest}]
      /\ pending' \subseteq Fields
      /\ ApprovalInv'
    BY <1>1, AskInv DEF IInv, Submit
<1>4. container \in Containers
    BY DEF IInv, TypeOK, Containers
<1>5. /\ container' \in Containers
      /\ \A m \in Fields \cap Failing(Elements, previous) :
            /\ container'[m].class = "error"
            /\ m \in Replace => container'[m].message # "none"
    BY <1>4, ShowErrorsMarks DEF Submit
<1>6. /\ submitted' = submitted \cup F
      /\ invalid' = [n \in Fields |-> IF n \in F THEN "yes" ELSE "unknown"]
      /\ summary' = OnErrors(F)
    BY DEF Submit, Judged
<1>7. TypeOK'
    <2>1. submitted' \subseteq present /\ invalid' \in [Fields -> {"unknown", "no", "yes"}]
        BY <1>1, <1>2, <1>6 DEF IInv, TypeOK, Submit, pageVars
    <2>2. summary' \in {"valid", "errors"}
        BY <1>6 DEF IInv, TypeOK, OnErrors
    <2>3. {formSubmitted', cancelSubmit', sent'} \subseteq BOOLEAN
        BY DEF IInv, TypeOK, Submit
    <2>4. UNCHANGED <<pageVars, parseVars>>
        BY DEF Submit
    <2> QED
        BY <1>3, <1>5, <2>1, <2>2, <2>3, <2>4
           DEF IInv, TypeOK, Records, Containers, pageVars, parseVars
<1>8. RefusedFieldsAreMarked'
    BY <1>5, <1>6 DEF RefusedFieldsAreMarked
<1> QED
    BY <1>3, <1>7, <1>8 DEF IInv

\* What is checked and sent at once is confirmed.
LEMMA SubmitConfirms == ASSUME IInv, Submit, sent' PROVE Confirmed
<1>1. pending' = {} /\ Failing(Elements, previous) = {}
    BY DEF Submit
<1>2. pending = {} /\ Asking(Elements, previous) = {}
    BY <1>1 DEF Submit, Ask
<1>3. \A n \in Fields : previous[n].old # NoRequest /\ previous[n].valid =>
            previous[n].old \in Approved
    BY <1>2 DEF IInv, ApprovalInv
<1> QED
    BY <1>1, <1>2, <1>3, PassingConfirms DEF IInv

LEMMA ResetInv == ASSUME IInv, ~sent, Reset PROVE IInv'
<1>1. /\ value' = [n \in Fields |-> Empty]
      /\ UNCHANGED <<present, visible, parseVars, flight, pending, submitVars>>
    BY DEF Reset
<1>2. CASE settings = NoValidator
    <2>1. UNCHANGED <<shownVars, submitted, invalid, previous>>
        BY <1>2 DEF Reset
    <2>2. TypeOK'
        BY <1>1, <2>1, FieldAssumption DEF IInv, TypeOK, parseVars, shownVars, submitVars
    <2> QED
        BY <1>1, <2>1, <2>2, PageStepInv DEF shownVars, remoteVars
<1>3. CASE settings # NoValidator
    <2>1. /\ submitted' = {}
          /\ invalid' = [n \in Fields |-> "unknown"]
          /\ previous' = [n \in Fields |-> IF n \in Elements THEN Unasked ELSE previous[n]]
          /\ container' = [n \in Fields |-> [container[n] EXCEPT !.class = "valid"]]
          /\ summary' = "valid"
        BY <1>3 DEF Reset, OnReset
    <2>2. previous' \in Records
        BY <2>1 DEF IInv, TypeOK, Records, Unasked
    <2>3. container' \in Containers
        BY <2>1 DEF IInv, TypeOK, Containers
    <2>4. TypeOK'
        BY <1>1, <2>1, <2>2, <2>3, FieldAssumption
           DEF IInv, TypeOK, Records, Containers, parseVars, submitVars
    <2>5. ApprovalInv'
        BY <1>1, <2>1 DEF IInv, ApprovalInv, Unasked
    <2>6. RefusedFieldsAreMarked'
        BY <2>1 DEF RefusedFieldsAreMarked
    <2> QED
        BY <1>1, <2>4, <2>5, <2>6 DEF IInv
<1> QED
    BY <1>2, <1>3

\* An answer is about a value; one that is none is under way nowhere.
LEMMA ApprovedIsAsked == NoRequest \notin Approved
BY FieldAssumption

\* The record of the field that is answered, and those of the others.
LEMMA JudgeRecords ==
    ASSUME TypeOK, NEW n \in Fields, NEW v \in BOOLEAN
    PROVE  /\ Judge(n, v) \in Records
           /\ Judge(n, v)[n].old = previous[n].old
           /\ previous[n].old # NoRequest => Judge(n, v)[n].valid = v
           /\ \A m \in Fields \ {n} : Judge(n, v)[m] = previous[m]
BY DEF TypeOK, Judge, Records

\* The answer of one field leaves the records as ApprovalInv wants them.
LEMMA AnswerInv ==
    ASSUME TypeOK, ApprovalInv, NEW n \in Fields, NEW v \in BOOLEAN,
           flight[n] # NoRequest, v => flight[n] \in Approved,
           previous' = Judge(n, v),
           flight' = [flight EXCEPT ![n] = NoRequest],
           pending' = pending \ {n}
    PROVE  /\ previous' \in Records
           /\ flight' \in [Fields -> (Values \ {Empty}) \cup {NoRequest}]
           /\ pending' \subseteq Fields
           /\ ApprovalInv'
<1>1. /\ previous' \in Records
      /\ previous'[n].old = previous[n].old
      /\ previous[n].old # NoRequest => previous'[n].valid = v
      /\ \A m \in Fields \ {n} : previous'[m] = previous[m]
    BY JudgeRecords
<1>2. /\ flight' \in [Fields -> (Values \ {Empty}) \cup {NoRequest}]
      /\ flight'[n] = NoRequest
      /\ \A m \in Fields \ {n} : flight'[m] = flight[m]
    BY DEF TypeOK
<1>3. pending' \subseteq Fields
    BY DEF TypeOK
<1>4. ASSUME NEW m \in Fields, previous'[m].old # NoRequest, previous'[m].valid, m \notin pending'
      PROVE  previous'[m].old \in Approved
    <2>1. CASE m = n
        BY <1>1, <1>4, <2>1 DEF ApprovalInv
    <2>2. CASE m # n
        <3>1. previous'[m] = previous[m] /\ m \notin pending
            BY <1>1, <1>4, <2>2
        <3> QED
            BY <1>4, <3>1 DEF ApprovalInv
    <2> QED
        BY <2>1, <2>2
<1>5. ASSUME NEW m \in Fields, flight'[m] # NoRequest
      PROVE  m \in pending' /\ previous'[m].old \in {NoRequest, flight'[m]}
    <2>1. m # n
        BY <1>2, <1>5
    <2>2. flight'[m] = flight[m] /\ previous'[m] = previous[m]
        BY <1>1, <1>2, <2>1
    <2> QED
        BY <1>5, <2>1, <2>2 DEF ApprovalInv
<1> QED
    BY <1>1, <1>2, <1>3, <1>4, <1>5 DEF ApprovalInv

LEMMA AnswerRefusedInv == ASSUME IInv, ~sent, NEW n \in Fields, AnswerRefused(n) PROVE IInv'
<1>1. /\ previous' \in Records
      /\ flight' \in [Fields -> (Values \ {Empty}) \cup {NoRequest}]
      /\ pending' \subseteq Fields
      /\ ApprovalInv'
    BY AnswerInv DEF IInv, AnswerRefused
<1>2. /\ invalid' = [invalid EXCEPT ![n] = "yes"]
      /\ container' = [container EXCEPT ![n] = OnError(n, container[n], "remote")]
      /\ UNCHANGED <<pageVars, parseVars, submitted, cancelSubmit, sent>>
    BY DEF AnswerRefused
<1>3. summary' \in {"valid", "errors"} /\ formSubmitted' \in BOOLEAN
    BY DEF IInv, TypeOK, AnswerRefused, OnErrors
<1>4. container' \in Containers
    BY <1>2 DEF IInv, TypeOK, Containers, OnError
<1>5. TypeOK'
    BY <1>1, <1>2, <1>3, <1>4 DEF IInv, TypeOK, Records, Containers, pageVars, parseVars
<1>6. RefusedFieldsAreMarked'
    BY <1>2 DEF IInv, TypeOK, RefusedFieldsAreMarked, OnError
<1> QED
    BY <1>1, <1>2, <1>5, <1>6 DEF IInv

LEMMA AnswerApprovedInv == ASSUME IInv, ~sent, NEW n \in Fields, AnswerApproved(n) PROVE IInv'
<1>1. /\ previous' \in Records
      /\ flight' \in [Fields -> (Values \ {Empty}) \cup {NoRequest}]
      /\ pending' \subseteq Fields
      /\ ApprovalInv'
    BY AnswerInv, ApprovedIsAsked DEF IInv, AnswerApproved
<1>2. /\ invalid' = [invalid EXCEPT ![n] = "no"]
      /\ container' = [container EXCEPT ![n] = Labelled(n, container[n], "passes")]
      /\ UNCHANGED <<pageVars, parseVars, summary, submitted, submitVars>>
    BY DEF AnswerApproved
<1>3. container' \in Containers
    BY <1>2, LabelledMarks DEF IInv, TypeOK, Containers
<1>4. TypeOK'
    BY <1>1, <1>2, <1>3 DEF IInv, TypeOK, Records, Containers, pageVars, parseVars, submitVars
<1>5. RefusedFieldsAreMarked'
    BY <1>2 DEF IInv, TypeOK, RefusedFieldsAreMarked
<1> QED
    BY <1>1, <1>2, <1>4, <1>5 DEF IInv

LEMMA AnswerLostInv == ASSUME IInv, ~sent, NEW n \in Fields, AnswerLost(n) PROVE IInv'
<1>1. /\ flight' = [flight EXCEPT ![n] = NoRequest]
      /\ UNCHANGED <<pageVars, parseVars, shownVars, submitted, invalid, previous, pending,
                     submitVars>>
    BY DEF AnswerLost
<1>2. TypeOK'
    BY <1>1 DEF IInv, TypeOK, pageVars, parseVars, shownVars, submitVars
<1>3. ApprovalInv'
    BY <1>1 DEF IInv, TypeOK, ApprovalInv
<1>4. RefusedFieldsAreMarked'
    BY <1>1 DEF IInv, RefusedFieldsAreMarked, shownVars
<1> QED
    BY <1>1, <1>2, <1>3, <1>4 DEF IInv

\* With the last answer that is waited for, every approval on record is
\* the server's.
LEMMA JudgedApprovals ==
    ASSUME IInv, NEW n \in Fields, flight[n] \in Approved, pending = {n}
    PROVE  /\ Judge(n, TRUE) \in Records
           /\ \A m \in Fields :
                Judge(n, TRUE)[m].old # NoRequest /\ Judge(n, TRUE)[m].valid =>
                    Judge(n, TRUE)[m].old \in Approved
<1> DEFINE judged == Judge(n, TRUE)
<1>1. /\ judged \in Records
      /\ judged[n].old = previous[n].old
      /\ \A m \in Fields \ {n} : judged[m] = previous[m]
    BY JudgeRecords DEF IInv
<1> HIDE DEF judged
<1>2. judged[n].old # NoRequest => judged[n].old \in Approved
    BY <1>1, ApprovedIsAsked DEF IInv, ApprovalInv
<1>3. \A m \in Fields \ {n} :
            judged[m].old # NoRequest /\ judged[m].valid => judged[m].old \in Approved
    BY <1>1 DEF IInv, ApprovalInv
<1>4. \A m \in Fields :
            judged[m].old # NoRequest /\ judged[m].valid => judged[m].old \in Approved
    BY <1>2, <1>3
<1> QED
    BY <1>1, <1>4 DEF judged

\* The last approval that a submission waits for: the form is judged by the
\* records with that answer, and a second time by these with what the first
\* check has asked on top.
LEMMA AnswerSubmitsInv == ASSUME IInv, ~sent, NEW n \in Fields, AnswerSubmits(n) PROVE IInv'
<1> DEFINE judged == Judge(n, TRUE)
           shown == [container EXCEPT ![n] = Labelled(n, container[n], "passes")]
           A == Asking(Elements, judged)
           again == Recorded(Elements, judged)
           once == ShowErrors(shown, Elements, judged)
           passes == Failing(Elements, judged) = {}
           twice == passes /\ ~cancelSubmit
           last == IF twice THEN again ELSE judged
           F == Failing(Elements, last)
<1>1. /\ flight[n] \in Approved /\ pending = {n}
      /\ Judged(F)
      /\ previous' = again
      /\ flight' = [m \in Fields |-> IF m \in A THEN value[m]
                                     ELSE IF m = n THEN NoRequest ELSE flight[m]]
      /\ pending' = A
      /\ container' = IF twice THEN ShowErrors(once, Elements, again) ELSE once
      /\ sent' = (passes /\ (cancelSubmit \/ A = {}))
      /\ formSubmitted' = ~passes
      /\ cancelSubmit' = (cancelSubmit /\ ~passes)
      /\ UNCHANGED <<pageVars, parseVars>>
    BY DEF AnswerSubmits
<1>2. Elements \subseteq present /\ present \subseteq Fields
    BY DEF IInv, TypeOK, Elements
<1>3. F \subseteq Elements /\ A \subseteq Elements /\ \A m \in A : value[m] \in Values \ {Empty}
    BY <1>2, AskedHasValue DEF IInv, TypeOK, Failing, Asking, WithVerdict
<1>4. judged \in Records
    BY <1>1, JudgedApprovals
<1>5. \A m \in Fields : judged[m].old # NoRequest /\ judged[m].valid => judged[m].old \in Approved
    BY <1>1, JudgedApprovals
<1>6. \A m \in Fields : again[m] = IF m \in A THEN [old |-> value[m], valid |-> judged[m].valid]
                                   ELSE judged[m]
    BY DEF Recorded
<1> HIDE DEF judged, A
<1>7. again \in Records
    BY <1>3, <1>4 DEF Recorded, Records, A
<1>8. flight' \in [Fields -> (Values \ {Empty}) \cup {NoRequest}]
    BY <1>1, <1>3 DEF IInv, TypeOK
<1>9. ApprovalInv'
    <2>1. ASSUME NEW m \in Fields, again[m].old # NoRequest, again[m].valid, m \notin A
          PROVE  again[m].old \in Approved
        <3>1. again[m] = judged[m]
            BY <1>6, <2>1
        <3> QED
            BY <1>5, <2>1, <3>1
    <2>2. ASSUME NEW m \in Fields, flight'[m] # NoRequest
          PROVE  m \in A /\ again[m].old \in {NoRequest, flight'[m]}
        <3>1. CASE m \in A
            <4>1. again[m] = [old |-> value[m], valid |-> judged[m].valid]
                BY <1>6, <3>1
            <4>2. again[m].old = value[m]
                BY <4>1
            <4>3. flight'[m] = value[m]
                BY <1>1, <3>1
            <4> QED
                BY <3>1, <4>2, <4>3
        <3>2. CASE m \notin A
            <4>1. m # n /\ flight'[m] = flight[m]
                BY <1>1, <2>2, <3>2
            <4>2. m \in pending
                BY <2>2, <4>1 DEF IInv, ApprovalInv
            <4> QED
                BY <1>1, <4>1, <4>2
        <3> QED
            BY <3>1, <3>2
    <2> QED
        BY <1>1, <2>1, <2>2 DEF ApprovalInv
<1>10. shown \in Containers
    BY LabelledMarks DEF IInv, TypeOK, Containers
<1>11. /\ once \in Containers
       /\ \A m \in Fields \cap Failing(Elements, judged) :
                /\ once[m].class = "error"
                /\ m \in Replace => once[m].message # "none"
    <2> HIDE DEF shown
    <2> QED
        BY <1>10, ShowErrorsMarks
<1>12. /\ ShowErrors(once, Elements, again) \in Containers
       /\ \A m \in Fields \cap Failing(Elements, again) :
                /\ ShowErrors(once, Elements, again)[m].class = "error"
                /\ m \in Replace => ShowErrors(once, Elements, again)[m].message # "none"
    <2> HIDE DEF once, again
    <2> QED
        BY <1>11, ShowErrorsMarks
<1>13. /\ submitted' = submitted \cup F
       /\ invalid' = [m \in Fields |-> IF m \in F THEN "yes" ELSE "unknown"]
       /\ summary' = OnErrors(F)
    BY <1>1 DEF Judged
<1>16. container' \in Containers
       /\ \A m \in Fields \cap F : /\ container'[m].class = "error"
                                   /\ m \in Replace => container'[m].message # "none"
    BY <1>1, <1>11, <1>12
<1> HIDE DEF once, again, shown, F, last
<1>14. TypeOK'
    <2>1. submitted' \subseteq present /\ invalid' \in [Fields -> {"unknown", "no", "yes"}]
        BY <1>2, <1>3, <1>13 DEF IInv, TypeOK
    <2>2. summary' \in {"valid", "errors"}
        BY <1>13 DEF IInv, TypeOK, OnErrors
    <2>3. container' \in Containers /\ pending' \subseteq Fields
        BY <1>1, <1>2, <1>3, <1>16
    <2>4. {formSubmitted', cancelSubmit', sent'} \subseteq BOOLEAN
        BY <1>1 DEF IInv, TypeOK
    <2> QED
        BY <1>1, <1>7, <1>8, <2>1, <2>2, <2>3, <2>4
           DEF IInv, TypeOK, Records, Containers, pageVars, parseVars
<1>15. RefusedFieldsAreMarked'
    BY <1>13, <1>16 DEF RefusedFieldsAreMarked
<1> QED
    BY <1>9, <1>14, <1>15 DEF IInv

\* What the answer sends is confirmed, unless its check was cancelled.
LEMMA AnswerConfirms ==
    ASSUME IInv, NEW n \in Fields, AnswerSubmits(n), sent', ~cancelSubmit
    PROVE  Confirmed
<1> DEFINE judged == Judge(n, TRUE)
<1>1. /\ flight[n] \in Approved /\ pending = {n}
      /\ Failing(Elements, judged) = {} /\ Asking(Elements, judged) = {}
    BY DEF AnswerSubmits
<1>2. \A m \in Fields : judged[m].old # NoRequest /\ judged[m].valid => judged[m].old \in Approved
    BY <1>1, JudgedApprovals
<1> HIDE DEF judged
<1> QED
    BY <1>1, <1>2, PassingConfirms DEF IInv

-----------------------------------------------------------------------------
LEMMA InitInv == Init => IInv
<1>1. SUFFICES ASSUME Init PROVE IInv
    OBVIOUS
<1>2. DOMAIN options = {}
    BY <1>1 DEF Init
<1>3. TypeOK
    BY <1>1, <1>2, FieldAssumption DEF Init, TypeOK, Unasked
<1>4. ApprovalInv
    BY <1>1 DEF Init, ApprovalInv, Unasked
<1>5. RefusedFieldsAreMarked
    BY <1>1 DEF Init, RefusedFieldsAreMarked
<1> QED
    BY <1>3, <1>4, <1>5 DEF IInv

LEMMA NextInv == IInv /\ [Next]_vars => IInv'
<1>1. SUFFICES ASSUME IInv, [Next]_vars PROVE IInv'
    OBVIOUS
<1>2. CASE Next
    <2>1. ~sent
        BY <1>2 DEF Next
    <2>2. CASE DocumentReady
        BY <1>1, <2>1, <2>2, DocumentReadyInv
    <2>3. ASSUME NEW n \in Fields, AddField(n) PROVE IInv'
        BY <1>1, <2>1, <2>3, AddFieldInv
    <2>4. ASSUME NEW n \in Fields, NEW v \in Inputs[n], Change(n, v) PROVE IInv'
        BY <1>1, <2>1, <2>4, ChangeInv
    <2>5. ASSUME NEW n \in Fields, Revisit(n) PROVE IInv'
        BY <1>1, <2>1, <2>5, RevisitInv
    <2>6. ASSUME NEW n \in Fields, Toggle(n) PROVE IInv'
        BY <1>1, <2>1, <2>6, ToggleInv
    <2>7. ASSUME NEW n \in Fields, AnswerRefused(n) PROVE IInv'
        BY <1>1, <2>1, <2>7, AnswerRefusedInv
    <2>8. ASSUME NEW n \in Fields, AnswerApproved(n) PROVE IInv'
        BY <1>1, <2>1, <2>8, AnswerApprovedInv
    <2>9. ASSUME NEW n \in Fields, AnswerSubmits(n) PROVE IInv'
        BY <1>1, <2>1, <2>9, AnswerSubmitsInv
    <2>10. ASSUME NEW n \in Fields, AnswerLost(n) PROVE IInv'
        BY <1>1, <2>1, <2>10, AnswerLostInv
    <2>11. CASE Submit
        BY <1>1, <2>1, <2>11, SubmitInv
    <2>12. CASE Reset
        BY <1>1, <2>1, <2>12, ResetInv
    <2>13. CASE ClickCancel \/ SubmitUnchecked
        BY <1>1, <2>1, <2>13, UncheckedInv
    <2> QED
        BY <1>2, <2>2, <2>3, <2>4, <2>5, <2>6, <2>7, <2>8, <2>9, <2>10, <2>11, <2>12, <2>13
           DEF Next
<1>3. CASE UNCHANGED vars
    <2>1. UNCHANGED <<pageVars, parseVars, shownVars, submitted, invalid, remoteVars,
                      submitVars>>
        BY <1>3 DEF vars
    <2>2. TypeOK'
        BY <1>1, <2>1
           DEF IInv, TypeOK, pageVars, parseVars, shownVars, remoteVars, submitVars
    <2> QED
        BY <1>1, <2>1, <2>2, PageStepInv DEF shownVars
<1> QED
    BY <1>1, <1>2, <1>3

\* Only two steps send a form that was checked.
LEMMA NextConfirms == IInv /\ [Next]_vars => [SendsWhatIsConfirmed]_vars
<1>1. SUFFICES ASSUME IInv, Next, sent', settings # NoValidator, ~cancelSubmit
               PROVE  Confirmed
    BY DEF SendsWhatIsConfirmed
<1>2. ~sent
    BY <1>1 DEF Next
<1>3. Submit \/ \E n \in Fields : AnswerSubmits(n)
    BY <1>1, <1>2 DEF Next, DocumentReady, AddField, Change, Revisit, Toggle, AnswerRefused,
                      AnswerApproved, AnswerLost, ClickCancel, SubmitUnchecked, Reset, submitVars
<1> QED
    BY <1>1, <1>3, SubmitConfirms, AnswerConfirms

\* What a validated form sends, unless a click on a cancel button came
\* before, has been confirmed: every field that is shown and enforced meets
\* its rules, and the server has approved the very value of each that asks
\* it, for any fields, rules, values and verdicts.
THEOREM SentFormsAreConfirmed == Spec => SentIsConfirmed
<1> QED
    BY InitInv, NextInv, NextConfirms, PTL DEF Spec, SentIsConfirmed

\* What was refused is marked, in any order of checks, answers and resets.
THEOREM RefusalsAreMarked == Spec => []RefusedFieldsAreMarked
<1>1. IInv => RefusedFieldsAreMarked
    BY DEF IInv
<1> QED
    BY <1>1, InitInv, NextInv, PTL DEF Spec

\* Type correctness of the form.
THEOREM TypeCorrect == Spec => []TypeOK
<1>1. IInv => TypeOK
    BY DEF IInv
<1> QED
    BY <1>1, InitInv, NextInv, PTL DEF Spec

=============================================================================
