----------------------- MODULE UnobtrusiveValidation -----------------------
(***************************************************************************)
(* jquery.validate.unobtrusive.js at work on one form: parsing when the    *)
(* document is ready and again when a page script adds a field, attaching  *)
(* jQuery Validate, and the callbacks onError, onErrors, onSuccess and     *)
(* onReset, which keep the containers data-valmsg-for and the summary in   *)
(* step with it.  The script and jQuery Validate are vendored, and what    *)
(* calls the callbacks is modelled from jquery.validate.js beside it.      *)
(*                                                                         *)
(* A handler of a browser event runs to its end before the next one; only  *)
(* the rule "remote" is asynchronous: it asks a server and answers later.  *)
(* A message is the reason for it; CSS and wording are left out, and so is *)
(* submitHandler, which validationInfo does not pass to jQuery Validate.   *)
(***************************************************************************)
EXTENDS ValidationAdapters

CONSTANTS
    Fields,     \* names of the fields, as sequences of their parts
    Late,       \* those a page script adds after the document was ready
    Hideable,   \* those a page script may hide and show
    Element,    \* the element of each field
    Replace,    \* the fields whose container has data-valmsg-replace=true
    Values,     \* values that fields can have, Empty among them
    Inputs,     \* those of them a user can give to each field
    Empty,
    Accepts,    \* for each rule with no case of its own, the values it accepts
    Approved,   \* the values the server of the rule "remote" approves
    CancelButton    \* there is a submit button of class cancel or formnovalidate

CONSTANTS NoValidator, NoRequest

ASSUME FieldAssumption ==
    /\ Late \subseteq Fields /\ Late # Fields
    /\ Hideable \subseteq Fields
    /\ Replace \subseteq Fields
    /\ \A n \in Fields : Element[n].name = n /\ "equalto" \notin DOMAIN Element[n].attr
    /\ Empty \in Values
    /\ \A n \in Fields : Inputs[n] \subseteq Values
    /\ Approved \subseteq Values
    /\ CancelButton \in BOOLEAN
    /\ NoRequest \notin Values

VARIABLES
    present,    \* the fields in the document
    visible,    \* those jQuery Validate does not ignore as :hidden
    value,      \* what is in each field
    options,    \* validationInfo: options.rules by name of the element
    settings,   \* the validator's own copy of them, or NoValidator
    container,  \* class and message of each data-valmsg-for
    summary,    \* class of the data-valmsg-summary
    submitted,  \* validator.submitted: names that have failed
    invalid,    \* validator.invalid: "yes", "no", or not there
    previous,   \* data "previousValue": the value last asked for, its verdict
    flight,     \* the value each field's request is about, or NoRequest
    pending,    \* validator.pending, whose size is pendingRequest
    formSubmitted,  \* a submission waits for the pending requests
    cancelSubmit,   \* the next submission is not to be checked
    sent        \* the browser has sent the form and left the page

pageVars == <<present, visible, value>>
parseVars == <<options, settings>>
shownVars == <<container, summary>>
remoteVars == <<previous, flight, pending>>
submitVars == <<formSubmitted, cancelSubmit, sent>>
vars == <<pageVars, parseVars, shownVars, submitted, invalid, remoteVars, submitVars>>

Unasked == [old |-> NoRequest, valid |-> TRUE]

Init ==
    /\ present = Fields \ Late
    /\ visible = Fields
    /\ value = [n \in Fields |-> Empty]
    /\ options = [n \in {} |-> NoRule]
    /\ settings = NoValidator
    /\ container = [n \in Fields |-> [class |-> "valid", message |-> "none"]]
    /\ summary = "valid"
    /\ submitted = {}
    /\ invalid = [n \in Fields |-> "unknown"]
    /\ previous = [n \in Fields |-> Unasked]
    /\ flight = [n \in Fields |-> NoRequest]
    /\ pending = {}
    /\ formSubmitted = FALSE
    /\ cancelSubmit = FALSE
    /\ sent = FALSE

-----------------------------------------------------------------------------
(***************************************************************************)
(* Parsing and attaching.                                                  *)
(***************************************************************************)
\* attachValidation: validate() makes a validator with a copy of the options
\* the first time, and afterwards returns the one there is.
AttachValidation ==
    IF settings = NoValidator
    THEN settings' = [n \in DOMAIN options' |-> Copied(options'[n])]
    ELSE UNCHANGED settings

\* parse() of a part of the page with these fields.
Parse(ns) ==
    /\ options' = [n \in DOMAIN options \cup ns |->
            IF n \in ns THEN ParseElement(Element[n], present') ELSE options[n]]
    /\ AttachValidation

DocumentReady ==
    /\ DOMAIN options = {}
    /\ UNCHANGED <<pageVars, shownVars, submitted, invalid, remoteVars, submitVars>>
    /\ Parse(present)

\* A page script adds a field and has it parsed, as it must.
AddField(n) ==
    /\ n \notin present
    /\ DOMAIN options # {}
    /\ present' = present \cup {n}
    /\ Parse({n})
    /\ UNCHANGED <<visible, value, shownVars, submitted, invalid, remoteVars, submitVars>>

-----------------------------------------------------------------------------
(***************************************************************************)
(* One check of one field.  The rule "remote" comes last and is optional;  *)
(* a value it was asked for before has the verdict on record, which is the *)
(* one of the value before until the answer is there.  The rules but       *)
(* "required" and "nonalphamin" are optional, too: they accept no value.   *)
(***************************************************************************)
Enforced(n) == settings # NoValidator /\ n \in DOMAIN settings

Meets(n, rule) ==
    CASE rule = "required" -> value[n] # Empty
      [] rule = "nonalphamin" -> value[n] # Empty /\ value[n] \in Accepts[rule]
      [] rule \in {"__dummy__", "remote"} -> TRUE
      [] OTHER -> value[n] = Empty \/ value[n] \in Accepts[rule]

\* Variant: an empty field is asked about, too.
AskedRemotelyAlways(n) == "remote" \in DOMAIN settings[n]

AskedRemotely(n) == "remote" \in DOMAIN settings[n] /\ value[n] # Empty

Verdict(n, prev) ==
    CASE ~Enforced(n) -> "unruled"
      [] Enforced(n) /\ \E r \in DOMAIN settings[n] : ~Meets(n, r) -> "rules"
      [] OTHER -> IF ~AskedRemotely(n) THEN "passes"
                  ELSE IF prev[n].old # value[n] THEN "ask"
                  ELSE IF prev[n].valid THEN "passes" ELSE "remote"

WithVerdict(ns, prev, verdicts) == {n \in ns : Verdict(n, prev) \in verdicts}
Failing(ns, prev) == WithVerdict(ns, prev, {"rules", "remote"})
Asking(ns, prev) == WithVerdict(ns, prev, {"ask"})

\* A new request aborts the field's former one.
Recorded(ns, prev) ==
    [n \in Fields |-> IF n \in Asking(ns, prev)
                      THEN [old |-> value[n], valid |-> prev[n].valid] ELSE prev[n]]

Ask(ns, prev) ==
    /\ previous' = Recorded(ns, prev)
    /\ flight' = [n \in Fields |-> IF n \in Asking(ns, prev) THEN value[n] ELSE flight[n]]
    /\ pending' = pending \cup Asking(ns, prev)

-----------------------------------------------------------------------------
(***************************************************************************)
(* The callbacks.  onError takes the error class off a label it moves into *)
(* a container, so jQuery Validate never finds it again and calls onError  *)
(* with a new one, for a success too; onSuccess then empties the container.*)
(***************************************************************************)
OnError(n, c, reason) ==
    [class |-> "error", message |-> IF n \in Replace THEN reason ELSE c.message]

OnSuccess(n, c) ==
    [class |-> "valid", message |-> IF n \in Replace THEN "none" ELSE c.message]

\* showLabel, for a field that failed, passed, or waits
Labelled(n, c, verdict) ==
    CASE verdict \in {"rules", "remote"} -> OnError(n, c, verdict)
      [] verdict = "passes" -> OnSuccess(n, OnError(n, c, "none"))
      [] OTHER -> c

ShowErrors(shown, ns, prev) ==
    [n \in Fields |-> IF n \in ns THEN Labelled(n, shown[n], Verdict(n, prev)) ELSE shown[n]]

\* onErrors
OnErrors(failing) == IF failing = {} THEN summary ELSE "errors"

\* The fields form() looks at: elements()
Elements == {n \in present \cap visible : Enforced(n)}

-----------------------------------------------------------------------------
(***************************************************************************)
(* The user and the page.                                                  *)
(***************************************************************************)
\* A value changes; what events come of it is the matter of Revisit.
Change(n, v) ==
    /\ n \in present
    /\ value' = [value EXCEPT ![n] = v]
    /\ UNCHANGED <<present, visible, parseVars, shownVars, submitted, invalid,
                   remoteVars, submitVars>>

\* keyup or focusout: element()
Revisit(n) ==
    /\ settings # NoValidator
    /\ n \in present \cap visible
    /\ n \in submitted \/ invalid[n] # "unknown" \/ value[n] # Empty
    /\ LET fails == Failing({n}, previous) # {} IN
        /\ submitted' = submitted \cup Failing({n}, previous)
        /\ invalid' = [invalid EXCEPT ![n] = IF fails THEN "yes" ELSE "no"]
    /\ container' = ShowErrors(container, {n}, previous)
    /\ Ask({n}, previous)
    /\ UNCHANGED <<pageVars, parseVars, summary, submitVars>>

\* What form() leaves in the validator.
Judged(failing) ==
    /\ submitted' = submitted \cup failing
    /\ invalid' = [n \in Fields |-> IF n \in failing THEN "yes" ELSE "unknown"]
    /\ summary' = OnErrors(failing)

\* A click on a cancel button, before the submit event that it brings about
\* at once, unless a script of the page prevents that.
ClickCancel ==
    /\ CancelButton /\ settings # NoValidator
    /\ cancelSubmit' = TRUE
    /\ UNCHANGED <<pageVars, parseVars, shownVars, submitted, invalid, remoteVars,
                   formSubmitted, sent>>

\* The submit event, of a button, a key or a script.  The browser submits
\* without a validator; with one, a cancelled check is left out, once.
SubmitUnchecked ==
    /\ settings = NoValidator \/ cancelSubmit
    /\ cancelSubmit' = FALSE
    /\ sent' = TRUE
    /\ UNCHANGED <<pageVars, parseVars, shownVars, submitted, invalid, remoteVars,
                   formSubmitted>>

Submit ==
    /\ settings # NoValidator /\ ~cancelSubmit
    /\ Judged(Failing(Elements, previous))
    /\ container' = ShowErrors(container, Elements, previous)
    /\ Ask(Elements, previous)
    /\ LET valid == Failing(Elements, previous) = {} IN
        /\ sent' = (valid /\ pending' = {})
        /\ formSubmitted' = (formSubmitted \/ (valid /\ pending' # {}))
    /\ UNCHANGED <<pageVars, parseVars, cancelSubmit>>

(***************************************************************************)
(* The form is reset.  onReset calls resetForm, which forgets the verdicts *)
(* of the fields form() looks at, and sets the containers back; then the   *)
(* browser empties the fields.  Requests and a waiting submission stay.    *)
(* (The key that keeps onReset from calling itself is for a plugin whose   *)
(* resetForm raises the event again, which this repository has not.)       *)
(***************************************************************************)
\* Variant: only the containers are set back.
OnResetContainersOnly ==
    /\ container' = [n \in Fields |-> [container[n] EXCEPT !.class = "valid"]]
    /\ summary' = "valid"
    /\ UNCHANGED <<submitted, invalid, previous>>

OnReset ==
    /\ submitted' = {}
    /\ invalid' = [n \in Fields |-> "unknown"]
    /\ previous' = [n \in Fields |-> IF n \in Elements THEN Unasked ELSE previous[n]]
    /\ container' = [n \in Fields |-> [container[n] EXCEPT !.class = "valid"]]
    /\ summary' = "valid"

Reset ==
    /\ IF settings = NoValidator THEN UNCHANGED <<shownVars, submitted, invalid, previous>>
                                 ELSE OnReset
    /\ value' = [n \in Fields |-> Empty]
    /\ UNCHANGED <<present, visible, parseVars, flight, pending, submitVars>>

\* A page script hides or shows a field.
Toggle(n) ==
    /\ n \in present \cap Hideable
    /\ visible' = IF n \in visible THEN visible \ {n} ELSE visible \cup {n}
    /\ UNCHANGED <<present, value, parseVars, shownVars, submitted, invalid, remoteVars,
                   submitVars>>

-----------------------------------------------------------------------------
(***************************************************************************)
(* The server of the rule "remote".                                        *)
(***************************************************************************)
\* The verdict is kept with the value unless a reset has dropped the record.
Judge(n, v) ==
    [previous EXCEPT ![n].valid = IF previous[n].old = NoRequest THEN TRUE ELSE v]

\* A refusal: showErrors, then stopRequest.
AnswerRefused(n) ==
    /\ flight[n] # NoRequest /\ flight[n] \notin Approved
    /\ invalid' = [invalid EXCEPT ![n] = "yes"]
    /\ container' = [container EXCEPT ![n] = OnError(n, @, "remote")]
    /\ previous' = Judge(n, FALSE)
    /\ flight' = [flight EXCEPT ![n] = NoRequest]
    /\ pending' = pending \ {n}
    /\ IF formSubmitted /\ pending' = {}
       THEN summary' = OnErrors({n}) /\ formSubmitted' = FALSE
       ELSE UNCHANGED <<summary, formSubmitted>>
    /\ UNCHANGED <<pageVars, parseVars, submitted, cancelSubmit, sent>>

\* An approval with nothing waiting, or more to wait for.
AnswerApproved(n) ==
    /\ flight[n] \in Approved
    /\ ~formSubmitted \/ pending # {n}
    /\ invalid' = [invalid EXCEPT ![n] = "no"]
    /\ container' = [container EXCEPT ![n] = Labelled(n, @, "passes")]
    /\ previous' = Judge(n, TRUE)
    /\ flight' = [flight EXCEPT ![n] = NoRequest]
    /\ pending' = pending \ {n}
    /\ UNCHANGED <<pageVars, parseVars, summary, submitted, submitVars>>

(***************************************************************************)
(* The last approval a submission waits for: the form is checked again.    *)
(* If it fails, formSubmitted stays set.  Else it is submitted, and the    *)
(* submit handler checks it once more, unless that is cancelled.  A field  *)
(* that the first check asks about anew has, in the second, the verdict of *)
(* its value before; passing there, it still waits for its answer and      *)
(* keeps the form from being sent, but nothing waits for that any more.    *)
(***************************************************************************)
\* Variant: the form that was waiting is sent as it is now.
AnswerSubmitsUnchecked(n) ==
    /\ flight[n] \in Approved
    /\ formSubmitted /\ pending = {n}
    /\ previous' = Judge(n, TRUE)
    /\ flight' = [flight EXCEPT ![n] = NoRequest]
    /\ pending' = {}
    /\ sent' = TRUE
    /\ formSubmitted' = FALSE
    /\ container' = [container EXCEPT ![n] = Labelled(n, @, "passes")]
    /\ UNCHANGED <<pageVars, parseVars, summary, submitted, invalid, cancelSubmit>>

AnswerSubmits(n) ==
    /\ flight[n] \in Approved
    /\ formSubmitted /\ pending = {n}
    /\ LET judged == Judge(n, TRUE)
           shown == [container EXCEPT ![n] = Labelled(n, @, "passes")]
           asking == Asking(Elements, judged)
           again == Recorded(Elements, judged)
           once == ShowErrors(shown, Elements, judged)
           passes == Failing(Elements, judged) = {}
           twice == passes /\ ~cancelSubmit
       IN  /\ Judged(Failing(Elements, IF twice THEN again ELSE judged))
           /\ previous' = again
           /\ flight' = [m \in Fields |-> IF m \in asking THEN value[m]
                                          ELSE IF m = n THEN NoRequest ELSE flight[m]]
           /\ pending' = asking
           /\ container' = IF twice THEN ShowErrors(once, Elements, again) ELSE once
           /\ sent' = (passes /\ (cancelSubmit \/ asking = {}))
           /\ formSubmitted' = ~passes
           /\ cancelSubmit' = (cancelSubmit /\ ~passes)
    /\ UNCHANGED <<pageVars, parseVars>>

\* The call fails: only its success is listened to.
AnswerLost(n) ==
    /\ flight[n] # NoRequest
    /\ flight' = [flight EXCEPT ![n] = NoRequest]
    /\ UNCHANGED <<pageVars, parseVars, shownVars, submitted, invalid, previous, pending,
                   submitVars>>

-----------------------------------------------------------------------------
Next ==
    /\ ~sent
    /\ \/ DocumentReady
       \/ \E n \in Fields :
            \/ AddField(n)
            \/ \E v \in Inputs[n] : Change(n, v)
            \/ Revisit(n)
            \/ Toggle(n)
            \/ AnswerRefused(n)
            \/ AnswerApproved(n)
            \/ AnswerSubmits(n)
            \/ AnswerLost(n)
       \/ ClickCancel
       \/ SubmitUnchecked
       \/ Submit
       \/ Reset

Spec == Init /\ [][Next]_vars

-----------------------------------------------------------------------------
\* Every variable keeps to the values its JavaScript counterpart can have;
\* nothing is asked about an empty field.
TypeOK ==
    /\ Fields \ Late \subseteq present /\ present \subseteq Fields
    /\ visible \subseteq Fields
    /\ value \in [Fields -> Values]
    /\ DOMAIN options \subseteq present
    /\ settings # NoValidator => DOMAIN settings \subseteq DOMAIN options
    /\ container \in [Fields -> [class : {"valid", "error"},
                                 message : {"none", "rules", "remote"}]]
    /\ summary \in {"valid", "errors"}
    /\ submitted \subseteq present
    /\ invalid \in [Fields -> {"unknown", "no", "yes"}]
    /\ previous \in [Fields -> [old : (Values \ {Empty}) \cup {NoRequest}, valid : BOOLEAN]]
    /\ flight \in [Fields -> (Values \ {Empty}) \cup {NoRequest}]
    /\ pending \subseteq Fields
    /\ {formSubmitted, cancelSubmit, sent} \subseteq BOOLEAN

(***************************************************************************)
(* A form that a validator was attached to, with no click on a cancel      *)
(* button before, is sent only if every field it shows and enforces meets  *)
(* its rules at that moment, and the server has approved the very value    *)
(* that is sent, whatever was typed, reset, hidden or lost while requests  *)
(* were under way.                                                         *)
(***************************************************************************)
Confirmed ==
    \A n \in Elements :
        /\ \A r \in DOMAIN settings[n] : Meets(n, r)
        /\ AskedRemotely(n) => value[n] \in Approved

SendsWhatIsConfirmed ==
    sent' /\ settings # NoValidator /\ ~cancelSubmit => Confirmed

SentIsConfirmed == [][SendsWhatIsConfirmed]_vars

(***************************************************************************)
(* A field that jQuery Validate holds for invalid is marked: its container *)
(* has the error class, and a message if the container shows messages.     *)
(* No order of checks, late answers and resets leaves a refused form with  *)
(* nothing to see.                                                         *)
(***************************************************************************)
RefusedFieldsAreMarked ==
    \A n \in Fields : invalid[n] = "yes" =>
        /\ container[n].class = "error"
        /\ n \in Replace => container[n].message # "none"

=============================================================================
