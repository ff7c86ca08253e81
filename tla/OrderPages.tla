----------------------------- MODULE OrderPages -----------------------------
(***************************************************************************)
(* The list of calculation orders and their editor, as one browser circuit *)
(* runs them (GravitationalFieldCalculationOrderMain and ...Edit).  The    *)
(* screen changes only when a handler of the list returns or calls         *)
(* StateHasChanged, which Render stands for.                               *)
(***************************************************************************)
EXTENDS RestClient

CONSTANTS
    Default,    \* the content of a new order
    Drafts,     \* what the user can make of the content in the editor
    NoOrder, NoEditor

ASSUME PagesAssumption ==
    /\ Default \in Valid \ Points
    /\ Drafts \subseteq Contents \ Points
    /\ NoOrder \notin [id : Ids, content : Contents]
    /\ NoEditor \notin [id : Ids, shown : Contents, clean : Contents]

VARIABLES
    listed,     \* gravitationalFieldCalculationOrderList
    selected,   \* selectedGravitationalFieldCalculationOrderList
    current,    \* currentGravitationalFieldCalculationOrder of the list page; the
                \* main panel is hidden exactly while there is one
    editor,     \* the editor on the screen: its order, the content shown, and
                \* the snapshot it compares with
    asking,     \* the editor asks whether to close without saving
    consented   \* history: the user has asked the editor to close

editorVars == <<editor, asking, consented>>
screenVars == <<current, editorVars>>
pageVars == <<listed, selected, screenVars>>

\* byList: the loop runs over selectedGravitationalFieldCalculationOrderList
\* itself; moved: which has been changed since the loop began; asked (history):
\* what the user is asked to confirm.
Deletion(at, ids, byList) ==
    [at |-> at, rest |-> ids, byList |-> byList, moved |-> FALSE, asked |-> ids]

Dirty == editor # NoEditor /\ editor.shown # editor.clean
NoDialog == ~asking /\ \A t \in Tasks : task[t].at # "confirming"
ListOnScreen == editor = NoEditor /\ NoDialog
EditorOnScreen == editor # NoEditor /\ NoDialog

\* A Guid the pages know of is not a new one.
HeldBy(t) ==
    UNION {LET held == task[t][field] IN IF field = "rest" THEN held ELSE {held} :
              field \in DOMAIN task[t] \cap {"id", "next", "rest"}}
Known == listed \cup selected \cup {e.id : e \in {editor} \ {NoEditor}}
            \cup UNION {HeldBy(t) : t \in Tasks}

InitPages ==
    /\ listed = {} /\ selected = {}
    /\ current = NoOrder /\ editor = NoEditor /\ asking = FALSE
    /\ consented = FALSE

-----------------------------------------------------------------------------
\* The editor component exists on the screen as long as there is a current
\* order; it takes the order over when it appears, and never again.
Shown(order) ==
    IF order = NoOrder THEN NoEditor
    ELSE IF editor # NoEditor THEN editor
    ELSE [id |-> order.id, shown |-> order.content, clean |-> order.content]

Saving == {"putting", "getting"}

Render(order) ==
    /\ current' = order
    /\ editor' = Shown(order)
    /\ consented' = (consented /\ Shown(order) # NoEditor)
    /\ UNCHANGED asking
    /\ orphans' = IF Shown(order) = NoEditor
                  THEN orphans \cup {t \in Tasks : task[t].at \in Saving} ELSE orphans

\* A handler of the list returns, in good order or through its catch.
Return(t) ==
    /\ Finish(t)
    /\ Render(current)
    /\ UNCHANGED <<listed, selected>>

\* OnInitializedAsync: the list page has no current order at once, but the
\* screen shows it no sooner than the next rendering.
BeginReload(t, next) ==
    /\ Await(t, [at |-> "listing", next |-> next], [op |-> "GETALL"])
    /\ current' = NoOrder

Reload(t, next) ==
    /\ BeginReload(t, next)
    /\ UNCHANGED <<listed, selected, editorVars, orphans>>

Opening(i) == [at |-> "opening", id |-> i]

Listed(t) ==
    /\ Resumes(t, "listing")
    /\ listed' = IF Answered(t, "ok") THEN answers[t].body ELSE listed
    /\ Render(current)
    /\ LET i == task[t].next IN
       IF i \in listed' THEN Await(t, Opening(i), [op |-> "GET", id |-> i])
                        ELSE Finish(t)
    /\ UNCHANGED <<selected>>

AddGravitationalFieldCalculationOrder(t, i) ==
    /\ ListOnScreen /\ task[t] = Idle
    /\ Await(t, [at |-> "adding", id |-> i], [op |-> "POST", id |-> i, content |-> Default])
    /\ UNCHANGED <<pageVars, orphans>>

Added(t) ==
    /\ Resumes(t, "adding")
    /\ IF Answered(t, "ok") THEN Reload(t, task[t].id) ELSE Return(t)

RowClicked(t, i) ==
    /\ ListOnScreen /\ task[t] = Idle
    /\ i \in listed
    /\ Await(t, Opening(i), [op |-> "GET", id |-> i])
    /\ UNCHANGED <<pageVars, orphans>>

EditGravitationalFieldCalculationOrder(t) ==
    /\ Resumes(t, "opening")
    /\ Render(IF Answered(t, "ok") THEN [id |-> task[t].id, content |-> answers[t].body]
                                   ELSE current)
    /\ Finish(t)
    /\ UNCHANGED <<listed, selected>>

-----------------------------------------------------------------------------
\* The grid replaces what is in the list of the selection; it keeps what was
\* selected before the list was loaded again.
SelectedItemsChanged(items) ==
    /\ ListOnScreen
    /\ items \subseteq listed \cup selected /\ items # selected
    /\ selected' = items
    /\ task' = [t \in Tasks |->
                    IF task[t].at = "deleting" /\ task[t].byList
                    THEN [task[t] EXCEPT !.moved = TRUE] ELSE task[t]]
    /\ UNCHANGED <<listed, screenVars, orphans, calls, answers>>

ClickDelete(t) ==
    /\ ListOnScreen /\ task[t] = Idle
    /\ \/ \E i \in listed : task' = [task EXCEPT ![t] = Deletion("confirming", {i}, FALSE)]
       \/ selected # {} /\ task' = [task EXCEPT ![t] = Deletion("confirming", selected, TRUE)]
    /\ UNCHANGED <<pageVars, orphans, calls, answers>>

DeleteOneOf(t, ids) ==
    \E i \in ids :
        Await(t, [task[t] EXCEPT !.rest = ids \ {i}, !.at = IF @ = "left" THEN @ ELSE "deleting"],
                [op |-> "DELETE", id |-> i])

ConfirmDeletion(t) ==
    /\ task[t].at = "confirming"
    /\ DeleteOneOf(t, task[t].rest) \/ Finish(t)
    /\ Render(current)
    /\ UNCHANGED <<listed, selected>>

\* Variant: a loop by index instead of the enumerator.
DeletedByIndex(t) ==
    /\ Resumes(t, "deleting")
    /\ LET left == IF task[t].byList THEN selected \ (task[t].asked \ task[t].rest) ELSE task[t].rest IN
       IF ~Answered(t, "ok") THEN Return(t)
       ELSE IF left = {} THEN Reload(t, NoId)
       ELSE DeleteOneOf(t, left) /\ UNCHANGED <<pageVars, orphans>>

\* The enumerator of a list that has been changed throws, also at its end.
Deleted(t) ==
    /\ Resumes(t, "deleting")
    /\ IF ~Answered(t, "ok") \/ task[t].moved THEN Return(t)
       ELSE IF task[t].rest = {} THEN Reload(t, NoId)
       ELSE DeleteOneOf(t, task[t].rest) /\ UNCHANGED <<pageVars, orphans>>

-----------------------------------------------------------------------------
\* The user types, adds or removes points, or generates a range.
Edit(content) ==
    /\ EditorOnScreen
    /\ content # editor.shown
    /\ editor' = [editor EXCEPT !.shown = content]
    /\ UNCHANGED <<listed, selected, current, orphans, asking, consented, handlerVars>>

\* Save validates the points as the service will, and sends the order.
Save(t) ==
    /\ EditorOnScreen /\ task[t] = Idle
    /\ editor.shown \notin Invalid
    /\ Await(t, [at |-> "putting", id |-> editor.id], [op |-> "PUT", id |-> editor.id, content |-> editor.shown])
    /\ UNCHANGED <<pageVars, orphans>>

\* Variant: the editor is marked clean as it is, and no order is read back.
SavePutMarksClean(t) ==
    /\ Resumes(t, "putting")
    /\ Finish(t)
    /\ orphans' = orphans \ {t}
    /\ editor' = IF t \in orphans THEN editor ELSE [editor EXCEPT !.clean = editor.shown]
    /\ UNCHANGED <<listed, selected, current, asking, consented>>

\* A save that fails leaves the editor as it is.  Save catches no exception but
\* ApiException: a broken connection ends the circuit as well, and the page is
\* loaded anew, as LoadAgain may do at any time; a timeout does not.
SavePut(t) ==
    /\ Resumes(t, "putting")
    /\ IF Answered(t, "ok") THEN Await(t, [at |-> "getting"], [op |-> "GET", id |-> task[t].id])
                            ELSE Finish(t)
    /\ orphans' = IF Answered(t, "ok") THEN orphans ELSE orphans \ {t}
    /\ UNCHANGED <<listed, selected, current, editor, asking, consented>>

\* The order that comes back replaces the one in the editor.
SaveGot(t) ==
    /\ Resumes(t, "getting")
    /\ Finish(t)
    /\ orphans' = orphans \ {t}
    /\ editor' = IF Answered(t, "ok") /\ t \notin orphans
                 THEN [editor EXCEPT !.shown = answers[t].body, !.clean = answers[t].body]
                 ELSE editor
    /\ UNCHANGED <<listed, selected, current, asking, consented>>

ShowMainPanel(t) ==
    /\ BeginReload(t, NoId)
    /\ consented' = (editor # NoEditor)

CloseEditorAsync(t) ==
    /\ EditorOnScreen /\ task[t] = Idle
    /\ IF Dirty
       THEN asking' = TRUE /\ UNCHANGED <<current, consented, handlerVars>>
       ELSE ShowMainPanel(t) /\ UNCHANGED asking
    /\ UNCHANGED <<listed, selected, editor, orphans>>

ConfirmCloseWithoutSavingAsync(t) ==
    /\ asking /\ task[t] = Idle
    /\ asking' = FALSE
    /\ ShowMainPanel(t) \/ UNCHANGED <<current, consented, handlerVars>>
    /\ UNCHANGED <<listed, selected, editor, orphans>>

-----------------------------------------------------------------------------
\* A handler whose page is gone: a loop of deletions goes on, any other waits
\* for its call and then changes nothing that can be seen.
LeftStep(t) ==
    /\ Resumes(t, "left")
    /\ IF Answered(t, "ok") /\ ~task[t].moved /\ task[t].rest # {}
       THEN DeleteOneOf(t, task[t].rest) ELSE Finish(t)
    /\ UNCHANGED <<pageVars, orphans>>

Leaving(t) ==
    CASE task[t].at = "deleting" -> [task[t] EXCEPT !.at = "left", !.asked = {}]
      [] task[t].at \in {"listing", "adding", "opening"} -> Deletion("left", {}, FALSE)
      [] task[t].at = "confirming" -> Idle
      [] OTHER -> task[t]

ClearPages ==
    /\ listed' = {} /\ selected' = {}
    /\ current' = NoOrder /\ editor' = NoEditor /\ asking' = FALSE /\ consented' = FALSE

UserStep(t) ==
    \/ \E i \in Ids : RowClicked(t, i)
    \/ ClickDelete(t)
    \/ ConfirmDeletion(t)
    \/ Save(t)
    \/ CloseEditorAsync(t)
    \/ ConfirmCloseWithoutSavingAsync(t)

PageStep(t) ==
    \/ Listed(t) \/ Added(t) \/ EditGravitationalFieldCalculationOrder(t) \/ Deleted(t)
    \/ SavePut(t) \/ SaveGot(t)
    \/ LeftStep(t)

-----------------------------------------------------------------------------
(***************************************************************************)
(* What the editor takes for saved, the order has contained, as long as it *)
(* exists: a save that was refused, lost or overtaken leaves the edits     *)
(* marked as unsaved.                                                      *)
(***************************************************************************)
CleanWasStored ==
    editor # NoEditor /\ stored[editor.id] # Absent => editor.clean \in versions[editor.id]

(***************************************************************************)
(* A loop over the selection that awaits between its deletions deletes     *)
(* nothing that was selected after the user confirmed.                     *)
(***************************************************************************)
OnlyConfirmedAreDeleted ==
    \A t \in Tasks : task[t].at = "deleting" /\ Pending(t) =>
        task[t].rest \cup {calls[t].id} \subseteq task[t].asked

(***************************************************************************)
(* "Save/Close behavior and dirty-close confirmation": no handler that     *)
(* runs on by itself takes an editor with unsaved edits off the screen.    *)
(***************************************************************************)
UnsavedEditsNeedConsent ==
    [][Dirty /\ ~consented /\ (\E t \in Tasks : PageStep(t)) => editor' # NoEditor]_<<clientVars, pageVars>>

=============================================================================
