SPECIFICATION Spec
CONSTANTS
    HasExtensionMethod = TRUE
    Fields <- MCFields
    Late <- MCLate
    Hideable <- MCHideable
    Element <- MCElement
    Replace <- MCReplace
    Values <- MCValues
    Inputs <- MCInputs
    Empty = ""
    Accepts <- MCAccepts
    Approved = {"good"}
    CancelButton = TRUE
    NoValidator = NoValidator
    NoRequest = "no request"
INVARIANTS TypeOK RefusedFieldsAreMarked
PROPERTIES SentIsConfirmed
CHECK_DEADLOCK FALSE
