------------------------- MODULE ValidationAdapters -------------------------
(***************************************************************************)
(* How jquery.validate.unobtrusive.js turns the data-val-* attributes of   *)
(* an element into rules of jQuery Validate: the adapters, in the order in *)
(* which the script registers them, and parseElement, which runs them.     *)
(*                                                                         *)
(* An element is a record: its name as the sequence of its dot-separated   *)
(* parts, whether it is a checkbox, and attr, a function from the adapters *)
(* whose data-val-<adapter> it has to the parameters data-val-<adapter>-p  *)
(* it has.  The value of a rule is the sequence of its parameters: empty   *)
(* stands for JavaScript's undefined, <<"true">> for true.  Messages are   *)
(* assigned under the same keys as rules and are left out.                 *)
(***************************************************************************)
EXTENDS Naturals, Sequences
LOCAL INSTANCE SequencesExt
LOCAL INSTANCE TLC

CONSTANT HasExtensionMethod  \* jQuery Validate's additional methods are loaded

ASSUME AdapterAssumption == HasExtensionMethod \in BOOLEAN

Undefined == <<>>
True == <<"true">>
NoRule == <<>>               \* the function with no rule

\* setValidationValues
SetRule(rule, v) == rule :> v

\* options.params[p]
Param(params, p) == IF p \in DOMAIN params THEN <<params[p]>> ELSE Undefined

-----------------------------------------------------------------------------
(***************************************************************************)
(* Names.  "*.Other" names a field of the same model as the element.       *)
(***************************************************************************)
GetModelPrefix(name) == Front(name)
AppendModelPrefix(other, prefix) ==
    IF Head(other) = "*" THEN prefix \o Tail(other) ELSE other

-----------------------------------------------------------------------------
(***************************************************************************)
(* The adapters.  Each kind gives the rules that one adapter sets.         *)
(***************************************************************************)
AddBool(name, rule) == [name |-> name, kind |-> "bool", rule |-> rule]

\* The parameter is read under the name that was passed: the default "val"
\* of a call without it is extracted from the element and never read.
AddSingleVal(name, attribute, rule) ==
    [name |-> name, kind |-> "single", rule |-> rule, attribute |-> attribute]

\* min and max are read under these names, whatever the attributes are called.
AddMinMax(name, minRule, maxRule, minMaxRule) ==
    [name |-> name, kind |-> "minmax", min |-> minRule, max |-> maxRule, both |-> minMaxRule]

Add(name) == [name |-> name, kind |-> name]

MinMaxRules(a, params) ==
    LET min == Param(params, "min")
        max == Param(params, "max")
    IN  CASE min # Undefined /\ max # Undefined -> SetRule(a.both, min \o max)
          [] min # Undefined /\ max = Undefined -> SetRule(a.min, min)
          [] min = Undefined /\ max # Undefined -> SetRule(a.max, max)
          [] OTHER -> NoRule

\* The field to compare with is looked up in the form when the element is
\* parsed; a rule whose field is not there yet has no value.
EqualTo(e, params, form) ==
    LET other == AppendModelPrefix(params["other"], GetModelPrefix(e.name))
    IN  SetRule("equalTo", IF other \in form THEN <<other>> ELSE Undefined)

\* A checkbox cannot be required to be checked.
Required(e) == IF e.checkbox THEN NoRule ELSE SetRule("required", True)

\* The names of the fields sent along, their model prefix filled in.
Remote(e, params) ==
    LET named == IF "additionalfields" \in DOMAIN params
                 THEN params["additionalfields"] ELSE <<e.name>>
        prefix == GetModelPrefix(e.name)
    IN  SetRule("remote", [i \in DOMAIN named |-> AppendModelPrefix(named[i], prefix)])

PasswordRule ==
    ("min" :> "minlength") @@ ("nonalphamin" :> "nonalphamin") @@ ("regex" :> "regex")
Password(params) ==
    LET given == DOMAIN PasswordRule \cap DOMAIN params
    IN  [r \in {PasswordRule[p] : p \in given} |->
            Param(params, CHOOSE p \in given : PasswordRule[p] = r)]

\* One adapter run on one element.
Adapt(a, e, form) ==
    LET params == e.attr[a.name]
    IN  CASE a.kind = "bool" -> SetRule(a.rule, True)
          [] a.kind = "single" -> SetRule(a.rule, Param(params, a.attribute))
          [] a.kind = "minmax" -> MinMaxRules(a, params)
          [] a.kind = "equalto" -> EqualTo(e, params, form)
          [] a.kind = "required" -> Required(e)
          [] a.kind = "remote" -> Remote(e, params)
          [] a.kind = "password" -> Password(params)

\* In the order of their registration.
Adapters ==
    (IF HasExtensionMethod
     THEN <<AddSingleVal("accept", "mimtype", "accept"),
            AddSingleVal("extension", "extension", "extension")>>
     ELSE <<AddSingleVal("extension", "extension", "accept")>>)
    \o <<AddSingleVal("regex", "pattern", "regex"),
         AddBool("creditcard", "creditcard"), AddBool("date", "date"),
         AddBool("digits", "digits"), AddBool("email", "email"),
         AddBool("number", "number"), AddBool("url", "url"),
         AddMinMax("length", "minlength", "maxlength", "rangelength"),
         AddMinMax("range", "min", "max", "range"),
         AddMinMax("minlength", "minlength", "undefined", "undefined"),
         AddMinMax("maxlength", "minlength", "maxlength", "undefined"),
         Add("equalto"), Add("required"), Add("remote"), Add("password"),
         AddSingleVal("fileextensions", "extensions", "extension")>>

-----------------------------------------------------------------------------
(***************************************************************************)
(* parseElement: every adapter whose attribute the element has, one after  *)
(* the other, over the same table of rules; then a rule that always holds, *)
(* so that every parsed field is validated.                                *)
(***************************************************************************)
ParseElement(e, form) ==
    ("__dummy__" :> True) @@
    FoldLeft(LAMBDA rules, a : Adapt(a, e, form) @@ rules,
             NoRule, SelectSeq(Adapters, LAMBDA a : a.name \in DOMAIN e.attr))

\* What jQuery Validate keeps of a table of rules: $.extend copies no
\* undefined value.
Copied(rules) == [r \in {q \in DOMAIN rules : rules[q] # Undefined} |-> rules[r]]

=============================================================================
