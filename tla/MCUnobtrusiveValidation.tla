---------------------- MODULE MCUnobtrusiveValidation ----------------------
(***************************************************************************)
(* A small form for TLC, and the adapters checked against what each rule   *)
(* should be when several attributes speak of it.                          *)
(***************************************************************************)
EXTENDS UnobtrusiveValidation, TLC, FiniteSets

User == <<"Order", "User">>
Mail == <<"Order", "Mail">>
Note == <<"Note">>
None == [x \in {} |-> x]

MCValues == {"", "good", "bad"}
MCFields == {User, Mail, Note}
MCElement ==
    (User :> [name |-> User, checkbox |-> FALSE, attr |-> [remote |-> None, email |-> None]]) @@
    (Mail :> [name |-> Mail, checkbox |-> FALSE,
              attr |-> [remote |-> None, password |-> "nonalphamin" :> "1"]]) @@
    (Note :> [name |-> Note, checkbox |-> FALSE, attr |-> [required |-> None]])
MCInputs == (User :> MCValues) @@ (Mail :> MCValues) @@ (Note :> {})
MCLate == {Note}
MCHideable == {User}
MCReplace == {User, Note}
MCAccepts == [email |-> {"good"}, nonalphamin |-> {"good", "bad"}]

-----------------------------------------------------------------------------
(***************************************************************************)
(* Elements with any of the attributes that set a rule about length.       *)
(***************************************************************************)
Some(ps, v) == UNION {[qs -> {v}] : qs \in SUBSET ps}
Given(name, params) == {None} \cup {name :> p : p \in params}

LengthAttrs ==
    {a @@ b @@ c @@ d @@ e :
        a \in Given("length", Some({"min", "max"}, "1")),
        b \in Given("minlength", Some({"min"}, "2")),
        c \in Given("maxlength", Some({"max"}, "3")),
        d \in Given("password", Some({"min", "regex"}, "4")),
        e \in Given("regex", Some({"pattern"}, "5"))}

Has(attr, name, p) == name \in DOMAIN attr /\ p \in DOMAIN attr[name]

\* What the rule minlength is: the attribute whose adapter comes last.
MinLength(attr) ==
    CASE Has(attr, "password", "min") -> <<"4">>
      [] ~Has(attr, "password", "min") /\ Has(attr, "minlength", "min") -> <<"2">>
      [] OTHER -> IF Has(attr, "length", "min") /\ ~Has(attr, "length", "max")
                  THEN <<"1">> ELSE Undefined

MaxLength(attr) ==
    IF Has(attr, "maxlength", "max") THEN <<"3">>
    ELSE IF Has(attr, "length", "max") /\ ~Has(attr, "length", "min") THEN <<"1">>
    ELSE Undefined

Regex(attr) ==
    IF Has(attr, "password", "regex") THEN <<"4">>
    ELSE IF Has(attr, "regex", "pattern") THEN <<"5">> ELSE Undefined

RuleOf(rules, r) == IF r \in DOMAIN rules THEN rules[r] ELSE Undefined

ASSUME LengthRules ==
    \A attr \in LengthAttrs :
        LET rules == Copied(ParseElement([name |-> User, checkbox |-> FALSE, attr |-> attr], {}))
        IN  /\ RuleOf(rules, "minlength") = MinLength(attr)
            /\ RuleOf(rules, "maxlength") = MaxLength(attr)
            /\ RuleOf(rules, "regex") = Regex(attr)
            /\ "rangelength" \in DOMAIN rules
                    <=> Has(attr, "length", "min") /\ Has(attr, "length", "max")
            /\ "__dummy__" \in DOMAIN rules

\* A field is compared with the one of its own model, and a checkbox is not
\* required; a field that is not in the form is compared with nothing.
ASSUME NamedRules ==
    \A checkbox \in BOOLEAN, form \in SUBSET {Mail, <<"Mail">>} :
        LET attr == [equalto |-> "other" :> <<"*", "Mail">>, required |-> None,
                     remote |-> "additionalfields" :> <<<<"*", "Mail">>, Note>>]
            rules == Copied(ParseElement(
                        [name |-> User, checkbox |-> checkbox, attr |-> attr], form))
        IN  /\ "required" \in DOMAIN rules <=> ~checkbox
            /\ RuleOf(rules, "equalTo") = IF Mail \in form THEN <<Mail>> ELSE Undefined
            /\ rules["remote"] = <<Mail, Note>>

=============================================================================
