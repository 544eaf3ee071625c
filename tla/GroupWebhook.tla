----------------------------- MODULE GroupWebhook -----------------------------
(***************************************************************************)
(* The mutating webhook: what it makes of a claim's annotations when the   *)
(* claim is created or updated, by users and by the operator alike.  A     *)
(* group's template is a function on Field, Absent where a field is not    *)
(* set; a percentage is any text and may be Invalid, a quantity may not.   *)
(***************************************************************************)
EXTENDS PVCConfig

\* Fault: what the claim has is not looked at.
allTemplateAnnotations(template, existing) == [f \in {g \in Field : template[g] # Absent} |-> template[f]]

\* The template fields that are set and that the claim has no annotation for.
getTemplateAnnotations(template, existing) ==
    [f \in {g \in Field : template[g] # Absent /\ existing[g] = Absent} |-> template[f]]

Overlaid(set, extra) == [f \in Field |-> IF f \in DOMAIN extra THEN extra[f] ELSE set[f]]

\* The registered entry point, for a claim whose group exists.
Default(ann, template) ==
    IF ann.group = Absent THEN ann
    ELSE [ann EXCEPT !.set = Overlaid(ann.set, getTemplateAnnotations(template, ann.set))]

\* The other entry point, which tests call: it leaves out claims whose annotation is
\* exactly "false".
Handle(ann, template) == IF ann.enabled = "false" THEN ann ELSE Default(ann, template)

=============================================================================
