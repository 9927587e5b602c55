\* Publishing checks for the apply script before its transaction.
SPECIFICATION Spec
CONSTANTS
    None = None
    Modules = {m1}
    Versions = {v1, v2}
    Rows = {apply}
    Scripts = {apply}
    Actions = {}
    Apply = apply
    Fields = fields
    Manifest = manifest
    Texts = {t1}
    Requests = {r1}
INVARIANT DeployableHasApply
\* Version ids run out.
CHECK_DEADLOCK FALSE
