\* Two requests of any kind, the audit thread and the mail tasks.
CONSTANTS
    Requests = {r1, r2}
    Apis = {"upload", "look"}
    Secure = {"upload"}
    Post = {"upload"}
    Roles <- RoleNames
    RolesOf <- ApiRoles
    Within <- Inside
    Calls <- ManyCalls
    Workers = 2
    EnableAudit = TRUE
SPECIFICATION Spec
SYMMETRY Symmetry
INVARIANTS TypeOK ServiceAuthorized AuditedOnce DocumentsMatchOutcome MailsAreComplete
