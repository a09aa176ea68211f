\* A handler that sets its body and then cannot send its mail.
CONSTANTS
    Requests = {r1}
    Apis = {"upload", "look"}
    Secure = {"upload"}
    Post = {"upload"}
    Roles <- RoleNames
    RolesOf <- ApiRoles
    Within <- Inside
    Calls <- Uploads
    Workers = 1
    EnableAudit = TRUE
SPECIFICATION Spec
INVARIANT ErrorIsTheResponse
