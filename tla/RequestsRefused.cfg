SPECIFICATION Spec
CONSTANTS
    Requests = {r1}
    Calls <- AllCalls
    AuthEnabled = TRUE
    AdminGroup = "admins"
    BusOptional = FALSE
    Registered <- AllModules
    Installed = {"podman", "zfs", "cloudflare", "sensors"}
    MaxBoots = 1
    MaxDrops = 0
INVARIANT RefusedDoesNothing
CHECK_DEADLOCK FALSE
