SPECIFICATION FairSpec
CONSTANTS
    Requests = {r1, r2}
    Calls <- AllCalls
    AuthEnabled = TRUE
    AdminGroup = "admins"
    BusOptional = TRUE
    Registered <- SomeModules
    Installed = {"podman", "zfs", "cloudflare", "sensors"}
    MaxBoots = 2
    MaxDrops = 1
INVARIANTS TypeOK OkMeansDone EarlyAnswersDoNothing StepsInOrder
PROPERTY RequestsAnswer
CHECK_DEADLOCK FALSE
