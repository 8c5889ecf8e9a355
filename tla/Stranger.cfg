\* Two users of the API and the seed of the repository.
CONSTANTS
    Channels      = {"wecom", "feishu", "api"}
    ChannelUsers  = {"wang", "zhao"}
    Conversations = {"api-wang", "api-zhao", "repair", "op", "approval", "oc_op", "oc_req"}
    Seed       <- DeskSeed
    Spoken     <- ApiClients
    Staff      = {}
    Bindable   = {}
    Registered = {}
    MaxReports = 1
SPECIFICATION TargetsSpec
INVARIANT PublicToGroupOrOwn
