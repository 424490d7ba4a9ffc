SPECIFICATION FairSpec
CONSTANTS
    note = note
    request = request
    channel = channel
    site = site
    docs = docs
    Handlers = {note}
    Requests = {request}
    Channel = channel
    Jobs <- MCJobs
    Folders = {site, docs}
    Opened = {site}
    MaxBusy = 2
    MaxServers = 2
    Ports = {8080, 8081}
    AutoStart = TRUE
    MaxSettings = 2
    Visible = {1}
    None = None
INVARIANTS
    TypeOK
    BarIsRecorded
    StatusTells
    RunningIsKnown
    SettingIsUsed
PROPERTIES
    HandlersEnd
CHECK_DEADLOCK FALSE
