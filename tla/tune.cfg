SPECIFICATION Spec
CONSTANTS
    Tuners = {gateway, cli}
    Deployers = {request}
    Commands = {cli}
    Fields <- Engine
    Scenarios <- TwoScenarios
    MtpPresets <- SmokeTested
    Yamls <- TwoYamls
    Default = "default"
    Off = "off"
    None = "none"
    MaxFaults = 1
    MaxEdits = 1
    MaxDeaths = 1
INVARIANTS
    FileIsContainer
PROPERTIES
    ReportTrue
