CONSTANTS
    Catalog <- MCCatalog
    FileOrder <- MCFileOrder
    BasePolicy <- MCBase
    Presets <- MCPresets
    Edits <- MCEdits
    OldFiles <- MCOldFiles
    Base = "BF16"
    Built <- MCBuilt
    Asked = {"qwen36-27b-unsloth"}
    MaxFaults = 1
    MaxRuns = 2
SPECIFICATION Spec
INVARIANTS
    PresenceAgrees
    ClientsAgree
    AcceptedFits
PROPERTY PiWindowFits
CHECK_DEADLOCK FALSE
