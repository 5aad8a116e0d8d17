CONSTANTS
    Catalog <- DefaultCatalog
    FileOrder <- MCFileOrder
    BasePolicy <- MCBase
    Presets <- MCPresets
    Edits <- MCEdits
    OldFiles <- NoOldFiles
    Asked = {}
    Base = "BF16"
    Built <- MCBuilt
    MaxFaults = 1
    MaxRuns = 2
SPECIFICATION Spec
INVARIANT AdvertisedCanLoad
CHECK_DEADLOCK FALSE
