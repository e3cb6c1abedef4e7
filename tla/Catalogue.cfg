SPECIFICATION CatalogueSpec
VIEW MCView
CONSTANTS
    TupleIndexes = 8
    OffsetBase = 4
    Width = 3
    Height = 2
    MaxSupply = 7
    BeamPixels <- MCBeamPixels
    PaletteLimit = 15
    TupleLimit = 4
    SourceItems <- MCSourceItems
    Selections <- MCSelections
    BaseData <- MCBaseData
    RareQuota <- MCRareQuota
    BeamTotal = 2
    CoveredPatterns = {"solid", "socks"}
    MaxRebuilds = 2
    PageSize = 2
    Groups <- MCGroups
    None = None
    List = List
    Landings <- MCLandings
    TokenInputs = {0, 5, 99}
    MaxActive = 1
INVARIANTS
    ChainDrawsTheManifest
    ViewerShowsTheChain
    FiltersCountTheCollection
    ChipsCountWhatTheyOpen
    SitesAgree
    PagesPartitionTheView
    LinksReachThePages
    WalksStayInTheView
PROPERTY RegenerationIsStable
