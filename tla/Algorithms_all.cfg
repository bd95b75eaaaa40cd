CONSTANTS
    None = None
    Selections <- MCSelections
    Listings <- MCListings
    Histories <- MCHistories
    Lookups <- MCLookups
    Catalogues <- MCCatalogues
    Starts <- MCStarts
    Renderings <- MCRenderings
    Setups <- MCSetups
    Checkups <- MCCheckups
    PathSetups <- MCPathSetups
    Described <- MCDescribed
    SchemaFiles <- MCSchemaFiles
    Templates <- MCTemplates
    Names <- MCNames
    Configurations <- MCConfigurations
    MacroSearches <- MCMacroSearches
    MacroTexts <- MCMacroTexts
    Materializations <- MCMaterializations
    Projects <- MCProjects
    SchemaTests <- MCSchemaTests
    ArgOrder <- MCArgOrder
    MaxName <- MCMaxName
SPECIFICATION Spec
INVARIANTS
    
    
    
    
    
    SnapshotsExact
    RelationExact
    CatalogExact
    RunPrepared
    SourcesExact
    BlocksExact
    ReadsRecorded
    
