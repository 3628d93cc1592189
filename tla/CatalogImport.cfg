SPECIFICATION CatalogSpec
CONSTANTS
    door = door
    gate = gate
    steel = steel
    welding = welding
    painting = painting
    Nothing = Nothing
    Articles = {door, gate}
    Materials = {steel}
    Operations = {welding, painting}
    BomFile <- MCBomFile
    NormFile <- MCNormFile
    PriceFile <- MCPriceFile
    NameFile <- MCNameFile
    Sheet <- MCSheet
    FactoryCode = {}
    MaterialCode = {door}
    CreditFiles <- MCCreditFiles
    Entered = {2}
    MaxRuns = 3
    MaxActs = 2
CHECK_DEADLOCK FALSE
INVARIANTS CompositionAsInFile ListIsFile
PROPERTY MadeStaysShown
