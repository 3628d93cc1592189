CONSTANTS
    doc = doc
    later = later
    steel = steel
    paint = paint
    Nothing = Nothing
    Docs = {doc, later}
    Materials = {steel, paint}
    Exports <- MCExports
    RefPrice <- MCRefPrice
    Recognised <- MCRecognised
    Threshold = 5
    Today = 9
    Amounts = {700}
    Quantities = {0, 800}
    MaxRuns = 3
    MaxActs = 1
SPECIFICATION Spec
CHECK_DEADLOCK FALSE
INVARIANTS SnapshotIsFile DocumentsAsInFile OneMistakeOnly PriceCoversQuantity
PROPERTY OthersBatchesStay
