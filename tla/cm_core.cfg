SPECIFICATION Spec
CONSTANTS
    Names <- SmallNames
    Keys <- SmallKeys
    TokenName <- Token
    Sections <- SmallSections
    Default <- ClassName
    MaxItems = 5
    None = None
INVARIANTS
    TypeOK
    ScalarsAtTheirPath
    NothingElseInTable
    CollectionIsSection
