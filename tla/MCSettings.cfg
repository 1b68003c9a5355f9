SPECIFICATION SettingsSpec
CONSTANTS
    Texts <- ShortTexts
    MaxLength = 5
    ARG_LIST_CHUNK_SIZE = 2
INVARIANTS
    ArgumentsFit
    ReadsAsDocumented
PROPERTY
    ParseEnds
