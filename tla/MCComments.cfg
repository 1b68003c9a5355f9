SPECIFICATION SettingsSpec
CONSTANTS
    Texts <- OneComponent
    MaxLength = 5
    ARG_LIST_CHUNK_SIZE = 2
INVARIANT
    SkipsComments
