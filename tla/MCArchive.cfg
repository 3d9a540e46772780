\* Two entries, so that the third file is the one too many.
CONSTANTS
    Byte <- MCByte
    Names <- MCNames
    Intact <- MCIntact
    Junk <- MCJunk
    Contents <- MCContents
    Slots = 2
    HeaderSize = 4
    MaxArgs = 2
    MaxCommands = 3
SPECIFICATION Spec
INVARIANTS TypeOK HeaderDescribes Unpacked
PROPERTIES KeepsWholeFiles OnlyNewFiles
