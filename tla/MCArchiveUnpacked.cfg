\* One file is added and unpacked.
CONSTANTS
    Byte <- MCByte
    Names <- MCNames
    Intact <- MCIntact
    Junk <- MCJunk
    Contents <- MCContents
    Slots = 2
    HeaderSize = 4
    MaxArgs = 2
    MaxCommands = 3
SPECIFICATION Spec
INVARIANT UnpackedExactly
