SPECIFICATION Spec
CONSTANTS
    Names <- MCNames
    NameLen <- MCNameLen
    EntrySize <- MCEntrySize
    AttrValues <- MCAttrValues
    Inodes = {11, 12}
    DataEnd = 52
    BlockSize = 28
    HeaderSize = 4
INVARIANT LayoutSound
PROPERTY IsDictionary
