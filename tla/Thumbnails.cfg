CONSTANTS
    f = f
    File = {f}
    Kind <- MCKind
    Remote = {"sftp"}
    Supported <- MCSupported
    Sizes = {1, 2}
    Growing = {f}
    MaxRequests = 1
    MaxChanges = 2
    Handles = 1
    MaxZooms = 1
SPECIFICATION ThumbSpec
INVARIANTS ShownIsCurrent
PROPERTIES Settles
CHECK_DEADLOCK FALSE
