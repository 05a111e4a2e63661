CONSTANTS
    home = home
    docs = docs
    drafts = drafts
    note = note
    paper = paper
    sketch = sketch
    data = data
    nil = nil
    Files <- MCFiles
    Folders <- MCFolders
    SortLast = {data}
    Name <- MCName
    Type <- MCSame
    Time <- MCSame
    Dummy <- nil
    Root <- home
    Home <- MCHome
    Coming = {note, drafts, sketch}
    Growing = {paper}
    Sizes = {0, 1}
    Orders <- MCOrders
    MaxTimers = 1
    MaxAfter = 0
SPECIFICATION Spec
INVARIANTS WidgetTrue ListsTrue RowsSorted
PROPERTIES KeptOpen
CHECK_DEADLOCK FALSE
