\* Visual Studio Code gives an opened document version 1.
SPECIFICATION MCSpec
CONSTANTS
    c = c
    d = d
    list = list
    form = form
    showsList = showsList
    showsForm = showsForm
    plain = plain
    garbled = garbled
    foreign = foreign
    None = None
    Empty = Empty
    Components = {c, d}
    Templates = {list, form}
    Texts = {Empty, showsList, showsForm, plain, garbled, foreign}
    Garbled = {garbled}
    Foreign = {foreign}
    Names <- MCNames
    Settings = {FALSE}
    OpenVersion = 1
    MaxMessages = 1
    MaxInOtherScenes = 1
PROPERTY
    OpenKeepsContent
CHECK_DEADLOCK FALSE
