\* The initial index, parallel or not, and three notifications, or five where
\* the index of some texts fails.
SPECIFICATION MCSpec
CONSTANTS
    c = c
    d = d
    list = list
    form = form
    showsList = showsList
    showsForm = showsForm
    plain = plain
    garbled = garbled
    foreign = foreign
    None = None
    Empty = Empty
    Components = {c, d}
    Templates = {list, form}
    Texts = {Empty, showsList, showsForm, plain, garbled, foreign}
    Garbled = {garbled}
    Foreign = {foreign}
    Names <- MCNames
    Settings = {TRUE, FALSE}
    OpenVersion = 0
    MaxMessages = 5
    MaxInOtherScenes = 3
INVARIANTS
    TypeOK
    ServerHasChanges
    DiagnosticsCurrent
PROPERTIES
    TemplateFindsComponents
CHECK_DEADLOCK FALSE
