CONSTANTS
    Post = {p1}
    Lang = {EN, UA}
    NoPost = NoPost
    NoLang = NoLang
    NoControl = NoControl
    DefaultLanguage = EN
    MaxClicks = 1
    MaxRequests = 2
    Events = {"error", "cut", "reload"}
SPECIFICATION MCSpec
INVARIANTS
    ControlTypeOK
    EntryFaithful
    BusyHasCall
    FaceCurrent
PROPERTIES
    OnlyTranslatedRemembered
    PageTogglesCached
    PageServed
    BusyEnds
    CallsEnd
