CONSTANTS
    Post = {p1, p2}
    Lang = {EN, UA}
    NoPost = NoPost
    NoLang = NoLang
    MaxClicks = 2
    Events = {"error", "cut", "reload", "render", "hover", "config"}
SPECIFICATION Spec
SYMMETRY MCSymmetry
INVARIANTS
    TypeOK
    EntryFaithful
PROPERTIES
    OnlyAnsweredRemembered
    TogglesCached
    OnlyHoverDiverts
    ClicksServed
