CONSTANTS
    Post = {p1}
    Lang = {EN, UA}
    NoPost = NoPost
    NoLang = NoLang
    NoControl = NoControl
    DefaultLanguage = EN
    MaxClicks = 0
    MaxRequests = 1
    Events = {"error"}
SPECIFICATION ControlSpec
INVARIANT FetchedShown
