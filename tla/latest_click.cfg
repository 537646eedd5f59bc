CONSTANTS
    Post = {p1}
    Lang = {EN, UA}
    NoPost = NoPost
    NoLang = NoLang
    MaxClicks = 2
    Events = {}
SPECIFICATION Spec
INVARIANT LatestClickShown
