CONSTANTS
    Post = {p1}
    Lang = {EN, UA}
    NoPost = NoPost
    NoLang = NoLang
    MaxClicks = 1
    Events = {"render"}
SPECIFICATION FairSpec
PROPERTY TranslationAppears
