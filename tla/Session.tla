------------------------------- MODULE Session -------------------------------
(***************************************************************************)
(* What the web app promises a user, whatever overtakes what: a click that *)
(* the page cannot answer by itself wants one translation, of one post     *)
(* into one language, and has it shown at most once, on that post.  The    *)
(* language is the one that was picked or that the post has, or the        *)
(* preference as it was at one instant after the click.  Only a language   *)
(* in which the server has answered a translation is remembered.  An       *)
(* answer may come without a text: then the post has its language and      *)
(* nothing to show.  A reload forgets what is shown and what is wanted.    *)
(*                                                                         *)
(* Menus, requests, the order of answers, controls and their rendering are *)
(* left out.  PostMenu implements this, and so does TranslateControl, in   *)
(* which menu and controls want translations side by side.                 *)
(***************************************************************************)
CONSTANTS
    Post, Lang,
    NoLang,   \* no language: none remembered, or not decided yet
    NoText,   \* nothing to show
    NoEntry,  \* the post was not translated
    Click     \* clicks that want a translation

VARIABLES
    entries,  \* what is kept of each post: the translation, and whether it shows
    obtained, \* translations that were answered
    pref,     \* the language that is remembered
    default,  \* the language when none is
    used,     \* clicks that were made
    wanted    \* what the page still owes them

sessionVars == <<entries, obtained, pref, default, used, wanted>>

Translation(p, lang) == [post |-> p, lang |-> lang]

Wish(click, p, lang) == [click |-> click, post |-> p, lang |-> lang]

Preferred == IF pref \in Lang THEN pref ELSE default

Init ==
    /\ entries = [p \in Post |-> NoEntry]
    /\ obtained = {}
    /\ pref \in Lang \cup {NoLang}
    /\ default \in Lang
    /\ used = {}
    /\ wanted = {}

-----------------------------------------------------------------------------
\* Without a language, only a post that was never translated is asked for.
Want(click, p, lang) ==
    /\ click \notin used
    /\ lang = NoLang => entries[p] = NoEntry
    /\ used' = used \cup {click}
    /\ wanted' = wanted \cup {Wish(click, p, lang)}
    /\ UNCHANGED <<entries, obtained, pref, default>>

Decide(w) ==
    /\ w.lang = NoLang
    /\ wanted' = (wanted \ {w}) \cup {Wish(w.click, w.post, Preferred)}
    /\ UNCHANGED <<entries, obtained, pref, default, used>>

Arrive(w) ==
    /\ w.lang \in Lang
    /\ obtained' = obtained \cup {Translation(w.post, w.lang)}
    /\ UNCHANGED <<entries, pref, default, used, wanted>>

\* The post gets the language of the wish, with its translation or nothing.
Show(w, text) ==
    /\ w.lang \in Lang
    /\ obtained' = obtained \cup {Translation(w.post, w.lang)}
    /\ entries' = [entries EXCEPT ![w.post] =
          [showing |-> "translated", lang |-> w.lang, text |-> text]]
    /\ wanted' = wanted \ {w}
    /\ UNCHANGED <<pref, default, used>>

Drop(w) ==
    /\ wanted' = wanted \ {w}
    /\ UNCHANGED <<entries, obtained, pref, default, used>>

\* The page answers a click with what it keeps.
Turn(p, showing) ==
    /\ entries[p] # NoEntry
    /\ entries' = [entries EXCEPT ![p].showing = showing]
    /\ UNCHANGED <<obtained, pref, default, used, wanted>>

Forget ==
    /\ entries' = [p \in Post |-> NoEntry]
    /\ wanted' = {}
    /\ UNCHANGED <<obtained, pref, default, used>>

Remember(t) ==
    /\ pref' = t.lang
    /\ UNCHANGED <<entries, obtained, default, used, wanted>>

Configure(lang) ==
    /\ default' = lang
    /\ UNCHANGED <<entries, obtained, pref, used, wanted>>

Next ==
    \/ \E p \in Post :
          \/ \E click \in Click, lang \in Lang \cup {NoLang} : Want(click, p, lang)
          \/ \E showing \in {"original", "translated"} : Turn(p, showing)
    \/ \E w \in wanted : \/ Decide(w) \/ Arrive(w) \/ Drop(w)
                       \/ \E text \in {NoText, Translation(w.post, w.lang)} : Show(w, text)
    \/ \E t \in obtained : Remember(t)
    \/ \E lang \in Lang : Configure(lang)
    \/ Forget

Spec == Init /\ [][Next]_sessionVars
=============================================================================
