------------------------------- MODULE PostMenu -------------------------------
(***************************************************************************)
(* The web app of one user: the post dropdown menu (post_menu.ts), the     *)
(* translations it keeps until the page is reloaded                        *)
(* (translation_state.ts), the calls it makes (client.ts) and the server's *)
(* handlers for them (api.go, prefs.go, configuration.go).                 *)
(*                                                                         *)
(* JavaScript runs from one await to the next without interruption, so an  *)
(* action of the menu is one such stretch.  Any number of clicks may be    *)
(* waiting for the server at once, and requests and answers overtake each  *)
(* other.  Mattermost itself, which calls the filter, the actions and the  *)
(* format hook, is external.                                               *)
(***************************************************************************)
EXTENDS Naturals, Sequences

CONSTANTS
    Post,      \* posts
    Lang,      \* supported languages
    NoPost,    \* no post
    NoLang,    \* no preference, or one that is no longer supported
    MaxClicks, \* bound on the clicks that make a call
    Events     \* what the environment may do, of AllEvents

\* Requests fail; an answer is cut off before its body has arrived; the page is
\* reloaded; Mattermost renders a post again, or evaluates a filter besides; an
\* admin changes the default language.
AllEvents == {"error", "cut", "reload", "render", "hover", "config"}

ASSUME MenuAssumption ==
    /\ NoPost \notin Post /\ NoLang \notin Lang
    /\ MaxClicks \in Nat
    /\ Events \subseteq AllEvents

VARIABLES
    entries,  \* TranslationState.entries
    shown,    \* the text Mattermost last rendered for each post
    open,     \* the post whose menu the user has open
    current,  \* currentPostId, set by the filter of the sub-menu
    calls,    \* the clicks that made calls, in the order of the clicks
    pref,     \* the stored preference of the user
    default,  \* configuration.defaultLanguage
    seen,     \* history: the translations that were answered and set
    unread    \* history: posts whose last such answer came without a text

history == <<seen, unread>>
vars == <<entries, shown, open, current, calls, pref, default, history>>
pageVars == <<entries, shown, open, current>>
prefVars == <<pref, default>>

-----------------------------------------------------------------------------
\* What a translation shows: the post and the language it is in.
Text    == [post : Post, lang : Lang]
NoText  == [post |-> NoPost, lang |-> NoLang]   \* the message as it was written

\* An entry may lack a text (translation_state.ts:4).
Entry   == [showing : {"original", "translated"}, lang : Lang, text : Text \cup {NoText}]
NoEntry == [showing |-> "original", lang |-> NoLang, text |-> NoText]

\* A call of toggleTranslate or translatePostTo: the post whose menu was
\* clicked, the post and language it works on, the request it awaits and what
\* became of the request: an answer may be a success and unread.  A call is gone
\* when its page was reloaded.
Call == [kind    : {"toggle", "pick"},
         clicked : Post,
         post    : Post,
         lang    : Lang \cup {NoLang},
         asked   : {"getLang", "translate", "setLang"},
         net     : {"sent", "ok", "unread", "error"},
         at      : {"waiting", "done", "failed", "gone"}]

TypeOK ==
    /\ entries \in [Post -> Entry \cup {NoEntry}]
    /\ shown \in [Post -> Text \cup {NoText}]
    /\ open \in Post \cup {NoPost}
    /\ current \in Post \cup {NoPost}
    /\ calls \in Seq(Call) /\ Len(calls) <= MaxClicks
    /\ pref \in Lang \cup {NoLang}
    /\ default \in Lang
    /\ seen \subseteq Text
    /\ unread \subseteq Post

Init ==
    /\ entries = [p \in Post |-> NoEntry]
    /\ shown = [p \in Post |-> NoText]
    /\ open = NoPost
    /\ current = NoPost
    /\ calls = <<>>
    /\ pref \in Lang \cup {NoLang}
    /\ default \in Lang
    /\ seen = {}
    /\ unread = {}

-----------------------------------------------------------------------------
(* The menu.                                                                *)

\* displayText, called by the format hook; without a text, the original.
DisplayText(p) == IF entries[p].showing = "translated" THEN entries[p].text ELSE NoText

\* Mattermost renders a post when it sees fit: nothing that the plugin
\* registers subscribes to the translation state.
Render(p) ==
    /\ "render" \in Events
    /\ shown[p] # DisplayText(p)
    /\ shown' = [shown EXCEPT ![p] = DisplayText(p)]
    /\ UNCHANGED <<entries, open, current, calls, prefVars, history>>

\* Mutant: the post is captured the first time only.
OpenMenuOnce(p) ==
    /\ open # p
    /\ open' = p
    /\ current' = IF current = NoPost THEN p ELSE current
    /\ UNCHANGED <<entries, shown, calls, prefVars, history>>

\* The user opens the menu of a post; the filter captures the post.
OpenMenu(p) ==
    /\ open # p
    /\ open' = p
    /\ current' = p
    /\ UNCHANGED <<entries, shown, calls, prefVars, history>>

\* Mattermost evaluates the filter for a post whose menu it renders besides.
Hover(p) ==
    /\ "hover" \in Events
    /\ open # NoPost
    /\ current # p
    /\ current' = p
    /\ UNCHANGED <<entries, shown, open, calls, prefVars, history>>

\* A click closes the menu.
NewCall(kind, post, lang, asked) ==
    /\ Len(calls) < MaxClicks
    /\ calls' = Append(calls,
          [kind |-> kind, clicked |-> open, post |-> post, lang |-> lang,
           asked |-> asked, net |-> "sent", at |-> "waiting"])
    /\ open' = NoPost
    /\ UNCHANGED <<entries, shown, current, prefVars, history>>

\* toggleTranslate flips an entry that shows its translation, whether it has a
\* text or not, and shows a cached text again.  No call is made.
Flip ==
    /\ open # NoPost
    /\ entries[open].showing = "translated" \/ entries[open].text # NoText
    /\ entries' = [entries EXCEPT ![open].showing =
                      IF @ = "translated" THEN "original" ELSE "translated"]
    /\ open' = NoPost
    /\ UNCHANGED <<shown, current, calls, prefVars, history>>

\* Mutant: the cached translation is not looked at.
ToggleAnew ==
    /\ open # NoPost
    /\ entries[open].showing = "original"
    /\ NewCall("toggle", open, NoLang, "getLang")

\* toggleTranslate on any other post asks for the translation, in the language
\* of its entry; without an entry it asks for the preferred language first.
Toggle ==
    /\ open # NoPost
    /\ entries[open].showing = "original" /\ entries[open].text = NoText
    /\ NewCall("toggle", open, entries[open].lang,
               IF entries[open] = NoEntry THEN "getLang" ELSE "translate")

\* Mutant: the choice is persisted before it is translated.
PickThenShow(lang) ==
    /\ open # NoPost
    /\ NewCall("pick", current, lang, "setLang")

\* translatePostTo works on the captured post.
Pick(lang) ==
    /\ open # NoPost
    /\ NewCall("pick", current, lang, "translate")

Waiting(c, request) ==
    /\ calls[c].at = "waiting"
    /\ calls[c].asked = request

Ask(c, request) == [calls[c] EXCEPT !.asked = request, !.net = "sent"]

\* Mutant: a request that failed is sent again, without a bound.
RetryRequest(c) ==
    /\ calls[c].at = "waiting"
    /\ calls[c].net = "error"
    /\ calls' = [calls EXCEPT ![c].net = "sent"]
    /\ UNCHANGED <<pageVars, prefVars, history>>

\* Mutant: a pick whose language could not be stored starts over.
StartOver(c) ==
    /\ calls[c].at = "waiting"
    /\ calls[c].net = "error"
    /\ calls' = [calls EXCEPT ![c] = IF calls[c].asked = "setLang" THEN Ask(c, "translate")
                                     ELSE [calls[c] EXCEPT !.at = "failed"]]
    /\ UNCHANGED <<pageVars, prefVars, history>>

\* The answer to a request is an error: the menu's handler logs it.
GotError(c) ==
    /\ calls[c].at = "waiting"
    /\ calls[c].net = "error"
    /\ calls' = [calls EXCEPT ![c].at = "failed"]
    /\ UNCHANGED <<pageVars, prefVars, history>>

\* parse takes every 2xx answer for a success, whether its body can be read or
\* not (client.ts:4-10).
Answered(c, request) ==
    /\ Waiting(c, request)
    /\ calls[c].net \in {"ok", "unread"}

\* The entry of the post was read before the await and is not read again; an
\* unread answer leaves the language undefined.
GotLang(c) ==
    /\ Answered(c, "getLang")
    /\ calls' = [calls EXCEPT ![c] = Ask(c, "translate")]
    /\ UNCHANGED <<pageVars, prefVars, history>>

\* What an answered call sets: an unread answer has no text.
Translated(c) ==
    [showing |-> "translated", lang |-> calls[c].lang,
     text |-> IF calls[c].net = "ok" THEN [post |-> calls[c].post, lang |-> calls[c].lang]
                                     ELSE NoText]

\* Mutant: the captured post is read after the await.
GotTextLate(c) ==
    /\ Answered(c, "translate")
    /\ entries' = [entries EXCEPT ![current] = Translated(c)]
    /\ seen' = seen \cup {[post |-> calls[c].post, lang |-> calls[c].lang]}
    /\ unread' = unread
    /\ calls' = [calls EXCEPT ![c] = IF calls[c].kind = "pick" THEN Ask(c, "setLang")
                                     ELSE [calls[c] EXCEPT !.at = "done"]]
    /\ UNCHANGED <<shown, open, current, prefVars>>

\* Set the entry, and persist a picked language, with or without a text.
GotText(c) ==
    /\ Answered(c, "translate")
    /\ entries' = [entries EXCEPT ![calls[c].post] = Translated(c)]
    /\ seen' = seen \cup {[post |-> calls[c].post, lang |-> calls[c].lang]}
    /\ unread' = IF calls[c].net = "ok" THEN unread \ {calls[c].post}
                                        ELSE unread \cup {calls[c].post}
    /\ calls' = [calls EXCEPT ![c] = IF calls[c].kind = "pick" THEN Ask(c, "setLang")
                                     ELSE [calls[c] EXCEPT !.at = "done"]]
    /\ UNCHANGED <<shown, open, current, prefVars>>

GotSaved(c) ==
    /\ Answered(c, "setLang")
    /\ calls' = [calls EXCEPT ![c].at = "done"]
    /\ UNCHANGED <<pageVars, prefVars, history>>

\* The page is reloaded and forgets what it kept; requests that were sent may
\* still reach the server.
Reload ==
    /\ "reload" \in Events
    /\ entries' = [p \in Post |-> NoEntry]
    /\ shown' = [p \in Post |-> NoText]
    /\ open' = NoPost
    /\ current' = NoPost
    /\ calls' = [c \in DOMAIN calls |-> [calls[c] EXCEPT !.at = "gone"]]
    /\ unread' = {}
    /\ UNCHANGED <<prefVars, seen>>

-----------------------------------------------------------------------------
(* The server.                                                              *)

Sent(c, request) ==
    /\ calls[c].asked = request
    /\ calls[c].net = "sent"

\* An answer that is a success reaches the page whole or, if the connection is
\* cut, without its body.
Success == IF "cut" \in Events THEN {"ok", "unread"} ELSE {"ok"}

\* langPrefStore.Get: without a supported preference, the configured default.
Preference == IF pref \in Lang THEN pref ELSE default

HandleGetLang(c) ==
    /\ Sent(c, "getLang")
    /\ \E net \in Success :
          calls' = [calls EXCEPT ![c] =
                       [@ EXCEPT !.lang = IF net = "ok" THEN Preference ELSE NoLang, !.net = net]]
    /\ UNCHANGED <<pageVars, prefVars, history>>

\* Mutant: the language of the request is not looked at.
TranslateUnchecked(c) ==
    /\ Sent(c, "translate")
    /\ \E net \in Success : calls' = [calls EXCEPT ![c].net = net]
    /\ UNCHANGED <<pageVars, prefVars, history>>

\* handleTranslate: the text of the post in the language of the request; without
\* a language the request is refused (api.go:59).
HandleTranslate(c) ==
    /\ Sent(c, "translate")
    /\ \E net \in IF calls[c].lang \in Lang THEN Success ELSE {"error"} :
          calls' = [calls EXCEPT ![c].net = net]
    /\ UNCHANGED <<pageVars, prefVars, history>>

\* The body of this answer is not looked at.
HandleSetLang(c) ==
    /\ Sent(c, "setLang")
    /\ pref' = calls[c].lang
    /\ calls' = [calls EXCEPT ![c].net = "ok"]
    /\ UNCHANGED <<pageVars, default, history>>

\* A request is lost or the server answers with an error: no access to the
\* post, nothing to translate, no credential, the KV store or Codex fails.
Refuse(c) ==
    /\ "error" \in Events
    /\ calls[c].net = "sent"
    /\ calls' = [calls EXCEPT ![c].net = "error"]
    /\ UNCHANGED <<pageVars, prefVars, history>>

\* OnConfigurationChange: an admin sets another default language.
ConfigurationChange(lang) ==
    /\ "config" \in Events
    /\ default' = lang
    /\ lang # default
    /\ UNCHANGED <<pageVars, calls, pref, history>>

-----------------------------------------------------------------------------
MenuStep(c) == GotLang(c) \/ GotText(c) \/ GotSaved(c) \/ GotError(c)

Serve(c) == HandleGetLang(c) \/ HandleTranslate(c) \/ HandleSetLang(c) \/ Refuse(c)

Next ==
    \/ \E p \in Post : Render(p) \/ OpenMenu(p) \/ Hover(p)
    \/ Flip \/ Toggle \/ Reload
    \/ \E lang \in Lang : Pick(lang) \/ ConfigurationChange(lang)
    \/ \E c \in DOMAIN calls : MenuStep(c) \/ Serve(c)

Spec == Init /\ [][Next]_vars

\* The server answers and the page's continuations run.  Users and Mattermost
\* need not do anything.
Fairness ==
    \A c \in 1..MaxClicks :
        /\ WF_vars(c \in DOMAIN calls /\ MenuStep(c))
        /\ WF_vars(c \in DOMAIN calls /\ Serve(c))

FairSpec == Spec /\ Fairness

-----------------------------------------------------------------------------
(* Properties.                                                              *)

\* Whatever overtakes what, a text that the entry of a post holds is a
\* translation of that post, in the language the entry names, and a post is
\* rendered with its own text: no answer lands on another post
\* (post_menu.ts:33, 42).
EntryFaithful ==
    \A p \in Post :
        /\ entries[p].text # NoText => entries[p].text = [post |-> p, lang |-> entries[p].lang]
        /\ shown[p] # NoText => shown[p].post = p

\* The preference changes only to a language that was picked for a post, after
\* the server has answered the translation of that post into it: one that was
\* refused or failed is not remembered (post_menu.ts:41-43), and neither is what
\* a toggle used.  Whether the answer held a text is not looked at
\* (client.ts:5).
OnlyAnsweredRemembered ==
    [][pref' # pref =>
          \E c \in DOMAIN calls :
              /\ calls[c].kind = "pick"
              /\ pref' = calls[c].lang
              /\ [post |-> calls[c].post, lang |-> calls[c].lang] \in seen]_vars

\* "one entry per supported language that translates the clicked post"
\* (post_menu.ts:51): the post that a language is picked for is the one whose
\* menu is open, as long as Mattermost evaluates the filter for no other.
ClickedPostTranslated ==
    \A c \in DOMAIN calls : calls[c].post = calls[c].clicked

\* A pick would work on another post than the one whose menu is open.
Diverted == open # NoPost /\ current # open

\* Only Mattermost brings that about, by evaluating the filter for another
\* post: opening menus, clicks, answers and reloads do not (post_menu.ts:84-104).
OnlyHoverDiverts ==
    [][~Diverted /\ Diverted' => \E p \in Post : Hover(p)]_vars

\* "Re-toggling is instant and doesn't re-call the API" (design spec, section
\* 6): once a translation of a post has arrived, toggling the post calls nobody
\* until the page is reloaded, unless the last answer for the post had no text.
TogglesCached ==
    [][Toggle /\ open \notin unread => ~ \E c \in DOMAIN calls :
          /\ calls[c].post = open
          /\ calls[c].at = "done" \/ (calls[c].at = "waiting" /\ calls[c].asked = "setLang")]_vars

Ended(c) == calls[c].at \in {"done", "failed", "gone"}

\* Every click's call ends: it succeeds, is logged, or its page is gone.
CallsEnd ==
    \A c \in 1..MaxClicks :
        c \in DOMAIN calls ~> (c \in DOMAIN calls /\ Ended(c))

-----------------------------------------------------------------------------
(* What all of it amounts to.  A call wants its translation until it shows it. *)

Clicks == {<<"menu", c>> : c \in DOMAIN calls}

Wish(c) == [click |-> <<"menu", c>>, post |-> calls[c].post, lang |-> calls[c].lang]

Wishes == {Wish(c) : c \in {d \in DOMAIN calls :
                               calls[d].at = "waiting" /\ calls[d].asked # "setLang"}}

Menu == INSTANCE Session WITH
            obtained <- seen, used <- Clicks, wanted <- Wishes,
            Click <- {"menu"} \X (1..MaxClicks)

\* Each click has at most one translation shown, on its post and in the language
\* picked or preferred at one instant; a click that failed or whose page was
\* reloaded has none; and only a language that a translation was answered in is
\* remembered (post_menu.ts:14-44).
ClicksServed == Menu!Spec

-----------------------------------------------------------------------------
(* What the documentation says and the code does not do.                    *)

Settled == \A c \in DOMAIN calls : calls[c].at = "done"

Latest(c, S) == c \in S /\ \A d \in S : d <= c

\* "Select any language to re-translate the post into that language"
\* (README.md:55-56): when all answers are in, a post is in the language of the
\* latest click that translated it.
LatestClickShown ==
    Settled => \A c \in DOMAIN calls :
        Latest(c, {d \in DOMAIN calls : calls[d].post = calls[c].post})
            => entries[calls[c].post].lang = calls[c].lang

\* "Swap displayed post text with the cached translation when active"
\* (index.tsx:19).
TranslationAppears ==
    \A p \in Post :
        entries[p].showing = "translated" ~>
            (entries[p].showing = "original" \/ shown[p] = entries[p].text)
=============================================================================
