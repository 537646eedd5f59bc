--------------------------- MODULE TranslateControl ---------------------------
(***************************************************************************)
(* The inline control of a post (components/translate_control.tsx) on the  *)
(* same page as the post menu: both write the translation state, and the   *)
(* server serves the calls of both.  Mattermost, which would mount one     *)
(* control per visible post, and React are external; nothing registers the *)
(* control in this version, so it is modelled as its code would run.       *)
(*                                                                         *)
(* React renders a control, runs its effect, which subscribes it, some     *)
(* time later, and renders it again some time after its state changed or   *)
(* its subscription was called.  Handlers are closures over what the last  *)
(* render saw.                                                             *)
(***************************************************************************)
EXTENDS PostMenu

CONSTANTS
    DefaultLanguage, \* DEFAULT_LANGUAGE of languages.ts
    NoControl,       \* no control is mounted
    MaxRequests      \* bound on the calls of the menu and the controls together

ASSUME ControlAssumption ==
    /\ DefaultLanguage \in Lang
    /\ NoControl \notin [lang : Lang, busy : BOOLEAN]
    /\ MaxRequests \in Nat

VARIABLES
    control, \* the state of each mounted control: lang and busy
    face,    \* what its last render saw
    subs,    \* TranslationState.subs: the posts whose control is subscribed
    due,     \* posts whose control is to be rendered again
    tasks,   \* the calls of doTranslate that asked the server, in order
    fetched, \* history: the translations that were answered to a control
    missed   \* history: rendered when a set found them not yet subscribed

controlVars == <<control, face, subs, due, tasks, fetched, missed>>
allVars == <<vars, controlVars>>

\* The handlers of the server, for the calls of the controls.
Tasks == INSTANCE PostMenu WITH calls <- tasks, MaxClicks <- MaxRequests

-----------------------------------------------------------------------------
\* A call of doTranslate: whether it has read a text, besides what a call of the
\* menu has.  It is detached from its control by an unmount, and gone when its
\* page was reloaded.
Task == [post     : Post,
         lang     : Lang,
         asked    : {"translate", "setLang"},
         net      : {"sent", "ok", "unread", "error"},
         read     : BOOLEAN,
         at       : {"waiting", "done", "failed", "gone"},
         attached : BOOLEAN]

State == [lang : Lang, busy : BOOLEAN]
Face  == [showing : {"original", "translated"}, lang : Lang, busy : BOOLEAN]

ControlTypeOK ==
    /\ control \in [Post -> State \cup {NoControl}]
    /\ face \in [Post -> Face]
    /\ subs \subseteq Post /\ due \subseteq Post
    /\ tasks \in Seq(Task) /\ Len(tasks) <= MaxRequests
    /\ fetched \subseteq Text
    /\ missed \subseteq Post

Mounted == {p \in Post : control[p] # NoControl}

Blank == [showing |-> "original", lang |-> DefaultLanguage, busy |-> FALSE]

ControlInit ==
    /\ Init
    /\ control = [p \in Post |-> NoControl]
    /\ face = [p \in Post |-> Blank]
    /\ subs = {}
    /\ due = {}
    /\ tasks = <<>>
    /\ fetched = {}
    /\ missed = {}

-----------------------------------------------------------------------------
(* Rendering.                                                               *)

\* What a render sees.
Look(p) == [showing |-> entries[p].showing, lang |-> control[p].lang, busy |-> control[p].busy]

\* Mutant: no default.
EntryLang(p) == entries[p].lang

\* The language a control starts with: that of the entry, if there is one.
FirstLang(p) == IF entries[p] = NoEntry THEN DefaultLanguage ELSE entries[p].lang

\* The first render.
Mount(p) ==
    /\ p \notin Mounted
    /\ control' = [control EXCEPT ![p] = [lang |-> FirstLang(p), busy |-> FALSE]]
    /\ UNCHANGED vars
    /\ face' = [face EXCEPT ![p] = Look(p)']
    /\ UNCHANGED <<subs, due, tasks, fetched, missed>>

\* The effect of the first render.
Subscribe(p) ==
    /\ p \in Mounted \ subs
    /\ subs' = subs \cup {p}
    /\ UNCHANGED <<vars, control, face, due, tasks, fetched, missed>>

\* React runs a pending effect before it renders again.
Draw(p) ==
    /\ p \in due \cap subs
    /\ face' = [face EXCEPT ![p] = Look(p)]
    /\ due' = due \ {p}
    /\ missed' = missed \ {p}
    /\ UNCHANGED <<vars, control, subs, tasks, fetched>>

\* What is left of a control whose post scrolls out of sight: its calls.
Unmount(p) ==
    /\ p \in Mounted
    /\ control' = [control EXCEPT ![p] = NoControl]
    /\ face' = [face EXCEPT ![p] = Blank]
    /\ subs' = subs \ {p}
    /\ due' = due \ {p}
    /\ missed' = missed \ {p}
    /\ tasks' = [c \in DOMAIN tasks |->
                    [tasks[c] EXCEPT !.attached = @ /\ tasks[c].post # p]]
    /\ UNCHANGED <<vars, fetched>>

\* TranslationState.set calls every subscriber, whatever its post; `own` are
\* the controls whose state changes in the same stretch.
Notify(own) ==
    /\ due' = due \cup subs \cup own
    /\ missed' = missed \cup (Mounted \ (subs \cup own))

-----------------------------------------------------------------------------
(* doTranslate and the handlers.                                            *)

\* Mutant: a flip that calls no subscriber.
FlipUnnoticed(p) ==
    /\ p \in Mounted
    /\ face[p].showing = "translated" /\ ~face[p].busy
    /\ entries[p] # NoEntry
    /\ entries' = [entries EXCEPT ![p].showing =
                      IF @ = "translated" THEN "original" ELSE "translated"]
    /\ UNCHANGED <<shown, open, current, calls, prefVars, history, controlVars>>

\* The label was clicked where the last render saw a translation: the entry
\* is flipped, whatever it shows by now.
FlipBack(p) ==
    /\ p \in Mounted
    /\ face[p].showing = "translated" /\ ~face[p].busy
    /\ entries[p] # NoEntry
    /\ entries' = [entries EXCEPT ![p].showing =
                      IF @ = "translated" THEN "original" ELSE "translated"]
    /\ Notify({})
    /\ UNCHANGED <<shown, open, current, calls, prefVars, history>>
    /\ UNCHANGED <<control, face, subs, tasks, fetched>>

\* The cached translation is shown without an await; busy ends false also when
\* another call of the control is under way.
ShowCached(p, lang) ==
    /\ entries[p].text # NoText /\ entries[p].lang = lang
    /\ entries' = [entries EXCEPT ![p].showing = "translated"]
    /\ control' = [control EXCEPT ![p] = [lang |-> lang, busy |-> FALSE]]
    /\ Notify({p})
    /\ UNCHANGED <<shown, open, current, calls, prefVars, history>>
    /\ UNCHANGED <<face, subs, tasks, fetched>>

Room == Len(calls) + Len(tasks) < MaxRequests

\* Mutant: the language is persisted before it is translated.
PersistFirst(p, lang) ==
    /\ entries[p].text = NoText \/ entries[p].lang # lang
    /\ Room
    /\ tasks' = Append(tasks, [post |-> p, lang |-> lang, asked |-> "setLang",
                               net |-> "sent", read |-> FALSE, at |-> "waiting",
                               attached |-> TRUE])
    /\ control' = [control EXCEPT ![p].busy = TRUE]
    /\ due' = due \cup {p}
    /\ UNCHANGED <<vars, face, subs, fetched, missed>>

\* A translation that is not cached is asked for, and the label is disabled meanwhile.
Fetch(p, lang) ==
    /\ entries[p].text = NoText \/ entries[p].lang # lang
    /\ Room
    /\ tasks' = Append(tasks, [post |-> p, lang |-> lang, asked |-> "translate",
                               net |-> "sent", read |-> FALSE, at |-> "waiting",
                               attached |-> TRUE])
    /\ control' = [control EXCEPT ![p].busy = TRUE]
    /\ due' = due \cup {p}
    /\ UNCHANGED <<vars, face, subs, fetched, missed>>

DoTranslate(p, lang) == ShowCached(p, lang) \/ Fetch(p, lang)

\* The label was clicked where the last render saw the original.
TranslateClicked(p) ==
    /\ p \in Mounted
    /\ face[p].showing = "original" /\ ~face[p].busy
    /\ DoTranslate(p, face[p].lang)

\* The language menu is open to clicks while a call is under way.
PickLang(p, lang) ==
    /\ p \in Mounted
    /\ DoTranslate(p, lang)

\* Mutant: the translation is shown when it arrives and again when the
\* language is persisted.
ShowTwice(c) ==
    LET text == [post |-> tasks[c].post, lang |-> tasks[c].lang]
    IN  /\ Tasks!Answered(c, "translate")
        /\ tasks' = [tasks EXCEPT ![c] = Tasks!Ask(c, "setLang")]
        /\ fetched' = fetched \cup {text}
        /\ entries' = [entries EXCEPT ![text.post] = Tasks!Translated(c)]
        /\ Notify({})
        /\ UNCHANGED <<shown, open, current, calls, prefVars, history, control, face, subs>>

\* The translation was answered; the language is persisted first, with or
\* without a text.
GotFetched(c) ==
    /\ Tasks!Answered(c, "translate")
    /\ tasks' = [tasks EXCEPT ![c] = [Tasks!Ask(c, "setLang") EXCEPT !.read = tasks[c].net = "ok"]]
    /\ fetched' = fetched \cup {[post |-> tasks[c].post, lang |-> tasks[c].lang]}
    /\ UNCHANGED <<vars, control, face, subs, due, missed>>

\* The control that made the call, if it is still there.
Own(c) == {p \in Mounted : p = tasks[c].post /\ tasks[c].attached}

\* What is set when the preference is stored.
Fetched(c) ==
    [showing |-> "translated", lang |-> tasks[c].lang,
     text |-> IF tasks[c].read THEN [post |-> tasks[c].post, lang |-> tasks[c].lang] ELSE NoText]

\* Mutant: the entry names the language the control has by now.
ShowLate(c) ==
    LET p    == tasks[c].post
        lang == IF p \in Mounted THEN control[p].lang ELSE tasks[c].lang
    IN  /\ Tasks!Answered(c, "setLang")
        /\ entries' = [entries EXCEPT ![p] = [Fetched(c) EXCEPT !.lang = lang]]
        /\ seen' = seen \cup {[post |-> p, lang |-> tasks[c].lang]}
        /\ unread' = IF tasks[c].read THEN unread \ {p} ELSE unread \cup {p}
        /\ control' = [q \in Post |-> IF q \in Own(c) THEN [lang |-> lang, busy |-> FALSE]
                                                     ELSE control[q]]
        /\ tasks' = [tasks EXCEPT ![c].at = "done"]
        /\ Notify(Own(c))
        /\ UNCHANGED <<shown, open, current, calls, prefVars, face, subs, fetched>>

\* The preference is stored: set the entry and the state of the control.
ShowFetched(c) ==
    LET p    == tasks[c].post
        lang == tasks[c].lang
    IN  /\ Tasks!Answered(c, "setLang")
        /\ entries' = [entries EXCEPT ![p] = Fetched(c)]
        /\ seen' = seen \cup {[post |-> p, lang |-> lang]}
        /\ unread' = IF tasks[c].read THEN unread \ {p} ELSE unread \cup {p}
        /\ control' = [q \in Post |-> IF q \in Own(c) THEN [lang |-> lang, busy |-> FALSE]
                                                     ELSE control[q]]
        /\ tasks' = [tasks EXCEPT ![c].at = "done"]
        /\ Notify(Own(c))
        /\ UNCHANGED <<shown, open, current, calls, prefVars, face, subs, fetched>>

\* Mutant: without the finally clause.
FailBusy(c) ==
    /\ tasks[c].at = "waiting"
    /\ tasks[c].net = "error"
    /\ tasks' = [tasks EXCEPT ![c].at = "failed"]
    /\ UNCHANGED <<vars, control, face, subs, due, fetched, missed>>

\* Mutant: the request that failed is made again, without a bound.
TryAgain(c) ==
    /\ tasks[c].at = "waiting"
    /\ tasks[c].net = "error"
    /\ tasks' = [tasks EXCEPT ![c].net = "sent"]
    /\ UNCHANGED <<vars, control, face, subs, due, fetched, missed>>

\* Either request failed: only the finally clause runs.
Fail(c) ==
    /\ tasks[c].at = "waiting"
    /\ tasks[c].net = "error"
    /\ tasks' = [tasks EXCEPT ![c].at = "failed"]
    /\ control' = [q \in Post |-> IF q \in Own(c) THEN [control[q] EXCEPT !.busy = FALSE]
                                                 ELSE control[q]]
    /\ due' = due \cup Own(c)
    /\ UNCHANGED <<vars, face, subs, fetched, missed>>

-----------------------------------------------------------------------------
(* The page.                                                                *)

\* The menu sets an entry, and the subscribers hear of it.
MenuSets ==
    /\ Flip \/ \E c \in DOMAIN calls : GotText(c)
    /\ Notify({})
    /\ UNCHANGED <<control, face, subs, tasks, fetched>>

MenuSetsNothing ==
    /\ \/ \E p \in Post : Render(p) \/ OpenMenu(p) \/ Hover(p)
       \/ Room /\ (Toggle \/ \E lang \in Lang : Pick(lang))
       \/ \E lang \in Lang : ConfigurationChange(lang)
       \/ \E c \in DOMAIN calls : GotLang(c) \/ GotSaved(c) \/ GotError(c) \/ Serve(c)
    /\ UNCHANGED controlVars

ReloadPage ==
    /\ Reload
    /\ control' = [p \in Post |-> NoControl]
    /\ face' = [p \in Post |-> Blank]
    /\ subs' = {} /\ due' = {} /\ missed' = {}
    /\ tasks' = [c \in DOMAIN tasks |-> [tasks[c] EXCEPT !.at = "gone"]]
    /\ UNCHANGED fetched

ControlStep(c) == GotFetched(c) \/ ShowFetched(c) \/ Fail(c)

ServeControl(c) ==
    /\ Tasks!HandleTranslate(c) \/ Tasks!HandleSetLang(c) \/ Tasks!Refuse(c)
    /\ UNCHANGED <<calls, control, face, subs, due, fetched, missed>>

ControlNext ==
    \/ \E p \in Post : \/ Mount(p) \/ Subscribe(p) \/ Draw(p) \/ Unmount(p)
                       \/ FlipBack(p) \/ TranslateClicked(p)
                       \/ \E lang \in Lang : PickLang(p, lang)
    \/ \E c \in DOMAIN tasks : ControlStep(c) \/ ServeControl(c)
    \/ MenuSets \/ MenuSetsNothing \/ ReloadPage

ControlSpec == ControlInit /\ [][ControlNext]_allVars

\* As for the menu; React renders when it sees fit.
ControlFairness ==
    /\ Fairness
    /\ \A c \in 1..MaxRequests :
          /\ WF_allVars(c \in DOMAIN tasks /\ ControlStep(c))
          /\ WF_allVars(c \in DOMAIN tasks /\ ServeControl(c))

FairControlSpec == ControlSpec /\ ControlFairness

-----------------------------------------------------------------------------
(* Properties.                                                              *)

\* Whatever the controls, the menu and the server interleave, the preference
\* changes only to a language that a post's translation was answered in: a
\* control persists after that answer (translate_control.tsx:29-30), the menu
\* after it has set the entry (post_menu.ts:41-43), and a translation that was
\* refused or failed is not remembered.
OnlyTranslatedRemembered ==
    [][pref' # pref =>
          \/ \E c \in DOMAIN calls :
                pref' = calls[c].lang /\ [post |-> calls[c].post, lang |-> pref'] \in seen
          \/ \E c \in DOMAIN tasks :
                pref' = tasks[c].lang /\ [post |-> tasks[c].post, lang |-> pref'] \in fetched]_allVars

\* A control is busy only while a call of its own is under way, so that its
\* label is not dead for good: not after an error, not after its post was
\* scrolled away and back, not after another call ended (tsx:24-36).
BusyHasCall ==
    \A p \in Mounted : control[p].busy =>
        \E c \in DOMAIN tasks :
            tasks[c].post = p /\ tasks[c].attached /\ tasks[c].at = "waiting"

\* The label can be clicked again in the end, if the server answers.
BusyEnds ==
    \A p \in Post : (p \in Mounted /\ control[p].busy) ~> ~(p \in Mounted /\ control[p].busy)

\* What a control shows, and what its handlers act on, is the state of the
\* page, or it is about to be rendered again; unless the state was set between
\* its first render and its effect (tsx:13-14), when it may stay stale.
FaceCurrent ==
    \A p \in Mounted \ (due \cup missed) : face[p] = Look(p)

\* The menu's promise that toggling again calls nobody (design spec, section 6)
\* on a page with controls: it also holds after a translation of a control, and
\* whatever the controls do to entries meanwhile (post_menu.ts:15-20,
\* translation_state.ts:14-26), unless the last answer that was set on the post
\* had no text.
PageTogglesCached ==
    [][Toggle /\ open \notin unread =>
          /\ ~ \E c \in DOMAIN calls :
                  /\ calls[c].post = open
                  /\ calls[c].at = "done" \/ (calls[c].at = "waiting" /\ calls[c].asked = "setLang")
          /\ ~ \E c \in DOMAIN tasks : tasks[c].post = open /\ tasks[c].at = "done"]_allVars

-----------------------------------------------------------------------------
(* What menu and controls amount to together.  A control's call wants its    *)
(* translation until it is over.                                             *)

ControlClicks == {<<"control", c>> : c \in DOMAIN tasks}

ControlWish(c) == [click |-> <<"control", c>>, post |-> tasks[c].post, lang |-> tasks[c].lang]

ControlWishes == {ControlWish(c) : c \in {d \in DOMAIN tasks : tasks[d].at = "waiting"}}

Page == INSTANCE Session WITH
            obtained <- seen \cup fetched,
            used <- Clicks \cup ControlClicks, wanted <- Wishes \cup ControlWishes,
            Click <- {"menu", "control"} \X (1..(MaxClicks + MaxRequests))

\* The page with its controls promises what the menu does: each click has at
\* most one translation shown, on its post and in its language, and only a
\* language that a translation was answered in is remembered
\* (translate_control.tsx:22-46, post_menu.ts:14-44).
PageServed == Page!Spec

-----------------------------------------------------------------------------
(* What the documentation says and the code does not do.                    *)

\* "Returns {translatedText}; webapp replaces displayed text and caches it"
\* (design spec, section 7): a translation that a control was answered is shown
\* when the call is over.
FetchedShown ==
    \A c \in DOMAIN tasks :
        tasks[c].at \in {"done", "failed"} /\ tasks[c].asked = "setLang" =>
            [post |-> tasks[c].post, lang |-> tasks[c].lang] \in seen
=============================================================================
