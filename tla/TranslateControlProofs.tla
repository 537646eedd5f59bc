------------------------ MODULE TranslateControlProofs ------------------------
(***************************************************************************)
(* Proofs about the page with the controls, for any posts and languages,   *)
(* any number of calls in flight and any events.                           *)
(*                                                                         *)
(* The argument: the controls leave the menu's invariant alone, because    *)
(* they set entries the way the menu does (EntriesSet); a call persists    *)
(* its language only when its translation was answered (TaskInv); and every*)
(* stretch that changes what a control shows marks the control, unless it  *)
(* is rendered but not yet subscribed (FaceCurrent, by Notify).            *)
(***************************************************************************)
EXTENDS TranslateControl, PostMenuProofs

TaskInv ==
    \A c \in DOMAIN tasks :
        tasks[c].asked = "setLang" => [post |-> tasks[c].post, lang |-> tasks[c].lang] \in fetched

\* Only a mounted control is subscribed.
SubsMounted == subs \subseteq Mounted

PageInv == IInv /\ ControlTypeOK /\ SubsMounted /\ TaskInv /\ BusyHasCall /\ FaceCurrent

-----------------------------------------------------------------------------
(* Sequences of tasks.                                                      *)

LEMMA TaskTypes ==
    ASSUME ControlTypeOK
    PROVE  /\ \A c \in DOMAIN tasks : tasks[c] \in Task
           /\ DOMAIN tasks = 1..Len(tasks)
           /\ Len(tasks) \in Nat
BY LenProperties, ElementOfSeq DEF ControlTypeOK

LEMMA AddedTask ==
    ASSUME TypeOK, ControlTypeOK, NEW k \in Task, tasks' = Append(tasks, k), Room
    PROVE  /\ tasks' \in Seq(Task) /\ Len(tasks') <= MaxRequests
           /\ \A d \in DOMAIN tasks : d \in DOMAIN tasks' /\ tasks'[d] = tasks[d]
           /\ \A d \in DOMAIN tasks' : d \in DOMAIN tasks \/ tasks'[d] = k
           /\ \E d \in DOMAIN tasks' : tasks'[d] = k
<1>1. tasks \in Seq(Task) /\ Len(tasks) \in Nat /\ MaxRequests \in Nat /\ Len(tasks) < MaxRequests
  BY TaskTypes, CallTypes, ControlAssumption DEF ControlTypeOK, Room
<1>2. tasks' \in Seq(Task) /\ Len(tasks') = Len(tasks) + 1
  BY <1>1
<1>3. DOMAIN tasks' = 1..Len(tasks')
  BY <1>2, LenProperties
<1>4. \A d \in 1..Len(tasks) : tasks'[d] = tasks[d]
  BY <1>1
<1>5. tasks'[Len(tasks) + 1] = k
  BY <1>1
<1> QED
  BY <1>1, <1>2, <1>3, <1>4, <1>5, TaskTypes

LEMMA ChangedTask ==
    ASSUME ControlTypeOK, NEW c \in DOMAIN tasks, NEW k \in Task, tasks' = [tasks EXCEPT ![c] = k]
    PROVE  /\ tasks' \in Seq(Task) /\ Len(tasks') <= MaxRequests
           /\ DOMAIN tasks' = DOMAIN tasks
           /\ \A d \in DOMAIN tasks' : tasks'[d] = IF d = c THEN k ELSE tasks[d]
<1>1. tasks \in Seq(Task) /\ Len(tasks) <= MaxRequests /\ c \in 1..Len(tasks)
  BY TaskTypes DEF ControlTypeOK
<1>2. tasks' \in Seq(Task) /\ Len(tasks') = Len(tasks)
  BY <1>1, ExceptSeq
<1> QED
  BY <1>1, <1>2, LenProperties

LEMMA MarkedTasks ==
    ASSUME ControlTypeOK, tasks' \in [DOMAIN tasks -> Task]
    PROVE  /\ tasks' \in Seq(Task) /\ Len(tasks') <= MaxRequests
           /\ DOMAIN tasks' = DOMAIN tasks
<1>1. tasks' \in [1..Len(tasks) -> Task] /\ Len(tasks) \in Nat
  BY TaskTypes
<1>2. tasks' \in Seq(Task) /\ Len(tasks') = Len(tasks)
  BY <1>1
<1> QED
  BY <1>1, <1>2, TaskTypes DEF ControlTypeOK

-----------------------------------------------------------------------------
(* What the controls do to the page.                                        *)

\* The part of the page that the menu's invariant is about, when entries are
\* set to answers or flipped, and nothing else but the preference changes.
EntriesSet ==
    /\ entries' \in [Post -> Entry \cup {NoEntry}]
    /\ \A p \in Post :
          /\ entries[p] # NoEntry => entries'[p] # NoEntry
          /\ entries'[p].text # NoText =>
                entries'[p].text = [post |-> p, lang |-> entries'[p].lang]
          /\ entries'[p] # NoEntry /\ p \notin unread' => entries'[p].text # NoText
    /\ seen \subseteq seen' /\ seen' \subseteq Text /\ unread' \subseteq Post
    /\ pref' \in Lang \cup {NoLang}
    /\ UNCHANGED <<shown, open, current, calls, default>>

LEMMA EntriesSetInv == IInv /\ EntriesSet => IInv'
<1> SUFFICES ASSUME IInv, EntriesSet PROVE IInv'
  OBVIOUS
<1> USE DEF IInv, EntriesSet
<1>1. TypeOK'
  BY DEF TypeOK
<1>2. EntryFaithful' /\ TextKnown' /\ Captured'
  BY DEF EntryFaithful, TextKnown, Captured
<1>3. CallInv'
  <2>1. ASSUME NEW c \in DOMAIN calls PROVE CallFact(calls[c])'
    <3>1. calls[c] \in Call /\ CallFact(calls[c]) /\ calls' = calls
      BY CallTypes DEF CallInv
    <3> QED
      BY <3>1 DEF CallFact, Arrived, Call
  <2> QED
    BY <2>1 DEF CallInv
<1> QED
  BY <1>1, <1>2, <1>3

\* Flipping an entry keeps its text and language.
LEMMA FlippedEntry ==
    ASSUME IInv, NEW p \in Post, entries[p] # NoEntry, NEW s \in {"original", "translated"},
           entries' = [entries EXCEPT ![p].showing = s],
           UNCHANGED <<shown, open, current, calls, prefVars, history>>
    PROVE  EntriesSet
<1> USE DEF IInv, TypeOK, prefVars, history
<1>1. entries[p] \in Entry
  OBVIOUS
<1>2. entries'[p] \in Entry /\ entries'[p].text = entries[p].text /\ entries'[p].lang = entries[p].lang
  BY <1>1 DEF Entry
<1>3. \A q \in Post : /\ entries'[q].text = entries[q].text
                     /\ entries'[q].lang = entries[q].lang
                     /\ entries'[q] # NoEntry <=> entries[q] # NoEntry
  BY <1>1, <1>2, EntryIsNotNone
<1>4. entries' \in [Post -> Entry \cup {NoEntry}]
  BY <1>2
<1> QED
  BY <1>3, <1>4 DEF EntriesSet, EntryFaithful, TextKnown

\* What was answered is shown, with or without a text.
LEMMA ShownEntry ==
    ASSUME IInv, NEW p \in Post, NEW lang \in Lang, NEW read \in BOOLEAN,
           entries' = [entries EXCEPT ![p] =
              [showing |-> "translated", lang |-> lang,
               text |-> IF read THEN [post |-> p, lang |-> lang] ELSE NoText]],
           seen' = seen \cup {[post |-> p, lang |-> lang]},
           unread' = IF read THEN unread \ {p} ELSE unread \cup {p},
           UNCHANGED <<shown, open, current, calls, prefVars>>
    PROVE  EntriesSet
<1> USE DEF IInv, TypeOK, prefVars
<1>1. [post |-> p, lang |-> lang] \in Text
  BY DEF Text
<1>2. entries'[p] \in Entry
  BY <1>1 DEF Entry
<1>3. entries' \in [Post -> Entry \cup {NoEntry}]
  BY <1>2
<1>4. [post |-> p, lang |-> lang] # NoText
  BY MenuAssumption DEF NoText
<1> QED
  BY <1>1, <1>2, <1>3, <1>4, EntryIsNotNone DEF EntriesSet, EntryFaithful, TextKnown

\* The part of the page that belongs to the menu, and how a step treats it.
LEMMA PageSteps ==
    ASSUME IInv, ControlTypeOK, [ControlNext]_allVars
    PROVE  [Next]_vars \/ EntriesSet
<1> USE DEF IInv, ControlTypeOK
<1>1. ASSUME NEW p \in Post, FlipBack(p) PROVE EntriesSet
  <2>1. \E s \in {"original", "translated"} : entries' = [entries EXCEPT ![p].showing = s]
    BY <1>1 DEF FlipBack
  <2> QED
    BY <1>1, <2>1, FlippedEntry DEF FlipBack
<1>2. ASSUME NEW p \in Post, NEW lang \in Lang, ShowCached(p, lang) PROVE EntriesSet
  <2>1. entries[p] # NoEntry
    BY <1>2, MenuAssumption DEF ShowCached, NoEntry
  <2> QED
    BY <1>2, <2>1, FlippedEntry DEF ShowCached
<1>3. ASSUME NEW p \in Post, NEW lang \in Lang, Fetch(p, lang) PROVE UNCHANGED vars
  BY <1>3 DEF Fetch
<1>4. ASSUME NEW p \in Post, TranslateClicked(p) \/ \E lang \in Lang : PickLang(p, lang)
      PROVE  EntriesSet \/ UNCHANGED vars
  <2>1. face[p].lang \in Lang
    BY DEF Face
  <2> QED
    BY <1>2, <1>3, <1>4, <2>1 DEF TranslateClicked, PickLang, DoTranslate
<1>5. ASSUME NEW c \in DOMAIN tasks, ShowFetched(c) PROVE EntriesSet
  <2>1. tasks[c].post \in Post /\ tasks[c].lang \in Lang /\ tasks[c].read \in BOOLEAN
    BY TaskTypes DEF Task
  <2> QED
    BY <1>5, <2>1, ShownEntry DEF ShowFetched, Fetched
<1>6. ASSUME NEW c \in DOMAIN tasks, ServeControl(c) PROVE EntriesSet
  <2>1. tasks[c].lang \in Lang
    BY TaskTypes DEF Task
  <2>2. /\ UNCHANGED <<entries, shown, open, current, calls, default, seen, unread>>
        /\ pref' \in {pref, tasks[c].lang}
    BY <1>6 DEF ServeControl, Tasks!HandleTranslate, Tasks!HandleSetLang, Tasks!Refuse,
                Tasks!pageVars, Tasks!prefVars, Tasks!history
  <2> QED
    BY <2>1, <2>2 DEF EntriesSet, EntryFaithful, TextKnown, TypeOK
<1>7. CASE \/ \E p \in Post : Mount(p) \/ Subscribe(p) \/ Draw(p) \/ Unmount(p)
           \/ \E c \in DOMAIN tasks : GotFetched(c) \/ Fail(c)
           \/ UNCHANGED allVars
  BY <1>7 DEF Mount, Subscribe, Draw, Unmount, GotFetched, Fail, allVars
<1>8. CASE MenuSets \/ MenuSetsNothing \/ ReloadPage
  BY <1>8 DEF MenuSets, MenuSetsNothing, ReloadPage, Next, MenuStep
<1> QED
  BY <1>1, <1>4, <1>5, <1>6, <1>7, <1>8 DEF ControlNext, ControlStep

LEMMA NextPageInv == IInv /\ ControlTypeOK /\ [ControlNext]_allVars => IInv'
BY PageSteps, EntriesSetInv, NextInv

-----------------------------------------------------------------------------
(* What a step does to the calls of the controls.                           *)

\* A call goes on to k, which is on the same post and language, and has its
\* translation if it persists the language.
Moves(c, k) ==
    /\ k \in Task
    /\ tasks' = [tasks EXCEPT ![c] = k]
    /\ k.post = tasks[c].post /\ k.lang = tasks[c].lang /\ k.attached = tasks[c].attached
    /\ k.asked = "setLang" =>
          tasks[c].asked = "setLang" \/ [post |-> k.post, lang |-> k.lang] \in fetched'

\* The step of a call, and whether the call goes on.
LEMMA TaskMoves ==
    ASSUME ControlTypeOK, NEW c \in DOMAIN tasks, ControlStep(c) \/ ServeControl(c)
    PROVE  \E k \in Task :
              /\ Moves(c, k)
              /\ k.at = tasks[c].at \/ ShowFetched(c) \/ Fail(c)
<1>k. tasks[c] \in Task
  BY TaskTypes
<1>1. CASE GotFetched(c)
  <2> DEFINE k == [Tasks!Ask(c, "setLang") EXCEPT !.read = tasks[c].net = "ok"]
  <2>1. k \in Task
    BY <1>k DEF Task, Tasks!Ask
  <2>2. k.post = tasks[c].post /\ k.lang = tasks[c].lang /\ k.attached = tasks[c].attached
        /\ k.at = tasks[c].at
    BY <1>k DEF Task, Tasks!Ask
  <2>3. tasks' = [tasks EXCEPT ![c] = k] /\ [post |-> k.post, lang |-> k.lang] \in fetched'
    BY <1>1, <2>2 DEF GotFetched
  <2> QED
    BY <2>1, <2>2, <2>3 DEF Moves
<1>2. ASSUME NEW at \in {"done", "failed"}, tasks' = [tasks EXCEPT ![c].at = at]
      PROVE  \E k \in Task : Moves(c, k)
  <2> DEFINE k == [tasks[c] EXCEPT !.at = at]
  <2>1. /\ k \in Task /\ tasks' = [tasks EXCEPT ![c] = k]
        /\ k.post = tasks[c].post /\ k.lang = tasks[c].lang /\ k.attached = tasks[c].attached
        /\ k.asked = tasks[c].asked
    BY <1>k, <1>2 DEF Task
  <2>2. Moves(c, k)
    BY <1>2, <2>1 DEF Moves
  <2> QED
    BY <2>1, <2>2
<1>3. CASE ServeControl(c)
  <2>1. PICK net \in {"ok", "unread", "error"} : tasks' = [tasks EXCEPT ![c].net = net]
    BY <1>3 DEF ServeControl, Tasks!HandleTranslate, Tasks!HandleSetLang, Tasks!Refuse,
                Tasks!Success
  <2> DEFINE k == [tasks[c] EXCEPT !.net = net]
  <2>2. /\ k \in Task /\ tasks' = [tasks EXCEPT ![c] = k]
        /\ k.post = tasks[c].post /\ k.lang = tasks[c].lang /\ k.attached = tasks[c].attached
        /\ k.asked = tasks[c].asked /\ k.at = tasks[c].at
    BY <1>k, <2>1 DEF Task
  <2> QED
    BY <2>2 DEF Moves
<1>4. CASE ShowFetched(c) \/ Fail(c)
  <2>1. PICK at \in {"done", "failed"} : tasks' = [tasks EXCEPT ![c].at = at]
    BY <1>4 DEF ShowFetched, Fail
  <2> QED
    BY <1>2, <1>4, <2>1
<1> QED
  BY <1>1, <1>3, <1>4 DEF ControlStep

LEMMA DetachedTasks ==
    ASSUME ControlTypeOK, NEW p \in Post, Unmount(p)
    PROVE  /\ tasks' \in [DOMAIN tasks -> Task]
           /\ \A c \in DOMAIN tasks :
                 /\ tasks'[c] = [tasks[c] EXCEPT !.attached = tasks'[c].attached]
                 /\ tasks[c].post # p => tasks'[c].attached = tasks[c].attached
<1>1. \A c \in DOMAIN tasks :
         [tasks[c] EXCEPT !.attached = @ /\ tasks[c].post # p] \in Task
  BY TaskTypes DEF Task
<1>2. \A c \in DOMAIN tasks :
         LET k == [tasks[c] EXCEPT !.attached = @ /\ tasks[c].post # p]
         IN  /\ k = [tasks[c] EXCEPT !.attached = k.attached]
             /\ tasks[c].post # p => k.attached = tasks[c].attached
  BY TaskTypes DEF Task
<1> QED
  BY <1>1, <1>2 DEF Unmount

LEMMA GoneTasks ==
    ASSUME ControlTypeOK, ReloadPage
    PROVE  /\ tasks' \in [DOMAIN tasks -> Task]
           /\ \A c \in DOMAIN tasks : tasks'[c] = [tasks[c] EXCEPT !.at = "gone"]
<1>1. \A c \in DOMAIN tasks : [tasks[c] EXCEPT !.at = "gone"] \in Task
  BY TaskTypes DEF Task
<1> QED
  BY <1>1 DEF ReloadPage

-----------------------------------------------------------------------------
(* The invariants of the controls.                                          *)

\* The handlers call doTranslate for a language of the list.
LEMMA ClickTranslates ==
    ASSUME ControlTypeOK, NEW p \in Post,
           TranslateClicked(p) \/ \E lang \in Lang : PickLang(p, lang)
    PROVE  /\ control[p] \in State
           /\ \E lang \in Lang : ShowCached(p, lang) \/ Fetch(p, lang)
<1>1. face[p].lang \in Lang
  BY DEF ControlTypeOK, Face
<1> QED
  BY <1>1 DEF TranslateClicked, PickLang, DoTranslate, Mounted, ControlTypeOK

LEMMA LookIsFace ==
    ASSUME TypeOK, NEW p \in Post, control[p] \in State
    PROVE  Look(p) \in Face
  BY DEF TypeOK, Look, Face, State, Entry, NoEntry

LEMMA NextControlType == PageInv /\ [ControlNext]_allVars => ControlTypeOK'
<1> SUFFICES ASSUME PageInv, [ControlNext]_allVars PROVE ControlTypeOK'
  OBVIOUS
<1>t. TypeOK /\ ControlTypeOK
  BY DEF PageInv, IInv
<1>b. Blank \in Face
  BY ControlAssumption DEF Blank, Face
<1>1. ASSUME NEW p \in Post, Mount(p) PROVE ControlTypeOK'
  <2>1. FirstLang(p) \in Lang
    BY <1>t, ControlAssumption DEF FirstLang, TypeOK, Entry
  <2>2. control'[p] = [lang |-> FirstLang(p), busy |-> FALSE] /\ entries' = entries
    BY <1>1, <1>t DEF Mount, vars, ControlTypeOK
  <2>3. Look(p)' \in Face
    BY <1>t, <2>1, <2>2 DEF TypeOK, Look, Face, Entry, NoEntry
  <2> QED
    BY <1>t, <1>1, <2>1, <2>3 DEF Mount, ControlTypeOK, State
<1>2. ASSUME NEW p \in Post, Draw(p) PROVE ControlTypeOK'
  <2>1. control[p] \in State
    BY <1>t, <1>2 DEF Draw, PageInv, SubsMounted, Mounted, ControlTypeOK
  <2>2. Look(p) \in Face
    BY <1>t, <2>1, LookIsFace
  <2> QED
    BY <1>t, <1>2, <2>2 DEF Draw, ControlTypeOK
<1>3. ASSUME NEW p \in Post, Unmount(p) PROVE ControlTypeOK'
  <2>1. tasks' \in Seq(Task) /\ Len(tasks') <= MaxRequests
    BY <1>t, <1>3, DetachedTasks, MarkedTasks
  <2> QED
    BY <1>t, <1>b, <1>3, <2>1 DEF Unmount, ControlTypeOK
<1>4. ASSUME NEW p \in Post, Subscribe(p) \/ FlipBack(p) PROVE ControlTypeOK'
  BY <1>t, <1>4 DEF Subscribe, FlipBack, Notify, Mounted, ControlTypeOK
<1>5. ASSUME NEW p \in Post, TranslateClicked(p) \/ \E lang \in Lang : PickLang(p, lang)
      PROVE  ControlTypeOK'
  <2>1. PICK lang \in Lang : ShowCached(p, lang) \/ Fetch(p, lang)
    BY <1>t, <1>5, ClickTranslates
  <2>2. CASE ShowCached(p, lang)
    BY <1>t, <2>2 DEF ShowCached, Notify, Mounted, ControlTypeOK, State
  <2>3. CASE Fetch(p, lang)
    <3>1. [post |-> p, lang |-> lang, asked |-> "translate", net |-> "sent",
           read |-> FALSE, at |-> "waiting", attached |-> TRUE] \in Task
      BY DEF Task
    <3>2. tasks' \in Seq(Task) /\ Len(tasks') <= MaxRequests
      BY <1>t, <2>3, <3>1, AddedTask DEF Fetch
    <3>3. [control[p] EXCEPT !.busy = TRUE] \in State
      BY <1>t, <1>5, ClickTranslates DEF State
    <3> QED
      BY <1>t, <2>3, <3>2, <3>3 DEF Fetch, ControlTypeOK
  <2> QED
    BY <2>1, <2>2, <2>3
<1>6. ASSUME NEW c \in DOMAIN tasks, ControlStep(c) \/ ServeControl(c) PROVE ControlTypeOK'
  <2>1. tasks' \in Seq(Task) /\ Len(tasks') <= MaxRequests
    BY <1>t, <1>6, TaskMoves, ChangedTask DEF Moves
  <2>2. tasks[c].post \in Post /\ tasks[c].lang \in Lang
    BY <1>t, TaskTypes DEF Task
  <2>3. CASE GotFetched(c)
    <3>1. [post |-> tasks[c].post, lang |-> tasks[c].lang] \in Text
      BY <2>2 DEF Text
    <3> QED
      BY <1>t, <2>1, <2>3, <3>1 DEF GotFetched, ControlTypeOK
  <2>4. CASE ShowFetched(c)
    BY <1>t, <2>1, <2>2, <2>4 DEF ShowFetched, Notify, Own, Mounted, ControlTypeOK, State
  <2>5. CASE Fail(c)
    <3>1. \A q \in Own(c) : [control[q] EXCEPT !.busy = FALSE] \in State
      BY <1>t DEF Own, Mounted, ControlTypeOK, State
    <3> QED
      BY <1>t, <2>1, <2>5, <3>1 DEF Fail, Own, Mounted, ControlTypeOK
  <2>6. CASE ServeControl(c)
    BY <1>t, <2>1, <2>6 DEF ServeControl, ControlTypeOK
  <2> QED
    BY <1>6, <2>3, <2>4, <2>5, <2>6 DEF ControlStep
<1>7. CASE MenuSets \/ MenuSetsNothing \/ UNCHANGED allVars
  BY <1>t, <1>7 DEF MenuSets, MenuSetsNothing, Notify, Mounted, allVars, controlVars, ControlTypeOK
<1>8. CASE ReloadPage
  <2>1. tasks' \in Seq(Task) /\ Len(tasks') <= MaxRequests
    BY <1>t, <1>8, GoneTasks, MarkedTasks
  <2> QED
    BY <1>t, <1>b, <1>8, <2>1 DEF ReloadPage, ControlTypeOK
<1> QED
  BY <1>1, <1>2, <1>3, <1>4, <1>5, <1>6, <1>7, <1>8 DEF ControlNext
\* A step mounts or unmounts a control, or keeps it and its subscription.
LEMMA MountedSteps ==
    ASSUME ControlTypeOK, [ControlNext]_allVars,
           ~ReloadPage, ~ \E p \in Post : Mount(p) \/ Unmount(p)
    PROVE  Mounted' = Mounted /\ subs \subseteq subs' /\ subs' \subseteq subs \cup Mounted
<1> USE ControlAssumption DEF ControlTypeOK, Mounted, State
<1>1. ASSUME NEW p \in Post, TranslateClicked(p) \/ \E lang \in Lang : PickLang(p, lang)
      PROVE  Mounted' = Mounted /\ subs' = subs
  <2>1. PICK lang \in Lang : ShowCached(p, lang) \/ Fetch(p, lang)
    BY <1>1, ClickTranslates
  <2>2. p \in Mounted /\ control[p] \in State
    BY <1>1, ClickTranslates DEF TranslateClicked, PickLang
  <2>3. CASE ShowCached(p, lang)
    <3>1. [lang |-> lang, busy |-> FALSE] # NoControl
      <4>1. [lang |-> lang, busy |-> FALSE] \in [lang : Lang, busy : BOOLEAN]
        OBVIOUS
      <4> QED
        BY <4>1
    <3> QED
      BY <2>2, <2>3, <3>1 DEF ShowCached
  <2>4. CASE Fetch(p, lang)
    BY <2>2, <2>4 DEF Fetch
  <2> QED
    BY <2>1, <2>3, <2>4
<1>2. ASSUME NEW c \in DOMAIN tasks, ControlStep(c) \/ ServeControl(c)
      PROVE  Mounted' = Mounted /\ subs' = subs
  <2>1. tasks[c].lang \in Lang
    BY TaskTypes DEF Task
  <2>2. CASE ShowFetched(c)
    <3>1. [lang |-> tasks[c].lang, busy |-> FALSE] # NoControl
      <4>1. [lang |-> tasks[c].lang, busy |-> FALSE] \in [lang : Lang, busy : BOOLEAN]
        BY <2>1
      <4> QED
        BY <4>1
    <3> QED
      BY <2>2, <3>1 DEF ShowFetched, Own
  <2>3. CASE Fail(c)
    BY <2>3 DEF Fail, Own
  <2>4. CASE GotFetched(c) \/ ServeControl(c)
    BY <2>4 DEF GotFetched, ServeControl
  <2> QED
    BY <1>2, <2>2, <2>3, <2>4 DEF ControlStep
<1>3. ASSUME NEW p \in Post, Subscribe(p) \/ Draw(p) \/ FlipBack(p)
      PROVE  Mounted' = Mounted /\ subs \subseteq subs' /\ subs' \subseteq subs \cup Mounted
  BY <1>3 DEF Subscribe, Draw, FlipBack
<1>4. CASE MenuSets \/ MenuSetsNothing \/ UNCHANGED allVars
  BY <1>4 DEF MenuSets, MenuSetsNothing, allVars, controlVars
<1> QED
  BY <1>1, <1>2, <1>3, <1>4 DEF ControlNext

LEMMA NextSubsMounted == PageInv /\ [ControlNext]_allVars => SubsMounted'
<1> SUFFICES ASSUME PageInv, [ControlNext]_allVars PROVE SubsMounted'
  OBVIOUS
<1> USE DEF PageInv, SubsMounted
<1>1. ASSUME NEW p \in Post, Mount(p) \/ Unmount(p) PROVE SubsMounted'
  BY <1>1, ControlAssumption DEF Mount, Unmount, Mounted, ControlTypeOK
<1>2. CASE ReloadPage
  BY <1>2 DEF ReloadPage
<1> QED
  BY <1>1, <1>2, MountedSteps

\* A language is persisted when its translation has arrived.
LEMMA NextTaskInv == PageInv /\ [ControlNext]_allVars => TaskInv'
<1> SUFFICES ASSUME PageInv, [ControlNext]_allVars PROVE TaskInv'
  OBVIOUS
<1> USE DEF PageInv, TaskInv
<1>t. TypeOK /\ \A c \in DOMAIN tasks : tasks[c] \in Task
  BY TaskTypes DEF IInv
<1>1. ASSUME NEW p \in Post, NEW lang \in Lang, Fetch(p, lang) PROVE TaskInv'
  <2> DEFINE k == [post |-> p, lang |-> lang, asked |-> "translate", net |-> "sent",
                   read |-> FALSE, at |-> "waiting", attached |-> TRUE]
  <2>1. k \in Task /\ k.asked # "setLang"
    BY DEF Task
  <2>2. /\ \A d \in DOMAIN tasks : d \in DOMAIN tasks' /\ tasks'[d] = tasks[d]
        /\ \A d \in DOMAIN tasks' : d \in DOMAIN tasks \/ tasks'[d] = k
    BY <1>t, <1>1, <2>1, AddedTask DEF Fetch
  <2> QED
    BY <1>1, <2>1, <2>2 DEF Fetch
<1>2. ASSUME NEW c \in DOMAIN tasks, ControlStep(c) \/ ServeControl(c) PROVE TaskInv'
  <2>1. PICK k \in Task : Moves(c, k)
    BY <1>2, TaskMoves
  <2>2. fetched \subseteq fetched'
    BY <1>2 DEF ControlStep, GotFetched, ShowFetched, Fail, ServeControl
  <2>3. DOMAIN tasks' = DOMAIN tasks /\ \A d \in DOMAIN tasks : tasks'[d] = IF d = c THEN k ELSE tasks[d]
    BY <2>1, ChangedTask DEF Moves
  <2> QED
    BY <2>1, <2>2, <2>3 DEF Moves
<1>3. ASSUME NEW p \in Post, Unmount(p) PROVE TaskInv'
  <2>1. /\ DOMAIN tasks' = DOMAIN tasks /\ fetched' = fetched
        /\ \A c \in DOMAIN tasks : tasks'[c] = [tasks[c] EXCEPT !.attached = tasks'[c].attached]
    BY <1>3, DetachedTasks, MarkedTasks DEF Unmount
  <2>2. \A c \in DOMAIN tasks : /\ tasks'[c].post = tasks[c].post /\ tasks'[c].lang = tasks[c].lang
                               /\ tasks'[c].asked = tasks[c].asked
    BY <1>t, <2>1 DEF Task
  <2> QED
    BY <2>1, <2>2
<1>4. CASE ReloadPage
  <2>1. /\ DOMAIN tasks' = DOMAIN tasks /\ fetched' = fetched
        /\ \A c \in DOMAIN tasks : tasks'[c] = [tasks[c] EXCEPT !.at = "gone"]
    BY <1>4, GoneTasks, MarkedTasks DEF ReloadPage
  <2> QED
    BY <1>t, <2>1 DEF Task
<1>5. CASE UNCHANGED <<tasks, fetched>>
  BY <1>5
<1>6. ASSUME NEW p \in Post, TranslateClicked(p) \/ \E lang \in Lang : PickLang(p, lang)
      PROVE  UNCHANGED <<tasks, fetched>> \/ \E lang \in Lang : Fetch(p, lang)
  BY <1>6, ClickTranslates DEF ShowCached
<1>7. \/ \E p \in Post : Unmount(p) \/ TranslateClicked(p) \/ \E lang \in Lang : PickLang(p, lang)
      \/ \E c \in DOMAIN tasks : ControlStep(c) \/ ServeControl(c)
      \/ ReloadPage \/ UNCHANGED <<tasks, fetched>>
  BY Zenon DEF ControlNext, Mount, Subscribe, Draw, FlipBack, MenuSets, MenuSetsNothing,
     allVars, controlVars
<1> QED
  BY <1>1, <1>2, <1>3, <1>4, <1>5, <1>6, <1>7
\* Every stretch that clears a task's place clears busy, if it is its control's.
LEMMA NextBusyHasCall == PageInv /\ [ControlNext]_allVars => BusyHasCall'
<1> SUFFICES ASSUME PageInv, [ControlNext]_allVars PROVE BusyHasCall'
  OBVIOUS
<1> USE DEF PageInv, BusyHasCall, Mounted
<1>t. TypeOK /\ \A c \in DOMAIN tasks : tasks[c] \in Task
  BY TaskTypes DEF IInv
<1>1. ASSUME NEW p \in Post, NEW lang \in Lang, Fetch(p, lang) PROVE BusyHasCall'
  <2> DEFINE k == [post |-> p, lang |-> lang, asked |-> "translate", net |-> "sent",
                   read |-> FALSE, at |-> "waiting", attached |-> TRUE]
  <2>1. k \in Task
    BY DEF Task
  <2>2. /\ \A d \in DOMAIN tasks : d \in DOMAIN tasks' /\ tasks'[d] = tasks[d]
        /\ \E d \in DOMAIN tasks' : tasks'[d] = k
    BY <1>t, <1>1, <2>1, AddedTask DEF Fetch
  <2>3. \A q \in Post \ {p} : control'[q] = control[q]
    BY <1>1 DEF Fetch, ControlTypeOK
  <2> QED
    BY <2>2, <2>3
<1>2. ASSUME NEW c \in DOMAIN tasks, ControlStep(c) \/ ServeControl(c) PROVE BusyHasCall'
  <2>1. PICK k \in Task : Moves(c, k) /\ (k.at = tasks[c].at \/ ShowFetched(c) \/ Fail(c))
    BY <1>2, TaskMoves
  <2>2. DOMAIN tasks' = DOMAIN tasks /\ \A d \in DOMAIN tasks : tasks'[d] = IF d = c THEN k ELSE tasks[d]
    BY <2>1, ChangedTask DEF Moves
  <2>3. \A q \in Mounted' : control'[q].busy => q \in Mounted /\ control[q].busy
    <3>1. CASE ShowFetched(c)
      BY <3>1 DEF ShowFetched, Own
    <3>2. CASE Fail(c)
      BY <3>2 DEF Fail, Own, ControlTypeOK, State
    <3>3. CASE GotFetched(c) \/ ServeControl(c)
      BY <3>3 DEF GotFetched, ServeControl
    <3> QED
      BY <1>2, <3>1, <3>2, <3>3 DEF ControlStep
  <2>4. CASE k.at = tasks[c].at
    BY <2>1, <2>2, <2>3, <2>4 DEF Moves
  <2>5. CASE ShowFetched(c) \/ Fail(c)
    <3>1. \A q \in Mounted' : control'[q].busy => ~(q = tasks[c].post /\ tasks[c].attached)
      <4>1. CASE ShowFetched(c)
        BY <4>1 DEF ShowFetched, Own
      <4>2. CASE Fail(c)
        BY <4>2 DEF Fail, Own, ControlTypeOK, State
      <4> QED
        BY <2>5, <4>1, <4>2
    <3> QED
      BY <2>1, <2>2, <2>3, <3>1 DEF Moves
  <2> QED
    BY <2>1, <2>4, <2>5
<1>3. ASSUME NEW p \in Post, Unmount(p) PROVE BusyHasCall'
  <2>1. /\ DOMAIN tasks' = DOMAIN tasks
        /\ \A c \in DOMAIN tasks :
              /\ tasks'[c] = [tasks[c] EXCEPT !.attached = tasks'[c].attached]
              /\ tasks[c].post # p => tasks'[c].attached = tasks[c].attached
    BY <1>3, DetachedTasks, MarkedTasks
  <2>2. \A c \in DOMAIN tasks : tasks'[c].post = tasks[c].post /\ tasks'[c].at = tasks[c].at
    BY <1>t, <2>1 DEF Task
  <2>3. \A q \in Mounted' : q # p /\ q \in Mounted /\ control'[q] = control[q]
    BY <1>3 DEF Unmount, ControlTypeOK
  <2> QED
    BY <2>1, <2>2, <2>3
<1>4. CASE ReloadPage
  BY <1>4 DEF ReloadPage
<1>5. ASSUME NEW p \in Post, Mount(p) PROVE BusyHasCall'
  BY <1>5 DEF Mount, ControlTypeOK
<1>6. ASSUME NEW p \in Post, NEW lang \in Lang, ShowCached(p, lang) PROVE BusyHasCall'
  BY <1>6 DEF ShowCached, ControlTypeOK
<1>7. CASE UNCHANGED <<control, tasks>>
  BY <1>7
<1>8. ASSUME NEW p \in Post, TranslateClicked(p) \/ \E lang \in Lang : PickLang(p, lang)
      PROVE  \E lang \in Lang : ShowCached(p, lang) \/ Fetch(p, lang)
  BY <1>8, ClickTranslates
<1>9. \/ \E p \in Post : \/ Mount(p) \/ Unmount(p) \/ TranslateClicked(p)
                         \/ \E lang \in Lang : PickLang(p, lang)
      \/ \E c \in DOMAIN tasks : ControlStep(c) \/ ServeControl(c)
      \/ ReloadPage \/ UNCHANGED <<control, tasks>>
  BY Zenon DEF ControlNext, Subscribe, Draw, FlipBack, MenuSets, MenuSetsNothing,
     allVars, controlVars
<1> QED
  BY <1>1, <1>2, <1>3, <1>4, <1>5, <1>6, <1>7, <1>8, <1>9

-----------------------------------------------------------------------------
(* What is drawn.                                                           *)

\* The look of the mounted controls changes only for those that are marked.
Marks ==
    /\ Mounted' = Mounted /\ face' = face
    /\ due \subseteq due' /\ missed \subseteq missed'
    /\ \A p \in Mounted \ (due' \cup missed') : Look(p)' = Look(p)

LEMMA NextFaceCurrent == PageInv /\ [ControlNext]_allVars => FaceCurrent'
<1> SUFFICES ASSUME PageInv, [ControlNext]_allVars PROVE FaceCurrent'
  OBVIOUS
<1> USE DEF PageInv, FaceCurrent
<1>1. ASSUME NEW p \in Post, Mount(p) PROVE FaceCurrent'
  <2>1. Mounted' \subseteq Mounted \cup {p}
    BY <1>1 DEF Mount, Mounted, ControlTypeOK
  <2>2. face'[p] = Look(p)'
    BY <1>1 DEF Mount, ControlTypeOK
  <2>3. \A q \in Mounted : q # p /\ face'[q] = face[q] /\ Look(q)' = Look(q)
    BY <1>1 DEF Mount, Mounted, ControlTypeOK, Look, vars
  <2> QED
    BY <1>1, <2>1, <2>2, <2>3 DEF Mount
<1>2. ASSUME NEW p \in Post, Unmount(p) PROVE FaceCurrent'
  <2>1. Mounted' \subseteq Mounted \ {p}
    BY <1>2 DEF Unmount, Mounted, ControlTypeOK
  <2>2. \A q \in Mounted' : /\ face'[q] = face[q] /\ Look(q)' = Look(q)
                            /\ q \in due' <=> q \in due
                            /\ q \in missed' <=> q \in missed
    BY <1>2, <2>1 DEF Unmount, Mounted, ControlTypeOK, Look, vars
  <2> QED
    BY <2>1, <2>2
<1>3. ASSUME NEW p \in Post, Draw(p) PROVE FaceCurrent'
  <2>1. face'[p] = Look(p) /\ \A q \in Post \ {p} : face'[q] = face[q]
    BY <1>3 DEF Draw, ControlTypeOK
  <2>2. Mounted' = Mounted /\ \A q \in Post : Look(q)' = Look(q)
    BY <1>3 DEF Draw, Mounted, Look, vars
  <2> QED
    BY <1>3, <2>1, <2>2 DEF Draw, Mounted
<1>4. CASE ReloadPage
  BY <1>4 DEF ReloadPage, Mounted
<1>5. CASE Marks
  BY <1>5 DEF Marks
<1>6. ASSUME ~ReloadPage, ~ \E p \in Post : Mount(p) \/ Unmount(p) \/ Draw(p) PROVE Marks
  <2>m. Mounted' = Mounted /\ subs \subseteq Mounted
    BY <1>6, MountedSteps DEF SubsMounted
  <2>1. ASSUME NEW own \in SUBSET Mounted, Notify(own), face' = face,
               \A q \in Mounted \ own : control'[q] = control[q]
        PROVE  Marks
    BY <2>m, <2>1 DEF Marks, Notify
  <2>2. ASSUME NEW p \in Post, TranslateClicked(p) \/ \E lang \in Lang : PickLang(p, lang) PROVE Marks
    <3>1. PICK lang \in Lang : ShowCached(p, lang) \/ Fetch(p, lang)
      BY <2>2, ClickTranslates
    <3>2. p \in Mounted
      BY <2>2 DEF TranslateClicked, PickLang
    <3>3. CASE ShowCached(p, lang)
      <4>1. \A q \in Mounted \ {p} : control'[q] = control[q]
        BY <3>3 DEF ShowCached, Mounted, ControlTypeOK
      <4> QED
        BY <2>1, <3>2, <3>3, <4>1 DEF ShowCached
    <3>4. CASE Fetch(p, lang)
      BY <2>m, <3>4 DEF Marks, Fetch, Look, Mounted, ControlTypeOK, vars
    <3> QED
      BY <3>1, <3>3, <3>4
  <2>3. ASSUME NEW c \in DOMAIN tasks, ShowFetched(c) PROVE Marks
    <3>1. Own(c) \subseteq Mounted /\ \A q \in Mounted \ Own(c) : control'[q] = control[q]
      BY <2>3 DEF ShowFetched, Own, Mounted
    <3> QED
      BY <2>1, <2>3, <3>1 DEF ShowFetched
  <2>4. ASSUME NEW c \in DOMAIN tasks, Fail(c) PROVE Marks
    BY <2>m, <2>4 DEF Marks, Fail, Own, Look, Mounted, vars
  <2>5. CASE MenuSets \/ \E p \in Post : FlipBack(p)
    BY <2>1, <2>5 DEF MenuSets, FlipBack
  <2>6. CASE \/ \E p \in Post : Subscribe(p)
             \/ \E c \in DOMAIN tasks : GotFetched(c) \/ ServeControl(c)
             \/ UNCHANGED allVars
    <3>1. UNCHANGED <<entries, control, face, due, missed>>
      BY <2>6 DEF Subscribe, GotFetched, ServeControl, Tasks!HandleTranslate, Tasks!HandleSetLang,
                  Tasks!Refuse, Tasks!pageVars, allVars, controlVars, vars
    <3> QED
      BY <2>m, <3>1 DEF Marks, Look
  <2>7. CASE MenuSetsNothing
    <3>1. UNCHANGED <<entries, control, face, due, missed>>
      BY <2>7 DEF MenuSetsNothing, controlVars, pageVars, Render, OpenMenu, Hover, Toggle, Pick,
                  NewCall, ConfigurationChange, GotLang, GotSaved, GotError, Serve, HandleGetLang,
                  HandleTranslate, HandleSetLang, Refuse
    <3> QED
      BY <2>m, <3>1 DEF Marks, Look
  <2> QED
    BY <1>6, <2>2, <2>3, <2>4, <2>5, <2>6, <2>7 DEF ControlNext, ControlStep
<1> QED
  BY <1>1, <1>2, <1>3, <1>4, <1>5, <1>6

-----------------------------------------------------------------------------
(* Theorems.                                                                *)

LEMMA ControlInitInv == ControlInit => PageInv
<1> SUFFICES ASSUME ControlInit PROVE PageInv
  OBVIOUS
<1>1. IInv
  BY InitInv DEF ControlInit
<1>2. tasks = <<>> /\ tasks \in Seq(Task) /\ Len(tasks) = 0 /\ DOMAIN tasks = {}
  BY DEF ControlInit
<1>3. ControlTypeOK
  BY <1>2, ControlAssumption DEF ControlInit, ControlTypeOK, Blank, Face
<1>4. SubsMounted /\ TaskInv /\ BusyHasCall /\ FaceCurrent
  BY <1>2 DEF ControlInit, SubsMounted, TaskInv, BusyHasCall, FaceCurrent, Mounted
<1> QED
  BY <1>1, <1>3, <1>4 DEF PageInv

LEMMA PageInvariance == ControlSpec => []PageInv
<1>1. PageInv /\ [ControlNext]_allVars => PageInv'
  BY NextPageInv, NextControlType, NextSubsMounted, NextTaskInv, NextBusyHasCall, NextFaceCurrent
     DEF PageInv
<1> QED
  BY <1>1, ControlInitInv, PTL DEF ControlSpec

\* Every variable of the controls keeps its type: the language a control starts
\* with and calls with is one of the list (translate_control.tsx:16-17).
THEOREM ControlTypeCorrect == ControlSpec => []ControlTypeOK
BY PageInvariance, PTL DEF PageInv

\* Menu and controls write the same entries, from any number of calls in
\* flight, and no text lands on another post or under another language
\* (translation_state.ts:14-26, translate_control.tsx:32).
THEOREM SharedEntriesFaithful == ControlSpec => []EntryFaithful
BY PageInvariance, PTL DEF PageInv, IInv

\* The label of a control is not disabled for good (translate_control.tsx:24-36).
THEOREM BusyBacked == ControlSpec => []BusyHasCall
BY PageInvariance, PTL DEF PageInv

\* A drawn control is stale only if it is about to be drawn again, or was
\* rendered and not yet subscribed when the state was set (tsx:13-14).
THEOREM DrawnCurrent == ControlSpec => []FaceCurrent
BY PageInvariance, PTL DEF PageInv

\* Neither the menu nor a control persists a language that no translation of
\* its post has been answered in (translate_control.tsx:29-30,
\* post_menu.ts:41-43).
THEOREM TranslatedRemembered == ControlSpec => OnlyTranslatedRemembered
<1> DEFINE Remembered == pref' # pref =>
          \/ \E c \in DOMAIN calls :
                pref' = calls[c].lang /\ [post |-> calls[c].post, lang |-> pref'] \in seen
          \/ \E c \in DOMAIN tasks :
                pref' = tasks[c].lang /\ [post |-> tasks[c].post, lang |-> pref'] \in fetched
<1>1. PageInv /\ [ControlNext]_allVars => [Remembered]_allVars
  <2> SUFFICES ASSUME PageInv, ControlNext, pref' # pref PROVE Remembered
    BY DEF allVars, vars, prefVars
  <2>1. CASE \E c \in DOMAIN tasks : ServeControl(c)
    <3>1. PICK c \in DOMAIN tasks : ServeControl(c)
      BY <2>1
    <3>2. tasks[c].asked = "setLang" /\ pref' = tasks[c].lang
      BY <3>1 DEF ServeControl, Tasks!HandleTranslate, Tasks!HandleSetLang, Tasks!Refuse,
                  Tasks!prefVars, Tasks!Sent
    <3> QED
      BY <3>2 DEF PageInv, TaskInv
  <2>2. CASE \E c \in DOMAIN calls : HandleSetLang(c)
    BY <2>2 DEF PageInv, IInv, CallInv, CallFact, HandleSetLang, Sent
  <2>3. \/ \E c \in DOMAIN tasks : ServeControl(c)
        \/ \E c \in DOMAIN calls : HandleSetLang(c)
    <3>1. ~(MenuSets \/ ReloadPage)
      BY DEF MenuSets, ReloadPage, Flip, GotText, Reload, prefVars
    <3>2. MenuSetsNothing => \E c \in DOMAIN calls : HandleSetLang(c)
      BY DEF MenuSetsNothing, pageVars, prefVars, Render, OpenMenu, Hover, Toggle, Pick, NewCall,
             ConfigurationChange, GotLang, GotSaved, GotError, Serve, HandleGetLang,
             HandleTranslate, Refuse
    <3>3. ~ \E p \in Post : \/ Mount(p) \/ Subscribe(p) \/ Draw(p) \/ Unmount(p)
                          \/ FlipBack(p) \/ TranslateClicked(p)
                          \/ \E lang \in Lang : PickLang(p, lang)
      BY DEF Mount, Subscribe, Draw, Unmount, FlipBack, TranslateClicked, PickLang, DoTranslate,
             ShowCached, Fetch, vars, prefVars
    <3>4. ~ \E c \in DOMAIN tasks : ControlStep(c)
      BY DEF ControlStep, GotFetched, ShowFetched, Fail, vars, prefVars
    <3> QED
      BY <3>1, <3>2, <3>3, <3>4 DEF ControlNext
  <2> QED
    BY <2>1, <2>2, <2>3
<1> QED
  BY <1>1, PageInvariance, PTL DEF ControlSpec, OnlyTranslatedRemembered

-----------------------------------------------------------------------------
(* The cache of the page.                                                   *)

\* A control's call that is over has left an entry for its post.
ShownInv == \A c \in DOMAIN tasks : tasks[c].at = "done" => entries[tasks[c].post] # NoEntry

\* Whoever sets an entry, only a reload forgets one.
LEMMA EntriesStayOnPage ==
    ASSUME PageInv, [ControlNext]_allVars, ~ReloadPage
    PROVE  \A p \in Post : entries[p] # NoEntry => entries'[p] # NoEntry
<1>t. TypeOK /\ ControlTypeOK /\ IInv
  BY DEF PageInv, IInv
<1>1. ASSUME NEW p \in Post, entries[p] # NoEntry, NEW s \in {"original", "translated"},
             entries' = [entries EXCEPT ![p].showing = s]
      PROVE  \A q \in Post : entries[q] # NoEntry => entries'[q] # NoEntry
  <2>1. entries[p] \in Entry
    BY <1>t, <1>1 DEF TypeOK
  <2>2. entries'[p] \in Entry
    BY <1>t, <1>1, <2>1 DEF TypeOK, Entry
  <2> QED
    BY <1>t, <1>1, <2>2, EntryIsNotNone DEF TypeOK
<1>2. CASE Flip \/ \E p \in Post : FlipBack(p)
  <2>1. PICK p \in Post : /\ entries[p] # NoEntry
                          /\ \E s \in {"original", "translated"} :
                                entries' = [entries EXCEPT ![p].showing = s]
    BY <1>t, <1>2, FlipsEntry, EntryIsNotNone DEF Flip, FlipBack
  <2> QED
    BY <1>1, <2>1
<1>3. ASSUME NEW p \in Post, TranslateClicked(p) \/ \E lang \in Lang : PickLang(p, lang)
      PROVE  \A q \in Post : entries[q] # NoEntry => entries'[q] # NoEntry
  <2>1. PICK lang \in Lang : ShowCached(p, lang) \/ Fetch(p, lang)
    BY <1>t, <1>3, ClickTranslates DEF TranslateClicked, PickLang, DoTranslate, ControlTypeOK, Face
  <2>2. CASE ShowCached(p, lang)
    <3>1. entries[p] # NoEntry
      BY <2>2, MenuAssumption DEF ShowCached, NoEntry
    <3> QED
      BY <1>1, <2>2, <3>1 DEF ShowCached
  <2>3. CASE Fetch(p, lang)
    BY <2>3 DEF Fetch, vars
  <2> QED
    BY <2>1, <2>2, <2>3
<1>4. CASE \/ \E c \in DOMAIN calls : GotText(c)
           \/ \E c \in DOMAIN tasks : ShowFetched(c)
  <2>1. ASSUME NEW c \in DOMAIN calls, GotText(c)
        PROVE  \A p \in Post : entries[p] # NoEntry => entries'[p] # NoEntry
    BY <1>t, <2>1 DEF GotText, Translated, TypeOK, NoEntry
  <2>2. ASSUME NEW c \in DOMAIN tasks, ShowFetched(c)
        PROVE  \A p \in Post : entries[p] # NoEntry => entries'[p] # NoEntry
    BY <1>t, <2>2 DEF ShowFetched, Fetched, TypeOK, NoEntry
  <2> QED
    BY <1>4, <2>1, <2>2
<1>5. CASE \/ \E p \in Post : Mount(p) \/ Subscribe(p) \/ Draw(p) \/ Unmount(p)
           \/ \E c \in DOMAIN tasks : GotFetched(c) \/ Fail(c) \/ ServeControl(c)
           \/ UNCHANGED allVars
  BY <1>5 DEF Mount, Subscribe, Draw, Unmount, GotFetched, Fail, ServeControl,
              Tasks!HandleTranslate, Tasks!HandleSetLang, Tasks!Refuse, Tasks!pageVars,
              allVars, vars
<1>6. CASE MenuSetsNothing
  BY <1>6 DEF MenuSetsNothing, pageVars, Render, OpenMenu, Hover, Toggle, Pick, NewCall,
              ConfigurationChange, GotLang, GotSaved, GotError, Serve, HandleGetLang,
              HandleTranslate, HandleSetLang, Refuse
<1> QED
  BY <1>2, <1>3, <1>4, <1>5, <1>6 DEF ControlNext, ControlStep, MenuSets

LEMMA NextShownInv == PageInv /\ ShownInv /\ [ControlNext]_allVars => ShownInv'
<1> SUFFICES ASSUME PageInv, ShownInv, [ControlNext]_allVars PROVE ShownInv'
  OBVIOUS
<1> USE DEF ShownInv
<1>t. TypeOK /\ ControlTypeOK /\ \A c \in DOMAIN tasks : tasks[c] \in Task
  BY TaskTypes DEF PageInv, IInv
<1>e. ~ReloadPage => \A p \in Post : entries[p] # NoEntry => entries'[p] # NoEntry
  BY EntriesStayOnPage
<1>p. \A c \in DOMAIN tasks : tasks[c].post \in Post
  BY <1>t DEF Task
<1>1. ASSUME NEW p \in Post, NEW lang \in Lang, Fetch(p, lang), ~ReloadPage PROVE ShownInv'
  <2> DEFINE k == [post |-> p, lang |-> lang, asked |-> "translate", net |-> "sent",
                   read |-> FALSE, at |-> "waiting", attached |-> TRUE]
  <2>1. k \in Task /\ k.at # "done"
    BY DEF Task
  <2>2. \A d \in DOMAIN tasks' : (d \in DOMAIN tasks /\ tasks'[d] = tasks[d]) \/ tasks'[d] = k
    BY <1>t, <1>1, <2>1, AddedTask DEF Fetch
  <2> QED
    BY <1>e, <1>p, <1>1, <2>1, <2>2
<1>2. ASSUME NEW c \in DOMAIN tasks, ControlStep(c) \/ ServeControl(c), ~ReloadPage PROVE ShownInv'
  <2>1. PICK k \in Task : Moves(c, k) /\ (k.at = tasks[c].at \/ ShowFetched(c) \/ Fail(c))
    BY <1>t, <1>2, TaskMoves
  <2>2. /\ DOMAIN tasks' = DOMAIN tasks
        /\ \A d \in DOMAIN tasks : tasks'[d] = IF d = c THEN k ELSE tasks[d]
    BY <1>t, <2>1, ChangedTask DEF Moves
  <2>3. k.at = "done" => entries'[k.post] # NoEntry
    <3>1. CASE k.at = tasks[c].at
      BY <1>e, <1>p, <1>2, <2>1, <3>1 DEF Moves
    <3>2. CASE ShowFetched(c)
      BY <1>t, <1>p, <2>1, <3>2 DEF ShowFetched, Fetched, Moves, TypeOK, NoEntry
    <3>3. CASE Fail(c)
      <4>1. tasks'[c].at = "failed" /\ tasks'[c] = k
        BY <1>t, <2>2, <3>3 DEF Fail, Task
      <4> QED
        BY <4>1
    <3> QED
      BY <2>1, <3>1, <3>2, <3>3
  <2> QED
    BY <1>e, <1>p, <1>2, <2>2, <2>3
<1>3. ASSUME NEW p \in Post, Unmount(p), ~ReloadPage PROVE ShownInv'
  <2>1. /\ DOMAIN tasks' = DOMAIN tasks
        /\ \A c \in DOMAIN tasks : tasks'[c] = [tasks[c] EXCEPT !.attached = tasks'[c].attached]
    BY <1>t, <1>3, DetachedTasks, MarkedTasks
  <2>2. \A c \in DOMAIN tasks : tasks'[c].post = tasks[c].post /\ tasks'[c].at = tasks[c].at
    BY <1>t, <2>1 DEF Task
  <2> QED
    BY <1>e, <1>p, <1>3, <2>1, <2>2
<1>4. CASE ReloadPage
  <2>1. /\ DOMAIN tasks' = DOMAIN tasks
        /\ \A c \in DOMAIN tasks : tasks'[c] = [tasks[c] EXCEPT !.at = "gone"]
    BY <1>t, <1>4, GoneTasks, MarkedTasks
  <2> QED
    BY <1>t, <2>1 DEF Task
<1>5. CASE UNCHANGED tasks /\ ~ReloadPage
  BY <1>e, <1>p, <1>5
<1>6. ASSUME NEW p \in Post, TranslateClicked(p) \/ \E lang \in Lang : PickLang(p, lang)
      PROVE  UNCHANGED tasks \/ \E lang \in Lang : Fetch(p, lang)
  BY <1>t, <1>6, ClickTranslates DEF ShowCached
<1>7. \/ \E p \in Post : Unmount(p) \/ TranslateClicked(p) \/ \E lang \in Lang : PickLang(p, lang)
      \/ \E c \in DOMAIN tasks : ControlStep(c) \/ ServeControl(c)
      \/ ReloadPage \/ UNCHANGED tasks
  BY Zenon DEF ControlNext, Mount, Subscribe, Draw, FlipBack, MenuSets, MenuSetsNothing,
     allVars, controlVars
<1> QED
  BY <1>1, <1>2, <1>3, <1>4, <1>5, <1>6, <1>7

\* Toggling a post that menu or control has translated calls nobody, with any
\* number of calls of both in flight, unless the last answer on the post had no
\* text (post_menu.ts:15-33, translate_control.tsx:32).
THEOREM ToggledFromPage == ControlSpec => PageTogglesCached
<1> DEFINE Cached ==
      Toggle /\ open \notin unread =>
          /\ ~ \E c \in DOMAIN calls :
                  /\ calls[c].post = open
                  /\ calls[c].at = "done" \/ (calls[c].at = "waiting" /\ calls[c].asked = "setLang")
          /\ ~ \E c \in DOMAIN tasks : tasks[c].post = open /\ tasks[c].at = "done"
<1>1. PageInv /\ ShownInv => Cached
  <2> SUFFICES ASSUME PageInv, ShownInv, Toggle, open \notin unread PROVE Cached
    OBVIOUS
  <2>1. open \in Post /\ entries[open].text = NoText
    BY DEF PageInv, IInv, TypeOK, Toggle
  <2>2. entries[open] = NoEntry
    BY <2>1 DEF PageInv, IInv, TextKnown
  <2> QED
    BY <2>2 DEF PageInv, IInv, CallInv, CallFact, Arrived, ShownInv
<1>2. ControlInit => ShownInv
  BY DEF ControlInit, ShownInv
<1> QED
  BY <1>1, <1>2, NextShownInv, PageInvariance, PTL DEF ControlSpec, PageTogglesCached

\* On a page with controls too, only the host evaluating the filter makes a pick
\* work on another post than the one whose menu is open: no control touches the
\* captured post (post_menu.ts:84-104).
THEOREM DivertedByHoverOnPage == ControlSpec => OnlyHoverDiverts
<1>1. PageInv /\ [ControlNext]_allVars => [~Diverted /\ Diverted' => \E p \in Post : Hover(p)]_vars
  <2> SUFFICES ASSUME PageInv, [ControlNext]_allVars, ~Diverted, Diverted'
               PROVE  \E p \in Post : Hover(p)
    OBVIOUS
  <2>1. [Next]_vars \/ UNCHANGED <<open, current>>
    BY PageSteps DEF PageInv, EntriesSet
  <2>2. Next
    BY <2>1 DEF Diverted, vars
  <2>3. ~(Flip \/ Toggle \/ Reload \/ \E lang \in Lang : Pick(lang))
    BY DEF Diverted, Flip, Toggle, Reload, Pick, NewCall
  <2>4. ~ \E p \in Post : Render(p) \/ OpenMenu(p)
    BY DEF Diverted, Render, OpenMenu
  <2>5. ~ \E lang \in Lang : ConfigurationChange(lang)
    BY DEF Diverted, ConfigurationChange, pageVars
  <2>6. ~ \E c \in DOMAIN calls : MenuStep(c) \/ Serve(c)
    BY DEF Diverted, MenuStep, Serve, GotLang, GotText, GotSaved, GotError, HandleGetLang,
           HandleTranslate, HandleSetLang, Refuse, pageVars
  <2> QED
    BY <2>2, <2>3, <2>4, <2>5, <2>6 DEF Next
<1> QED
  BY <1>1, PageInvariance, PTL DEF ControlSpec, OnlyHoverDiverts
=============================================================================
