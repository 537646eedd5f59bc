---------------------------- MODULE PostMenuProofs ----------------------------
(***************************************************************************)
(* Proofs about PostMenu, for any posts and languages, any number of clicks*)
(* in flight and any events.                                               *)
(*                                                                         *)
(* The argument: what a call has asked for bounds what it knows.  A call   *)
(* without a language is a toggle's, and the server refuses to translate   *)
(* for it; one that persists a language was answered in it (CallFact).     *)
(* Answers work on the post and language of their own call, so the text of *)
(* an entry is never another post's, and it is missing only where the last *)
(* answer had none (TextKnown).                                            *)
(***************************************************************************)
EXTENDS PostMenu, SequenceTheorems, TLAPS

\* The filter ran before the menu could be clicked.
Captured == open # NoPost => current # NoPost

\* The translation of this call has arrived, and its page is still there.
Arrived(k) == k.at = "done" \/ (k.at = "waiting" /\ k.asked = "setLang")

CallFact(k) ==
    /\ k.asked = "getLang" => k.kind = "toggle"
    /\ k.lang \notin Lang =>
          /\ k.kind = "toggle"
          /\ \/ k.asked = "getLang" /\ k.net # "ok"
             \/ k.asked = "translate" /\ k.net \in {"sent", "error"}
    /\ k.asked = "setLang" => k.kind = "pick" /\ [post |-> k.post, lang |-> k.lang] \in seen
    /\ Arrived(k) => entries[k.post] # NoEntry

CallInv == \A c \in DOMAIN calls : CallFact(calls[c])

\* An entry lacks a text only if the last answer for its post did.
TextKnown ==
    \A p \in Post : entries[p] # NoEntry /\ p \notin unread => entries[p].text # NoText

IInv == TypeOK /\ Captured /\ EntryFaithful /\ TextKnown /\ CallInv

-----------------------------------------------------------------------------
(* What a step does to the calls.                                           *)

Kept == calls' = calls

Added(k) == calls' = Append(calls, k) /\ Len(calls) < MaxClicks

Changed(c, k) == calls' = [calls EXCEPT ![c] = k]

\* A call is looked up in Call, and changing or adding one keeps the others.
LEMMA CallTypes ==
    ASSUME TypeOK
    PROVE  /\ \A c \in DOMAIN calls : calls[c] \in Call
           /\ DOMAIN calls = 1..Len(calls)
           /\ Len(calls) \in Nat
BY LenProperties, ElementOfSeq DEF TypeOK

LEMMA AddedCall ==
    ASSUME TypeOK, NEW k \in Call, Added(k)
    PROVE  /\ calls' \in Seq(Call) /\ Len(calls') <= MaxClicks
           /\ \A d \in DOMAIN calls' : (d \in DOMAIN calls /\ calls'[d] = calls[d]) \/ calls'[d] = k
<1>1. calls \in Seq(Call) /\ Len(calls) \in Nat /\ MaxClicks \in Nat /\ Len(calls) < MaxClicks
  BY CallTypes, MenuAssumption DEF TypeOK, Added
<1>2. calls' \in Seq(Call) /\ Len(calls') = Len(calls) + 1
  BY <1>1 DEF Added
<1>3. DOMAIN calls' = 1..Len(calls')
  BY <1>2, LenProperties
<1>4. \A d \in 1..Len(calls) : calls'[d] = calls[d]
  BY <1>1 DEF Added
<1>5. calls'[Len(calls) + 1] = k
  BY <1>1 DEF Added
<1> QED
  BY <1>1, <1>2, <1>3, <1>4, <1>5, CallTypes

LEMMA ChangedCall ==
    ASSUME TypeOK, NEW c \in DOMAIN calls, NEW k \in Call, Changed(c, k)
    PROVE  /\ calls' \in Seq(Call) /\ Len(calls') <= MaxClicks
           /\ DOMAIN calls' = DOMAIN calls
           /\ \A d \in DOMAIN calls' : calls'[d] = IF d = c THEN k ELSE calls[d]
<1>1. calls \in Seq(Call) /\ Len(calls) <= MaxClicks /\ c \in 1..Len(calls)
  BY CallTypes DEF TypeOK
<1>2. calls' \in Seq(Call) /\ Len(calls') = Len(calls)
  BY <1>1, ExceptSeq DEF Changed
<1> QED
  BY <1>1, <1>2, LenProperties DEF Changed

\* The calls of a page that is reloaded.
LEMMA GoneCalls ==
    ASSUME TypeOK, calls' = [c \in DOMAIN calls |-> [calls[c] EXCEPT !.at = "gone"]]
    PROVE  /\ calls' \in Seq(Call) /\ Len(calls') <= MaxClicks
           /\ DOMAIN calls' = DOMAIN calls
           /\ \A d \in DOMAIN calls' : calls'[d] = [calls[d] EXCEPT !.at = "gone"]
<1>1. \A c \in DOMAIN calls : [calls[c] EXCEPT !.at = "gone"] \in Call
  BY CallTypes DEF Call
<1>2. calls' \in [1..Len(calls) -> Call] /\ Len(calls) \in Nat
  BY <1>1, CallTypes
<1>3. calls' \in Seq(Call) /\ Len(calls') = Len(calls)
  BY <1>2
<1> QED
  BY <1>3, CallTypes DEF TypeOK
-----------------------------------------------------------------------------
(* The type invariant.                                                      *)

\* Every step of a call changes that call alone, into a call.
LEMMA StepChanges ==
    ASSUME TypeOK, NEW c \in DOMAIN calls, MenuStep(c) \/ Serve(c)
    PROVE  \E k \in Call : Changed(c, k)
<1>0. calls[c] \in Call
  BY CallTypes
<1>1. CASE GotError(c)
  <2>1. [calls[c] EXCEPT !.at = "failed"] \in Call
    BY <1>0 DEF Call
  <2> QED
    BY <1>1, <2>1 DEF GotError, Changed
<1>2. CASE GotSaved(c)
  <2>1. [calls[c] EXCEPT !.at = "done"] \in Call
    BY <1>0 DEF Call
  <2> QED
    BY <1>2, <2>1 DEF GotSaved, Changed
<1>3. CASE GotLang(c)
  <2>1. Ask(c, "translate") \in Call
    BY <1>0 DEF Call, Ask
  <2> QED
    BY <1>3, <2>1 DEF GotLang, Changed
<1>4. CASE GotText(c)
  <2>1. Ask(c, "setLang") \in Call /\ [calls[c] EXCEPT !.at = "done"] \in Call
    BY <1>0 DEF Call, Ask
  <2> QED
    BY <1>4, <2>1 DEF GotText, Changed
<1>5. CASE HandleGetLang(c)
  <2>1. Preference \in Lang
    BY DEF Preference, TypeOK
  <2>2. PICK net \in Success :
           Changed(c, [calls[c] EXCEPT !.lang = IF net = "ok" THEN Preference ELSE NoLang,
                                      !.net = net])
    BY <1>5 DEF HandleGetLang, Changed
  <2>3. [calls[c] EXCEPT !.lang = IF net = "ok" THEN Preference ELSE NoLang, !.net = net] \in Call
    BY <1>0, <2>1 DEF Call, Success
  <2> QED
    BY <2>2, <2>3
<1>6. CASE HandleTranslate(c) \/ HandleSetLang(c)
  <2>1. PICK net \in {"ok", "unread", "error"} : Changed(c, [calls[c] EXCEPT !.net = net])
    BY <1>6 DEF HandleTranslate, HandleSetLang, Changed, Success
  <2>2. [calls[c] EXCEPT !.net = net] \in Call
    BY <1>0 DEF Call
  <2> QED
    BY <2>1, <2>2
<1>7. CASE Refuse(c)
  <2>1. [calls[c] EXCEPT !.net = "error"] \in Call
    BY <1>0 DEF Call
  <2> QED
    BY <1>7, <2>1 DEF Refuse, Changed
<1> QED
  BY <1>1, <1>2, <1>3, <1>4, <1>5, <1>6, <1>7 DEF MenuStep, Serve

LEMMA InitInv == Init => IInv
<1> SUFFICES ASSUME Init PROVE IInv
  OBVIOUS
<1>1. calls = <<>> /\ calls \in Seq(Call) /\ Len(calls) = 0 /\ DOMAIN calls = {}
  BY DEF Init
<1>2. TypeOK
  BY <1>1, MenuAssumption DEF Init, TypeOK, NoEntry, NoText
<1>3. Captured /\ EntryFaithful /\ TextKnown
  BY DEF Init, Captured, EntryFaithful, TextKnown, NoEntry
<1> QED
  BY <1>1, <1>2, <1>3 DEF IInv, CallInv

\* A click makes a call on a post, with a language unless it asks for one.
LEMMA ClickAdds ==
    ASSUME TypeOK, Captured, Toggle \/ \E lang \in Lang : Pick(lang)
    PROVE  /\ \E k \in Call :
                 /\ Added(k)
                 /\ k.at = "waiting" /\ k.net = "sent" /\ k.asked \in {"getLang", "translate"}
                 /\ k.asked = "getLang" => k.kind = "toggle"
                 /\ k.asked # "getLang" => k.lang \in Lang
                 /\ k.clicked = open /\ k.post \in {open, current}
           /\ open' = NoPost
           /\ UNCHANGED <<entries, shown, current, prefVars, history>>
<1>1. CASE Toggle
  <2>1. open \in Post /\ entries[open] \in Entry \cup {NoEntry}
    BY <1>1 DEF Toggle, TypeOK
  <2>2. entries[open].lang \in Lang \cup {NoLang}
        /\ (entries[open] # NoEntry => entries[open].lang \in Lang)
    BY <2>1 DEF Entry, NoEntry
  <2> QED
    BY <1>1, <2>1, <2>2 DEF Toggle, NewCall, Added, Call
<1>2. CASE \E lang \in Lang : Pick(lang)
  BY <1>2 DEF Pick, NewCall, Added, Call, TypeOK, Captured
<1> QED
  BY <1>1, <1>2

\* Only a post with an entry is flipped.
LEMMA FlipsEntry ==
    ASSUME TypeOK, Flip
    PROVE  open \in Post /\ entries[open] \in Entry
<1>1. open \in Post /\ entries[open] # NoEntry
  BY DEF Flip, TypeOK, NoEntry
<1> QED
  BY <1>1 DEF TypeOK

LEMMA NextType == IInv /\ [Next]_vars => TypeOK'
<1> SUFFICES ASSUME IInv, [Next]_vars PROVE TypeOK'
  OBVIOUS
<1> USE DEF prefVars, pageVars, history
<1>t. TypeOK /\ Captured /\ CallInv
  BY DEF IInv
<1>1. CASE UNCHANGED vars
  BY <1>t, <1>1 DEF TypeOK, vars
<1>2. ASSUME NEW p \in Post, Render(p) \/ OpenMenu(p) \/ Hover(p) PROVE TypeOK'
  <2>1. DisplayText(p) \in Text \cup {NoText}
    BY <1>t DEF DisplayText, TypeOK, Entry, NoEntry
  <2> QED
    BY <1>t, <1>2, <2>1 DEF Render, OpenMenu, Hover, TypeOK
<1>3. CASE Flip
  <2>1. [entries[open] EXCEPT !.showing = IF @ = "translated" THEN "original" ELSE "translated"]
           \in Entry
    BY <1>t, <1>3, FlipsEntry DEF Entry
  <2> QED
    BY <1>t, <1>3, <2>1 DEF Flip, TypeOK
<1>4. CASE Toggle \/ \E lang \in Lang : Pick(lang)
  BY <1>t, <1>4, ClickAdds, AddedCall DEF TypeOK
<1>5. CASE Reload
  BY <1>t, <1>5, GoneCalls DEF Reload, TypeOK
<1>6. ASSUME NEW lang \in Lang, ConfigurationChange(lang) PROVE TypeOK'
  BY <1>t, <1>6 DEF ConfigurationChange, TypeOK
<1>7. ASSUME NEW c \in DOMAIN calls, MenuStep(c) \/ Serve(c) PROVE TypeOK'
  <2>1. calls' \in Seq(Call) /\ Len(calls') <= MaxClicks
    BY <1>t, <1>7, StepChanges, ChangedCall
  <2>2. calls[c] \in Call /\ CallFact(calls[c])
    BY <1>t, CallTypes DEF CallInv
  <2>3. CASE GotText(c)
    <3>1. calls[c].lang \in Lang /\ calls[c].post \in Post
      BY <2>2, <2>3 DEF GotText, Answered, Waiting, CallFact, Call
    <3>2. [post |-> calls[c].post, lang |-> calls[c].lang] \in Text /\ Translated(c) \in Entry
      BY <3>1 DEF Text, Entry, Translated
    <3> QED
      BY <1>t, <2>1, <2>3, <3>1, <3>2 DEF GotText, TypeOK
  <2>4. CASE HandleSetLang(c)
    <3>1. calls[c].lang \in Lang
      BY <2>2, <2>4 DEF HandleSetLang, Sent, CallFact
    <3> QED
      BY <1>t, <2>1, <2>4, <3>1 DEF HandleSetLang, TypeOK
  <2>5. CASE ~GotText(c) /\ ~HandleSetLang(c)
    <3>1. UNCHANGED <<pageVars, prefVars, history>>
      BY <1>7, <2>5 DEF MenuStep, Serve, GotLang, GotSaved, GotError, HandleGetLang,
                        HandleTranslate, Refuse
    <3> QED
      BY <1>t, <2>1, <3>1 DEF TypeOK
  <2> QED
    BY <2>3, <2>4, <2>5
<1> QED
  BY <1>1, <1>2, <1>3, <1>4, <1>5, <1>6, <1>7 DEF Next
-----------------------------------------------------------------------------
(* The entries, and what the calls know of them.                            *)

LEMMA NextCaptured == IInv /\ [Next]_vars => Captured'
<1> SUFFICES ASSUME IInv, [Next]_vars PROVE Captured'
  OBVIOUS
<1>t. TypeOK /\ Captured
  BY DEF IInv
<1>1. CASE Toggle \/ \E lang \in Lang : Pick(lang)
  BY <1>t, <1>1, ClickAdds DEF Captured
<1>2. ASSUME NEW p \in Post, OpenMenu(p) \/ Hover(p) PROVE Captured'
  BY <1>2, MenuAssumption DEF OpenMenu, Hover, Captured
<1>3. CASE Flip \/ Reload
  BY <1>3 DEF Flip, Reload, Captured
<1>4. CASE \/ UNCHANGED vars
           \/ \E p \in Post : Render(p)
           \/ \E lang \in Lang : ConfigurationChange(lang)
           \/ \E c \in DOMAIN calls : MenuStep(c) \/ Serve(c)
  BY <1>t, <1>4 DEF vars, pageVars, Render, ConfigurationChange, MenuStep, Serve, GotLang,
                    GotText, GotSaved, GotError, HandleGetLang, HandleTranslate,
                    HandleSetLang, Refuse, Captured
<1> QED
  BY <1>1, <1>2, <1>3, <1>4 DEF Next

\* An entry is set to a translation, flipped, or forgotten.
LEMMA EntryIsNotNone == NoEntry \notin Entry
BY MenuAssumption DEF NoEntry, Entry

LEMMA NextEntryFaithful == IInv /\ [Next]_vars => EntryFaithful'
<1> SUFFICES ASSUME IInv, [Next]_vars PROVE EntryFaithful'
  OBVIOUS
<1> USE DEF prefVars, pageVars, history
<1>t. TypeOK /\ EntryFaithful
  BY DEF IInv
<1>1. ASSUME NEW p \in Post, Render(p) PROVE EntryFaithful'
  <2>1. DisplayText(p) # NoText => DisplayText(p).post = p
    <3>1. DisplayText(p) # NoText => DisplayText(p) = entries[p].text
      BY DEF DisplayText
    <3>2. ASSUME entries[p].text # NoText PROVE entries[p].text.post = p
      <4>1. entries[p].text = [post |-> p, lang |-> entries[p].lang]
        BY <1>t, <3>2 DEF EntryFaithful
      <4> QED
        BY <4>1
    <3> QED
      BY <3>1, <3>2
  <2> QED
    BY <1>t, <1>1, <2>1 DEF Render, EntryFaithful, TypeOK
<1>2. CASE Flip
  <2>1. entries[open] \in Entry /\ open \in Post
    BY <1>t, <1>2, FlipsEntry
  <2>2. \A p \in Post : /\ entries'[p].text = entries[p].text
                       /\ entries'[p].lang = entries[p].lang
    BY <1>t, <1>2, <2>1 DEF Flip, TypeOK, Entry
  <2> QED
    BY <1>t, <1>2, <2>2 DEF Flip, EntryFaithful
<1>3. CASE Reload
  BY <1>3 DEF Reload, EntryFaithful, NoEntry
<1>4. ASSUME NEW c \in DOMAIN calls, GotText(c) PROVE EntryFaithful'
  <2>1. calls[c].post \in Post
    BY <1>t, CallTypes DEF Call
  <2>2. /\ Translated(c).lang = calls[c].lang
        /\ Translated(c).text \in {NoText, [post |-> calls[c].post, lang |-> calls[c].lang]}
    BY DEF Translated
  <2> QED
    BY <1>t, <1>4, <2>1, <2>2 DEF GotText, EntryFaithful, TypeOK
<1>5. CASE Toggle \/ \E lang \in Lang : Pick(lang)
  BY <1>t, <1>5, ClickAdds DEF IInv, EntryFaithful
<1>6. CASE \/ UNCHANGED vars
           \/ \E p \in Post : OpenMenu(p) \/ Hover(p)
           \/ \E lang \in Lang : ConfigurationChange(lang)
           \/ \E c \in DOMAIN calls : (MenuStep(c) /\ ~GotText(c)) \/ Serve(c)
  <2>1. UNCHANGED <<entries, shown>>
    BY <1>6 DEF vars, OpenMenu, Hover, ConfigurationChange, MenuStep, Serve, GotLang, GotSaved,
                GotError, HandleGetLang, HandleTranslate, HandleSetLang, Refuse
  <2> QED
    BY <1>t, <2>1 DEF EntryFaithful
<1> QED
  BY <1>1, <1>2, <1>3, <1>4, <1>5, <1>6 DEF Next

LEMMA NextTextKnown == IInv /\ [Next]_vars => TextKnown'
<1> SUFFICES ASSUME IInv, [Next]_vars PROVE TextKnown'
  OBVIOUS
<1> USE DEF prefVars, pageVars, history
<1>t. TypeOK /\ TextKnown
  BY DEF IInv
<1>1. CASE Flip
  <2>1. \A p \in Post : entries'[p].text = entries[p].text
    BY <1>t, <1>1, FlipsEntry DEF Flip, TypeOK, Entry
  <2>2. \A p \in Post \ {open} : entries'[p] = entries[p]
    BY <1>t, <1>1, FlipsEntry DEF Flip, TypeOK
  <2>3. entries[open] # NoEntry /\ unread' = unread
    BY <1>t, <1>1, FlipsEntry, EntryIsNotNone DEF Flip
  <2> QED
    BY <1>t, <2>1, <2>2, <2>3 DEF TextKnown
<1>2. CASE Reload
  BY <1>2 DEF Reload, TextKnown
<1>3. ASSUME NEW c \in DOMAIN calls, GotText(c) PROVE TextKnown'
  <2>1. calls[c].post \in Post
    BY <1>t, CallTypes DEF Call
  <2>2. calls[c].net = "ok" => Translated(c).text # NoText
    BY <2>1, MenuAssumption DEF Translated, NoText
  <2> QED
    BY <1>t, <1>3, <2>1, <2>2 DEF GotText, TextKnown, TypeOK
<1>4. CASE Toggle \/ \E lang \in Lang : Pick(lang)
  BY <1>t, <1>4, ClickAdds DEF IInv, TextKnown
<1>5. CASE \/ UNCHANGED vars
           \/ \E p \in Post : Render(p) \/ OpenMenu(p) \/ Hover(p)
           \/ \E lang \in Lang : ConfigurationChange(lang)
           \/ \E c \in DOMAIN calls : (MenuStep(c) /\ ~GotText(c)) \/ Serve(c)
  <2>1. UNCHANGED <<entries, unread>>
    BY <1>5 DEF vars, Render, OpenMenu, Hover, ConfigurationChange, MenuStep, Serve, GotLang,
                GotSaved, GotError, HandleGetLang, HandleTranslate, HandleSetLang, Refuse
  <2> QED
    BY <1>t, <2>1 DEF TextKnown
<1> QED
  BY <1>1, <1>2, <1>3, <1>4, <1>5 DEF Next

\* Outside Reload no entry is forgotten, and no translation ever is.
LEMMA EntriesStay ==
    ASSUME IInv, [Next]_vars, ~Reload
    PROVE  /\ \A p \in Post : entries[p] # NoEntry => entries'[p] # NoEntry
           /\ seen \subseteq seen'
<1> USE DEF prefVars, pageVars, history
<1>t. TypeOK /\ Captured
  BY DEF IInv
<1>1. CASE Flip
  <2>1. entries[open] \in Entry /\ open \in Post
    BY <1>t, <1>1, FlipsEntry
  <2> QED
    BY <1>t, <1>1, <2>1, MenuAssumption DEF Flip, TypeOK, Entry, NoEntry
<1>2. ASSUME NEW c \in DOMAIN calls, GotText(c)
      PROVE  /\ \A p \in Post : entries[p] # NoEntry => entries'[p] # NoEntry
             /\ seen \subseteq seen'
  BY <1>t, <1>2 DEF GotText, Translated, TypeOK, NoEntry
<1>3. CASE Toggle \/ \E lang \in Lang : Pick(lang)
  BY <1>t, <1>3, ClickAdds
<1>4. CASE \/ UNCHANGED vars
           \/ \E p \in Post : Render(p) \/ OpenMenu(p) \/ Hover(p)
           \/ \E lang \in Lang : ConfigurationChange(lang)
           \/ \E c \in DOMAIN calls : (MenuStep(c) /\ ~GotText(c)) \/ Serve(c)
  BY <1>4 DEF vars, Render, OpenMenu, Hover, ConfigurationChange, MenuStep, Serve, GotLang,
              GotSaved, GotError, HandleGetLang, HandleTranslate, HandleSetLang, Refuse
<1> QED
  BY <1>1, <1>2, <1>3, <1>4 DEF Next

\* What held of a call that a step left alone still holds.
LEMMA FactStays ==
    ASSUME IInv, [Next]_vars, ~Reload, NEW k \in Call, CallFact(k)
    PROVE  CallFact(k)'
BY EntriesStay DEF CallFact, Arrived, Call

\* What a step makes of its call.
LEMMA StepFact ==
    ASSUME IInv, [Next]_vars, ~Reload,
           NEW c \in DOMAIN calls, MenuStep(c) \/ Serve(c)
    PROVE  CallFact(calls[c])'
<1>t. TypeOK /\ CallInv
  BY DEF IInv
<1>k. PICK k \in Call : k = calls[c] /\ CallFact(k)
  BY <1>t, CallTypes DEF CallInv
<1>0. CallFact(k)'
  BY <1>k, FactStays
<1>1. CASE GotError(c) \/ GotSaved(c)
  <2>1. calls'[c] \in {[k EXCEPT !.at = "failed"], [k EXCEPT !.at = "done"]}
    BY <1>k, <1>1 DEF GotError, GotSaved
  <2>2. calls'[c].at = "done" => k.asked = "setLang" /\ k.at = "waiting"
    BY <1>k, <1>1 DEF GotError, GotSaved, Answered, Waiting, Call
  <2> QED
    BY <1>0, <2>1, <2>2 DEF CallFact, Arrived, Call
<1>2. CASE GotLang(c)
  <2>1. calls'[c] = [k EXCEPT !.asked = "translate", !.net = "sent"]
    BY <1>k, <1>2 DEF GotLang, Ask
  <2>2. k.kind = "toggle" /\ k.at = "waiting"
    BY <1>k, <1>2 DEF GotLang, Answered, Waiting, CallFact
  <2> QED
    BY <2>1, <2>2 DEF CallFact, Arrived, Call
<1>3. CASE GotText(c)
  <2> DEFINE text == [post |-> k.post, lang |-> k.lang]
  <2>1. k.lang \in Lang /\ k.post \in Post /\ k.at = "waiting" /\ k.asked = "translate"
    BY <1>k, <1>3 DEF GotText, Answered, Waiting, CallFact, Call
  <2>2. text \in seen' /\ entries'[k.post] = Translated(c)
    BY <1>t, <1>k, <1>3, <2>1 DEF GotText, TypeOK
  <2>3. entries'[k.post] # NoEntry
    BY <2>2 DEF NoEntry, Translated
  <2>4. calls'[c] = IF k.kind = "pick" THEN [k EXCEPT !.asked = "setLang", !.net = "sent"]
                                      ELSE [k EXCEPT !.at = "done"]
    BY <1>k, <1>3 DEF GotText, Ask
  <2>5. /\ calls'[c].post = k.post /\ calls'[c].lang = k.lang /\ calls'[c].kind = k.kind
        /\ calls'[c].asked = "setLang" => k.kind = "pick"
        /\ calls'[c].asked # "getLang"
    BY <2>1, <2>4 DEF Call
  <2> HIDE DEF text
  <2>6. [post |-> calls'[c].post, lang |-> calls'[c].lang] \in seen'
    BY <2>2, <2>5 DEF text
  <2> QED
    BY <2>1, <2>3, <2>5, <2>6 DEF CallFact
<1>4. CASE HandleGetLang(c)
  <2>1. Preference \in Lang
    BY <1>t DEF Preference, TypeOK
  <2>2. PICK net \in Success :
           calls'[c] = [k EXCEPT !.lang = IF net = "ok" THEN Preference ELSE NoLang, !.net = net]
    BY <1>k, <1>4 DEF HandleGetLang
  <2>3. /\ net = "ok" => calls'[c].lang \in Lang
        /\ calls'[c].asked = "getLang" /\ calls'[c].kind = "toggle" /\ calls'[c].net = net
        /\ calls'[c].post = k.post /\ calls'[c].at = k.at
    BY <1>k, <1>4, <2>1, <2>2 DEF HandleGetLang, Sent, CallFact, Call
  <2> QED
    BY <1>0, <2>2, <2>3 DEF CallFact, Arrived
<1>5. CASE HandleTranslate(c) \/ HandleSetLang(c)
  <2>1. PICK net \in {"ok", "unread", "error"} :
           /\ calls'[c] = [k EXCEPT !.net = net]
           /\ k.asked = "translate" /\ k.lang \notin Lang => net = "error"
    BY <1>k, <1>5 DEF HandleTranslate, HandleSetLang, Sent, Success
  <2>2. k.asked # "getLang"
    BY <1>k, <1>5 DEF HandleTranslate, HandleSetLang, Sent
  <2> QED
    BY <1>0, <2>1, <2>2 DEF CallFact, Arrived, Call
<1>6. CASE Refuse(c)
  <2>1. calls'[c] = [k EXCEPT !.net = "error"]
    BY <1>k, <1>6 DEF Refuse
  <2> QED
    BY <1>0, <2>1 DEF CallFact, Arrived, Call
<1> QED
  BY <1>1, <1>2, <1>3, <1>4, <1>5, <1>6 DEF MenuStep, Serve

\* The fact of a call depends on the entry of its post and on seen only.
LEMMA NextCallInv == IInv /\ [Next]_vars => CallInv'
<1> SUFFICES ASSUME IInv, [Next]_vars PROVE CallInv'
  OBVIOUS
<1>t. TypeOK /\ Captured /\ CallInv
  BY DEF IInv
<1>0. CASE Reload
  <2> SUFFICES ASSUME NEW d \in DOMAIN calls' PROVE CallFact(calls[d])'
    BY DEF CallInv
  <2>k. PICK k \in Call : k = calls[d] /\ CallFact(k) /\ calls'[d] = [k EXCEPT !.at = "gone"]
    BY <1>t, <1>0, GoneCalls, CallTypes DEF Reload, CallInv
  <2> QED
    BY <1>0, <2>k DEF Reload, CallFact, Arrived, Call
<1>1. ASSUME ~Reload, NEW d \in DOMAIN calls, calls'[d] = calls[d] PROVE CallFact(calls[d])'
  <2>k. PICK k \in Call : k = calls[d] /\ CallFact(k)
    BY <1>t, <1>1, CallTypes DEF CallInv
  <2>1. CallFact(k)'
    BY <1>1, <2>k, FactStays
  <2> QED
    BY <1>1, <2>k, <2>1 DEF CallFact
<1>2. CASE ~Reload /\ (Toggle \/ \E lang \in Lang : Pick(lang))
  <2>1. PICK k \in Call :
          /\ Added(k)
          /\ k.at = "waiting" /\ k.net = "sent" /\ k.asked \in {"getLang", "translate"}
          /\ k.asked = "getLang" => k.kind = "toggle"
          /\ k.asked # "getLang" => k.lang \in Lang
    BY <1>t, <1>2, ClickAdds
  <2> SUFFICES ASSUME NEW d \in DOMAIN calls' PROVE CallFact(calls[d])'
    BY DEF CallInv
  <2>2. CASE d \in DOMAIN calls /\ calls'[d] = calls[d]
    BY <1>1, <1>2, <2>2
  <2>3. CASE calls'[d] = k
    BY <2>1, <2>3 DEF CallFact, Arrived
  <2> QED
    BY <1>t, <2>1, <2>2, <2>3, AddedCall
<1>3. ASSUME ~Reload, NEW c \in DOMAIN calls, MenuStep(c) \/ Serve(c) PROVE CallInv'
  <2>1. PICK k \in Call : Changed(c, k)
    BY <1>t, <1>3, StepChanges
  <2>2. /\ DOMAIN calls' = DOMAIN calls
        /\ \A d \in DOMAIN calls' : d # c => calls'[d] = calls[d]
    BY <1>t, <1>3, <2>1, ChangedCall
  <2>3. CallFact(calls[c])'
    BY <1>3, StepFact
  <2> SUFFICES ASSUME NEW d \in DOMAIN calls' PROVE CallFact(calls[d])'
    BY DEF CallInv
  <2>4. CASE d = c
    BY <2>3, <2>4
  <2>5. CASE d # c
    BY <1>1, <1>3, <2>2, <2>5
  <2> QED
    BY <2>4, <2>5
<1>4. CASE ~Reload /\ Kept
  BY <1>1, <1>4 DEF Kept, CallInv
<1>5. CASE \/ UNCHANGED vars
           \/ \E p \in Post : Render(p) \/ OpenMenu(p) \/ Hover(p)
           \/ Flip
           \/ \E lang \in Lang : ConfigurationChange(lang)
  <2>1. Kept
    BY <1>5 DEF vars, Render, OpenMenu, Hover, Flip, ConfigurationChange, Kept
  <2> QED
    BY <1>0, <1>4, <2>1
<1> QED
  BY <1>0, <1>2, <1>3, <1>5 DEF Next

LEMMA NextInv == IInv /\ [Next]_vars => IInv'
BY NextType, NextCaptured, NextEntryFaithful, NextTextKnown, NextCallInv DEF IInv

LEMMA Invariance == Spec => []IInv
BY InitInv, NextInv, PTL DEF Spec

-----------------------------------------------------------------------------
(* Theorems.                                                                *)

\* Every variable of the page, the calls and the server keeps its type; a
\* preference that is read is a supported language (prefs.go:27-38).
THEOREM TypeCorrect == Spec => []TypeOK
BY Invariance, PTL DEF IInv

\* No answer lands on another post, for any number of posts, languages and
\* clicks in flight, with and without texts (post_menu.ts:33, 42).
THEOREM AnswersLand == Spec => []EntryFaithful
BY Invariance, PTL DEF IInv

\* Only a language that was picked and that the server has translated the post
\* into is remembered, because setLang is asked after the answer
\* (post_menu.ts:41-43).
THEOREM AnsweredRemembered == Spec => OnlyAnsweredRemembered
<1> DEFINE Remembered == pref' # pref =>
              \E c \in DOMAIN calls :
                  /\ calls[c].kind = "pick"
                  /\ pref' = calls[c].lang
                  /\ [post |-> calls[c].post, lang |-> calls[c].lang] \in seen
<1>1. IInv /\ [Next]_vars => [Remembered]_vars
  <2> SUFFICES ASSUME IInv, Next, pref' # pref PROVE Remembered
    BY DEF vars, prefVars
  <2>1. PICK c \in DOMAIN calls : HandleSetLang(c)
    BY ClickAdds DEF IInv, Next, MenuStep, Serve, Render, OpenMenu, Hover, Flip, Reload,
                     ConfigurationChange, GotLang, GotText, GotSaved, GotError, HandleGetLang,
                     HandleTranslate, Refuse, pageVars, prefVars
  <2> QED
    BY <2>1 DEF IInv, CallInv, CallFact, HandleSetLang, Sent
<1> QED
  BY <1>1, Invariance, PTL DEF Spec, OnlyAnsweredRemembered

\* A post whose translation has arrived is toggled without a call, for as long
\* as the page is there and no answer without a text has replaced it
\* (post_menu.ts:15-33).
THEOREM ToggledFromCache == Spec => TogglesCached
<1> DEFINE Cached == Toggle /\ open \notin unread => ~ \E c \in DOMAIN calls :
              /\ calls[c].post = open
              /\ calls[c].at = "done" \/ (calls[c].at = "waiting" /\ calls[c].asked = "setLang")
<1>1. IInv => [Cached]_vars
  <2> SUFFICES ASSUME IInv, Toggle, open \notin unread,
                      NEW c \in DOMAIN calls, calls[c].post = open, Arrived(calls[c])
               PROVE  FALSE
    BY DEF Arrived
  <2>1. open \in Post /\ entries[open].text = NoText
    BY DEF IInv, TypeOK, Toggle
  <2>2. entries[open] = NoEntry
    BY <2>1 DEF IInv, TextKnown
  <2> QED
    BY <2>2 DEF IInv, CallInv, CallFact
<1> QED
  BY <1>1, Invariance, PTL DEF Spec, TogglesCached

\* While Mattermost evaluates the filter of the sub-menu only for the menu that
\* the user opens, the captured post is the clicked one (post_menu.ts:84-102).
THEOREM ClickedTranslated == "hover" \notin Events => (Spec => []ClickedPostTranslated)
<1> SUFFICES ASSUME "hover" \notin Events PROVE Spec => []ClickedPostTranslated
  OBVIOUS
<1> DEFINE Own == (open # NoPost => current = open) /\ ClickedPostTranslated
<1>1. Init => Own
  BY DEF Init, ClickedPostTranslated
<1>2. IInv /\ Own /\ [Next]_vars => Own'
  <2> SUFFICES ASSUME IInv, Own, [Next]_vars PROVE Own'
    OBVIOUS
  <2>t. TypeOK /\ Captured
    BY DEF IInv
  <2>1. CASE Toggle \/ \E lang \in Lang : Pick(lang)
    <3>1. PICK k \in Call : Added(k) /\ k.clicked = open /\ k.post \in {open, current}
      BY <2>t, <2>1, ClickAdds
    <3>2. open # NoPost /\ open' = NoPost
      BY <2>1 DEF Toggle, Pick, NewCall
    <3> QED
      BY <2>t, <3>1, <3>2, AddedCall DEF ClickedPostTranslated
  <2>2. CASE Reload
    BY <2>t, <2>2, GoneCalls, CallTypes DEF Reload, ClickedPostTranslated, Call
  <2>3. ASSUME NEW c \in DOMAIN calls, MenuStep(c) \/ Serve(c) PROVE Own'
    <3>1. PICK k \in Call : Changed(c, k)
      BY <2>t, <2>3, StepChanges
    <3>2. calls'[c].post = calls[c].post /\ calls'[c].clicked = calls[c].clicked
      <4>k. calls[c] \in Call
        BY <2>t, CallTypes
      <4>1. CASE GotError(c) \/ GotSaved(c) \/ GotLang(c)
        BY <4>k, <4>1 DEF GotError, GotSaved, GotLang, Ask, Call
      <4>2. CASE GotText(c)
        BY <4>k, <4>2 DEF GotText, Ask, Call
      <4>3. CASE HandleGetLang(c)
        <5>1. PICK lang, net :
                calls' = [calls EXCEPT ![c] = [calls[c] EXCEPT !.lang = lang, !.net = net]]
          BY <4>3 DEF HandleGetLang
        <5> QED
          BY <4>k, <5>1 DEF Call
      <4>4. CASE HandleTranslate(c) \/ HandleSetLang(c) \/ Refuse(c)
        <5>1. PICK net : calls' = [calls EXCEPT ![c] = [calls[c] EXCEPT !.net = net]]
          BY <4>4 DEF HandleTranslate, HandleSetLang, Refuse
        <5> QED
          BY <4>k, <5>1 DEF Call
      <4> QED
        BY <2>3, <4>1, <4>2, <4>3, <4>4 DEF MenuStep, Serve
    <3>3. UNCHANGED <<open, current>>
      BY <2>3 DEF MenuStep, Serve, GotLang, GotText, GotSaved, GotError, HandleGetLang,
                  HandleTranslate, HandleSetLang, Refuse, pageVars
    <3>4. \A d \in DOMAIN calls' : d \in DOMAIN calls /\ (d # c => calls'[d] = calls[d])
      BY <2>t, <2>3, <3>1, ChangedCall
    <3> QED
      BY <3>2, <3>3, <3>4 DEF ClickedPostTranslated
  <2>4. CASE \/ UNCHANGED vars
             \/ \E p \in Post : Render(p) \/ OpenMenu(p) \/ Hover(p)
             \/ Flip
             \/ \E lang \in Lang : ConfigurationChange(lang)
    BY <2>4, MenuAssumption DEF vars, pageVars, Render, OpenMenu, Hover, Flip,
         ConfigurationChange, ClickedPostTranslated
  <2> QED
    BY <2>1, <2>2, <2>3, <2>4 DEF Next
<1>3. Own => ClickedPostTranslated
  OBVIOUS
<1> QED
  BY <1>1, <1>2, <1>3, Invariance, PTL DEF Spec
\* Nothing but Mattermost's evaluation of the filter for another post makes the
\* captured post differ from the one whose menu is open (post_menu.ts:84-104).
THEOREM DivertedByHover == Spec => OnlyHoverDiverts
<1>1. [Next]_vars => [~Diverted /\ Diverted' => \E p \in Post : Hover(p)]_vars
  <2> SUFFICES ASSUME Next, ~Diverted, Diverted' PROVE \E p \in Post : Hover(p)
    BY DEF vars
  <2> USE DEF Diverted
  <2>1. ~(Flip \/ Toggle \/ Reload \/ \E lang \in Lang : Pick(lang))
    BY DEF Flip, Toggle, Reload, Pick, NewCall
  <2>2. ~ \E p \in Post : Render(p) \/ OpenMenu(p)
    BY DEF Render, OpenMenu
  <2>3. ~ \E lang \in Lang : ConfigurationChange(lang)
    BY DEF ConfigurationChange, pageVars
  <2>4. ~ \E c \in DOMAIN calls : MenuStep(c) \/ Serve(c)
    BY DEF MenuStep, Serve, GotLang, GotText, GotSaved, GotError, HandleGetLang,
           HandleTranslate, HandleSetLang, Refuse, pageVars
  <2> QED
    BY <2>1, <2>2, <2>3, <2>4 DEF Next
<1> QED
  BY <1>1, PTL DEF Spec, OnlyHoverDiverts
=============================================================================
