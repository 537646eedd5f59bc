---------------------------- MODULE SessionProofs ----------------------------
(***************************************************************************)
(* PostMenu and TranslateControl implement Session, for any posts and      *)
(* languages, any number of calls in flight and any events.                *)
(*                                                                         *)
(* The argument: a call wants its translation from its click until it has  *)
(* shown it or failed, and calls are told apart by their place in the      *)
(* sequence.  Its language is undecided until the server has answered      *)
(* (Undecided), and whatever it persists was answered (CallInv, TaskInv).  *)
(* What the menu does to its own wishes it does to those of the page.      *)
(***************************************************************************)
EXTENDS TranslateControlProofs

Wants(c) == calls[c].at = "waiting" /\ calls[c].asked # "setLang"

\* A call that asked for the preference has no language before the answer.
Undecided ==
    \A c \in DOMAIN calls :
        calls[c].asked = "getLang" /\ calls[c].net # "ok" => calls[c].lang = NoLang

-----------------------------------------------------------------------------
(* The wishes of the menu.                                                  *)

LEMMA WishesKept ==
    ASSUME DOMAIN calls' = DOMAIN calls,
           \A d \in DOMAIN calls : Wants(d)' <=> Wants(d),
           \A d \in DOMAIN calls : Wants(d) => Wish(d)' = Wish(d)
    PROVE  Wishes' = Wishes /\ Clicks' = Clicks
  BY DEF Wishes, Wants, Clicks

LEMMA WishEnds ==
    ASSUME NEW c \in DOMAIN calls, Wants(c), ~Wants(c)',
           DOMAIN calls' = DOMAIN calls,
           \A d \in DOMAIN calls \ {c} : calls'[d] = calls[d]
    PROVE  Wish(c) \in Wishes /\ Wishes' = Wishes \ {Wish(c)} /\ Clicks' = Clicks
<1>1. \A d \in DOMAIN calls \ {c} : /\ Wants(d)' <=> Wants(d)
                                    /\ Wish(d)' = Wish(d)
                                    /\ Wish(d) # Wish(c)
  BY DEF Wants, Wish
<1>2. Wish(c) \in Wishes
  BY DEF Wishes, Wants
<1>3. Wishes' \subseteq Wishes \ {Wish(c)} /\ Wishes \ {Wish(c)} \subseteq Wishes'
  BY <1>1 DEF Wishes, Wants
<1> QED
  BY <1>2, <1>3 DEF Clicks

LEMMA WishChanges ==
    ASSUME NEW c \in DOMAIN calls, Wants(c), Wants(c)',
           DOMAIN calls' = DOMAIN calls,
           \A d \in DOMAIN calls \ {c} : calls'[d] = calls[d]
    PROVE  /\ Wish(c) \in Wishes
           /\ Wishes' = (Wishes \ {Wish(c)}) \cup {Wish(c)'}
           /\ Clicks' = Clicks
<1>1. \A d \in DOMAIN calls \ {c} : /\ Wants(d)' <=> Wants(d)
                                    /\ Wish(d)' = Wish(d)
                                    /\ Wish(d) # Wish(c)
  BY DEF Wants, Wish
<1>2. Wish(c) \in Wishes /\ Wish(c)' \in Wishes'
  BY DEF Wishes, Wants
<1>3. /\ Wishes' \subseteq (Wishes \ {Wish(c)}) \cup {Wish(c)'}
      /\ Wishes \ {Wish(c)} \subseteq Wishes'
  BY <1>1 DEF Wishes, Wants
<1> QED
  BY <1>2, <1>3 DEF Clicks

LEMMA WishAdded ==
    ASSUME TypeOK, NEW k \in Call, Added(k), k.at = "waiting", k.asked # "setLang"
    PROVE  \E c \in 1..MaxClicks :
              /\ <<"menu", c>> \notin Clicks
              /\ Clicks' = Clicks \cup {<<"menu", c>>}
              /\ Wishes' = Wishes \cup {[click |-> <<"menu", c>>, post |-> k.post, lang |-> k.lang]}
<1>c. PICK c : c = Len(calls) + 1
  OBVIOUS
<1>1. calls \in Seq(Call) /\ Len(calls) \in Nat /\ DOMAIN calls = 1..Len(calls)
  BY CallTypes DEF TypeOK
<1>2. c \in 1..MaxClicks /\ c \notin DOMAIN calls
  BY <1>c, <1>1, MenuAssumption DEF Added
<1>3. calls' \in Seq(Call) /\ Len(calls') = c
  BY <1>c, <1>1 DEF Added
<1>4. DOMAIN calls' = DOMAIN calls \cup {c}
  BY <1>c, <1>1, <1>3, LenProperties
<1>5. calls'[c] = k /\ \A d \in DOMAIN calls : calls'[d] = calls[d]
  BY <1>c, <1>1 DEF Added
<1>6. <<"menu", c>> \notin Clicks /\ Clicks' = Clicks \cup {<<"menu", c>>}
  BY <1>2, <1>4 DEF Clicks
<1>7. \A d \in DOMAIN calls : (Wants(d)' <=> Wants(d)) /\ Wish(d)' = Wish(d)
  BY <1>5 DEF Wants, Wish
<1>8. Wants(c)' /\ Wish(c)' = [click |-> <<"menu", c>>, post |-> k.post, lang |-> k.lang]
  BY <1>5 DEF Wants, Wish
<1>9. /\ Wishes' \subseteq Wishes \cup {Wish(c)'}
      /\ Wishes \subseteq Wishes' /\ Wish(c)' \in Wishes'
  BY <1>4, <1>7, <1>8 DEF Wishes, Wants
<1> QED
  BY <1>2, <1>6, <1>8, <1>9

-----------------------------------------------------------------------------
(* The language of a toggle is decided once.                                *)

\* A step of a call: which call, and what becomes of its wish.
LEMMA StepOfOne ==
    ASSUME TypeOK, NEW c \in DOMAIN calls, MenuStep(c) \/ Serve(c)
    PROVE  /\ DOMAIN calls' = DOMAIN calls
           /\ \A d \in DOMAIN calls \ {c} : calls'[d] = calls[d]
           /\ calls'[c] \in Call
<1>1. PICK k \in Call : Changed(c, k)
  BY StepChanges
<1> QED
  BY <1>1, ChangedCall

\* A click that asks for the preference is a toggle of an untranslated post.
LEMMA ClickAsks ==
    ASSUME TypeOK, Captured, Toggle \/ \E lang \in Lang : Pick(lang)
    PROVE  \E k \in Call :
              /\ Added(k) /\ k.at = "waiting"
              /\ \/ k.asked = "getLang" /\ k.lang = NoLang /\ entries[k.post] = NoEntry
                 \/ k.asked = "translate" /\ k.lang \in Lang
<1>1. CASE Toggle
  <2> DEFINE request == IF entries[open] = NoEntry THEN "getLang" ELSE "translate"
             k == [kind |-> "toggle", clicked |-> open, post |-> open,
                   lang |-> entries[open].lang, asked |-> request, net |-> "sent",
                   at |-> "waiting"]
  <2>1. open \in Post /\ entries[open] \in Entry \cup {NoEntry}
    BY <1>1 DEF Toggle, TypeOK
  <2>2. /\ entries[open] = NoEntry => entries[open].lang = NoLang
        /\ entries[open] # NoEntry => entries[open].lang \in Lang
    BY <2>1 DEF Entry, NoEntry
  <2>3. request \in {"getLang", "translate"} /\ entries[open].lang \in Lang \cup {NoLang}
    BY <2>2
  <2>4. k \in Call /\ Added(k)
    <3>1. Added(k)
      BY <1>1 DEF Toggle, NewCall, Added
    <3> HIDE DEF request
    <3>2. k \in Call
      BY <2>1, <2>3 DEF Call
    <3> QED
      BY <3>1, <3>2
  <2>5. \/ k.asked = "getLang" /\ k.lang = NoLang /\ entries[k.post] = NoEntry
        \/ k.asked = "translate" /\ k.lang \in Lang
    BY <2>2
  <2> QED
    BY <2>4, <2>5
<1>2. ASSUME NEW lang \in Lang, Pick(lang)
      PROVE  \E k \in Call : /\ Added(k) /\ k.at = "waiting"
                             /\ k.asked = "translate" /\ k.lang \in Lang
  <2> DEFINE k == [kind |-> "pick", clicked |-> open, post |-> current, lang |-> lang,
                   asked |-> "translate", net |-> "sent", at |-> "waiting"]
  <2>1. k \in Call /\ Added(k)
    BY <1>2 DEF Pick, NewCall, Added, Call, TypeOK, Captured
  <2> QED
    BY <2>1
<1> QED
  BY <1>1, <1>2

LEMMA NextUndecided == TypeOK /\ Captured /\ Undecided /\ [Next]_vars => Undecided'
<1> SUFFICES ASSUME TypeOK, Captured, Undecided, [Next]_vars PROVE Undecided'
  OBVIOUS
<1> USE DEF Undecided
<1>1. ASSUME NEW c \in DOMAIN calls, MenuStep(c) \/ Serve(c) PROVE Undecided'
  <2>1. /\ DOMAIN calls' = DOMAIN calls
        /\ \A d \in DOMAIN calls \ {c} : calls'[d] = calls[d]
    BY <1>1, StepOfOne
  <2>2. calls[c] \in Call
    BY CallTypes
  <2>3. calls'[c].asked = "getLang" /\ calls'[c].net # "ok" => calls'[c].lang = NoLang
    <3>1. CASE HandleTranslate(c)
      <4>1. PICK net \in {"ok", "unread", "error"} : calls'[c] = [calls[c] EXCEPT !.net = net]
        BY <3>1 DEF HandleTranslate, Success
      <4> QED
        BY <2>2, <3>1, <4>1 DEF HandleTranslate, Sent, Call
    <3>2. CASE HandleGetLang(c)
      <4>1. PICK net \in Success :
               calls'[c] = [calls[c] EXCEPT !.lang = IF net = "ok" THEN Preference ELSE NoLang,
                                            !.net = net]
        BY <3>2 DEF HandleGetLang
      <4> QED
        BY <2>2, <4>1 DEF Call
    <3>3. CASE GotText(c)
      BY <2>2, <3>3 DEF GotText, Answered, Waiting, Ask, Call
    <3> QED
      BY <1>1, <2>2, <3>1, <3>2, <3>3 DEF MenuStep, Serve, GotLang, GotSaved, GotError,
         HandleSetLang, Refuse, Sent, Answered, Waiting, Ask, Call
  <2> QED
    BY <2>1, <2>3
<1>2. CASE Toggle \/ \E lang \in Lang : Pick(lang)
  <2>1. PICK k \in Call : Added(k) /\ (k.asked = "getLang" => k.lang = NoLang)
    BY <1>2, ClickAsks
  <2> QED
    BY <2>1, AddedCall
<1>3. CASE Reload
  <2>1. \A d \in DOMAIN calls : calls[d] \in Call
    BY CallTypes
  <2> QED
    BY <1>3, <2>1, GoneCalls DEF Reload, Call
<1>4. CASE calls' = calls
  BY <1>4
<1>5. CASE \/ UNCHANGED vars
           \/ \E p \in Post : Render(p) \/ OpenMenu(p) \/ Hover(p)
           \/ Flip
           \/ \E lang \in Lang : ConfigurationChange(lang)
  BY <1>4, <1>5 DEF vars, Render, OpenMenu, Hover, Flip, ConfigurationChange
<1> QED
  BY <1>1, <1>2, <1>3, <1>5 DEF Next

LEMMA DecidedOnce == Spec => []Undecided
<1>1. Init => Undecided
  BY DEF Init, Undecided
<1> QED
  BY <1>1, NextUndecided, Invariance, PTL DEF Spec, IInv

-----------------------------------------------------------------------------
(* The steps of the menu.                                                   *)

\* What a click, an answer or an admin does to what the page owes.
LEMMA ClickMapped ==
    ASSUME IInv, Toggle \/ \E lang \in Lang : Pick(lang)
    PROVE  \E click \in {"menu"} \X (1..MaxClicks), p \in Post, lang \in Lang \cup {NoLang} :
              Menu!Want(click, p, lang)
<1>1. PICK k \in Call : /\ Added(k) /\ k.at = "waiting" /\ k.asked # "setLang"
                        /\ k.lang = NoLang => entries[k.post] = NoEntry
  BY ClickAsks, MenuAssumption DEF IInv
<1>2. PICK c \in 1..MaxClicks :
              /\ <<"menu", c>> \notin Clicks
              /\ Clicks' = Clicks \cup {<<"menu", c>>}
              /\ Wishes' = Wishes \cup {[click |-> <<"menu", c>>, post |-> k.post, lang |-> k.lang]}
  BY <1>1, WishAdded DEF IInv
<1>3. UNCHANGED <<entries, seen, pref, default>>
  BY DEF Toggle, Pick, NewCall, prefVars, history
<1>4. Menu!Want(<<"menu", c>>, k.post, k.lang)
  BY <1>1, <1>2, <1>3 DEF Menu!Want, Menu!Wish
<1>5. <<"menu", c>> \in {"menu"} \X (1..MaxClicks) /\ k.post \in Post /\ k.lang \in Lang \cup {NoLang}
  BY DEF Call
<1> QED
  BY <1>4, <1>5

LEMMA FlipMapped ==
    ASSUME IInv, Flip
    PROVE  \E p \in Post, showing \in {"original", "translated"} : Menu!Turn(p, showing)
<1>1. open \in Post /\ entries[open] # NoEntry
  BY FlipsEntry, EntryIsNotNone DEF IInv
<1>2. PICK showing \in {"original", "translated"} : entries' = [entries EXCEPT ![open].showing = showing]
  BY DEF Flip
<1>3. UNCHANGED <<seen, pref, default, calls>>
  BY DEF Flip, prefVars, history
<1>4. Clicks' = Clicks /\ Wishes' = Wishes
  BY <1>3 DEF Clicks, Wishes, Wish
<1>5. Menu!Turn(open, showing)
  BY <1>1, <1>2, <1>3, <1>4 DEF Menu!Turn
<1> QED
  BY <1>1, <1>5

LEMMA CallMapped ==
    ASSUME IInv, Undecided, NEW c \in DOMAIN calls, MenuStep(c) \/ Serve(c)
    PROVE  \/ \E w \in Wishes :
                 \/ Menu!Decide(w) \/ Menu!Drop(w)
                 \/ \E text \in {NoText, Menu!Translation(w.post, w.lang)} : Menu!Show(w, text)
           \/ \E t \in seen : Menu!Remember(t)
           \/ UNCHANGED Menu!sessionVars
<1>t. TypeOK /\ CallInv
  BY DEF IInv
<1>k. calls[c] \in Call /\ CallFact(calls[c])
  BY <1>t, CallTypes DEF CallInv
<1>o. /\ DOMAIN calls' = DOMAIN calls
      /\ \A d \in DOMAIN calls \ {c} : calls'[d] = calls[d]
      /\ calls'[c] \in Call
  BY <1>t, StepOfOne
<1>1. ASSUME UNCHANGED <<entries, seen, pref, default>>,
             Wants(c)' <=> Wants(c), Wants(c) => Wish(c)' = Wish(c)
      PROVE  UNCHANGED Menu!sessionVars
  <2>1. \A d \in DOMAIN calls : (Wants(d)' <=> Wants(d)) /\ (Wants(d) => Wish(d)' = Wish(d))
    BY <1>o, <1>1 DEF Wants, Wish
  <2> QED
    BY <1>o, <1>1, <2>1, WishesKept DEF Menu!sessionVars
<1>2. CASE GotError(c) \/ GotSaved(c)
  <2>1. UNCHANGED <<entries, seen, pref, default>> /\ ~Wants(c)'
    BY <1>k, <1>2 DEF GotError, GotSaved, Answered, Waiting, pageVars, prefVars, history,
                      Wants, Call
  <2>2. CASE Wants(c)
    <3>1. Wish(c) \in Wishes /\ Wishes' = Wishes \ {Wish(c)} /\ Clicks' = Clicks
      BY <1>o, <2>1, <2>2, WishEnds
    <3>2. Menu!Drop(Wish(c))
      BY <2>1, <3>1 DEF Menu!Drop
    <3> QED
      BY <3>1, <3>2
  <2> QED
    BY <1>1, <2>1, <2>2
<1>3. CASE GotLang(c)
  <2>1. calls'[c] = [calls[c] EXCEPT !.asked = "translate", !.net = "sent"]
    BY <1>3 DEF GotLang, Ask
  <2>2. /\ Wants(c) /\ Wants(c)' /\ Wish(c)' = Wish(c)
        /\ UNCHANGED <<entries, seen, pref, default>>
    BY <1>k, <1>3, <2>1 DEF GotLang, Answered, Waiting, Wants, Wish, Call, pageVars, prefVars,
                            history
  <2> QED
    BY <1>1, <2>2
<1>4. CASE GotText(c)
  <2>1. Wants(c) /\ calls[c].lang \in Lang
    BY <1>k, <1>4 DEF GotText, Answered, Waiting, Wants, CallFact
  <2>2. ~Wants(c)'
    BY <1>k, <1>4 DEF GotText, Answered, Waiting, Ask, Wants, Call
  <2>3. Wish(c) \in Wishes /\ Wishes' = Wishes \ {Wish(c)} /\ Clicks' = Clicks
    BY <1>o, <2>1, <2>2, WishEnds
  <2>4. Menu!Show(Wish(c), Translated(c).text)
    BY <1>4, <2>1, <2>3 DEF GotText, Translated, Wish, Menu!Show, Menu!Translation, prefVars
  <2>5. Translated(c).text \in {NoText, Menu!Translation(Wish(c).post, Wish(c).lang)}
    BY DEF Translated, Wish, Menu!Translation
  <2> QED
    BY <2>3, <2>4, <2>5
<1>5. CASE HandleGetLang(c)
  <2>0. PICK net \in Success :
           calls'[c] = [calls[c] EXCEPT !.lang = IF net = "ok" THEN Preference ELSE NoLang,
                                        !.net = net]
    BY <1>5 DEF HandleGetLang
  <2> DEFINE lang == IF net = "ok" THEN Preference ELSE NoLang
  <2>1. /\ calls[c].asked = "getLang" /\ calls[c].lang = NoLang
        /\ UNCHANGED <<entries, seen, pref, default>>
    BY <1>5 DEF HandleGetLang, Sent, Undecided, pageVars, prefVars, history
  <2>2. /\ Wants(c)' <=> Wants(c)
        /\ Wish(c)' = [click |-> <<"menu", c>>, post |-> calls[c].post, lang |-> lang]
    BY <1>k, <2>0 DEF Wants, Wish, Call
  <2>3. CASE Wants(c) /\ net = "ok"
    <3>1. /\ Wish(c) \in Wishes
          /\ Wishes' = (Wishes \ {Wish(c)}) \cup {Wish(c)'}
          /\ Clicks' = Clicks
      BY <1>o, <2>2, <2>3, WishChanges
    <3>2. Menu!Decide(Wish(c))
      BY <2>1, <2>2, <2>3, <3>1 DEF Menu!Decide, Menu!Wish, Menu!Preferred, Preference, Wish
    <3> QED
      BY <3>1, <3>2
  <2> QED
    BY <1>1, <2>1, <2>2, <2>3 DEF Wish
<1>6. CASE HandleTranslate(c) \/ Refuse(c)
  <2>1. /\ \E net \in {"ok", "unread", "error"} : calls'[c] = [calls[c] EXCEPT !.net = net]
        /\ UNCHANGED <<entries, seen, pref, default>>
    BY <1>6 DEF HandleTranslate, Refuse, Success, pageVars, prefVars, history
  <2>2. (Wants(c)' <=> Wants(c)) /\ Wish(c)' = Wish(c)
    BY <1>k, <2>1 DEF Wants, Wish, Call
  <2> QED
    BY <1>1, <2>1, <2>2
<1>7. CASE HandleSetLang(c)
  <2>1. /\ calls'[c] = [calls[c] EXCEPT !.net = "ok"] /\ calls[c].asked = "setLang"
        /\ pref' = calls[c].lang
        /\ UNCHANGED <<entries, seen, default>>
    BY <1>7 DEF HandleSetLang, Sent, pageVars, history
  <2>2. ~Wants(c) /\ ~Wants(c)'
    BY <1>k, <2>1 DEF Wants, Call
  <2>3. \A d \in DOMAIN calls : (Wants(d)' <=> Wants(d)) /\ (Wants(d) => Wish(d)' = Wish(d))
    BY <1>o, <2>2 DEF Wants, Wish
  <2>4. Wishes' = Wishes /\ Clicks' = Clicks
    BY <1>o, <2>3, WishesKept
  <2> DEFINE t == [post |-> calls[c].post, lang |-> calls[c].lang]
  <2>5. t \in seen /\ Menu!Remember(t)
    BY <1>k, <2>1, <2>4 DEF CallFact, Menu!Remember
  <2> QED
    BY <2>5
<1> QED
  BY <1>2, <1>3, <1>4, <1>5, <1>6, <1>7 DEF MenuStep, Serve

LEMMA ReloadForgets ==
    ASSUME TypeOK, Reload
    PROVE  /\ entries' = [p \in Post |-> NoEntry] /\ Wishes' = {} /\ Clicks' = Clicks
           /\ UNCHANGED <<seen, pref, default>>
<1>1. \A d \in DOMAIN calls' : calls'[d].at # "waiting"
  BY GoneCalls, CallTypes DEF Reload, Call
<1> QED
  BY <1>1, GoneCalls DEF Reload, Wishes, Clicks, prefVars

\* Nothing that a session knows of.
LEMMA IdleMapped ==
    ASSUME \/ \E p \in Post : Render(p) \/ OpenMenu(p) \/ Hover(p)
           \/ UNCHANGED vars
    PROVE  UNCHANGED <<entries, seen, pref, default, Clicks, Wishes>>
<1>1. UNCHANGED <<entries, seen, pref, default, calls>>
  BY DEF Render, OpenMenu, Hover, vars, prefVars, history
<1> QED
  BY <1>1 DEF Clicks, Wishes, Wish

LEMMA ConfigurationMapped ==
    ASSUME NEW lang \in Lang, ConfigurationChange(lang)
    PROVE  Menu!Configure(lang)
  BY DEF ConfigurationChange, Menu!Configure, pageVars, history, Clicks, Wishes, Wish

LEMMA MenuMapped ==
    IInv /\ Undecided /\ [Next]_vars => [Menu!Next]_(Menu!sessionVars)
<1> SUFFICES ASSUME IInv, Undecided, [Next]_vars
             PROVE  Menu!Next \/ UNCHANGED Menu!sessionVars
  OBVIOUS
<1>1. CASE Toggle \/ \E lang \in Lang : Pick(lang)
  BY <1>1, ClickMapped DEF Menu!Next
<1>2. CASE Flip
  BY <1>2, FlipMapped DEF Menu!Next
<1>3. ASSUME NEW c \in DOMAIN calls, MenuStep(c) \/ Serve(c)
      PROVE  Menu!Next \/ UNCHANGED Menu!sessionVars
  BY <1>3, CallMapped DEF Menu!Next
<1>4. CASE Reload
  BY <1>4, ReloadForgets DEF IInv, Menu!Next, Menu!Forget
<1>5. CASE \E lang \in Lang : ConfigurationChange(lang)
  BY <1>5, ConfigurationMapped DEF Menu!Next
<1>6. CASE \/ \E p \in Post : Render(p) \/ OpenMenu(p) \/ Hover(p)
           \/ UNCHANGED vars
  BY <1>6, IdleMapped DEF Menu!sessionVars
<1> QED
  BY <1>1, <1>2, <1>3, <1>4, <1>5, <1>6 DEF Next

LEMMA MenuInit == Init => Menu!Init
  BY DEF Init, Menu!Init, Clicks, Wishes

\* Every click has its translation shown at most once, on its post and in the
\* language that was picked or was preferred at one instant, and only what was
\* answered is remembered; an answer without a text shows nothing, under the
\* language of the click (post_menu.ts:14-44, client.ts:5).
THEOREM MenuServesClicks == Spec => ClicksServed
  BY Invariance, DecidedOnce, MenuInit, MenuMapped, PTL DEF Spec, ClicksServed, Menu!Spec

-----------------------------------------------------------------------------
(* The wishes of the controls.                                              *)

TaskWants(c) == tasks[c].at = "waiting"

LEMMA ControlWishesKept ==
    ASSUME DOMAIN tasks' = DOMAIN tasks,
           \A d \in DOMAIN tasks : TaskWants(d)' <=> TaskWants(d),
           \A d \in DOMAIN tasks : ControlWish(d)' = ControlWish(d)
    PROVE  ControlWishes' = ControlWishes /\ ControlClicks' = ControlClicks
  BY DEF ControlWishes, TaskWants, ControlClicks

LEMMA ControlWishEnds ==
    ASSUME NEW c \in DOMAIN tasks, TaskWants(c), ~TaskWants(c)',
           DOMAIN tasks' = DOMAIN tasks,
           \A d \in DOMAIN tasks \ {c} : tasks'[d] = tasks[d]
    PROVE  /\ ControlWish(c) \in ControlWishes
           /\ ControlWishes' = ControlWishes \ {ControlWish(c)}
           /\ ControlClicks' = ControlClicks
<1>1. \A d \in DOMAIN tasks \ {c} : /\ TaskWants(d)' <=> TaskWants(d)
                                    /\ ControlWish(d)' = ControlWish(d)
                                    /\ ControlWish(d) # ControlWish(c)
  BY DEF TaskWants, ControlWish
<1>2. ControlWish(c) \in ControlWishes
  BY DEF ControlWishes, TaskWants
<1>3. /\ ControlWishes' \subseteq ControlWishes \ {ControlWish(c)}
      /\ ControlWishes \ {ControlWish(c)} \subseteq ControlWishes'
  BY <1>1 DEF ControlWishes, TaskWants
<1> QED
  BY <1>2, <1>3 DEF ControlClicks

\* No wish of the menu is one of a control.
LEMMA WishesApart ==
    /\ \A n : <<"menu", n>> \notin ControlClicks /\ <<"control", n>> \notin Clicks
    /\ \A w \in Wishes : w \notin ControlWishes
    /\ \A w \in ControlWishes : w \notin Wishes
<1>1. \A m, n : <<"menu", m>> # <<"control", n>>
  OBVIOUS
<1> QED
  BY <1>1 DEF ControlClicks, Clicks, Wishes, ControlWishes, Wish, ControlWish

-----------------------------------------------------------------------------
(* The menu does to the page what it does to its own session.               *)

LEMMA MenuOnPage ==
    ASSUME IInv, Undecided, UNCHANGED <<fetched, ControlClicks, ControlWishes>>,
           \/ Flip \/ Toggle
           \/ \E lang \in Lang : Pick(lang) \/ ConfigurationChange(lang)
           \/ \E c \in DOMAIN calls : MenuStep(c) \/ Serve(c)
           \/ \E p \in Post : Render(p) \/ OpenMenu(p) \/ Hover(p)
    PROVE  Page!Next \/ UNCHANGED Page!sessionVars
<1> USE DEF Page!Next
<1>1. ASSUME NEW click \in {"menu"} \X (1..MaxClicks), NEW p \in Post,
             NEW lang \in Lang \cup {NoLang}, Menu!Want(click, p, lang)
      PROVE  Page!Next
  <2>1. click \notin ControlClicks /\ click \in {"menu", "control"} \X (1..(MaxClicks + MaxRequests))
    <3>1. PICK n \in 1..MaxClicks : click = <<"menu", n>>
      OBVIOUS
    <3>2. n \in 1..(MaxClicks + MaxRequests)
      BY MenuAssumption, ControlAssumption
    <3> QED
      BY <3>1, <3>2, WishesApart
  <2>2. Page!Want(click, p, lang)
    BY <1>1, <2>1 DEF Menu!Want, Page!Want, Menu!Wish, Page!Wish
  <2> QED
    BY <2>1, <2>2
<1>2. ASSUME NEW p \in Post, NEW showing \in {"original", "translated"}, Menu!Turn(p, showing)
      PROVE  Page!Next
  <2>1. Page!Turn(p, showing)
    BY <1>2 DEF Menu!Turn, Page!Turn
  <2> QED
    BY <2>1
<1>3. ASSUME NEW w \in Wishes,
             \/ Menu!Decide(w) \/ Menu!Drop(w)
             \/ \E text \in {NoText, Menu!Translation(w.post, w.lang)} : Menu!Show(w, text)
      PROVE  Page!Next
  <2>1. w \notin ControlWishes
    BY WishesApart
  <2>2. Menu!Decide(w) => Page!Decide(w)
    BY <2>1 DEF Menu!Decide, Page!Decide, Menu!Wish, Page!Wish, Menu!Preferred, Page!Preferred
  <2>3. /\ Menu!Translation(w.post, w.lang) = Page!Translation(w.post, w.lang)
        /\ \A text : Menu!Show(w, text) => Page!Show(w, text)
    BY <2>1 DEF Menu!Show, Page!Show, Menu!Translation, Page!Translation
  <2>4. Menu!Drop(w) => Page!Drop(w)
    BY <2>1 DEF Menu!Drop, Page!Drop
  <2> QED
    BY <1>3, <2>2, <2>3, <2>4
<1>4. ASSUME NEW t \in seen, Menu!Remember(t) PROVE Page!Next
  <2>1. Page!Remember(t)
    BY <1>4 DEF Menu!Remember, Page!Remember
  <2> QED
    BY <2>1
<1>5. ASSUME NEW lang \in Lang, Menu!Configure(lang) PROVE Page!Next
  <2>1. Page!Configure(lang)
    BY <1>5 DEF Menu!Configure, Page!Configure
  <2> QED
    BY <2>1
<1>6. CASE UNCHANGED Menu!sessionVars \/ UNCHANGED <<entries, seen, pref, default, Clicks, Wishes>>
  BY <1>6 DEF Menu!sessionVars, Page!sessionVars
<1>7. CASE Toggle \/ \E lang \in Lang : Pick(lang)
  BY <1>1, <1>7, ClickMapped
<1>8. CASE Flip
  BY <1>2, <1>8, FlipMapped
<1>9. ASSUME NEW c \in DOMAIN calls, MenuStep(c) \/ Serve(c)
      PROVE  Page!Next \/ UNCHANGED Page!sessionVars
  BY <1>3, <1>4, <1>6, <1>9, CallMapped, Zenon
<1>10. CASE \E lang \in Lang : ConfigurationChange(lang)
  BY <1>5, <1>10, ConfigurationMapped
<1>11. CASE \E p \in Post : Render(p) \/ OpenMenu(p) \/ Hover(p)
  BY <1>6, <1>11, IdleMapped
<1> QED
  BY <1>7, <1>8, <1>9, <1>10, <1>11, Zenon

-----------------------------------------------------------------------------
(* The steps of the controls.                                               *)

LEMMA FetchOnPage ==
    ASSUME PageInv, NEW p \in Post, NEW lang \in Lang, Fetch(p, lang)
    PROVE  Page!Next
<1>t. TypeOK /\ ControlTypeOK
  BY DEF PageInv, IInv
<1>c. PICK c : c = Len(tasks) + 1
  OBVIOUS
<1> DEFINE k == [post |-> p, lang |-> lang, asked |-> "translate", net |-> "sent",
                 read |-> FALSE, at |-> "waiting", attached |-> TRUE]
<1>1. /\ tasks \in Seq(Task) /\ Len(tasks) \in Nat /\ DOMAIN tasks = 1..Len(tasks)
      /\ Len(calls) \in Nat
  BY <1>t, TaskTypes, CallTypes DEF ControlTypeOK
<1>2. c \in 1..(MaxClicks + MaxRequests) /\ c \notin DOMAIN tasks
  BY <1>c, <1>1, MenuAssumption, ControlAssumption DEF Fetch, Room
<1>3. k \in Task /\ tasks' = Append(tasks, k)
  BY DEF Fetch, Task
<1>4. tasks' \in Seq(Task) /\ Len(tasks') = c
  BY <1>c, <1>1, <1>3
<1>5. DOMAIN tasks' = DOMAIN tasks \cup {c}
  BY <1>c, <1>1, <1>4, LenProperties
<1>6. tasks'[c] = k /\ \A d \in DOMAIN tasks : tasks'[d] = tasks[d]
  BY <1>c, <1>1, <1>3
<1>7. ControlClicks' = ControlClicks \cup {<<"control", c>>} /\ <<"control", c>> \notin ControlClicks
  BY <1>2, <1>5 DEF ControlClicks
<1>8. TaskWants(c)' /\ ControlWish(c)' = Page!Wish(<<"control", c>>, p, lang)
  BY <1>6 DEF TaskWants, ControlWish, Page!Wish
<1>9. \A d \in DOMAIN tasks : (TaskWants(d)' <=> TaskWants(d)) /\ ControlWish(d)' = ControlWish(d)
  BY <1>6 DEF TaskWants, ControlWish
<1>10. ControlWishes' = ControlWishes \cup {Page!Wish(<<"control", c>>, p, lang)}
  <2>1. /\ ControlWishes' \subseteq ControlWishes \cup {ControlWish(c)'}
        /\ ControlWishes \subseteq ControlWishes' /\ ControlWish(c)' \in ControlWishes'
    BY <1>5, <1>8, <1>9 DEF ControlWishes, TaskWants
  <2> QED
    BY <1>8, <2>1
<1>11. UNCHANGED <<entries, seen, fetched, pref, default, Clicks, Wishes>>
  BY DEF Fetch, vars, prefVars, history, Clicks, Wishes, Wish
<1>12. Page!Want(<<"control", c>>, p, lang)
  BY <1>7, <1>10, <1>11, WishesApart, MenuAssumption DEF Page!Want
<1> QED
  BY <1>2, <1>12 DEF Page!Next

LEMMA TurnOnPage ==
    ASSUME NEW p \in Post, NEW showing \in {"original", "translated"}, entries[p] # NoEntry,
           entries' = [entries EXCEPT ![p].showing = showing],
           UNCHANGED <<calls, prefVars, history, tasks, fetched>>
    PROVE  Page!Next
<1>1. UNCHANGED <<Clicks, Wishes, ControlClicks, ControlWishes>>
  BY DEF Clicks, Wishes, Wish, ControlClicks, ControlWishes, ControlWish
<1>2. Page!Turn(p, showing)
  BY <1>1 DEF Page!Turn, prefVars, history
<1> QED
  BY <1>2 DEF Page!Next

LEMMA TaskOnPage ==
    ASSUME PageInv, NEW c \in DOMAIN tasks, ControlStep(c) \/ ServeControl(c)
    PROVE  Page!Next \/ UNCHANGED Page!sessionVars
<1> USE DEF Page!Next
<1>k. tasks[c] \in Task
  BY TaskTypes DEF PageInv
<1>m. PICK k \in Task : Moves(c, k)
  BY TaskMoves DEF PageInv
<1>o. /\ DOMAIN tasks' = DOMAIN tasks
      /\ \A d \in DOMAIN tasks \ {c} : tasks'[d] = tasks[d]
      /\ ControlWish(c)' = ControlWish(c)
  BY <1>m, ChangedTask DEF PageInv, Moves, ControlWish
<1>w. calls' = calls /\ Clicks' = Clicks /\ Wishes' = Wishes
  <2>1. calls' = calls
    BY DEF ControlStep, GotFetched, ShowFetched, Fail, ServeControl, vars
  <2> QED
    BY <2>1 DEF Clicks, Wishes, Wish
<1>1. ASSUME TaskWants(c)' <=> TaskWants(c)
      PROVE  ControlWishes' = ControlWishes /\ ControlClicks' = ControlClicks
  <2>1. \A d \in DOMAIN tasks : /\ TaskWants(d)' <=> TaskWants(d)
                                /\ ControlWish(d)' = ControlWish(d)
    BY <1>o, <1>1 DEF TaskWants, ControlWish
  <2> QED
    BY <1>o, <2>1, ControlWishesKept
<1>2. CASE GotFetched(c)
  <2>1. TaskWants(c) /\ TaskWants(c)'
    BY <1>k, <1>2 DEF GotFetched, Tasks!Answered, Tasks!Waiting, Tasks!Ask, TaskWants, Task
  <2>2. ControlWishes' = ControlWishes /\ ControlClicks' = ControlClicks
    BY <1>1, <2>1
  <2>3. UNCHANGED <<entries, seen, pref, default>>
    BY <1>2 DEF GotFetched, vars, prefVars, history
  <2>4. Page!Arrive(ControlWish(c))
    BY <1>k, <1>w, <1>2, <2>2, <2>3 DEF GotFetched, Page!Arrive, Page!Translation, ControlWish, Task
  <2> QED
    BY <2>1, <2>4 DEF ControlWishes, TaskWants
<1>3. CASE ShowFetched(c) \/ Fail(c)
  <2>1. TaskWants(c) /\ ~TaskWants(c)'
    BY <1>k, <1>3 DEF ShowFetched, Fail, Tasks!Answered, Tasks!Waiting, TaskWants, Task
  <2>2. /\ ControlWish(c) \in ControlWishes
        /\ ControlWishes' = ControlWishes \ {ControlWish(c)}
        /\ ControlClicks' = ControlClicks
    BY <1>o, <2>1, ControlWishEnds
  <2>3. ControlWish(c) \notin Wishes
    BY <2>2, WishesApart
  <2>4. CASE ShowFetched(c)
    <3>1. UNCHANGED <<pref, default, fetched>>
      BY <2>4 DEF ShowFetched, prefVars
    <3>2. Page!Show(ControlWish(c), Fetched(c).text)
      BY <1>k, <1>w, <2>2, <2>3, <2>4, <3>1
         DEF ShowFetched, Fetched, Page!Show, Page!Translation, ControlWish, Task
    <3>3. Fetched(c).text \in
             {NoText, Page!Translation(ControlWish(c).post, ControlWish(c).lang)}
      BY DEF Fetched, ControlWish, Page!Translation
    <3> QED
      BY <2>2, <3>2, <3>3
  <2>5. CASE Fail(c)
    <3>1. UNCHANGED <<entries, seen, pref, default, fetched>>
      BY <2>5 DEF Fail, vars, prefVars, history
    <3>2. Page!Drop(ControlWish(c))
      BY <1>w, <2>2, <2>3, <3>1 DEF Page!Drop
    <3> QED
      BY <2>2, <3>2
  <2> QED
    BY <1>3, <2>4, <2>5
<1>4. CASE ServeControl(c)
  <2>1. /\ \E net \in {"ok", "unread", "error"} : tasks'[c] = [tasks[c] EXCEPT !.net = net]
        /\ UNCHANGED <<entries, seen, default, fetched>>
        /\ \/ pref' = pref
           \/ pref' = tasks[c].lang /\ tasks[c].asked = "setLang"
    BY <1>4 DEF ServeControl, Tasks!HandleTranslate, Tasks!HandleSetLang, Tasks!Refuse,
                Tasks!Success, Tasks!Sent, Tasks!pageVars, Tasks!prefVars, Tasks!history
  <2>2. TaskWants(c)' <=> TaskWants(c)
    BY <1>k, <2>1 DEF TaskWants, Task
  <2>3. ControlWishes' = ControlWishes /\ ControlClicks' = ControlClicks
    BY <1>1, <2>2
  <2>4. CASE pref' = pref
    BY <1>w, <2>1, <2>3, <2>4 DEF Page!sessionVars
  <2>5. CASE pref' = tasks[c].lang /\ tasks[c].asked = "setLang"
    <3> DEFINE t == [post |-> tasks[c].post, lang |-> tasks[c].lang]
    <3>1. t \in fetched
      BY <2>5 DEF PageInv, TaskInv
    <3>2. Page!Remember(t)
      BY <1>w, <2>1, <2>3, <2>5 DEF Page!Remember
    <3> QED
      BY <3>1, <3>2
  <2> QED
    BY <2>1, <2>4, <2>5
<1> QED
  BY <1>2, <1>3, <1>4 DEF ControlStep

LEMMA ReloadOnPage ==
    ASSUME PageInv, ReloadPage
    PROVE  Page!Next
<1>1. /\ entries' = [p \in Post |-> NoEntry] /\ Wishes' = {} /\ Clicks' = Clicks
      /\ UNCHANGED <<seen, pref, default, fetched>>
  BY ReloadForgets DEF PageInv, IInv, ReloadPage
<1>2. DOMAIN tasks' = DOMAIN tasks /\ \A d \in DOMAIN tasks' : ~TaskWants(d)'
  BY GoneTasks, MarkedTasks, TaskTypes DEF PageInv, TaskWants, Task
<1>3. ControlWishes' = {} /\ ControlClicks' = ControlClicks
  BY <1>2 DEF ControlWishes, TaskWants, ControlClicks
<1>4. Page!Forget
  BY <1>1, <1>3 DEF Page!Forget
<1> QED
  BY <1>4 DEF Page!Next

LEMMA PageMapped ==
    PageInv /\ Undecided /\ [ControlNext]_allVars => [Page!Next]_(Page!sessionVars)
<1> SUFFICES ASSUME PageInv, Undecided, [ControlNext]_allVars
             PROVE  Page!Next \/ UNCHANGED Page!sessionVars
  OBVIOUS
<1>1. ASSUME NEW p \in Post, Unmount(p) PROVE UNCHANGED Page!sessionVars
  <2>1. /\ DOMAIN tasks' = DOMAIN tasks
        /\ \A d \in DOMAIN tasks : tasks'[d] = [tasks[d] EXCEPT !.attached = tasks'[d].attached]
    BY <1>1, DetachedTasks, MarkedTasks DEF PageInv
  <2>2. \A d \in DOMAIN tasks : /\ TaskWants(d)' <=> TaskWants(d)
                                /\ ControlWish(d)' = ControlWish(d)
    BY <2>1, TaskTypes DEF PageInv, TaskWants, ControlWish, Task
  <2>3. ControlWishes' = ControlWishes /\ ControlClicks' = ControlClicks
    BY <2>1, <2>2, ControlWishesKept
  <2>4. UNCHANGED <<vars, fetched>>
    BY <1>1 DEF Unmount
  <2> QED
    BY <2>3, <2>4, IdleMapped DEF Page!sessionVars
<1>2. CASE UNCHANGED <<vars, tasks, fetched>>
  BY <1>2, IdleMapped DEF Page!sessionVars, ControlClicks, ControlWishes, ControlWish
<1>3. ASSUME NEW p \in Post, FlipBack(p) PROVE Page!Next
  <2>1. \E showing \in {"original", "translated"} :
           entries' = [entries EXCEPT ![p].showing = showing]
    BY <1>3 DEF FlipBack
  <2> QED
    BY <1>3, <2>1, TurnOnPage DEF FlipBack
<1>4. ASSUME NEW p \in Post, TranslateClicked(p) \/ \E lang \in Lang : PickLang(p, lang)
      PROVE  Page!Next
  <2>1. PICK lang \in Lang : ShowCached(p, lang) \/ Fetch(p, lang)
    BY <1>4, ClickTranslates DEF PageInv
  <2>2. CASE ShowCached(p, lang)
    <3>1. entries[p] # NoEntry
      BY <2>2, MenuAssumption DEF ShowCached, NoEntry
    <3> QED
      BY <2>2, <3>1, TurnOnPage DEF ShowCached
  <2> QED
    BY <2>1, <2>2, FetchOnPage
<1>5. ASSUME NEW c \in DOMAIN tasks, ControlStep(c) \/ ServeControl(c)
      PROVE  Page!Next \/ UNCHANGED Page!sessionVars
  BY <1>5, TaskOnPage
<1>6. CASE MenuSets \/ MenuSetsNothing
  <2>1. UNCHANGED <<fetched, ControlClicks, ControlWishes>>
    BY <1>6 DEF MenuSets, MenuSetsNothing, controlVars, ControlClicks, ControlWishes, ControlWish
  <2> QED
    BY <1>6, <2>1, MenuOnPage, Zenon DEF PageInv, MenuSets, MenuSetsNothing, MenuStep
<1>7. CASE ReloadPage
  BY <1>7, ReloadOnPage
<1>8. \/ \E p \in Post : \/ Unmount(p) \/ FlipBack(p) \/ TranslateClicked(p)
                         \/ \E lang \in Lang : PickLang(p, lang)
      \/ \E c \in DOMAIN tasks : ControlStep(c) \/ ServeControl(c)
      \/ MenuSets \/ MenuSetsNothing \/ ReloadPage
      \/ UNCHANGED <<vars, tasks, fetched>>
  BY Zenon DEF ControlNext, Mount, Subscribe, Draw, allVars, controlVars
<1> QED
  BY <1>1, <1>2, <1>3, <1>4, <1>5, <1>6, <1>7, <1>8

LEMMA PageInit == ControlInit => Page!Init
  BY DEF ControlInit, Init, Page!Init, Clicks, Wishes, ControlClicks, ControlWishes

\* The controls leave the calls of the menu alone.
LEMMA PageDecidedOnce == ControlSpec => []Undecided
<1>1. ControlInit => Undecided
  BY DEF ControlInit, Init, Undecided
<1>2. PageInv /\ Undecided /\ [ControlNext]_allVars => Undecided'
  <2> SUFFICES ASSUME PageInv, Undecided, [ControlNext]_allVars PROVE Undecided'
    OBVIOUS
  <2>1. CASE [Next]_vars
    BY <2>1, NextUndecided DEF PageInv, IInv
  <2>2. CASE EntriesSet
    BY <2>2 DEF EntriesSet, Undecided
  <2> QED
    BY <2>1, <2>2, PageSteps DEF PageInv
<1> QED
  BY <1>1, <1>2, PageInvariance, PTL DEF ControlSpec

\* Menu and controls together keep the promise that the menu makes by itself:
\* each click has its translation shown at most once, on its post and in its
\* language, and only what has arrived is remembered
\* (translate_control.tsx:22-46, post_menu.ts:14-44).
THEOREM PageServesClicks == ControlSpec => PageServed
  BY PageInvariance, PageDecidedOnce, PageInit, PageMapped, PTL
     DEF ControlSpec, PageServed, Page!Spec
=============================================================================
