# Verification of AI Translate

TLA+ specifications of the Mattermost plugin *AI Translate*: a server plugin (Go, possibly on
several nodes of a cluster) that translates posts through one shared Codex (ChatGPT) account, and
a web app (TypeScript) that offers the translation in the menu of a post. The specifications are
model-checked with TLC on small instances, and their safety properties are proved with TLAPS for
every instance.

    tlc -workers 2 -config auth_safety.cfg MCCodexAuth.tla
    tlapm CodexAuthProofs.tla

## 1. The system

| Part | Source | State | Operations |
|---|---|---|---|
| Codex credential | `server/codexauth` | the KV record `codex_oauth_tokens` (access token, single-use refresh token); shared by all nodes | `AccessToken` (read, lock, re-read, refresh, save), `refreshTokens`, `Store.Load/Save/Clear`, `BeginDeviceLogin`, `PollDeviceLogin`, `exchangeCode` |
| Cluster mutex | `server/clusterlock.go` | KV key `codex_oauth_refresh` | `Lock(ctx)`, `Unlock` |
| Credential administration | `server/codexadmin.go` | one polling goroutine per login, 15 minute deadline | `Login`, `Status`, `Logout` |
| Slash command | `server/command` | none | `login`, `logout` (system admins), `status` |
| HTTP API | `server/api.go` | none | `translate`, `prefs/lang` GET and PUT, `auth/status` |
| Translation client | `server/translate` | none | `Translate`: token, call to Codex, text of the answer, error classes |
| Language preferences | `server/prefs.go` | KV record per user | `Get` with fallback, `Set` |
| Configuration | `server/configuration.go` | pointer under a RW lock | `OnConfigurationChange`, `model`, `defaultLanguage` |
| Plugin lifecycle | `server/plugin.go`, `job.go` | wiring; an empty hourly job | `OnActivate`, `OnDeactivate` |
| Post menu | `webapp/src/post_menu.ts` | `currentPostId`, shared by all sub-menu entries | `toggleTranslate`, `translatePostTo`, the filter that captures the post |
| Translation state | `webapp/src/translation_state.ts` | `entries`: per post the language, the text, original or translated | `get`, `set`, `toggle`, `displayText`, `subscribe` |
| API client | `webapp/src/client.ts` | none | `translate`, `getLang`, `setLang` |
| Inline control | `webapp/src/components/translate_control.tsx` | React state per mounted control (`lang`, `busy`), a subscription to the translation state | render, effect, unmount; `onMainClick`, `doTranslate`; registered by nothing in this version |
| Developer tools | `build/pluginctl`, `build/manifest` | none | deploy, enable, `watchLogs` |

How they interact. A click in the post menu makes a chain of HTTP calls (`getLang`, `translate`,
`setLang`), each awaited. `handleTranslate` checks the request, reads the post, and calls the
translation client, which first asks the credential for an access token. Every request on every
node reads the same record; one whose token is about to expire takes the cluster mutex, reads the
record again, and exchanges the refresh token for new tokens. The provider honours a refresh token
once, so this is the critical part of the server. Admins log in and out concurrently, and neither
takes the mutex. Nothing is pushed to the web app; errors come back as messages and are logged
to the console.

What is hard. On the server: concurrent refreshes, reads that are stale once the mutex is held,
answers that are lost after the endpoint rotated the token, saves that fail, nodes that die with
the mutex, logins and logouts in between. In the web app: clicks that overlap their own awaits,
answers in any order, answers that are cut off before their body and taken for a success, a
captured post that is overwritten, two components that set the same entries, a subscription that
starts after the first render. PROJECT.json lists each hazard at its line with the properties that
cover it.

What makes each part correct:

* credential: a refresh token is presented once, a rotation is stored, no interleaving loses the
  credential, errors are classified as they should be, every call returns, the mutex is released;
* administration: a login ends once the provider does, a finished login connects, a logout is final;
* post menu: an answer lands on the post it was asked for, the latest click wins, a cached
  translation is not fetched again, only a language that was picked and answered is remembered;
* inline control: its label is disabled only while a call is under way, it shows the state of the
  page, and what it has fetched is shown;
* API and translation client: every request is answered, and the message is the one that belongs to
  the error.

## 2. Modules

| Module | What it is |
|---|---|
| `CodexAuth` | the credential, its refresh under the mutex, login and logout, with the provider's token endpoint |
| `MCCodexAuth` | symmetry for its runs |
| `CodexAuthProofs` | theorems about `CodexAuth` |
| `Credential` | what the credential promises, without mutex, calls and answers |
| `CredentialProofs` | `CodexAuth` implements `Credential` |
| `TokenService` | what a caller of `AccessToken` is promised: a call takes effect at one instant |
| `TokenServiceProofs` | `CodexAuth` implements `TokenService` |
| `Translate` | `handleTranslate` and the Codex client on top of `CodexAuth` |
| `MCTranslate` | the module of its runs |
| `TranslateProofs` | theorems about `Translate` |
| `PostMenu` | the web app of one user, and the server's handlers as the web app meets them |
| `MCPostMenu` | symmetry for its runs |
| `PostMenuProofs` | theorems about `PostMenu` |
| `TranslateControl` | the inline controls on the page of `PostMenu` |
| `MCTranslateControl` | the initial states of its runs |
| `TranslateControlProofs` | theorems about `TranslateControl` |
| `Session` | what the web app promises a user, without menus, requests and rendering |
| `SessionProofs` | `PostMenu` and `TranslateControl` implement `Session` |

### CodexAuth

One `Request` is one call of `AccessToken`; `pc` says where it is:

| `pc` | code (`auth.go`) | actions that leave it |
|---|---|---|
| `load` | first `Load`, 56-65 | `Load` |
| `lock` | `Lock(ctx)`, 67-70 | `Lock`, `LockFails` |
| `reload` | re-read, 73-83 | `Reload` |
| `send` | about to call, 85 | `SendRefresh` |
| `call` | in `refreshTokens`, 85-88 | `ReceiveAnswer`, `AbandonCall` |
| `save` | `Save`, 89-91 | `SaveRefreshed` |
| `unlock` | deferred `Unlock`, 71 | `Unlock` |

`held` is the local `tokens`, `wire` and `payload` are the HTTP call and its answer, `res` is the
outcome. A call that is abandoned leaves `wire` as it is, so the endpoint may still act on it:
that is how an answer gets lost after the rotation. `ErrorOf` is the classification of
`refreshTokens`: 429 is a quota error, the OAuth error codes and 401/403 mean relogin, a success
without an access token means relogin, the rest is upstream. A rotated token that is missing from
the answer leaves the old one in force (`Renewed`, refresh.go:83-86).

One `Login` is one device-code login: `start` (the command's call of `BeginDeviceLogin`), `poll`,
`exchange`, `save`, then `done` or `failed`. In `start`, `poll` and `exchange` one call is out, and
the step that leaves is its answer. `PollDeviceLogin` is an answered poll: the loop polls again if
the deadline has not passed by then, exchanges the code, or ends. The deadline is looked at between
polls only (codexadmin.go:25), and the calls have neither a timeout nor a context that ends
(command.go:77, devicecode.go:89, 140). `LoginFails`, the fault `login`, joins the failures around
it: a connection breaks, `Save` fails, the node dies with the goroutine. `Logout` deletes the
record at any time. `kv` is the record; a missing record and one without a refresh token are the
same to `Load`, and a missing record is modelled as empty tokens. `Calm` says that requests do not
fail, die or end and the provider withdraws nothing, whatever becomes of logins.

Tokens are numbers in the order of issue; 0 is the empty string. `live` and `revoked` are the
provider's books, `fresh` the access tokens that are not within five minutes of their expiry.
Only the stored access token's expiry matters, so only that one expires (`Expire`).

External, modelled by what the code relies on: the token endpoint (`Endpoint`: it rotates, or
answers without a rotation, or with an error; it denies a token only if it does not honour it),
the cluster mutex (held by one at a time; its key expires when the holder is gone or could not
delete it), the KV store (a call may fail), the death of a node (`Crash`).

Three things are assumed or allowed here that the properties depend on. The endpoint does not
rotate when it answers without an access token. It denies (`denied`) only a token it does not
honour, although refresh.go:64-69 takes any 403 and any `invalid_request` for a denial:
`ReloginJustified` and `NobodyDenied` are about an endpoint that uses them so. And a login that
saves while a request refreshes has its newer grant overwritten by that request's `Save`
(auth.go:89-91): the code does that, and `StoredTokenAccounted`, `RecordStableUnderLock` and
`CredentialImplemented` allow it, since what is stored is still a usable credential.

### Credential

`Credential` is the contract that the rest of the plugin relies on. There is one record; renewals
of it happen one at a time (`Begin`, `Renew`, `Store` or `GiveUp`); each presents the refresh token
of the record that was stored when it began, once; what the endpoint issued for it is stored as
issued or dropped. Beside that, a call that was given up may still reach the endpoint (`Stray`),
admins store and delete the record (`Grant`, `Connect`, `Clear`), and the provider may withdraw a
token. It has no mutex, no requests, no answers and no outcomes.

`CodexAuth` implements it (`CredentialImplemented`) under the mapping

| `Credential` | `CodexAuth` |
|---|---|
| `record`, `issued`, `live`, `revoked` | `kv` and the variables of the same names |
| `base` | `held` of the holder of the mutex while it refreshes |
| `pending` | what that holder would save, once it has been answered with tokens |
| `strays` | refresh tokens of calls that nobody waits for any more |
| `granted` | tokens of logins about to be saved |

So two requests that refresh at once, a request that refreshes a record it read before it had the
mutex, a second call with the same token, or a `Save` of anything but the endpoint's answer is a
step that `Credential` does not have. `Begin` maps to `Reload` going on to `send`; `Lock`, `Load`,
`SendRefresh`, errors and expiry are stutters.

### TokenService

`Credential` says what happens to the record, and nothing of what a call returns. `TokenService`
adds that: `answer` is what each call is given, and a call gets it in one step, together with
whatever it does to the record. `Use` gives the stored access token, which must be fresh;
`RenewAndUse` stores a renewal and gives its access token; `NotConfigured` needs an empty record;
`Fail` gives an error. `BeginRenewal` is `Begin` of `Credential`, allowed only when the stored token
is about to expire.

`CodexAuth` implements it (`CallsAtomic`) under the mapping of `Credential` and `Results`, the
outcome of a request and the token it comes with. The instants are

| `TokenService` | `CodexAuth` |
|---|---|
| `Use` | the `Load` or `Reload` that finds a fresh token |
| `NotConfigured` | the `Load` or `Reload` that finds no record |
| `BeginRenewal` | the `Reload` that finds a token about to expire |
| `RenewAndUse` | the `SaveRefreshed` that succeeds |
| `Fail` | the step in which a call fails or its context ends |

So a call that has waited for the mutex and returns the token of its first read is a step that
`TokenService` does not have (the mutant `UseOldToken`): a logout may have deleted that token
meanwhile. A failed `Save` maps to `Fail`, and never gives out the token that was lost.

### Translate

`Translate` extends `CodexAuth`: its requests are HTTP requests for a translation, and the call of
`AccessToken` that each makes is the request of `CodexAuth`, step by step. `at` says where a
request is:

| `at` | code | actions that leave it |
|---|---|---|
| `check` | the middleware and `handleTranslate`, api.go:93-102 and 41-62 | `Refuse`, `Admit` |
| `token` | `AccessToken`, client.go:43-46 | `AccessTokenFails`, `CallCodex` (and `AccessToken` and `AccessTokenCut`, which stay) |
| `codex` | the call of Codex, client.go:76 | `CodexAnswers` |

`ServeStep` is what the plugin does by itself for a request; `HandlerStep` adds what others decide:
that its context ends or its connection breaks in `AccessToken` (`AccessTokenCut`), and what Codex
answers. What may be wrong with a request (`defects`) is chosen once, and the first check that
fails, in the order of the code, answers it. The Codex client looks at the language once more
before `AccessToken` (client.go:43-46), which is a guard of `AccessToken` here: it asks the same
table as the handler, so that it never fails. `answer` is a translation, a refusal or one of the
four messages of `UserMessage`; `HandlerTypeOK` thereby says that every error that `AccessToken`
returns has a message of its own class. Statuses add nothing: 503 goes with the first three
messages, 502 with the fourth. `void` are the access tokens that Codex does not accept
(`TokenEnds`): one that has expired between `AccessToken` and the call, or that the provider
withdrew. `NodeDies` takes a request down wherever it is, inside `AccessToken` or not. A context
that ends while Codex is called is one of the failures that `CodexAnswers` answers with the fourth
message.

### PostMenu

JavaScript runs uninterrupted from one `await` to the next, and each action is such a stretch.
`Toggle`, `Flip` and `Pick` are the clicks. A click that calls the server is a record in `calls`,
kept in the order of the clicks, that holds what its closure holds (post, language) and the
request that it awaits; `GotLang`, `GotText`, `GotSaved`, `GotError` are the continuations.
`HandleGetLang`, `HandleTranslate`, `HandleSetLang` are the server's handlers, `Refuse` is any
error of theirs or of the network, `ConfigurationChange` an admin changing the default language.
Requests and answers of different clicks overtake each other freely. `Reload` forgets the page;
what it had sent may still reach the server.

An answer may also be cut off before its body has arrived (the event `cut`). The client takes every
2xx answer for a success and an unreadable body for an empty object (client.ts:4-10), so that the
call goes on with an undefined text or language: `net` is then `unread`, and `Answered` is either
success. An unread `translate` sets an entry without a text, which shows the original under the
state `translated`, and a pick goes on to persist its language. An unread `getLang` leaves the
toggle without a language, and the server refuses the request that follows (api.go:59). The body of
`setLang`'s answer is not looked at.

`toggleTranslate` reads the entry before it awaits anything. An entry that is translated, with or
without a text, is flipped to the original, and one that has a text is flipped back; neither makes
a call (`Flip`). Any other post is asked for (`Toggle`): in the language of its entry, if it has
one without a text, and otherwise in the language that `getLang` answers. `OpenMenu` is the filter
capturing the post of the menu that the user opens. `Hover` is Mattermost evaluating the filter for
another post besides, which the plugin API does not exclude; a translation then goes to another
post than the clicked one. `OnlyHoverDiverts` says that nothing else brings that about, and
`ClickedPostTranslated` is proved for a host that never does it. `Render` has no fairness:
Mattermost renders when it likes, and nothing registered by `index.tsx` subscribes to the
translation state.

`clicked` (in a call), `shown`, `seen` (translations that were answered and set) and `unread` (posts
whose last such answer had no text) are there for the properties; the code has no such variables.
The text of a translation is the pair of post and language, and `NoText` is none.

### Session

`Session` is what a click comes to. A click that the page cannot answer from its entries wants one
translation (`Want`), of one post, into a language that is given with a pick and decided later with
a toggle (`Decide`: the preference as it is at that instant). A toggle of a post that has a
language and no text wants it in that language. What is wanted is shown at most once (`Show`, with
its text or, when the answer had none, without) or dropped (`Drop`); a reload drops everything
(`Forget`). Only a language in which a translation was answered is remembered (`Remember`). There
are no menus, requests, answers, controls or renders, and no order among clicks: which of two
answers comes last is left open here as it is in the code, and `latest_click` shows what that
costs.

| `Session` | `PostMenu` (`ClicksServed`) | `TranslateControl` (`PageServed`) |
|---|---|---|
| `entries`, `pref`, `default` | the same | the same |
| `used` | the calls, `<<"menu", c>>` | and the tasks, `<<"control", c>>` |
| `wanted` | calls that wait for a language or a translation | and tasks that wait |
| `obtained` | `seen` | and `fetched` |
| `Want` | `Toggle`, `Pick` | and `Fetch` |
| `Decide` | `HandleGetLang` | the same |
| `Show` | `GotText` | and `ShowFetched` |
| `Arrive` | (with `Show`) | `GotFetched` |
| `Turn` | `Flip` | and `FlipBack`, `ShowCached` |
| `Drop` | `GotError`, unless it had set its entry | and `Fail` |
| `Remember` | `HandleSetLang` | and that of a task |

A failed `setLang` is where they differ: the menu has set the entry by then, and a control
drops the translation. Both are allowed by `Session`, and `fetched_shown` is about the second.

### TranslateControl

`TranslateControl` extends `PostMenu`: controls and menu are on one page, set the same `entries`,
and call the same server. Mattermost would mount one control per visible post; nothing registers
it in this version, and the model is what its code does once something does.

| Variable | code (`translate_control.tsx`) |
|---|---|
| `control` | the states `lang` and `busy` of each mounted control, 17-18 |
| `face` | what its last render saw, and its handlers close over: `showing`, `lang`, `busy`, 21 |
| `subs` | `TranslationState.subs` |
| `due` | controls that React is to render again |
| `tasks` | the calls of `doTranslate` that ask the server, 29-30 |

`fetched` and `missed` are there for the properties. `Mount` is the first render, `Subscribe` its
effect, `Draw` a later render, `Unmount` the effect's cleanup. `FlipBack` and `TranslateClicked`
are the two branches of `onMainClick`, chosen by the last render and not by the entry as it is by
now; `PickLang` is a click in the language list, which stays open to clicks while the label is
disabled. `doTranslate` is `ShowCached` when the entry has a text in the language, otherwise
`Fetch`, then `GotFetched` (the translation is answered, with a text or without: persist the
language), then `ShowFetched` (set the entry to what `Fetched` says, then the state) or, after
either await, `Fail`, of which only the `finally` clause touches the page. `read`, in a task, is
whether its closure has a text. `Notify` is `set` calling its subscribers.

Of React it is assumed that state changes of one stretch lead to one later render, that a pending
effect runs before the next render, and that state changes of an unmounted component are dropped
(`Own`): a control that is mounted again for the same post does not get those of calls of the
former one. `menuOpen` is left out: the list can always be opened. The server's handlers are those
of `PostMenu`, instantiated with `tasks` for `calls`.

## 3. Runs

| Run | Instance | Shows |
|---|---|---|
| `auth_safety` | 2 requests, 1 login, logouts, all faults; 1,765,000 states | `TypeOK`, `StoredTokenAccounted`, `NoDoubleRefresh`, `RecordStableUnderLock`, `MutexOwned`, `ReloginJustified`, `CredentialImplemented`, `CallsAtomic` |
| `auth_faultless` | 3 requests that do not fail, 1 login that may, logouts; 1,790,000 states | `NobodyDenied`, `RotationPersisted`, `LoginsEnd` |
| `menu_safety` | 2 posts, 2 languages, 2 clicks with calls, all events; 778,000 states | `TypeOK`, `EntryFaithful`, `OnlyAnsweredRemembered`, `TogglesCached`, `OnlyHoverDiverts`, `ClicksServed` |
| `control` | 1 post with a control, 2 languages, 2 calls of which the menu makes at most 1, errors, cut answers and reloads; 532,000 states | `ControlTypeOK`, `EntryFaithful`, `BusyHasCall`, `FaceCurrent`, `OnlyTranslatedRemembered`, `PageTogglesCached`, `PageServed`, `BusyEnds`, `CallsEnd` |
| `translate` | 2 HTTP requests that may be refused, cancellations, crashes and KV errors; 131,000 states | `HandlerTypeOK`, `ReconnectJustified`, `RequestsAnswered`, `MutexReleased` |
| `logout_final` | 1 request, no faults | a logout during a refresh is undone by its `Save` |
| `login_connects` | 1 login, no faults | a login whose exchange had no refresh token is done and leaves the plugin unconnected |
| `rotation_persisted` | 1 request, its context may end | the rotated token is lost when the request ends during the call |
| `latest_click` | 1 post, 2 languages, 2 clicks | answers in the other order leave the post in the earlier language |
| `translation_appears` | 1 post, 1 click | a translation arrives and the post is not rendered again |
| `reconnect_needed` | 1 HTTP request, tokens may be withdrawn | Codex refuses an access token and the user is sent to an admin while the refresh token is live |
| `fetched_shown` | 1 control, 1 call, errors | a translation that has arrived is dropped when its language cannot be persisted |

The last seven are expected to be violated: each states what the documentation, a comment or the
design says, and its counterexample is a finding in PROJECT.json.

Bounds. Two requests are enough for one to refresh while the other waits, holds a stale record or
takes over an expired mutex; `auth_faultless` has three, so that two wait for one. Requests run
once: a second call of the same caller is another request. One login meets requests and logouts in
every state; two logins at once are covered by the proofs. `MaxPolls` stands for the 15 minutes, as
the number of polls that are answered before the deadline; time itself is not modelled. Two clicks
are enough to be answered in the wrong order, two posts to mix up answers, two languages to tell
the answers apart. `MaxClicks` counts the clicks that make a call; flips, menus, renders and
configuration changes are unbounded. `MaxRequests` bounds the calls of menu and controls together;
with two of them, a control's call overlaps another of its own, one of its former self or one of
the menu. One post is enough there, because a control reads only its own entry and `Notify` wakes a
subscriber whatever the post; the proofs cover any posts. `Events` leaves out of a run what its
properties do not depend on: renders by the host, the extra filter calls and the configuration play
no part in what a control does. `MCSpec` starts with the server's default language equal to that of
the controls, as shipped. `translate` has two of the five checks, one before and one after the text
is known. Deadlock is not checked where `CodexAuth` may come to rest, with every request and login
over and nobody logging in or out.

Symmetry is used in `auth_safety` and `menu_safety`, which check no liveness. Requests, logins,
posts and languages are never ordered.

Fairness. `CodexAuth`: a goroutine that can run does (`RequestStep`, `SaveLogin`), the mutex of a
dead holder expires (its key has a time to live), and the token endpoint answers a refresh. The
last is an assumption about the provider: the plugin's HTTP client has no timeout, and the
request's context alone bounds the call. Nothing of the kind is assumed of a login's calls, which
no context bounds: the provider may leave one unanswered, and then the login waits for ever.
`LoginsEnd` says just that: a login that has begun ends, or it waits for ever for one and the same
answer; it does not poll for ever. Weak fairness is enough for a request that waits for the mutex
because requests are finitely many and each holds it once. Users, admins, faults and expiry have no
fairness. `Translate`: `ServeStep`, the expiry of the mutex and the two assumptions on the
provider, that the token endpoint answers and that Codex answers or the connection to it breaks. No
context has to end and no other fault has to happen, so `RequestsAnswered` and `MutexReleased` are
not owed to a request that gives up. `PostMenu`: the server answers or refuses each request, and
continuations run; users and Mattermost owe nothing. That the server answers is an assumption as
well, since the web app's requests have no timeout. `TranslateControl`: the same for the calls of
the controls; React need not render. Deadlock is checked in the runs of `PostMenu` and
`TranslateControl`, which never rest.

## 4. Proofs

`CodexAuthProofs`, for any sets of requests and logins, any deadline and any faults:

| Theorem | Property |
|---|---|
| `TypeCorrect` | `TypeOK` |
| `MutexHeld` | `MutexOwned` |
| `NothingLost` | `StoredTokenAccounted` |
| `RefreshedOnce` | `NoDoubleRefresh` |
| `ReloginReported` | `ReloginJustified` |
| `RecordStable` | `RecordStableUnderLock` |
| `NeverDenied` | `NobodyDenied` |
| `EveryRotationSaved` | `RotationPersisted`, where `Calm` |

None of the token properties is inductive: the record is fine now, but a request or a login may be
about to overwrite it. `IInv` therefore also says of everything that is on its way into the record
where it came from. `Exclusive`: only the holder of the mutex is in the critical section.
`CallInv`: an answer exists only after the call, an outcome only after its cause. `DeniedInv`: a
void token stays void. `RenewalPrivate` and `LoginPrivate`: tokens of an answer or an exchange that
are not saved yet are known to nobody else, so that saving them neither repeats an old record nor
stores what another call may have consumed. `AccountedInv`: each refresh token in the record, in a
request at work, in an unsaved answer or in an unsaved login is usable, withdrawn or consumed by a
call that was not saved. `ReplacedInv`: the record that a saved refresh replaced does not come
back. `ConnectedInv`: a connected record has an access token. The steps are first classified by
what they do to tokens (`StepKinds`: quiet, reads, issues, stores, grants), and each part of `IInv`
is shown to survive each kind. The theorems about `Calm` add `CalmControl` and `CalmTokens`: where
no request fails, none refreshes without a live token.

`CredentialProofs`, under the same assumptions:

| Theorem | Property |
|---|---|
| `CredentialKept` | `CredentialImplemented` |

`IInv` of `CodexAuthProofs` is what makes the mapping work: the mutex makes the holder's renewal
the only one (`HolderRenews`), and `RecordStableUnderLock` and its companions fix what it renews.
There is a lemma for each group of steps: those that no renewal sees (`UnmappedRequestSteps`), the
re-read (`ReadMapped`), answers (`EndpointMapped`, for a call that is waited for, and
`StrayAnswered`, for one that is not), `SaveMapped`, the ways out of the critical section
(`LeavesMapped`), logins (`LoginMapped`). `NextMapped` puts them together: every step of
`CodexAuth` is a step of `Credential` or leaves its variables alone.

`TokenServiceProofs`, under the same assumptions:

| Theorem | Property |
|---|---|
| `CallsTakeEffectAtOnce` | `CallsAtomic` |

What happens to the record is taken from the lemmas of `CredentialProofs`; what is added is who is
answered. `Unanswered` is the invariant that needs: a request that has not returned has no answer
(`NextUnanswered`), and a step changes the answer of at most one request (`OneAnswer`), so that it
is the request's only one and comes with the step that is mapped.

`TranslateProofs`, for any requests and defects:

| Theorem | Property |
|---|---|
| `Implements` | `HandlerSpec => Spec`: a behaviour of `Translate` is one of `CodexAuth` |
| `HandlerTypeCorrect` | `HandlerTypeOK` |
| `Reconnects` | `ReconnectJustified` |

`Implements` carries every theorem about `CodexAuth` over, `CallsAtomic` included: the token that a
translation is made with was the stored one at one instant of its request. `HandlerInv` adds what
the handler knows of its request; it is kept because a call that has returned keeps its result
(`DoneStays`), a call begins only by a step of its own (`LoadIsAccessToken`) and a token that has
ended stays ended (`VoidStays`). `Reconnects` joins it with `ReloginReported`.

`PostMenuProofs`, for any posts, languages, clicks in flight and events:

| Theorem | Property |
|---|---|
| `TypeCorrect` | `TypeOK` |
| `AnswersLand` | `EntryFaithful` |
| `AnsweredRemembered` | `OnlyAnsweredRemembered` |
| `ToggledFromCache` | `TogglesCached` |
| `DivertedByHover` | `OnlyHoverDiverts` |
| `ClickedTranslated` | `ClickedPostTranslated`, unless the host hovers |

Here `IInv` is `TypeOK`, `EntryFaithful`, `Captured` (the filter ran before a click), `TextKnown`
(an entry lacks a text only if the last answer for its post did) and `CallInv`, which says of each
call: one without a language is a toggle's, and its translation is not answered but refused; one
that persists a language was answered in it; one that has arrived left an entry. A step changes one
call, adds one, or drops them all; the lemmas on sequences (`AddedCall`, `ChangedCall`,
`GoneCalls`) say so once.

`TranslateControlProofs`, for any posts, languages, events and numbers of calls:

| Theorem | Property |
|---|---|
| `ControlTypeCorrect` | `ControlTypeOK` |
| `SharedEntriesFaithful` | `EntryFaithful` |
| `BusyBacked` | `BusyHasCall` |
| `DrawnCurrent` | `FaceCurrent` |
| `TranslatedRemembered` | `OnlyTranslatedRemembered` |
| `ToggledFromPage` | `PageTogglesCached` |
| `DivertedByHoverOnPage` | `OnlyHoverDiverts` |

The invariant is `PageInv`: the menu's `IInv`, `SubsMounted` (only mounted controls are
subscribed), `TaskInv` (a control persists a language only when its translation was answered), and
the properties. `PageSteps` shows that a control touches the page only by setting an entry to an
answer of its post or flipping it (`EntriesSet`), which keeps the menu's invariant. What is
left is per control: `BusyHasCall` survives because a call leaves `waiting`, or its control, only
in a step that clears `busy` or the control; `FaceCurrent` because whatever `Look` depends on is
changed only together with `due`, `missed` or `face`. `ToggledFromPage` adds `ShownInv`: a call that
is over has left an entry, and nothing but a reload forgets one (`EntriesStayOnPage`), whoever sets
it; `TextKnown` then says that the entry has a text unless its last answer had none.

`SessionProofs`, under the same assumptions:

| Theorem | Property |
|---|---|
| `MenuServesClicks` | `ClicksServed` |
| `PageServesClicks` | `PageServed` |

The mapping needs one fact beyond the invariants above: a call whose `getLang` is not answered has
no language (`Undecided`), so that the answer is the one `Decide` of its wish; an unread answer is
a stutter. `StepOfOne` says that a step changes one call; `WishesKept`, `WishEnds`, `WishChanges`
and `WishAdded` say what that does to the set `wanted`. The page is then put together from the
menu's part (`MenuOnPage`, which takes the steps of `PostMenu` as they are mapped already, with the
controls' wishes beside them, `WishesApart`) and the controls' part (`FetchOnPage`, `TurnOnPage`,
`TaskOnPage`, `ReloadOnPage`).

The assumptions are those named in the modules: `AuthAssumption`, `DefectsAssumption`,
`MenuAssumption` and `ControlAssumption`. Liveness (`LoginsEnd`, `MutexReleased`,
`RequestsAnswered`, `CallsEnd`, `BusyEnds`) is out of the prover's reach and only model-checked.

## 5. Not modelled

* The answer's wire format, the JWT's encoding, the last-refresh stamp, texts and logs.
* A refresh token of blanks only, which the store keeps and `refreshTokens` refuses.
* The cluster mutex's own refreshing of its key: a live holder is assumed to keep it.
* The text and the model name in the call of Codex, and the command's replies. Its permission
  check lets only admins log in and out, which the model has them do at any time.
* Edits of a translated post: a translation is kept for the session whatever happens to the post,
  as README.md:52-54 says, and no code looks at edits.
* The configuration's lock, and the panic of `setConfiguration` on the same pointer, which its one
  caller cannot meet because it always passes a new struct.
* Wiring (`OnActivate`, `OnDeactivate`), the template's KV store and its scheduled job, which do
  nothing at run time.
* The tools under `build`. `watchLogs` pages through the server's log by comparing each page with
  the last entry it has seen; it came with the plugin template and is no part of the plugin.

Read and not made a run: the README says that a logout revokes the tokens (README.md:41), that
`status` shows the account and the expiry (README.md:37-38) and that every message has an inline
control (README.md:49-57); the code deletes only, answers only whether a record is stored, and
registers only menu items. The design's cache by post and language is a cache of the last language
of a post. A control's `lang` does not follow a pick in the menu, and the label of a control with
two calls is enabled when the first ends. Two picks that overlap may also leave the earlier
language as the preference. A comment says that a pick is translated, shown and persisted
(post_menu.ts:36-39); after an answer without a body nothing is shown, the post counts as
translated, and the language is persisted all the same.

## 6. Plan

Done: `CodexAuth`, `PostMenu`, `Translate`, `TranslateControl`, the abstractions `Credential`,
`TokenService` and `Session`, with their runs and proofs. Left, by worth:

1. The HTTP API as a caller sees it: one answer per request, which is a refusal, an error of its
   class or a translation made with a token that `TokenService` gave; `Translate` implements it.
2. A composition of two users' pages with that abstraction for the server, so that a refusal in the
   menu is one that the handler gives.
3. A bound on the steps that a call can still take, as the safety part of `CallsEnd` and
   `RequestsAnswered`.
