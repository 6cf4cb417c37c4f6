# Revit Bridge Web in TLA+

Revit Bridge Web puts a web page in front of Autodesk Revit: a designer describes a task, a language model proposes a
*spec*, the designer confirms it and gets a one-time token, and the confirmed spec is run in Revit by an add-in that
is connected to the host through a WebSocket relay.  This directory models the parts of it where something happens
between two steps: a handler awaits, and others run before it resumes.

1. [The system](#1-the-system)
2. [Plan](#2-plan)
3. [Modules](#3-modules)
4. [Runs](#4-runs)
5. [Fairness](#5-fairness)
6. [Proofs](#6-proofs)
7. [Where the code and its words disagree](#7-where-the-code-and-its-words-disagree)
8. [What is not modelled](#8-what-is-not-modelled)

## 1. The system

```
 browser                                host (FastAPI, one process)                      Revit
 -------                                ---------------------------                      -----
 task page      --- /spec, /run ----->  bridge routes --.                              
 (flow.ts)      --- /api/chat ------->  host loop ------+--> send_command --> relay --->  add-in
                        SSE <---------     |  session   |    (one at a time)  registry    (WebSocket)
 pairing page   --- /devices/... ---->  device routes --+-- revoke --------------^
 (pairing.ts)                           rate limiter    '-- skills, log, packs (files, SQLite)
 packs, skills  --- /tools, /skills ->  bridge and skill routes
 evidence       --- /evidence ------->  bridge routes
 session store (sessionStorage): the device in use rides on every request of every page
```

The host is one asyncio process: a coroutine runs until it awaits.  Synchronous routes and dependencies run on a
pool of threads.  The page is one JavaScript thread with the same rule.  The gate (tokens), the ledger and the tool
store belong to the package `revit_bridge`, which is not in the repository.

| component | state | operations | talks to | what is hard | what makes it correct |
|---|---|---|---|---|---|
| **Relay registry** `backend/relay.py`, WebSocket endpoint of `api/bridge.py`, revoke route of `api/devices.py` | table device -> connection, its cap, `connected` | handshake, register, touch, receive, unregister, disconnect, revoke | add-in, pairings, relay command | the handshake awaits a thread, touch awaits after registration, revocation is two steps, entries are removed by device id | the cap holds; who is served is who is registered; the revoked are out; what is lost is forgotten |
| **Relay command** `backend/relay.py` | per connection: lock, pending future, counter | `send_command`, `resolve_response`, `unregister`, `disconnect` | add-in, every route that reaches Revit | queueing, deadline against reply, cancellation against disconnection, stray and late messages | one request at a time; a result answers its own request and the reply to it is not lost; every call returns; an error says what happened |
| **Bridge routes** `api/bridge.py` | tokens and evidence (in the package) | snapshot, reconcile, confirm, run, execute, solidify, recheck | relay command, gate, ledger | a run that fails half way; what is spent, what is recorded | a token runs once, for what was confirmed; what ran is recorded |
| **Device routes** `api/devices.py` | pairings, in the package's `DeviceStore` | pair, redeem, status, list, revoke | registry, pairing page, add-in | expiry against redemption, purge, revocation | a code is redeemed once; a revoked device stays out |
| **Rate limiter** `backend/ratelimit.py` | address -> times of hits | `allow` | four routes | threads; the clock is read before the lock | the limit holds in every window; nobody is refused for another's burst |
| **Host loop** `api/chat.py`, **sessions** `session.py` | history of a session, rounds and calls of a turn | chat turn, tool rounds, trimming, expiry | model endpoint, model tools, task page | cuts inside a turn, lost connections, two turns on one session | calls and results stay together in every request |
| **Model tools** `api/model_tools.py` | spec, fingerprint and evidence id of the session | the tools the model may call | relay command, package | failures that are results | nothing the model calls runs in Revit unconfirmed |
| **Model client** `backend/llm.py` | the calls being assembled | `stream_completion` | model endpoint | interleaved fragments | every fragment reaches its call |
| **Skill store** `skill_store.py`, `api/skills.py` | one file per skill | list, read, save, update, toggle, delete, import | skills page, system prompt | ids made from names collide, suffixed ones included | no skill takes the place of another that was not asked to; the package's own stay as they are |
| **Interaction log** `log_store.py` | SQLite table | `log_and_stream`, queries | host loop | cancelled streams | what is logged is how it ended |
| **Upgrade** `upgrade.py` | pack files | move old packs away | start of the host | a crash between two moves | nothing is lost; a second start finishes |
| **Task page** `components/task/flow.ts` and its panels | transcripts, proposal, confirmation, execution, one `AbortController` | send, tick, confirm, run, report, reset | chat, bridge routes | every handler resumes into a state others have changed | Confirm and Run stand for what the card shows; one turn at a time; a spent token is not offered |
| **Pairing page** `components/connect/pairing.ts`, **session store** `store/index.ts` | code on screen, poller, remembered and selected devices | pair, poll, cancel, refresh, select, revoke | device routes | late answers, reloads, failed revocations | keys of live devices are kept; what is selected is remembered; a wait ends |
| **Packs page** `ToolLibrary.tsx`, `ToolParamEditor.tsx`, `directRun.ts`, **solidify panel** | pack shown, lists, values, edit form, one `loading` flag | select, load, run, edit, save, delete; make a pack from a spec | bridge routes, task page | rows are clicked, forms edited and tabs left while a handler awaits | what is shown, sent and recorded is of one pack; the run is what was confirmed |
| **Skills page** `SkillsView.tsx`, `api/skills.ts` | list, `loading`, three dialogs | refresh, toggle, upload, add, import, delete | skill store | refreshes overlap, dialogs close before their answer | once quiet it shows the store; loading ends |
| **Evidence page, snapshot, connection check** `evidenceFlow.ts`, `SnapshotPanel.tsx`, `ConnectPage.tsx`, `App.tsx` | list, reports, snapshot, status | load, filter, validate, refresh, check | bridge routes, session store | the device changes behind a page; the evidence list outlives its page | what is shown is of the device in use |
| **Chat client** `api/chat.ts`, **text runner** `utils/chatRun.ts` | buffer, events, reply | read a stream | host loop, task page | chunks end anywhere, the connection is lost within a frame | the events that arrived, no others, in one reply |

`PROJECT.json` lists the hazards, each at its line with the properties that watch it.

## 2. Plan

The order follows what a mistake would cost: first what reaches Revit, then what the designer sees of it.

| step | modules | composition and abstraction | theorems |
|---|---|---|---|
| 1 (done) | `RelayRegistry` | handshake, endpoint and revoke route together | type correctness, the cap, who is served is registered, the revoked stay out |
| 2 (done) | `RelayCommand`, `RelayService` | callers, connection and add-in together; implements `RelayService` | type correctness, every safety invariant, the refinement |
| 3 (done) | `TaskFlow`, `HostLoop`, `PairingFlow`, `RateLimiter` | each with the environment it awaits | every safety invariant of the four |
| 4 (done) | `PackPage`, `Packs`, `Skills`, `DeviceInUse`, `ChatFrames` | `Packs` composes the packs page with the panel that makes packs and the tabs; `Skills` page and store; `DeviceInUse` every page that shows something of a device, with the scopes of the host | every invariant of the five, and `NothingOverwritten` |
| 5 | `Execution`: tokens, runs and evidence of the bridge routes, over `RelayService` | implements `ConfirmOnce`: a token is redeemed at most once, for the confirmed values, and what ran is recorded | the refinement; one redemption |
| 6 | `Devices`: the pairings of `PairingFlow`'s host composed with `RelayRegistry`, for several browsers | implements `Pairing`: new, offered, paired, revoked | a code is redeemed once; revoked is final |
| 7 | `Upgrade`, `InteractionLog`, `ToolCalls` (assembly of streamed calls) | crashes between steps; folds against a reference | the upgrade loses nothing |

Bounds of the runs: one to three of each kind of actor, and limits small enough that each is hit.

## 3. Modules

A module has one action per piece of code that runs without interruption.  A comment names the function; the map in
`PROJECT.json` gives the lines.  A definition marked *Mutant* is a mistake that could have been made in the definition
below it; nothing uses it.  Every `MC...` module adds only symmetry sets and the values of constants to the module it
checks.

**`RelayRegistry`** -- `handler[s]` is where the coroutine of socket `s` stands in `revit_ws_endpoint`, `entry` is
`DeviceRelay._devices`, `connected` the flag of each connection, `revoker[d]` where the revoke route stands.
`checkedEarly` is history: the sockets whose token was verified before the revocation was stored.  A handler whose
`touch()` raised is `"raised"`: it never reaches the `try` that unregisters.

**`RelayCommand`** -- all callers of `send_command` for one device, the connections of its add-in one after the other,
and the messages between them.  `pc[r]` is the await a request stands at (`"lock"`, `"send"`, `"wait"`), `pending` the
future, `holder` and `waiters` the lock.  `wait_for` is Python 3.12's: it cancels the future it awaits when its timer
fires and when the task is cancelled.  The deadline may pass at any step.  Messages that answer nothing (a late reply,
bad JSON, JSON that is no object) are counted by `MaxNoise`.  `crowdedOut` is history: the requests whose reply came
right behind a message that nobody had taken out of the future.  **`RelayService`** is what callers are promised: a
request is run at most once, ends once, and ends in a result only if it was run.

**`TaskFlow`** -- the store of the task page.  Each handler that awaits is an action that sends and actions that take
the answer or the failure; what it awaits is in `streams`, `reconciles`, `confirms` or `calls`.  Spec sets and chat
requests are numbers; `draft` is the set on the card, `origin` the proposal it comes from, `about` the set the verdict
is on, and `failed` says that the last reconcile of the card failed.  The guards of the controls come from the panels
(`disabled=...`), because what the page can do is what its buttons let through.  The gate is external: `Possible` is
what it may answer.  `told` and `answers` are history.

**`HostLoop`** -- the turns of one session.  A message is its role, its turn and its number; the history is the
sequence the code keeps, with both cuts.  A connection may be lost in the middle of a turn (`"lost"`), and until the
server has noticed, the page may start the next turn: `overlapped` remembers that it did.

**`PairingFlow`** -- the pairing page, the devices the browser remembers, and the host as far as the page can see it.
A poll, a refresh and a revocation are each asked, served from the host's state at that moment, and read later.  The
clock is abstract: a code's time may pass at any step (`expired`), and the ten minutes of the poller are a number of
polls (`MaxAsks`).  A device may be revoked elsewhere at any step, which stands for other admins
and for a revocation of this page whose answer is lost or comes after a reload.  `forgotten` is history.

**`RateLimiter`** -- `allow()` in two actions, because the clock is read before the lock is taken.  `admitted`,
`refused`, `lastNow` and `inOrder` are history.  `hits` names a recorded request by its number in `admitted[k]`: the
list of times of the code is that of those requests in the order of their numbers, which is the order they were
recorded in, since a check keeps a part of the list and puts its own time behind it.

**`PackPage`** -- the packs page and the server's packs (`store`).  A handler under way is a job: what it is (`"get"`,
`"choices"`, `"confirm"`, `"run"`, `"save"`), for which pack, and what it captured when it began; `live` says that the
page it belongs to is still there.  Clicks and typing are possible while a job is under way wherever the page does not
disable them.  `SpecFromForm` is the function of `directRun.ts`; a binding keeps its value, source and evidence.  `of`,
`editOf`, `crossed` and `drifted` are history.  **`Packs`** adds the solidify panel of the task page, with
`draftParameter` of `solidifyDraft.ts`, and the tabs of `App.tsx`, which unmount what they leave.

**`Skills`** -- the skills page with its store.  A request is served in one step (the routes await nothing between
reading and writing a file) and read later, or lost.  A skill is whether it is enabled and which creation wrote it.
What the front matter of an imported file says of `enabled` and `_overwrite` reaches `save()` unfiltered, so `Import`
chooses both (`on`, `over`); what a form posts says neither.  `live` says that the dialog that asked is still open;
`excused` is history.

**`DeviceInUse`** -- which device each thing on a page is of.  Records, snapshots, statuses and confirmations are
abstracted to the device they belong to; `moved` and `crossed` are history.  The browser's device changes by a click,
by the poller of a pairing, or by a device being forgotten, on any page.  It leaves pairing to `PairingFlow` and the
card to `TaskFlow`, and keeps of the gate that a token is good for the scope it was issued for.

**`ChatFrames`** -- the bytes of a chat turn as symbols: the field of a line, its value, a line feed.  `FramesInit` chooses
the turn, how much of it arrives, and whether its last value is torn; `Chunk` takes any number of symbols.
`parseSseFrame`, `chatStream` and `consumeChat` are operators; `Whole` is the reference they are checked against, which
knows the frames from the host's side.  What was sent (`Sent`) and what is said (`Said`) after each event are recursive
functions.  `TokensAreTexts` says that a text is none of the other symbols: on the wire it is a JSON string, in quotes
(`format_sse` of llm.py).

## 4. Runs

| run | expects | what it shows | bounds |
|---|---|---|---|
| `RelayRegistry_service` | pass | the cap, service and revocation hold in every interleaving; lost connections free their place | 2 devices, 2 sockets, cap 1 |
| `RelayRegistry_revoke_race` | violation | section 7 | 2 devices, 2 sockets |
| `RelayCommand_calls` | pass | one at a time, a reply in time is kept unless it comes right behind another message, errors have causes, every call returns; `RelayService` is implemented | 2 requests, one of them cancellable, 1 connection, 2 stray or malformed messages |
| `TaskFlow_page` | pass | the verdict is on the draft, one turn at a time, spent tokens are not offered, executions are told once, no wait leaves the page stuck | 3 spec sets, 3 chat requests, 1 run, 2 confirmations |
| `HostLoop_turns` | pass | requests stay well formed whatever is cut, and carry the message they are about | 3 turns, 2 at once, 6 messages kept, 4 sent, 1 round of at most 2 calls and the last answer |
| `HostLoop_broken` | violation | section 7 | as above |
| `PairingFlow_page` | pass | keys of live devices are kept, only the dead are forgotten, a wait ends | 1 device, 3 polls, 2 pair requests and 1 revocation under way |
| `RateLimiter_safety` | pass | the limit holds when checks lock in order; refusals are deserved | 2 threads, 2 addresses, limit 2, window 2, 5 ticks |
| `Packs_pages` | pass | one handler at a time; pack, lists, values and result belong together; the run is what was confirmed; what is shown is sent; a made pack asks for what its spec recorded | 2 packs, 3 contents, 2 parameters, 2 queries, 1 text, 1 submission, 1 handler of a left page |
| `Skills_page` | pass | a skill is overwritten only by an imported file that asks for it; the list is current once the page is quiet | 1 built-in, 2 creations of one name, 2 requests under way |
| `DeviceInUse_pages` | pass | evidence, snapshot, status and reports are of the device in use | the local add-in and 1 device, a record of each, 2 filters, 2 requests under way |
| `ChatFrames_turns` | pass | exactly the events that arrived, whatever the chunks; the reply is theirs | up to 3 tokens and specs, one of the tokens empty, every chunking, every loss |

Why the bounds are enough.  The hazards are between two or three actors, and each run has them all: a socket of the
other device, or a second one of the same, dials while one is served, closing or refused; a request queues behind one
in service while the connection of both is lost; a second confirmation is made while the first is on its way or run; a
turn starts while two others have ended, failed or lost their connection; a list is asked for under one device and read
under the other; two skills of one name are created, or one is deleted before the other is created; a row is clicked
between the two answers of a load.  Limits are hit: a cap of one, a window shorter than a turn with its calls (a turn
has up to five messages, four are sent and six kept), polls that run out.

What the bounds cut off: `MaxSends`, `MaxRuns`, `MaxConfirms` and `MaxSpecs` limit how long the page is used,
`MaxNoise` how many stray messages come, `MaxHits` and `MaxTime` how long the limiter is watched, `MaxPairs` and
`MaxRevokes` how many requests are under way, and one refresh is under way at a time.  `MaxRequests`, `MaxLeft` and
`MaxSubmits` limit what is under way on the newer pages, `MaxMade` and `MaxItems` what is made, and `Deletable` the
packs deleted.  Beyond the bounds of their runs are: a second connection of the device, so that no request of
`RelayCommand_calls` finds the one that replaced its own; a second device paired; and a skill created after two of its
name were made and one deleted.  The invariants and action properties of these runs are also proved, and hold without
the bounds; `EveryCallReturns` and `PollerEnds` are checked on these instances only.

Runs are for what is not proved and for the invariants that matter most.  Where a module has proofs, its type invariant
is left to them, and so are `EntryIsLive`, `FutureHasOwner`, `CountMatches`, `SelectedIsRemembered`
and `LoadingIsAsked`, which say how the state hangs together.

Deadlock is checked for `DeviceInUse`, where the designer can always do something.  It is not checked elsewhere: these
instances have a bounded number of things to do and may stop when they are done.

## 5. Fairness

- `RelayRegistry`: each await of the endpoint and the revoke route ends.  The handshake has a timeout, the others await
  a thread or a close; the receive loop ends when its socket is lost.
- `RelayCommand`: a coroutine that can run does run, and the deadline of a request passes.  Nothing is assumed of
  the add-in.  The send is assumed to end, by the WebSocket server's own limits; the code gives it no timeout.
- `TaskFlow`: every request the page awaits is answered or fails.  Nothing is assumed of the designer or of the
  chat's streams.
- `PairingFlow`: the poller's timer fires and its request is answered or fails.  The host may be unreachable for ever.
- `PackPage`, `Packs`, `Skills`, `DeviceInUse`, `ChatFrames`: none; what they say is safety.

Every fairness condition is weak.

## 6. Proofs

`RelayRegistryProofs`, `RelayCommandProofs`, `TaskFlowProofs` (the task page and `ChatFrames`), `PairingFlowProofs`,
`HostProofs` (the host loop and the rate limiter), `DeviceInUseProofs`, `SkillsProofs` and `PacksProofs` prove, with
TLAPS, for every value of the constants that satisfies the modules' assumptions (`RegistryAssumption`, `CommandAssumption`, `MessageAssumption`, `BoundsAreNat`,
`AsksIsNat`, `NoneIsNoAnswer`, `WindowInHistory`, `LimitIsPositive`, `RecordsAreOwned`, `SlugsAreIds`,
`PacksAreWellFormed`, `NoneIsNoPack`, `NoKeyIsNoText`, `QueriesAreNotSources`, `SpecValuesAreTyped`,
`CodeSpecsAreDrafted`, `TokensAreTexts`: finite sets, natural bounds, a window no longer than the history, null values that are none of
the values they stand beside, a suffix that makes another id for each number, packs of the schema's shape, queries that
are called none of the other sources of a value, values of a spec whose text is what `String()` makes of them, texts
that are none of the other symbols of a stream):

- **Registry.**  The inductive invariant is `RegistryInv`: types; an entry is a socket that dialled that device and is
  connected (`EntryIsOwn`); only a coroutine that has ended can have received the disconnect (`RunningIsConnected`);
  the route follows the store (`RevokerFollowsStore`); a token of a revoked device that is known to be good was
  verified before (`VerifiedEarly`).  The last two are needed because `RevokedStaysOut` speaks of registered sockets,
  and the step that could break it is the registration of one verified earlier.  `CapRespected` needs in addition
  that one registration adds at most one to a finite set.
- **Command.**  The inductive invariant is `CommandInv`: types; who is in service holds the lock of its connection
  and nobody else does (`LockInv`); a future exists exactly for who is in service (`FutureInv`); a reply on its way
  belongs to a request that was run (`ReplyInv`); a request that was not submitted left no trace (`FreshInv`,
  `UsedInv`); a future is cancelled for a reason (`CauseInv`).  `ReplyIsKept` is inductive with it and
  with `WireInv` (a request is written to the connection it looked up, once it has the lock, and only what was written
  is run): when the reply is read, there is a future because the lock is held, it is not cancelled because the deadline,
  the caller and the connection hold, and a message in it is what `crowdedOut` remembers; so the reply resolves it.  The
  other actions touch the future of another connection (`Apart`), or one without the reply (`KeptUntouched`).
- **Refinement.**  `RelayCommand` implements `RelayService` with `Status` mapping `"new"`, the three awaits and
  `"done"` to new, open and closed.  Every step is a step of the service or leaves its variables alone.
- **Task page.**  `FlowInv` adds four parts to the types.  `BridgeInv`: at most one open stream is the bridge side's
  and, if there is one, the transcript says so -- which no action may forget, reset included, because New session is
  only offered when the side is quiet.  `ToldInv`: an execution under way has not been told of, the shown one has not
  while it may still be reported, and each execution has its own number; `ToldOnce` alone is not inductive because the
  answer of a run and the button both tell.  `KnownSpentIsUsed` is inductive with the types, which say that a new
  token is none of those answered for.  `VerdictInv` speaks of the card and not of the button, since streams and
  confirmations light and put out the button while the card stays.
- **Chat client.**  The inductive invariant is `FramesInv`.  `SeenInv`: what was seen is the beginning of the turn, and
  all of it only at the end.  `BufferInv`: the buffer is what was read last, until the stream ends it begins where the
  frame of the next event does, and the page waits for more only within that frame.  `ReplyInv`: the reply is what the
  events seen say.  A frame is cut where the next event's ends (`FirstFrame`), because the only empty line of a frame is
  its end (`EndOfFrame`) and a part of one has none (`PartHasNoEnd`); it is read as that event (`BodyIsRead`), and a part
  of it, its last value torn or not, as that event or none (`PartIsRead`).  `Sent` and `Said` are recursive over the
  events, so this needs induction: `UpTo` is the induction up to a number, for a set of numbers instead of a predicate,
  and follows from the least number that is not in the set (`LeastNatural`).  `WholeIs` ties `BufferInv` to the
  reference: the number of events that have arrived whole is the one whose frame ends before `at` and whose next does not.
- **Pairing page.**  `PairingInv` adds `RefusalsAreTrue`: a refusal, or the answer of a revocation, that is on its way
  is still true of the host when it is read, because the host takes no device back.  That is why acting on a stale
  refusal is safe (`ForgottenIsDead`), while acting on a stale `"online"` is not (section 7).
- **Host loop.**  The inductive invariant is `HostInv`.  What makes it hard is that history and window are cut at any
  place, so a call may have lost its results' companions and a result its call.  `Linked` is what survives a cut: where
  a call and its results are both in a list, they stand next to each other, in order.  A list that is `Linked`, in which
  every call has its results (`Answered`) and that begins with a message of the designer is well formed
  (`LinkedIsWellFormed`): nothing before the first message can be cut off any more.  While a turn runs its tools,
  `HalfAnswered` says that the list ends in its calls and the results so far, as much as the cuts have left of them.
  `SequentialInv` says this of the history and of the list the turn sends, for turns one after the other.
  `TurnSeesItsMessage` needs that trimming never drops the message added last (`AllSee`), for overlapping turns too.
- **Rate limiter.**  `LimiterInv` adds `ForgottenIsOld`: while checks lock in order, a key's admitted times are in order
  and one that is no longer recorded is out of the window of every later check.  So what a check counts is all that
  may stand in a window that ends now, and what it admits keeps every window, also those between two ticks of the
  history, within the limit (`AlwaysLimited`).  `RefusedIsOverLimit` needs only that hits are hits of their own key.
- **Device in use.**  The types are split into `FlagsOK` and `DataOK`; `ReportIsOfItsModel` is inductive
  with them.  `SnapshotInv`: a snapshot under way was asked of the device in use unless it changed since.
  `CheckInv`: the units are cleared first, a later stage goes with the status of an earlier one, and another page has no
  check.  `EvidenceInv`: on the open evidence page at most one list that nothing crossed is under way, asked of the device
  in use, and with none under way that list is the one shown.  From them `SnapshotIsOfDeviceInUse`,
  `CheckIsOfOneDevice` and `EvidenceIsOfDeviceInUse`.
- **Skills.**  The inductive invariant is `SkillsInv`: the store keeps its type and holds no more skills than were
  installed and created (`StoreOK`, `FewSkills`), the page and its requests keep theirs (`PageOK`, `RequestsOK`), and
  `LoadingIsAsked`.  `FewSkills` is what `save()` needs: its loop over suffixes ends at a free id because there are more
  suffixes than skills, and the suffixed ids differ (`FreeIdIsFree`, a pigeonhole over `FS_Injection`; the least one
  exists by `LeastOf`).  `NothingOverwritten` then follows for each step: only a creation changes who wrote a file, and
  it writes one that was not there, or, if an imported file says so, the one of its own name.  That the creation is then
  seen in the store needs `by <= made` in `StoreOK`: the number of a creation is not that of the file it replaces.
  `ListIsCurrent` is about a quiet page; `CurrentInv` says it of a busy one: with no change served whose answer is still
  to be read, and no import that waits for Done, the list on its way, if it has been served, or else the list on the
  page is that of the store; at most one list is on its way, and an import's dialog is open until it is read.
- **Packs.**  The inductive invariant is `PacksInv`.  `JobsOK` says what each kind of handler carries: an answer of the
  kind it asked for, and of a run the spec its token was issued for, which is `RunsAsConfirmed`.  `OneAtATime` rests on
  three lemmas -- a handler starts, goes on as another, or ends -- since every action does one of these or nothing to the
  page's handler.  `LiveInv` says where the page stands meanwhile: a load keeps it below step 3 without a result, and
  while lists are on their way the pack shown is theirs or none.  `OnlyItsOwn` needs it, because an answer fills in what
  the page shows by then, and so does `ListsInv`: outside `drifted`, a list is that of its parameter's query and a
  parameter without one starts from its default (`FilledForm`).  `EvidenceIsOfItsList` and `ShownIsSent` follow from
  `ListsInv`, `NoticeIsOfThisSpec` from `PanelInv`: at most one request is the panel's own, and it carries its spec.  `AsksTheSame`
  is about two conversions, from a spec to a pack and back: `DraftFields` says what the first keeps of where a value is
  from, `ValueIsTyped` that the text of a value is typed as the value, `BoundAgain` that the second restores the rest.

What is only model-checked: everything temporal beyond safety (fairness and `ENABLED` are beyond the prover).  Every
invariant and every action property of a passing run is proved.

## 7. Where the code and its words disagree

Two are runs that expect a violation of what a comment, a doc or a test says; `PROJECT.json` quotes both sides:

- *Registry* (`RelayRegistry_revoke_race`): a device verified just before it is revoked registers after the
  disconnect and stays connected.
- *Chat* (`HostLoop_broken`): a turn whose connection is lost between its calls leaves calls without results in every
  later request of the session.

The models show more of them, which have no run of their own:

- *Registry*: a `touch()` that raises (`api/bridge.py:652`) leaves an entry nobody reads, and the device is refused as
  already connected from then on.
- *Command*: a reply right behind a stray message finds the future done and is dropped, so its request times out
  (`relay.py:122`); a request that makes its future after `unregister()` waits out its deadline on a dead connection
  (`relay.py:166`); `ConnectionError` does not mean that nothing ran, because the add-in may leave after it ran the
  request (`relay.py:84`); cancelling a caller raises `ConnectionError`, as if the add-in had left (`relay.py:175`).
- *Task page*: every answer but a gate refusal marks the token used, also one that left it whole (`flow.ts:267`); a
  failed reconcile leaves Confirm lit by the verdict on the draft before (`flow.ts:226`); a spec proposed in a report
  is dropped (`flow.ts:294`); New session aborts the streams of the newest controller only (`flow.ts:307`); a late run
  is credited to a newer confirmation (`flow.ts:267`), whose code the page then offers to solidify; a confirmation
  answered late is stored beside a newer proposal (`flow.ts:238`).
- *Chat*: overlapping turns separate results from calls (`session.py:52`).
- *Pairing*: a second pair request that fails leaves the page waiting for nothing (`pairing.ts:67`); a stopped wait
  still selects (`pairing.ts:112`); a redeemed code is called expired (`pairing.ts:116`); a forgotten device comes back
  when a status asked for before is answered (`pairing.ts:111`).
- *Packs*: the answer of a load, a run or a save that comes after another row was clicked fills the page of that row
  (`ToolLibrary.tsx:57`, `:90`, `:115`); after a save, lists and values are still those of the parameters before (`:117`);
  the run button compares how many values there are, not which (`:244`); a deletion clears what was selected when it
  was asked for, not what is by then (`:130`).
- *Skills*: an imported file whose front matter says `_overwrite: true` is written over the skill of its name
  (`skill_store.py:200`, `:204`; the import passes on what it finds, `:249`); of two overlapping refreshes the older
  list may be read last (`SkillsView.tsx:26`); an import closed without Done is not listed (`:144`); Enter imports again
  while one is under way (`:212`); a failed deletion closes the skill as if it was deleted (`:132`); a skill saved late
  closes the dialog opened since (`:143`).
- *Device in use*: the status on the Connect page stays when another device is selected (`ConnectPage.tsx:91`); a poller
  that selects its device behind an open page leaves the evidence, or the snapshot, of the one before
  (`pairing.ts:112`); of two lists asked for, the older may be shown (`evidenceFlow.ts:39`).
- *Chat client*: frames separated by CRLF are not cut (`chat.ts:79`), though lines that end in CRLF are read (`:23`); the
  host sends none.
- *Rate limiter*: a check that read the clock before another and locks after it makes room for one request too many
  (`ratelimit.py:33`); the window for it is the wait for the lock.

## 8. What is not modelled

- The package `revit_bridge` (gate, ledger, validator, sandbox, tool store): outside the repository; its answers are
  nondeterministic where a module needs them.
- The bridge routes for queries, selection and missing parameters, device routes other than revoke, model tools, log,
  upgrade: planned, section 2, or without state of their own.
- The stream of the model endpoint, SQL, settings, layout: I/O or data.
- In `PackPage` and `Packs`: the table of packs and its refresh, notices, fields of a pack other than code and
  parameters, text that does not parse (it ends a save before its request).
- In `Skills`: pages without the admin password, remounting the page, contents of skills, the update route no page uses.
- In `DeviceInUse`: a refusal of a revoked device beyond a failed request, the limit and order of the list, which record
  is expanded.
- In `ChatFrames`: characters split between chunks, which the decoder joins, several data lines in a frame, and texts of
  errors.
- The local add-in over TCP: its pool is the package's.
- In `PairingFlow`, the tables of statuses and of the admin, error texts, two refreshes at a time, and a pairing whose
  answer never reaches the browser: nobody knows its code, and it is purged.
