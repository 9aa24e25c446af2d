# A verification of Path of Price Check

Path of Price Check is a desktop overlay for Path of Exile. A hotkey makes the game copy the item
under the cursor, the program parses it, shows a panel over the game, and asks the trade API, on
the user's word, what such an item is listed for. It is C++20 on SDL3, for X11 and for Windows.
This directory models it, checks the models with TLC on small instances, and proves what matters
most of them with TLAPS for all.

Paths below are relative to the repository's `src/`. "The loop" is `App::run` (`app.cpp`), which is
one thread: it drains SDL's events, runs a handful of polls and draws a frame. Everything that takes
time is on a worker thread that reports back by pushing an SDL event.

## 1. The system

| Part | State it keeps | Operations | Talks to |
|---|---|---|---|
| main loop (`app.cpp`, `overlay.cpp`) | screen, overlay visibility, focus and who has the keyboard, the copy in flight and the handover of the foreground, clipboard text, item, bundle and plan, key capture, report draft | `handle_action`, `handle_event`, `poll_pending_copy`, `poll_click_away`, `update_overlay_placement`, `set_screen`, the buttons | window system, clipboard, every service |
| item layer (`item/parse`, `resolve`, `derive`) | none: text and bundle to an item | parse, resolve, regroup | main loop, lookups |
| search plan and query (`item/plan`, `item/range_match`, `trade/query`) | none: item to plan to query | build, seed, merge, enable | main loop, panel |
| price panel (`screens/pricecheck_screen.cpp`) | what is ticked, typed, chosen, overridden | clicks, drags, keys | plan, trade search |
| trade search (`trade_service`, `trade/client`) | generation, `busy_`, state, results, worker | `search`, `load_more`, `clear`, `on_done`, `shutdown` | main loop (events), rate limiter, HTTP |
| rate limiter (`trade/ratelimit*`, `trade::request`) | windows per policy, restriction, state file | `delay_ms`, `note_request`, `observe`, seed, restore, save | trade search, league list |
| price lists (`ninja_service`, `ninja/*`), exchange (`exchange_service`, `exchange/*`), leagues (`league_service`, `leagues`), pictures (`icon_cache`) | one worker each, caches with an age, a restart flag or a queue | lookup, refresh, `on_done`, shutdown | main loop, HTTP, disk |
| game-data bundle (`data/updater`, `data/install`) | `current`, version directories, staging, worker, `ready_` | `load_installed`, `start_check`, the worker's stage/commit, prune, `take_ready` | main loop, HTTP, disk |
| self updater (`update/*`, `platform/single_instance*`, `process_*`) | staged file, program and its `.old`, worker, lock | `start_check`, `restart_now`, `apply_on_exit`, the relaunched copy's wait | main loop, installer, disk |
| map check (`mapcheck/*`, the popup and its settings tabs) | profiles, dirty set, delay, the map's rows, search and proposal, the pool's list | rate, tick, flush, create/remove, search, propose, accept | main loop, disk, bundle |
| configuration (`config.cpp`) | `config.json` and the copy Settings edits | load, save | main loop, map check |
| clipboard (`platform/clipboard_x11.cpp`) | the text put there, requests taken and served, the stamp of the last look | read with a deadline, put, serve | game, main loop |
| report service and relay (`report*`, `worker/`) | one send and its answer | send, `on_done`, dismiss | main loop, relay |
| screens, quick paste, window systems, HTTP | widgets' values | draw | main loop |

`PROJECT.json` lists all of them with what is modelled and what is not.

What is hard here, and what makes each part correct:

* **Main loop.** A check spans many passes of the loop: the copy is asked for, the game may answer
  late or never, after a grace period the foreground is taken from the game and must be given
  back, and hotkeys, Escape, clicks, focus events, a new bundle or a report's answer arrive in
  between. Correct is: the foreground always comes back, a panel never shows the previous item
  for a new check, the keyboard returns to the game, the plan, item and bundle move together, and
  every check ends.
* **Item, plan and panel.** Sequential, and hard through the number of shapes an item has: a line is
  an affix, a property, prose or a note by what stands around it, and sixteen kinds of item are
  searched in as many ways. Correct is: nothing printed is lost or read as something else, a search
  made from an item and not edited finds that item, and no modifier disappears without a word.
* **Trade search.** A search cannot be recalled, only disowned. Correct is: results are those of
  the item on screen however late an answer comes, one request at a time, paging neither repeats
  nor skips, a search ends.
* **Rate limiter.** The server counts, the client guesses, and both a lost answer and a killed
  process make the guess too low. Correct is: no request that would be refused is sent, a known
  restriction is served out, across restarts.
* **The other services.** A check lands on a download for another, a cached file is stale or torn,
  an hour is not published yet. Correct is: what is drawn is of the item asked about, and nothing
  says it is loading for ever.
* **Bundle and self updater.** A sequence of disk changes that can be cut anywhere. Correct is:
  what `current` names is whole, "up to date" is true, a finished download is used; a program always
  remains, never an older one, the notice says what is staged, and Restart now brings it back.
* **Map check.** A verdict is in four places (table, file, the map's rows, the list in Settings), the
  file is written later, the bundle under it all changes. Correct is: the four agree, and the next
  run finds what this one had.
* **Clipboard.** There is no store: a text is a promise of the window that owns the selection. Correct
  is: a check prices what the game put there after its hotkey, and a paste is of what was picked.

## 2. What there is

| Module | Models | Checked by | Proved in |
|---|---|---|---|
| `AppShell` | the main loop | `AppShell`, `AppShellLive` | `AppShellProofs` |
| `ItemText` | a copied text taken apart and resolved | `ItemText` | `GameDataProofs` |
| `SearchPlan`, `PricePanel` | an item's plan and query; the filter list and what a user does to it | `PricePanel` | `PriceProofs` |
| `TradeService` | the search behind a check, with its paging, its late answers and the listings parsed from them | `TradeService` | `TradeServiceProofs` |
| `PriceAnswer` | what that search promises, without worker, queue or generation; `TradeService` implements it | `TradeService` (`KeepsPromise`) | |
| `RateLimiter` | the limiter, its file, the server | `RateLimiter` | `RateLimiterProofs` |
| `MarketPrices`, `NinjaService` | which price lists an item needs and which of their lines it is priced by; the service that holds, caches and downloads them | `Services` | `PriceProofs` |
| `ExchangeService` | the currency exchange's hourly digests | `Services` | `PriceProofs` |
| `LeagueList`, `IconCache` | the leagues of the drop-down; the pictures and their thread | `Services` | |
| `DataBundle` | the bundle's updater and its directory | `DataBundle` | `GameDataProofs` |
| `SelfUpdate` | the updater of the program itself | `SelfUpdate` | `SelfUpdateProofs` |
| `MapVerdicts`, `MapCheck` | what a map's affixes come to; profiles and files, popup, Settings, searches | `MapCheck` | `MapCheckProofs` |
| `Clipboard` | the X11 selection: the read of a check, the put of a paste, the owner's thread | `Clipboard` | `ClipboardProofs` |
| `MC*` | the values the runs give to constants, and the sentences of the repository that do not hold | | |

Operators whose comment says "altered" are variants of a definition with a plausible mistake in
it. They are not used by any specification; with each put in the place of its original, a
property of the runs is violated. `PROJECT.json` pairs them ("mutants"): they show that the
property can tell the code from a wrong version of it. `map` in `PROJECT.json` gives the lines of
every definition.

The modules compose by extension (`PricePanel` over `SearchPlan`, `MapCheck` over `MapVerdicts`,
`NinjaService` over `MarketPrices`, `MCServices` over the four services, `TradeService` under
`PriceAnswer`) and otherwise meet at an interface that each states on its own side: `AppShell` has a
copy that arrives late or never, which is `Clipboard`'s read; a plan as a pair of item and bundle,
which is `PricePanel`'s; a bundle that arrives at any time, which is `DataBundle`'s `take_ready`.

### AppShell

One action is one handler or one pass of one poll; `SetScreen`, `RestoreActivation`, `AbandonCopy`,
`Accept` and the other operators are the functions those call, so that everything a handler does
is one step, as it is on the one thread. A hotkey is `StartCheck`, `PasteHotkey`, `SettingsHotkey`;
`poll_pending_copy` is `PollWaiting` (nudge or end of hold), `PollTimedOut`, `PollWritten`;
`update_overlay_placement` and `poll_click_away` have their own; SDL's events are `FocusEvent`,
`DataEvent`, `ReportEvent`, `EscapeKey`, `BoundKey`; the rest are buttons. The report's picture takes two
passes of the loop, asked for (`RequestCapture`) and read back (`FinishBugReport`). The environment is the
game, the window manager, the focus of the X server, which SDL learns of late (`hasFocus` lags
`input`), and the clocks of the copy. Time is the three ages the code tells apart: in the grace
period, past it, past the timeout.

The data are a few clips: an item, a map, junk. A plan is the item and the bundle it was made of
and whether the user has changed it.

Assumed of X11: `_NET_ACTIVE_WINDOW` stays with the game when the overlay takes the keyboard.
Not modelled: quitting, the dev mode's shortcuts, what is drawn. What a check asks of the network
services is in their modules.

### ItemText

`ReadNext` is one reading: `parse()` takes the text apart into sections and lines, `resolve_item` matches
it against a bundle, and the panel may then settle which unique it is. A line is a record of what
its characters say: its words, the traits the parser tests it for (opens with a number, has a label,
is a note), and, on a `{ }` line, what it states. So the scanners for numbers and annotations are
traits of a line and not modelled character by character; what is, is which section is taken for
what, which line for an affix, and how several modifiers of one wording are regrouped. `TextAssumption` says what
every copy has: under a `{ }` line, in its block, the first line of the affix it states.

The texts are those of the repository's captures, in every combination of their parts: with and
without the advanced descriptions, gear, flasks, gems, logbooks, sanctum and map items, beasts,
unidentified uniques, something that is not an item. Not generated: an item whose description opens
with a number, and the heist lines "Any Heist member ...", which the parser reads as affixes.

### SearchPlan and PricePanel

`BuildPlan` is `item/plan.cpp`: one strategy per kind of item, each filling stats, numeric rows,
options and groups of alternatives, then the merge of equal stats, the tail, and what starts ticked.
`SeedBounds` is the range matching, `BuildQuery` what `trade/query.cpp` sends. Numbers are counted in the
last digit of their row, wordings are identifiers. The panel's actions are its controls: a tick, an
alternative, a drag, a digit typed into a box that may or may not be left with Enter, Escape, another
strategy, another unique, a new bundle, another item. What the parser, the bundle and the keyboard
hand over is typed by assumptions on the constants (`IsItem`, `IsData`, `Typable`), which TLC evaluates for
the items of the run.

`MatchesItself` has a precondition. `Legible`: the item printed a range somewhere, or is a map, because
only then can a number that never rolls be told from one that did (`plan.cpp:302-315` gives the
reason). `Stated`: the bundle knows the base or the unique that the plan names.

### TradeService and PriceAnswer

The service's members are one record, and the handlers that call several methods compose them as
functions of it (`Cleared`, `Search`, `Adopt`). The worker's own copy of what it was asked is
`worker`, and what it pushed and was not handled yet is `queue`. Hashes are numbers, a listing is
its search and hash; a listing sold meanwhile is missing from its page. A page can fail after any
of its batches. `Hover` parses a row; a bundle may arrive at any time. `PushFails` is a full event
queue, after which the service stays busy: `SearchEnds` says so (`Lost`).

`PriceAnswer` promises: what is listed is of the item the panel is about, an answer only adds
to it, each row once and in order, and it goes away only because the user asked again or
moved on. `KeepsPromise` is the refinement, with `rows` read off the results and `waiting` off the
state.

### RateLimiter

One policy. A limit is a function of its period (the code keeps a list, and the server does not
publish a period twice). Time is kept as ages and time left, the way the state file keeps it, so
that the clock is not bounded. `request()` is `Check` (the delay is taken under the mutex),
`Send` (noted and saved, then sent) and `Answer` or `LoseAnswer`. `Restart` and `TornWrite` are the
ways a process ends. `blind` is how long it can still matter that the limiter was told too little:
two of the longest windows (`Wake`) after another client's request, new limits, an answer that was lost or
carries limits replaced meanwhile, or a torn file. In the first of them the windows open at the time close,
in the second the server forgets what was sent before they did.

Assumed: a request reaches the server in the tick it was noted; the wall clock is right; the
server counts refused requests too, and has one length of restriction. `Margin` is 0 in the run,
which is stricter than the code's 250 ms.

### MarketPrices, NinjaService, ExchangeService, LeagueList, IconCache

They share no state with each other, so a behaviour of `MCServices` is of one of them: `focus`. Each
has its members as one record, its worker as what it was told, its result as a queue of events, its
files, `PushFails` and its like for a full event queue, and a `Relaunch` that joins the worker or
kills it as it writes. `MarketPrices` is pure: `KeysFor` which lists an item needs, `ReferenceFor`
what of them it is priced by. Prices are whole chaos. What poe.ninja publishes does not change while
a check is open, so an overview is its key and its age; two exchange markets of equal volume and a
list whose JSON has an empty key are not generated (`""` as an id makes `rating_of` read a null best).

A league list is the season it is of. The clock may be set back. A picture is its URL; decoding is an
outcome of its file.

### DataBundle

`FetchManifest`, `FetchFile`, `Verify`, `Clear`, `Rename`, `Flip`, `Open`, `End` are `DataUpdater::run`
and `BundleStore::commit`, with one step for each change they make to the disk, so that `Crash`
falls between any two. A file can be stored short although the write reported success. `Start`
prunes and maps what `current` names. `Opens` are the versions this client can open. Whoever changes
the status publishes it (`Pushed`): the event is queued, or the queue is full and it is refused, which
`DataUpdater::publish` does not look at. An event still queued stands for those after it.

Assumed: one process (the instance lock); a version is not published twice with different files;
the order in which the files are fetched does not matter; disk changes reach the disk in order
(no loss of power). The few bytes of `current.tmp` are written whole or not at all; were they not,
the next start would prune every bundle and the next check would download again.

### SelfUpdate

`Ask`, `Download`, `Unstage`, `Stage` are `Updater::run`; `RestartBySetup`, `RestartBySwap`,
`RestartAside` and `RestartMovesIn` are `restart_now()` for an installed, a Linux and a portable
Windows copy, the last with the two renames as two steps; `Leave...` are the same for
`apply_on_exit()`; `TryForTheLock` is the new copy's wait in `App::run`, `SetupInstalls` the
installer, which is external. A version is its rank. `StartCheck` is `start_check()` together with the
worker's own `set_state(Checking)`. `Crash` falls between any two steps, and `SwapCutOff` inside the
one swap that is a single step here: on another file system the staged file is copied, renamed over the
program and removed, and a kill can leave it staged as well. `Drain` is how many of the new copy's
waits an exit outlasts, since the exit joins workers; in the run it is one more than there are
(`Patience`), so a new copy may give up, and `ComesBack` says what is left then (`Outlasted`).

Assumed: the user leaves the few seconds alone in which an installer or a new copy takes over;
an installer that was started finishes; one way of installing per machine. Two constants say what the
disk may do: `DiskFills`, that a file is closed with less in it than was written, and
`RemoveFails`, that the staged file cannot be removed for a while after it was copied into place. Both are
`FALSE` in the run: with either a sentence of the repository does not hold, and `NeverPartial` and
`NeverOlder` in section 5 say which.

### MapVerdicts and MapCheck

All of it is on the main thread. `store` is the table in memory and the directory it is files of, with
the delayed write (`Tick`, `Flush`), `config` and `saved` the settings and their file, `map` the rows of
the popup, `pool` the list in Settings. A wording is an identifier and an affix a set of them; a search is the
terms it parses to. A file that cannot be written or removed is a fault, and so is a kill; `Launch` reads
back what is on the disk. A write of `config.json` is done, refused (it cannot be opened) or cut
(`Rewritten`): it is rewritten in place, and a file that does not parse reads as the defaults, which the
launch and the next profile picked write down. `Kill` ends the run between two steps or in the middle of
a write: of a profile's table (`KilledFlushing`), or of `config.json` (`KilledSaving`), a cut before the first
field that reads as one of the defaults throughout. Names of profiles are sanitised ones (that `"_"` put before a reserved name can
exceed `kMaxProfileName` is not modelled).

`MCMapCheck` splits the behaviours in two (`focus`): the files without a bundle, and the lists with one,
since the searches do not touch the disk and the profiles not the pool.

### Clipboard

Each client has a mailbox of what the server sends it, in order. `log` is who took the selection, one
entry per change of hands; a window's text is the entry it took it with. The main thread's read is
`StartCheck`, `Poke`, then, for each format in turn, `Convert` and `Read` until an answer or `Deadline`; the
put is `Put`, which hands the text to the thread that owns our window and waits for `Tell`; the thread is
a loop with a program counter (`pc`) that takes the selection (`TakePending`, `ServerTime`,
`SetSelectionOwner`), answers requests (`Serve`) and may read a `SelectionClear` for an earlier
ownership late (`Clear`). The other windows take, drop and serve the selection
whenever they like.

Assumed: what the server tells us of a change has reached us by the next thing the user asks for
(tens of milliseconds at the least). Opening the paste list and picking from it is one step. Texts
over one property (INCR) and the refusal of an over-long paste are not modelled, nor is the Windows
half, whose clipboard is a store with a counter.

## 3. The runs

| Run | Instance | Shows |
|---|---|---|
| `AppShell` | a map and junk, one bundle after the first, every control but the bug report | the handover is owned and undone (`HandoverOwned`), no panel is up with the previous item while a check is in flight (`NoStalePanel`), item, bundle, plan and editor belong together (`PlanIsPinned`), hiding a screen returns the keyboard (`KeyboardReturned`) |
| `AppShellLive` | an item and junk, both checks and the bug report; fair loop and clock | a dialog always has its report, a confirmation its answer (`ReportIsThere`), a game taken out of the foreground is given back (`GameGivenBack`), a check ends (`CheckEnds`) |
| `ItemText` | all texts, two bundles, one of them empty | every line read for what it was printed as (`ReadsAsPrinted`) and fit for resolving to get to its end (its part `RunsAdvance`), the name that is looked up is the item's (`NamesTheItem`), and one that drops on its base where the user says which (its part `DropsOnItsBase`), resolving loses and invents no line (`AffixesKept`) |
| `PricePanel` | twenty items, each with two bundles, three changes | an unedited search finds the item it was made from (`MatchesItself`), no modifier disappears without a row or a note (`NothingSilentlyDropped`), the plan is that of the text, bundle and choices in hand (`PlanIsOfItem`), an interval stays crossed only on a row that Escape closed (`CrossedOnlyByEscape`) |
| `TradeService` | a searchable item and one that is not, two leagues, pages of 2 of 3 hashes, two searches, one bundle, full queue | what is listed is of the item and league on screen (`ResultsMatch`), a parsed listing is of its row (`ParsedIsOfRow`), the refinement of `PriceAnswer` (`KeepsPromise`), a search ends (`SearchEnds`) |
| `RateLimiter` | one thread; limits 1 in 2 and 2 in 3 ticks, 3 in 4, or 1 in 4; restriction of 4 | a restriction is served out, across restarts (`HonoursRestriction`); no request of ours provokes one unless something it could not know came first (`NeverOurDoing`) |
| `Services` | `MCServices`: six lists of nine checks, five hours, leagues with a clock set back, two pictures | the price drawn takes in every line the item could be sold as (`PricedAsItself`), every list is asked for whatever download a check lands on (`EveryListAsked`), an unreadable fresh copy is fetched in full (`TornIsReplaced`), an hour not published yet is never an answer (`HourIsPublished`), nothing stays loading (`ServicesEnd`) |
| `DataBundle` | two versions of two files, one not openable | what `current` names is whole at every instant (`CurrentIsWhole`), "up to date" is true (`UpToDateIsTrue`), what was readied is taken at its event (`ReadyIsTaken`), or, where the queue refused that, at a later check's (`NextCheckDelivers`) |
| `SelfUpdate` | three versions, all five ways of installing, two waits, an exit of up to three | a whole program remains (`ProgramIsThere`) and is never an older one (`NeverDowngrades`), the notice is true (`NoticeIsTrue`), Restart now brings the program back, unless the exit outlasts every wait, and then the release asked for is on the disk (`ComesBack`) |
| `MapCheck` | two maps, two bundles, a profile beside the default, three inputs, one fault, two runs | what is in memory is on the disk or will be (`SavedOrPending`), the map's rows and the list say what the table says (`RowsAgree`), accepting a proposal writes what the list showed (`AcceptWritesTheList`), `config.json` lists the profiles as they are and holds of the other settings what Save last put there, or the defaults once it was cut (`HoldsLastSaved`), the next run finds what this one had (`RelaunchKeeps`) |
| `Clipboard` | two windows, of which one offers one format; three changes of hands, two checks or pastes | a check never returns what was there before its hotkey, nor what the program put there (`ReadIsOfThisCheck`); a paste is never of the text before (`PasteIsThePut`) |
| `ClaimListAsDescribed` | the instance of `MapCheck` | violated: after Propose and Cancel the list still shows the proposal's rows (section 5) |

Bounds, and why they are enough.

* `AppShell`: `MaxData` 1. Staleness needs one bundle or answer that is late for one change. Bug reports are
  in a run of their own: with them `NoStalePanel` does not hold (section 5), and the two together are too
  large. The clips are an item that is priced, one that is a map, and one that is nothing.
* `ItemText`: every combination of the parts a capture of the repository has; a part appears once or
  twice, since what the parser decides it decides by the neighbouring section.
* `PricePanel`: `MaxMoves` 3 (open an editor, change, close; or change, swap the bundle, change); the
  numbers typed are one below and one above every interval; an item for each strategy and for each
  thing a plan does differently.
* `TradeService`: `MaxGen`, `MaxSearches` 2: one late answer and one on top of it. `MaxHashes` 3 with pages
  of 2: a whole page and a short one.
* `RateLimiter`: `MaxLog` 4 is above every limit published, so the server refuses. One restriction, as long
  as the longest window, so both orders of their ends occur.
* `Services`: lists go stale after 2 ticks of 3, so a list can be fresh, stale and pruned; two checks, one
  to land on the other's download; a kill. Five hours with 3 hours stepped back and 2 kept: the oldest
  hour asked for may be there, gone or never published. The instance's lists hold, for each filter, a line
  that only this filter keeps from being drawn.
* `DataBundle`, `SelfUpdate`: one version that is in use, one on its way, one published after it, older or
  newer; two files: one done, one not. Two waits and an exit that outlasts two.
* `MapCheck`: three inputs (rate, propose, accept), one fault (a table or `config.json` not written or cut,
  or a kill), one relaunch.
* `Clipboard`: `MaxLog` 3: what was there, what the game puts there, what another puts over it. Two other
  windows: the game, and one that interferes.

No bound stops a step of the loop, a worker or a crash.

Fairness. The loop runs every few milliseconds and drains its events (`WF` on `PollPendingCopy`,
`TradeEvent`, `TakeReady`, `NinjaDone`'s and `XchgDone`'s queue, `LeaguesDone`, `Pump`, `StartCheck`,
`RestartMovesIn`); time passes (`Clock` of `AppShell`); a worker's requests have timeouts (`WorkerDone`,
`Worker`, the workers of the services, `Take`, `FromDisk \/ Fetch`); a process that has begun to leave gets
there (`Leave`); the new copy's loop and an installer run (`TryForTheLock`, `SetupInstalls`). None is assumed of
the user, the game, the window manager, publications, crashes or restarts. Strong fairness is in no
specification; `NextCheckDelivers` has it in its antecedent (`ChecksGoOn`): that checks go on being made, which
ride on the user's hotkeys (`app.cpp:1172-1183`), and that of the events their ends push one in many is not
refused. `ItemText`, `PricePanel`, `MapCheck` and `Clipboard` have no liveness property: their steps are the user's, or the
deadline's, which `AppShell` has.

Deadlock is checked but where the system may stop: in `ItemText`, `PricePanel`, `Services` and `Clipboard` a
behaviour ends when the bounds on what the user does are used up.

## 4. What is proved

For every value of the constants that the modules' assumptions allow:

* **AppShell** (`TypeCorrect`, `HandoverIsOwned`, `RatingsAreFlushed`, `PlanStaysPinned`,
  `KeyboardIsReturned`, `ReportIsAlwaysThere`, `NoPanelMeanwhile`, `GameIsGivenBack`). The invariants
  are inductive, the plan's and the report's together with the types. The proofs go action by action
  over the lemmas of the shared functions (`ShowType`, `AcceptType`, `RebuildPins`,
  `HidingGivesItBack`). `NoPanelMeanwhile` needs that no bug is reported, since without that it does
  not hold (section 5). `GameIsGivenBack` rests on `Quiet`: with the game in front the
  input focus is ours only with a record of it, and once the screen is down not at all, so no key of
  the user's ends a check behind the program's back.
* **TradeService** (`OneRequestAtATime`, `ListedIsOfItem`, `ListingsKeepPromise`, `ParsedStaysWithRow`). The invariant is
  `Shape /\ OneInFlight /\ Owned /\ ResultsMatch`. `Owned` is what `ResultsMatch` is not inductive
  without: a worker or an answer of the present generation was asked about the present item, and a
  page about the present results; it needs `OneInFlight`, as a second search would break it.
  What was parsed stays with its row because a page only adds at the end. `ListingsKeepPromise` is the
  refinement of `PriceAnswer`: the initial state maps to an initial state, and each action to `MoveOn`,
  `Ask`, `Answer` or a stutter. Its `Paged` says that the listings ascend through the hashes, and that what
  is on its way for the panel's own generation starts where they stop, or finds none there.
* **RateLimiter** (`LimiterTypes`, `RestrictionIsHonoured`, `NoRestrictionIsOurs`), with one thread. `Inv` is
  `TypeOK /\ Remembered /\ WrittenDown /\ WaitedOut`: a restriction the program was told of is in
  memory, in the file, and in the wait of a thread that has begun to wait. `NoRestrictionIsOurs` proves
  `NeverOurDoing`, that the limiter's counts, which start when a window opens, stay ahead of the server's, which slide.
  Its `Ahead` counts only the requests that went out a longest window or more after the last thing the
  limiter could not know (`Recent`): an open window has counted all of those the server has (`Keeps`), and those
  that came after the request that opened it leave room for one more when it closes (`Room`); the limits
  are known once one of them was answered (`Learned`), and before that every window was opened earlier
  (`Behind`). The attempt corrected the property: its exception was a window and a restriction long, which is too
  short where a restriction is shorter than a window, and an answer that arrives after its limits were replaced
  has to count as one of the exceptions. The run now has the limits that reach this.
* **ExchangeService** (`SaidOfAPublishedHour`), for every feed, number of hours and restarts.
  `Sound` says of each place an hour can be, the file, the result on its way, the digest in hand,
  that it was published, and of the answer that it was read off the digest in hand. The walk takes
  the latest hour it finds, which exists because a set of naturals that is bounded has a maximum.
* **NinjaService** (`EveryAnswerIsAsked`, `NothingTornIsRenewed`), for every economy, time to live and order of
  queries, answers, kills and restarts. `EveryListAsked` alone is not inductive: an answer could be ended by
  a download that was told of another query's lists, and a fresh list replaced by an older one that was on
  its way. `Lacking` says that a download under way fetches only what was not fresh in memory, so it
  changes no list an answer rests on; `Answers`, that a query which waits for no second download has each
  of its lists, asked for or fresh. The proof is in `PriceProofs`, with the exchange's and the panel's.
* **PricePanel** (`PlanStaysOfItem`, `OnlyEscapeLeavesCrossed`, `EveryModifierAccounted`, `RollIsSearched`), for every item, bundle,
  strategy, matching mode and order of ticks, edits, choices and swaps. Half of the proof is about `BuildPlan`
  (`IsPlan`): each part of it makes rows that have their fields and an interval in order (`AreRows`); the
  rows of stats are about just the modifiers the bundle has an id for (`About`) and, outside maps, no
  two about the same one (`Once`). Maps are excepted since the rule for what voids a map names modifiers that
  may have a row of their own. The merge of equal stats and the sums are folds, taken as in `MapCheck` by
  the least length at which fold and meaning part (`FoldSteps`). The other half is the panel's:
  `PanelInv` is that the plan on screen descends from the plan of the item in hand under the choices in force
  (`Descends`: the same rows, each about what it was about, with the bounds it was made with to
  return to), and that only a row whose box holds the caret, or that Escape was pressed on, is crossed (`Ordered`).
  `CrossedOnlyByEscape` alone is not inductive: a reset brings back the bounds a row was made with, which have
  to be in order themselves, and closing the editor has to take the caret with it (`edit = None => box = None`).
  `RollIsSearched` is the step `MatchesItself` rests on: whatever side the setting widens and whatever tier
  gates it, the interval made of a roll holds it (`BoundIs`), the strategy that places the row and the record
  of a unique keep that (`Holds`), and the sign a negated stat is sent with turns both (`HeldIsSent`).
* **ItemText** (`ReadingSound`, `EveryAffixKept`, `RunsAlwaysAdvance`, `OnlyDropsOfItsBase`), for every text made
  of lines and every bundle. The inductive invariant `ReadingInv` says what reading hands to resolving (`ReadOf`:
  each modifier has a line, and just one if no info line opened it) and what resolving leaves
  (`OfItsBase`). `ReadOf` is carried through the parser's folds line by line (`GoodAt`, `ModsSoFar`): in the
  middle of a block the affix an info line has just opened has no line yet, and only there. Resolving cuts
  an affix or a run into parts, wherever the matcher says, and the parts tile its lines, each starting
  where the last one ended (`PartsTile`, `Tiles`). What a list of modifiers says, its lines, its reminders or the
  affixes it opens, is counted up along it (`CountsUp`), so a list that says stretch by stretch what another
  says altogether says the same (`FlatOfStretch`, `FlatByTiles`); `SplitAffixIs` and `ResolveRunIs` show it of one
  affix and one run, `RegroupIs` of the item. Recursive functions are met through a solution of their equation that is
  built first (`WalkExists`). That every run advances (`RunsAdvance`) is needed there too: a run of nothing
  would be taken for ever, in the code as in the proof.
* **DataBundle** (`BundleTypes`, `CurrentSurvives`, `UpToDateSaysSo`). The invariant says for each
  program counter what is whole by then: staged, moved, opened; and that a job is never the version
  `current` already names, which is why `Clear` does not destroy what is in use. `Told` adds, for the
  words "up to date", that what `current` names is opened before it is said, and is what is in use or
  ready at every other step (`UsesCurrent`).
* **SelfUpdate** (`UpdateTypes`, `ProgramSurvives`, `NoDowngrade`,
  `NothingUnasked`, `NoticeSaysSo`). `Typed` is the types and who owns the program's files between two
  renames; `Kept`, for a disk that does not fill up, that what is downloaded, moved aside, staged or
  waited for is whole; `Ordered` that whatever waits to be the program is newer than the one on the
  disk (`NewerWaits`), for which the running program must be the one on the disk whenever it looks for
  news (`LooksFromHere`). It is not after a swap whose copy did not start, and only because the
  notice then stands is there no check that could stage an older release. `NoticeSaysSo` needs that
  what is on its way to be staged is the release that was named and newer than the program that asked
  (`NamedIsNewer`). `ProgramSurvives` has `~DiskFills` as a premiss and `NoDowngrade` `~RemoveFails`:
  without them the properties do not hold.
* **MapCheck** (`NoVerdictIsLost`, `RowsTellTheTables`, `AcceptIsWhatIsLit`, `LastSavedIsHeld`,
  `NextRunFinds`), for every set of bundles, maps, names and searches. The invariant is `Whole`.
  `Held` is `SavedOrPending`; that every table and every proposal is one a file gives back as it was
  (its keys are affixes, none empty and none with an empty wording, and its verdicts are verdicts,
  `RoundTrip`); that the rows are the rating of the map on screen; that the pool's list is of the
  bundle it says, and its proposal of the rows it lights; and that the names in memory list the tables,
  each once. `Kept` is what `config.json` adds: its list of profiles names each once (`ListKept`) and is that of memory
  until a write of it failed, its other settings are those last saved or, once it was cut, the defaults
  (`Remembered`), and the two copies of the configuration have the same fields (`Settings`). Each function of the store keeps its part, in a lemma of
  its own. What the code does in a loop (the longest covering key, the list put together in an
  order) is a fold: its lemma takes the least length at which the fold and its meaning
  part and finds there is none, which needs no induction theorem (`WeighingExists`, `KeepingExists`).
* **Clipboard** (`ClipboardTypes`, `ReadsThisCheck`, `PastesThePut`), for any number of windows, formats
  and changes of hands. The invariant is `TypeOK /\ Letters /\ Served /\ Checked` with both properties.
  `Letters` says what may be in a mailbox: a notice is of an entry of the log that was taken over, an
  answer is to a conversion that was asked for, and a notice of ours precedes the pastes of what we put
  up after it. `Served` ties, at each program counter, what the thread holds to what it last put up.
  `Checked` bounds what a read in hand can still return: of another window only what is later than the
  hotkey, of ours only a put that was given up.

Assumed of the constants, where a proof needs more than their types: the name of a league is not the
empty one that stands for none fetched (`LeagueAssumption`), no draft is the absence of one
(`DraftAssumption`), `Bundles` is a sequence that is not empty (`BundlesAssumption`), and the names
of profiles have an order without repetition that holds the default one (`NamesAssumption`; it is
the order of the directory), a list's time to live is a number (`TtlAssumption`), and the economy has
a body for every list an item asks for (`BodyAssumption`). A text is a sequence of lines, and the line under an
info line is one of its affix (`TextAssumption`): an affix of no line would be lost when resolved. For the
panel: what reading an item and the bundle hand over has the fields and the kinds of numbers the code's
types give them, integers or absent (`ItemAssumption`, `DataAssumption`); the percentages
of the matching are not negative (`MatchAssumption`), what is typed is an integer (`InputAssumption`), and absence is neither a
number nor a box (`NoneAssumption`). Of the operators of `MapVerdicts` two things are assumed that TLC
evaluates on every run: the rows of a map and their references are finite (`RowsAssumption`), and no
group of a pool is of no wording or of an empty one (`GroupsAssumption`, what `PoolGroups` computes).

Only model-checked: everything under fairness, `NextCheckDelivers` with what it supposes of the checks; that a text is read for what was printed and
names what the game meant (`ReadsAsPrinted`, `NamesTheItem`), which say what each text of the instance was made to
mean and so cannot be said of every text (of their parts, `RunsAdvance` and `DropsOnItsBase` are proved);
and what the numbers of a plan and a price come to (`MatchesItself`, `PricedAsItself`): the first is
proved of one modifier's row, and is for a whole item arithmetic over every part of it, where rolls of one stat
are summed by folds on both sides; the second rests on the order a list is sorted into and on what
is picked out of it, which the provers cannot expand.

## 5. Where the repository says otherwise

One sentence has a run of its own, and a finding in `PROJECT.json` that quotes it: `app.hpp:291-295` says
that outside a proposal the list is what the search leaves; after Propose and Cancel
(`screens/settings_screen.cpp:1104`) it still shows the proposal's rows (`ListAsDescribed`).

The others are properties of the modules named. Each is violated in the model; to see it, put it in a
`.cfg` of that module.

| Property | Code | Said in |
|---|---|---|
| `MCAppShell!DeactivatedOnlyInFlight`: Settings hides with the game still out of the foreground | `app.cpp:1648` | `app.cpp:731-735` |
| `DroppedDraftWasSent`: a draft opened while another report is on its way goes with that one's answer | `app.cpp:544` | `app.cpp:542-543` |
| `CaptureIsOfPanel`: the picture is read back a frame or two after the button | `app.cpp:1582` | `app.cpp:1567` |
| `DialogIsNotReplaced` | `app.cpp:1282` | `app.cpp:1149` |
| `PanelHasItem`, `NoStalePanel` with the report dialog: closing it goes back to a panel whatever is in flight | `app.cpp:1621` | `docs/architecture.md:102` |
| `MapPanelHasMap` | `app.cpp:1226` | `app.cpp:666` |
| `MapHotkeyCloses` | `app.cpp:1225` | `app.cpp:1196` |
| `EscapeClosesSettings` | `app.cpp:571` | `app.cpp:1144` |
| `DismissedOnFocusLoss` | `app.cpp:1658` | `app.cpp:589` |
| `GrabsComeBack` | `app.cpp:1716` | `app.cpp:1719` |
| `NudgeAsks` | `app.cpp:718` | `app.cpp:715` |
| `NoFocusSteal` | `app.cpp:1710` | `docs/architecture.md:158` |
| `PricePanel!NeverCrossed`: Escape closes the editor without ordering its bounds | `app.cpp:571` | `screens/pricecheck_screen.cpp:534-537` |
| `MCTradeService!ListingIsPinned`: a listing parsed before a bundle arrived stays | `app.cpp:535` | `app.hpp:149-150` |
| `NobodyMeansNobody`: a page of nothing but failures | `screens/pricecheck_screen.cpp:1575` | `trade/client.cpp:215` |
| `AutoSearchAsks` | `trade_service.cpp:53` | `PRIVACY.md:34` |
| `MCServices!PricedUnderItsName` (with `Checked <- Renamed`): a renamed unique is priced with the line of its own name and of the one it was renamed from | `ninja/ninja.cpp:716` | `ninja/ninja.hpp` (`Query::names`) |
| `SilenceIsRead`: "no trades" is drawn of a league that was not read | `exchange_service.cpp` | `screens/pricecheck_screen.cpp` (`draw_exchange_price`) |
| `RollbackIsStale`: `refresh()` does not ask `fresh()`, so a list from the future is kept until the clock is there again | `league_service.cpp:38` | `leagues.hpp` (`fresh`) |
| `CachedIsShown`: a cached picture cut off by a kill, or a response that was no picture, is read at every launch and never fetched again | `icon_cache.cpp:132-147` | `icon_cache.cpp:22-24` |
| `MCDataBundle!WillRedownload`: a session that could map nothing settles for "up to date" | `data/updater.cpp:135` | `data/updater.cpp:47` |
| `MCSelfUpdate!NeverPartial` (`DiskFills` true): the close that stores the last bytes is not checked, and the digest is of what arrived | `update/updater.cpp:274` | `update/updater.cpp:295-296` |
| `NeverOlder` (`RemoveFails` true): after a swap that left its staged file and whose copy did not start, a second Restart that fails takes the notice down; a check compares with the running program and stages a release older than the one on the disk | `update/install.cpp:160` | `update/updater.cpp:191`, `docs/updater.md` |
| `AtThePath`: killed between the renames, Windows has no program at its path | `update/install.cpp:131` | `docs/updater.md` |
| `ReadyIsStaged`, `FalseChangesNothing`: the copy is not started after the swap was made | `update/updater.cpp:335` | `update/updater.hpp:31`, `:82` |
| `NoticeStays`: the worker answers between `has_news()` and `start_check()` | `app.cpp:1181` | `app.cpp:1178` |
| `KeepsChosen` (under `SpecByHand`): a newer release installed by hand is replaced by the one staged before | `update/updater.cpp:99` | `update/updater.cpp:191` |
| `AlwaysComesBack`: the copy that takes over waits three seconds, while the exit of the old one joins workers that may sit in a request for longer; what `ComesBack` excepts | `app.cpp:241`, `:477-490` | `app.cpp:237-240` |
| `MCMapCheck!LaidOverLastSaved`: `config.json` is rewritten in place, a cut one reads as the defaults, and the launch or the next profile picked writes those over every other setting; what `HoldsLastSaved` excepts | `config.cpp:100-115`, `:151-153`, `app.cpp:333`, `:881-886` | `app.hpp:399-400` |
| `ClickWalks`: a click on a row whose deadly verdict is lent by a shorter affix takes away what it does not have | `mapcheck/verdict.cpp` | `screens/mapcheck_screen.cpp` (`draw_row`) |
| `LosesTheLastClick`: each click starts the delay again, so two within it are both lost | `mapcheck/store.hpp:19-22` | the same |

Of the clipboard, two sentences that a variant of the property refutes: a paste is empty when a
`SelectionClear` for an earlier ownership is still queued as the selection is taken
(`platform/clipboard_x11.cpp:422`, hence the exception `PasteIsThePut` states; `:425-426` says otherwise), and an answer
to a conversion that was given up can be read as that of the next (`:166`).

Of the rate limiter: `trade/ratelimit.hpp:45-51` says a refusal never happens, alongside another client
of the same address too. After a restriction that client provoked, a window of ours can roll over
before the server's and the next request be refused; `NeverOurDoing` holds with the exception it states.

Met while reading, and modelled as the code has it: the pool view keeps pointers of the bundle it was
built from until it is drawn again (`app.cpp:908-918`); `resolve_item` regroups the modifiers and leaves a logbook's
destinations with the indices they had before (`item/resolve.cpp:295-310`, `item/item.hpp:127`); the price list service leaves Loading without disowning what is in flight
(`ninja_service.cpp:44-46`), renews the age of a stale unreadable file by its own 304, and keeps the error of
a failed newer hour beside an older cached digest; a result that finds the event queue full leaves
every service but the bundle's busy for the rest of the run; `mapcheck/verdict.hpp:38-40` says implicits are not
tallied, `mapcheck/rate.cpp:14-34` that they are; a list of leagues that cannot be fetched is asked for again each time
Settings is opened, which the button's pause does not hold back.

## 6. Not modelled, and why

* **Wording, layout, drawing, fonts, codecs**: no property is about them. The numbers' display precision is
  abstracted (`dp`), so what is drawn of a rounded bound is not checked.
* **Scanning of characters**: numbers, ranges and annotations on an item's line are traits of the line; the
  memory-mapped index (`data/index.cpp`) is what a lookup answers.
* **Derived values**: which derived number a modifier is folded into is in `SearchPlan`; the arithmetic
  of DPS and of the recovered base roll is not, being straight-line formulas on reals.
* **JSON**: bodies are usable or not, and hold what they hold.
* **The currency table**: fetched by the trade worker before a search and only ever replaced whole; a search
  without it draws codes for names.
* **The bug report's body and its relay**: `AppShell` has the send in flight, its answer as late as it likes,
  and what either does to the dialog. The relay counts in a store that is stale by design, and limits
  nothing in the program.
* **Window systems, hotkeys, simulated input, HTTP**: thin layers, present as what they report, late.
* **The Windows clipboard, INCR, the relocation of the overlay, dev mode, quitting**: see the components' notes.
* **The settings other than map check's** are fields of one copy that Save writes.
* **Reused addresses**: a bundle is told from another by its identity, the code compares its pointer.

Out of the provers' reach: liveness and `ENABLED`, and induction over data. Where a proof needs what a fold
or a recursive function computes it takes the least length at which the two part. No module uses `RECURSIVE`.
