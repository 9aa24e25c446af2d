------------------------------- MODULE MapCheck -------------------------------
(***************************************************************************)
(* Map check: the rating tables and their files (mapcheck/store.cpp), the  *)
(* map in the popup, the pool browser of Settings with its search and its  *)
(* proposal, and what of it all is kept in config.json (App).              *)
(*                                                                         *)
(* Everything here is the main thread's.  What makes it hard is that a     *)
(* verdict is in four places (the table, the file it is written to later,  *)
(* the rows of the map on screen, the list in Settings), that the bundle   *)
(* under the rows is replaced while they are up, and that the process may  *)
(* end at any step.                                                        *)
(***************************************************************************)
EXTENDS MapVerdicts

CONSTANTS
  Bundles,       \* the game data that can be installed, in the order it is published
  Maps,          \* the items a player checks
  NameOrder,     \* the names a profile can have, as the directory sorts them
  DefaultName,   \* kDefaultProfile
  Searches,      \* the texts of the search box, each with the terms it parses to
  MaxInputs,     \* bound: clicks and keys that change a verdict, a profile, a search, a setting
  MaxFaults,     \* bound: files that cannot be written or removed, runs that are killed
  MaxRuns        \* bound: launches

ASSUME BoundsAssumption == MaxInputs \in Nat /\ MaxFaults \in Nat /\ MaxRuns \in Nat
ASSUME BundlesAssumption == Len(Bundles) \in Nat \ {0} /\ DOMAIN Bundles = 1..Len(Bundles)
ASSUME NamesAssumption ==
  /\ DefaultName \in ToSet(NameOrder) /\ NameOrder \in Seq(ToSet(NameOrder))
  /\ \A i, j \in 1..Len(NameOrder) : NameOrder[i] = NameOrder[j] => i = j
ASSUME SearchesAssumption == "" \in DOMAIN Searches /\ Searches[""] = <<>>

VARIABLES
  store,     \* the tables in memory, and the directory they are files of
  config,    \* config_: the names, the current one and the rest of the settings
  saved,     \* config.json, as Config::load reads it
  screen,
  data,      \* data_: the number of the bundle in use, 0 for none
  map,       \* the number of the item checked last, 0 before the first, and its rows
  edit,      \* map_edit_: the search box and the proposal
  pool,      \* the list in Settings and what it was built from
  count      \* what the bounds count; whether config.json missed a change; and, of the
             \* other settings, what Save last put in it and whether it was cut since

vars == <<store, config, saved, screen, data, map, edit, pool, count>>

Names == ToSet(NameOrder)
GameData(n) == IF n = 0 THEN None ELSE Bundles[n]
Place(name) == CHOOSE i \in DOMAIN NameOrder : NameOrder[i] = name
NoTable == [key \in {} |-> Unrated]

-----------------------------------------------------------------------------
(* The store.  `unwritten' is the files whose last write or removal did    *)
(* not happen; nothing in the program knows it.                            *)

Written(s, name, fails) ==
  IF fails THEN [s EXCEPT !.unwritten = @ \cup {name}]
  ELSE [s EXCEPT !.files = Over([n \in {name} |-> ToJson(s.tables[n])], @),
                 !.unwritten = @ \ {name}]

Flushed(s, failing) ==
  LET written == (s.dirty \ failing) \cap DOMAIN s.tables
  IN [s EXCEPT !.files = Over([name \in written |-> ToJson(s.tables[name])], @),
               !.unwritten = (@ \ written) \cup (failing \cap s.dirty),
               !.dirty = {}]

MarkedOnce(s) == IF s.settled THEN [s EXCEPT !.dirty = @ \cup {s.current}, !.settled = FALSE] ELSE s
Marked(s) == [s EXCEPT !.dirty = @ \cup {s.current}, !.settled = FALSE]

Replaced(s, table) ==
  IF table = s.tables[s.current] THEN s ELSE Marked([s EXCEPT !.tables[s.current] = table])

SetVerdict(s, refs, v) == Replaced(s, Put(s.tables[s.current], refs, v))

(* One Store::set after another, each of a verdict that is not Unrated.    *)
SetVerdicts(s, verdicts) == Replaced(s, Over(verdicts, s.tables[s.current]))

(* names_ and profiles_ are parallel: a name is held if it has a table.    *)
Created(s, name, from, fails) ==
  IF name \in DOMAIN s.tables THEN s
  ELSE LET table == IF from \in DOMAIN s.tables THEN s.tables[from] ELSE NoTable
       IN Written([s EXCEPT !.names = Append(@, name), !.tables = Over([n \in {name} |-> table], @),
                            !.current = name], name, fails)

Removed(s, name, fails) ==
  LET at   == CHOOSE i \in DOMAIN s.names : s.names[i] = name
      left == RemoveAt(s.names, at)
      rest == [s EXCEPT !.names = left, !.dirty = @ \ {name},
                        !.tables = Restrict(@, DOMAIN @ \ {name}),
                        !.files = IF fails THEN @ ELSE Restrict(@, DOMAIN @ \ {name}),
                        !.unwritten = IF fails THEN @ \cup {name} ELSE @ \ {name}]
  IN IF left = <<>> THEN Created(rest, DefaultName, None, FALSE)
     ELSE IF s.current = name
     THEN [rest EXCEPT !.current = left[IF at <= Len(left) THEN at ELSE Len(left)]]
     ELSE rest

(* Store::open: the listed names that have a file, then the other files.   *)
Opened(files, unwritten, listed, current) ==
  LET first == Among(listed, DOMAIN files)
      names == first \o Among(NameOrder, DOMAIN files \ ToSet(first))
      s     == [names |-> names, tables |-> [name \in DOMAIN files |-> FromJson(files[name])],
                current |-> current, dirty |-> {}, settled |-> TRUE,
                files |-> files, unwritten |-> unwritten]
  IN IF names = <<>> THEN Created(s, DefaultName, None, FALSE)
     ELSE [s EXCEPT !.current = IF current \in ToSet(names) THEN current ELSE names[1]]

-----------------------------------------------------------------------------
(* config.json.  The two fields that are map check's are written at once,  *)
(* into what the file holds: the rest of the settings wait for Save.  The  *)
(* file is rewritten in place and nobody checks the write, so it may not   *)
(* be opened at all, or be left cut; and a cut one reads as the defaults.  *)

Defaults == [names |-> <<>>, current |-> "", other |-> "as shipped"]
Outcomes == {"done", "refused", "cut"}
Rewritten(onDisk, c, outcome) ==
  IF outcome = "done" THEN c ELSE IF outcome = "cut" THEN Defaults ELSE onDisk

ListingOnly(c, s) == [c EXCEPT !.names = s.names]
Listing(c, s) == [c EXCEPT !.names = s.names, !.current = s.current]
Selecting(c, s) == [c EXCEPT !.current = s.current]

PersistConfigWhole(c, onDisk) == c
PersistMapProfile(c, onDisk) == [onDisk EXCEPT !.names = c.names, !.current = c.current]

Persists(c, outcome) ==
  /\ config' = c
  /\ saved' = Rewritten(saved, PersistMapProfile(c, saved), outcome)

-----------------------------------------------------------------------------
(* The rows of the map on screen.                                          *)

Reread(m, s) ==
  [m EXCEPT !.rows = [i \in DOMAIN m.rows |->
     IF Rateable(m.rows[i]) THEN Row(m.rows[i].refs, s.tables[s.current]) ELSE m.rows[i]]]

NoMap == [item |-> 0, rows |-> <<>>]
Rebuilt(item, b, s) ==
  [item |-> item, rows |-> Rate(Maps[item], s.tables[s.current], GameData(b))]

(* What Rate makes of every map: so many rows, each of so many wordings.   *)
ASSUME RowsAssumption ==
  \A item \in DOMAIN Maps, b \in 0..Len(Bundles) :
    LET rows == Rate(Maps[item], NoTable, GameData(b))
    IN IsFiniteSet(DOMAIN rows) /\ \A i \in DOMAIN rows : IsFiniteSet(rows[i].refs)

-----------------------------------------------------------------------------
(* The list in Settings: App::map_pool_view, called by every frame that    *)
(* draws the tab.                                                          *)

NoProposal == [key \in {} |-> Unrated]
Proposing(e) == DOMAIN e.proposal # {}
Cleared(e) == [e EXCEPT !.proposal = NoProposal]
Stale(p) == [p EXCEPT !.stale = TRUE]

Groups == [b \in 0..Len(Bundles) |-> IF b = 0 THEN <<>> ELSE PoolGroups(GameData(b))]

(* What PoolGroups makes of every bundle: an affix of no wording is none,  *)
(* and without a pool there are no groups.                                 *)
ASSUME GroupsAssumption ==
  \A b \in 0..Len(Bundles) :
    /\ Groups[b] \in Seq(ToSet(Groups[b]))
    /\ ~HasPools(GameData(b)) => Groups[b] = <<>>
    /\ \A g \in ToSet(Groups[b]) : g.refs # {} /\ "" \notin g.refs /\ IsFiniteSet(g.refs)

Lines == [b \in 0..Len(Bundles) |->
            [g \in ToSet(Groups[b]) |-> GroupLines(GameData(b), g)]]
\* A row of the list points into the bundle its group is of.
Rows(groups) == [i \in DOMAIN groups |-> [of |-> groups[i].of, refs |-> groups[i].refs]]
Left == [b \in 0..Len(Bundles) |->
           [text \in DOMAIN Searches |->
              LET filter == SearchFilter(Searches[text])
              IN Rows(Among(Groups[b], {g \in ToSet(Groups[b]) : Matches(filter, Lines[b][g])}))]]
Proposed(b, proposal) ==
  LET groups == Rows(Groups[b])
  IN Among(groups, {g \in ToSet(groups) : g.refs \in DOMAIN proposal})

MapPoolView(p, e, b) ==
  IF Proposing(e)
  THEN IF p.stale THEN [p EXCEPT !.view = Proposed(b, e.proposal), !.stale = FALSE] ELSE p
  ELSE IF ~p.stale /\ p.filter = e.filter /\ p.data = b THEN p
  ELSE [view |-> Left[b][e.filter], filter |-> e.filter, data |-> b, stale |-> FALSE]

\* What the frame an input arrives in has drawn.
Drawn == IF HasPools(GameData(data)) THEN MapPoolView(pool, edit, data) ELSE pool
OnTheList(g) == HasPools(GameData(data)) /\ g \in ToSet(Drawn.view)

PoolVerdict(g) ==
  LET table == store.tables[store.current]
  IN IF Proposing(edit)
     THEN IF g.refs \in DOMAIN edit.proposal THEN edit.proposal[g.refs] ELSE Unrated
     ELSE IF Exact(table, g.refs) # Unrated THEN Exact(table, g.refs)
     ELSE VerdictOf(table, g.refs)

Hit(b, text) ==
  [g \in ToSet(Groups[b]) |-> Classify(SearchFilter(Searches[text]), Lines[b][g])]

\* A verdict for each wording of what a term hit, which the second design wrote.
PerWording(b, text) ==
  LET named == {g \in ToSet(Groups[b]) : Hit(b, text)[g] # "None"}
  IN [key \in UNION {{{w} : w \in g.refs} : g \in named} |-> Deadly]
Proposal(b, text) ==
  LET hits == {g \in ToSet(Groups[b]) : Hit(b, text)[g] # "None"}
  IN [key \in {g.refs : g \in hits} |->
        IF \E g \in hits : g.refs = key /\ Hit(b, text)[g] = "Unwanted" THEN Deadly ELSE Safe]

-----------------------------------------------------------------------------
Blank == [filter |-> "", proposal |-> NoProposal]
NoList == [view |-> <<>>, filter |-> "", data |-> 0, stale |-> TRUE]

Init ==
  LET s == Opened([name \in {} |-> Torn], {}, <<>>, "")
  IN /\ store = s
     /\ config = Listing(Defaults, s)
     /\ saved = Listing(Defaults, s)
     /\ screen = "Hidden"
     /\ data \in 0..1
     /\ map = NoMap
     /\ edit = Blank
     /\ pool = NoList
     /\ count = [inputs |-> 0, faults |-> 0, runs |-> 1, missed |-> FALSE,
                 kept |-> Defaults.other, cut |-> FALSE]

MayFail(n) == count.faults + n <= MaxFaults
Input(n) == count.inputs < MaxInputs /\ count' = [count EXCEPT !.inputs = @ + 1, !.faults = @ + n]
InputSaving(n, outcome) ==
  /\ count.inputs < MaxInputs
  /\ count' = [count EXCEPT !.inputs = @ + 1, !.faults = @ + n, !.missed = outcome # "done",
                            !.cut = @ \/ outcome = "cut"]
Fault(fails) == IF fails THEN 1 ELSE 0
Faults(outcome) == Fault(outcome # "done")
Failing(names) == {F \in SUBSET names : Cardinality(F) <= 1 /\ MayFail(Cardinality(F))}

(* App::set_screen: whichever way a screen that can rate is left.          *)
Flushes(s, to, F) ==
  IF screen \in {"MapCheck", "Settings"} /\ to # screen THEN Flushed(s, F) ELSE s

SetScreen(to) ==
  \E F \in Failing(store.dirty) :
    /\ screen' = to
    /\ store' = Flushes(store, to, F)
    /\ count' = [count EXCEPT !.faults = @ + Cardinality(F)]

Close ==
  /\ screen # "Hidden"
  /\ SetScreen("Hidden")
  /\ UNCHANGED <<config, saved, data, map, edit, pool>>

OpenSettings ==
  /\ screen # "Settings"
  /\ SetScreen("Settings")
  /\ UNCHANGED <<config, saved, data, map, edit, pool>>

\* The item is read and rated before the popup opens, whatever was up; what
\* rolls from no pool is dropped again, the check with it.
CheckMap(item) ==
  /\ screen # "MapCheck"
  /\ map' = Rebuilt(item, data, store)
  /\ SetScreen(IF IsRateable(Maps[item], GameData(data)) THEN "MapCheck" ELSE "Hidden")
  /\ UNCHANGED <<config, saved, data, edit, pool>>

DataEvent(i) ==
  /\ data < i
  /\ data' = i
  /\ map' = IF map.item # 0 THEN Rebuilt(map.item, i, store) ELSE map
  /\ UNCHANGED <<store, config, saved, screen, edit, pool, count>>

-----------------------------------------------------------------------------
(* The popup.                                                              *)

RateRow(i, right) ==
  /\ screen = "MapCheck" /\ i \in DOMAIN map.rows /\ Rateable(map.rows[i])
  /\ store' = SetVerdict(store, map.rows[i].refs,
                         IF right THEN Unrated ELSE NextVerdict(map.rows[i].verdict))
  /\ map' = Reread(map, store')
  /\ Input(0)
  /\ UNCHANGED <<config, saved, screen, data, edit, pool>>

(* Both screens offer the profiles.                                        *)
SelectProfile(name) ==
  /\ screen # "Hidden" /\ name \in ToSet(store.names) \ {store.current}
  /\ \E F \in Failing(store.dirty), outcome \in Outcomes :
       /\ MayFail(Cardinality(F) + Faults(outcome))
       /\ store' = [Flushed(store, F) EXCEPT !.current = name]
       /\ Persists(Selecting(config, store'), outcome)
       /\ InputSaving(Cardinality(F) + Faults(outcome), outcome)
  /\ map' = Reread(map, store')
  /\ UNCHANGED <<screen, data, edit, pool>>

(* The frame goes through the writes before it looks at the list again.    *)
InSettings == screen = "Settings"
Redraws(p, e) == pool' = IF HasPools(GameData(data)) THEN MapPoolView(p, e, data) ELSE p

Draw ==
  /\ InSettings
  /\ pool # Drawn
  /\ pool' = Drawn
  /\ UNCHANGED <<store, config, saved, screen, data, map, edit, count>>

ProfilesChanged(outcome) ==
  /\ Persists(Listing(config, store'), outcome)
  /\ map' = Reread(map, store')
  /\ edit' = Cleared(edit)
  /\ Redraws(Stale(pool), edit')
  /\ UNCHANGED <<screen, data>>

CreateProfile(name, from) ==
  /\ InSettings /\ name \in Names \ ToSet(store.names)
  /\ from \in {None} \cup ToSet(store.names)
  /\ \E fails \in BOOLEAN, outcome \in Outcomes :
       /\ MayFail(Fault(fails) + Faults(outcome))
       /\ store' = Created(store, name, from, fails)
       /\ ProfilesChanged(outcome)
       /\ InputSaving(Fault(fails) + Faults(outcome), outcome)

DeleteProfile(name) ==
  /\ InSettings /\ name \in ToSet(store.names)
  /\ \E fails \in BOOLEAN, outcome \in Outcomes :
       /\ MayFail(Fault(fails) + Faults(outcome))
       /\ store' = Removed(store, name, fails)
       /\ ProfilesChanged(outcome)
       /\ InputSaving(Fault(fails) + Faults(outcome), outcome)

EditFilter(text) ==
  /\ InSettings /\ text # edit.filter
  /\ edit' = [filter |-> text, proposal |-> NoProposal]
  /\ Redraws(pool, edit')
  /\ Input(0)
  /\ UNCHANGED <<store, config, saved, screen, data, map>>

Propose ==
  /\ InSettings /\ edit.filter # ""
  /\ edit' = [edit EXCEPT !.proposal = Proposal(data, edit.filter)]
  /\ Redraws(Stale(pool), edit')
  /\ Input(0)
  /\ UNCHANGED <<store, config, saved, screen, data, map>>

RateGroup(g, v) ==
  /\ InSettings /\ OnTheList(g)
  /\ edit' = Cleared(edit)
  /\ pool' = Stale(Drawn)
  /\ store' = SetVerdict(store, g.refs, v)
  /\ map' = Reread(map, store')
  /\ Input(0)
  /\ UNCHANGED <<config, saved, screen, data>>

AcceptProposal ==
  /\ InSettings /\ HasPools(GameData(data)) /\ Proposing(edit)
  /\ \E F \in Failing({store.current}) :
       /\ store' = Flushed(SetVerdicts(store, edit.proposal), F)
       /\ Input(Cardinality(F))
  /\ edit' = Cleared(edit)
  /\ pool' = Stale(Drawn)
  /\ map' = Reread(map, store')
  /\ UNCHANGED <<config, saved, screen, data>>

CancelProposal ==
  /\ InSettings /\ HasPools(GameData(data)) /\ Proposing(edit)
  /\ edit' = Cleared(edit)
  /\ pool' = Drawn
  /\ Input(0)
  /\ UNCHANGED <<store, config, saved, screen, data, map>>

(* Any other row of Settings, and its Save.                                *)
EditSetting ==
  /\ InSettings
  /\ config' = [config EXCEPT !.other = "edited"]
  /\ Input(0)
  /\ UNCHANGED <<store, saved, screen, data, map, edit, pool>>

Save ==
  /\ InSettings /\ count.inputs < MaxInputs
  /\ \E outcome \in Outcomes :
       /\ MayFail(Faults(outcome))
       /\ saved' = Rewritten(saved, config, outcome)
       /\ count' = [count EXCEPT !.inputs = @ + 1, !.faults = @ + Faults(outcome),
                                 !.missed = outcome # "done" /\ (@ \/ outcome = "cut"),
                                 !.kept = IF outcome = "done" THEN config.other ELSE @,
                                 !.cut = outcome # "done" /\ (@ \/ outcome = "cut")]
  /\ UNCHANGED <<store, config, screen, data, map, edit, pool>>

-----------------------------------------------------------------------------
(* The throttle, and the end of a run.                                     *)

WriteDelayPasses ==
  /\ ~store.settled /\ store.dirty # {}
  /\ store' = [store EXCEPT !.settled = TRUE]
  /\ UNCHANGED <<config, saved, screen, data, map, edit, pool, count>>

Tick ==
  /\ store.dirty # {} /\ store.settled
  /\ \E F \in Failing(store.dirty) :
       /\ store' = Flushed(store, F)
       /\ count' = [count EXCEPT !.faults = @ + Cardinality(F)]
  /\ UNCHANGED <<config, saved, screen, data, map, edit, pool>>

(* The next run reads config.json and the directory, and writes the list   *)
(* of profiles back at once, into what it has just read.                   *)
Launch(files, unwritten, onDisk, faults) ==
  LET s == Opened(files, unwritten, onDisk.names, onDisk.current)
  IN /\ count.runs < MaxRuns
     /\ store' = s
     /\ config' = Listing(onDisk, s)
     /\ \E outcome \in Outcomes :
          /\ MayFail(faults + Faults(outcome))
          /\ saved' = Rewritten(onDisk, PersistMapProfile(config', onDisk), outcome)
          /\ count' = [count EXCEPT !.runs = @ + 1, !.faults = @ + faults + Faults(outcome),
                                    !.missed = outcome # "done",
                                    !.cut = @ \/ outcome = "cut" \/ onDisk # saved]
     /\ screen' = "Hidden"
     /\ map' = NoMap
     /\ edit' = Blank
     /\ pool' = NoList
     /\ UNCHANGED data

Quit ==
  \E F \in Failing(store.dirty) :
    LET last == Flushed(store, F)
    IN Launch(last.files, last.unwritten, saved, Cardinality(F))

\* Killed: nothing is flushed, and the one file being written, if one was, is cut: the
\* table of a profile; or config.json, under a Save, or under a profile that was picked once the
\* tables were flushed.
Killed(T, onDisk) ==
  Launch(Over([name \in T |-> Torn], store.files), store.unwritten \cup T, onDisk, 1)
KilledFlushing == \E T \in SUBSET store.dirty : Cardinality(T) <= 1 /\ Killed(T, saved)
KilledSaving == /\ InSettings \/ (screen = "MapCheck" /\ store.dirty = {})
                /\ Killed({}, Defaults)
Kill == KilledFlushing \/ KilledSaving

-----------------------------------------------------------------------------
Next ==
  \/ Close \/ OpenSettings \/ Draw \/ Propose \/ AcceptProposal \/ CancelProposal
  \/ EditSetting \/ Save \/ WriteDelayPasses \/ Tick \/ Quit \/ Kill
  \/ \E item \in DOMAIN Maps : CheckMap(item)
  \/ \E i \in DOMAIN Bundles : DataEvent(i)
  \/ \E i \in DOMAIN map.rows, right \in BOOLEAN : RateRow(i, right)
  \/ \E name \in Names : SelectProfile(name) \/ DeleteProfile(name)
  \/ \E name \in Names, from \in {None} \cup Names : CreateProfile(name, from)
  \/ \E text \in DOMAIN Searches : EditFilter(text)
  \/ \E g \in ToSet(Drawn.view), v \in Verdicts : RateGroup(g, v)

Spec == Init /\ [][Next]_vars

-----------------------------------------------------------------------------
(* Every table is on disk as it is in memory, or is waiting for a flush    *)
(* that a screen still up will make, or its last write failed: no click is *)
(* lost between the two, whatever is switched, copied, removed, closed or  *)
(* restarted (Store::mark, flush, create, remove, App::set_screen).        *)
InStep(s, name) ==
  \/ name \in s.dirty \cup s.unwritten
  \/ name \in DOMAIN s.files /\ FromJson(s.files[name]) = s.tables[name]
SavedOrPending ==
  /\ \A name \in DOMAIN store.tables : InStep(store, name)
  /\ store.dirty # {} => screen \in {"MapCheck", "Settings"}

(* A row of the map on screen shows what the tables say now, by the rule   *)
(* of verdict.hpp: its own verdict if it has one, else the worst of the    *)
(* most particular ones that cover it; and one deadly row is fatal.        *)
RowsAgree ==
  LET table == store.tables[store.current]
      Covering(r) == {key \in DOMAIN table : key \subseteq r.refs}
      Closest(r) == {key \in Covering(r) :
                       \A other \in Covering(r) : Cardinality(other) <= Cardinality(key)}
      Says(r) == IF r.refs \in DOMAIN table THEN table[r.refs]
                 ELSE Max({Unrated} \cup {table[key] : key \in Closest(r)})
  IN /\ \A i \in DOMAIN map.rows : map.rows[i].verdict = Says(map.rows[i])
     /\ (Assess(Tally(map.rows)) = "Fatal")
          <=> \E i \in DOMAIN map.rows : Says(map.rows[i]) = Deadly

(* What Accept writes is the list in front of the user, row by row, and    *)
(* nothing else ("the rows the list lights are the keys Accept writes, one *)
(* for one"), whatever was searched, switched or installed meanwhile.      *)
AcceptWritesTheList ==
  [][AcceptProposal =>
       LET before == store.tables[store.current]
           after  == store'.tables[store.current]
       IN /\ \A g \in ToSet(Drawn.view) : Exact(after, g.refs) = PoolVerdict(g)
          /\ \A key \in DOMAIN before \cup DOMAIN after :
               Exact(before, key) # Exact(after, key) =>
                 \E g \in ToSet(Drawn.view) : g.refs = key]_vars

(* What config.json says: the profiles as they are, unless the last write  *)
(* of them failed; and of every other setting what Save last put there,    *)
(* never an edit that waits for Save, whichever screen changed a profile   *)
(* and however often the program was ended in between.  A write cut short  *)
(* takes the other settings back to the defaults, the only other thing     *)
(* they can be (persist_map_profile, Config::load, Config::save).          *)
HoldsLastSaved ==
  /\ ~count.missed => saved.names = store.names /\ saved.current = store.current
  /\ saved.other # count.kept => count.cut /\ saved.other = Defaults.other

(* The next run finds what this one had: every table whose file was        *)
(* written, and with nothing failed the same profiles in the same order    *)
(* with the same one in use (Store::open, map_profiles_changed).  A        *)
(* profile whose file was never made is not there to be found; and a       *)
(* config.json that was cut costs the order and the choice, never a table. *)
NeverFiled(s) == {name \in s.unwritten : name \notin DOMAIN s.files}
RelaunchKeeps ==
  [][Quit \/ Kill =>
       /\ \A name \in ToSet(store.names) \ (store'.unwritten \cup NeverFiled(store)) :
            Quit \/ name \notin store.dirty =>
              name \in ToSet(store'.names) /\ store'.tables[name] = store.tables[name]
       /\ ~KilledSaving /\ store'.unwritten = {} /\ ~count.missed =>
            store'.names = store.names /\ store'.current = store.current]_vars

=============================================================================
