------------------------------ MODULE PricePanel ------------------------------
(***************************************************************************)
(* The filter list of a price check (screens/pricecheck_screen.cpp with    *)
(* app.cpp behind it): rows ticked and unticked, one alternative picked,   *)
(* an interval dragged or typed, another strategy or another unique, a new *)
(* bundle under the item in hand.  The plan itself is SearchPlan's.        *)
(***************************************************************************)
EXTENDS SearchPlan

CONSTANTS
  Texts,        \* what can be on the clipboard
  After,        \* bound: [Texts -> SUBSET Texts], what may be copied after what
  Bundles,      \* what can be installed
  Item,         \* [Texts -> [Bundles -> item]]: the text read with a bundle
  GameData,     \* [Bundles -> what BuildPlan asks of the bundle]
  Match,        \* the range-matching setting
  Typable,      \* the numbers a user types or drags to
  MaxMoves      \* bound: changes made to one price check

(* What reading and the bundle hand over: numbers that are integers or     *)
(* absent, and lists.                                                      *)
OptInt == Int \cup {None}
IsMod(m) == m.rolls \in Seq(Int) /\ m.bounds \in Seq(Int \X Int)
IsItem(it) ==
  /\ {"is", "rarity", "ilvl", "quality", "gemLevel", "mapTier", "flags", "influences", "base", "printed",
      "name", "unique", "candidates", "category", "prop", "propertyLines", "derived", "sockets", "links",
      "mods", "areas", "effects", "chartArea"} \subseteq DOMAIN it
  /\ it.mods \in Seq(Range(it.mods)) /\ \A m \in Range(it.mods) : IsMod(m)
  /\ it.areas \in Seq(Range(it.areas)) /\ it.effects \in Seq(Range(it.effects))
  /\ it.ilvl \in OptInt /\ it.gemLevel \in OptInt /\ it.mapTier \in OptInt
  /\ it.quality \in Int /\ it.sockets \in Int /\ it.links \in Int
  /\ \A k \in DOMAIN it.prop : it.prop[k].num \in OptInt /\ it.prop[k].total \in OptInt
  /\ \A k \in DOMAIN it.derived : it.derived[k] \in Int
IsData(gd) ==
  \A u \in DOMAIN gd.uniques : \A id \in DOMAIN gd.uniques[u].entry :
    gd.uniques[u].entry[id].min \in OptInt /\ gd.uniques[u].entry[id].max \in OptInt

ASSUME ItemAssumption == \A t \in Texts, b \in Bundles : IsItem(Item[t][b])
ASSUME DataAssumption == \A b \in Bundles : IsData(GameData[b])
ASSUME MatchAssumption == Match.min.pct \in Nat /\ Match.max.pct \in Nat
ASSUME InputAssumption == Typable \subseteq Int /\ After \in [Texts -> SUBSET Texts]

VARIABLES
  text, bundle, \* the item in hand and the bundle it was read with
  override,     \* strategy_override_, None when the default stands
  chosen,       \* unique_choice_: a name, or None
  plan,
  edit,         \* filter_edit_: [list, row] of the open editor, or None
  box,          \* the bound whose box holds the caret, or None
  typedMax,     \* BoundText::typed_max
  shown,        \* hidden_filters_shown_
  escaped,      \* history: rows the Escape key closed the editor on
  moves
vars == <<text, bundle, override, chosen, plan, edit, box, typedMax, shown, escaped, moves>>

Lists == {"stats", "nums"}
Rows(l) == IF l = "stats" THEN plan.stats ELSE plan.nums

(* The item in hand: a choice of unique is matched by name against the     *)
(* candidates the bundle offers.                                           *)
Read(t, b, u) ==
  LET it == Item[t][b]
      named == {c \in it.candidates : c.name = u}
  IN IF named = {} THEN it ELSE [it EXCEPT !.unique = CHOOSE c \in named : TRUE]
Hand == Read(text, bundle, chosen)
Names == {None} \cup {c.name : c \in UNION {Item[t][b].candidates : t \in Texts, b \in Bundles}}
Forced == {None, "Modifiers", "BaseItem"}
Plans ==
  [t \in Texts |-> [b \in Bundles |-> [s \in Forced |-> [u \in Names |->
     BuildPlan(GameData[b], Read(t, b, u), s, Match)]]]]
Planned(t, b, s, u) == Plans[t][b][s][u]

NeedsUniqueChoice(it) ==
  /\ it.rarity = "Unique" /\ "identified" \notin it.flags
  /\ it.unique = None /\ Cardinality(it.candidates) > 1
CanSearch == ~NeedsUniqueChoice(Hand) /\ Searchable(plan) /\ ~Hand.exchange

-----------------------------------------------------------------------------
RebuiltKeepingRows(t, b, s, u) ==
  /\ text' = t /\ bundle' = b /\ override' = s /\ chosen' = u
  /\ plan' = IF t = text THEN plan ELSE Planned(t, b, s, u)
  /\ edit' = None /\ box' = None /\ typedMax' = FALSE
  /\ shown' = FALSE /\ escaped' = {}
Rebuilt(t, b, s, u) ==
  /\ text' = t /\ bundle' = b /\ override' = s /\ chosen' = u
  /\ plan' = Planned(t, b, s, u)
  /\ edit' = None /\ box' = None /\ typedMax' = FALSE
  /\ shown' = FALSE /\ escaped' = {}

Init ==
  /\ text \in Texts /\ bundle \in Bundles
  /\ override = None /\ chosen = None
  /\ plan = Planned(text, bundle, None, None)
  /\ edit = None /\ box = None /\ typedMax = FALSE
  /\ shown = FALSE /\ escaped = {} /\ moves = MaxMoves

Move == moves > 0 /\ moves' = moves - 1

(* Another item is copied: what was chosen for the last one goes with it.  *)
Copy == \E t \in After[text] : Rebuilt(t, bundle, None, None) /\ moves' = MaxMoves

(* A bundle arrives while the panel is up: the choices stand, the rows go. *)
SwapBundle == Move /\ \E b \in Bundles \ {bundle} : Rebuilt(text, b, override, chosen)

ReadsTwoWays == Hand.rarity \in {"Magic", "Rare"}
                /\ Hand.is \cap {"map", "chart", "beast", "heist", "logbook"} = {}
SetStrategy ==
  /\ Move /\ edit = None /\ ReadsTwoWays
  /\ \E s \in {"Modifiers", "BaseItem"} \ {plan.strategy} : Rebuilt(text, bundle, s, chosen)

SetUnique ==
  /\ Move /\ edit = None
  /\ \E u \in {c.name : c \in Hand.candidates} \cup {None} :
       /\ IF u = None THEN Hand.unique # None /\ Cardinality(Hand.candidates) > 1
                      ELSE NeedsUniqueChoice(Hand)
       /\ Rebuilt(text, bundle, override, u)

-----------------------------------------------------------------------------
(* Rows: none of them is a target while the editor is up. *)

Drawn(l, r) ==
  LET f == Rows(l)[r]
  IN IF f.hidden THEN shown
     ELSE l = "stats" => (f.choice = None \/ (f.choice = plan.choice /\ ~f.primary))
HasInterval(l, f) ==
  l = "stats" => (~f.negated /\ \E b \in {f.min, f.max, f.rmin, f.rmax} : b # None)

Panel == <<text, bundle, override, chosen>>
Editor == <<edit, box, typedMax>>

TickRow ==
  /\ Move /\ edit = None /\ UNCHANGED <<Panel, Editor, shown, escaped>>
  /\ \/ \E l \in Lists : \E r \in DOMAIN Rows(l) :
          Drawn(l, r) /\ plan' = [plan EXCEPT ![l][r].on = ~@]
     \/ \E o \in DOMAIN plan.opts :
          plan.opts[o].shown /\ plan' = [plan EXCEPT !.opts[o].on = ~@]

Choose ==
  /\ Move /\ edit = None /\ UNCHANGED <<Panel, Editor, shown, escaped>>
  /\ \E c \in DOMAIN plan.choices \ {plan.choice} : plan' = SelectChoice(plan, c)

ToggleHidden ==
  /\ edit = None /\ \E l \in Lists : \E r \in DOMAIN Rows(l) : Rows(l)[r].hidden
  /\ shown' = ~shown /\ UNCHANGED <<Panel, Editor, plan, escaped, moves>>

-----------------------------------------------------------------------------
(* The range editor. *)

Crossed(f) == f.min # None /\ f.max # None /\ f.min > f.max

(* The bound that was not being typed is carried to the one that was.      *)
CarryUp(f, maxTyped) ==
  IF Crossed(f) /\ maxTyped THEN [f EXCEPT !.min = f.max] ELSE f
OrderBounds(f, maxTyped) ==
  IF ~Crossed(f) THEN f
  ELSE IF maxTyped THEN [f EXCEPT !.min = f.max] ELSE [f EXCEPT !.max = f.min]

Write(e, f) == plan' = [plan EXCEPT ![e.list][e.row] = f]
Row == Rows(edit.list)[edit.row]

OpenEditor ==
  /\ Move /\ edit = None
  /\ \E l \in Lists : \E r \in DOMAIN Rows(l) :
       /\ Drawn(l, r) /\ HasInterval(l, Rows(l)[r])
       /\ edit' = [list |-> l, row |-> r]
  /\ box' = None /\ typedMax' = FALSE
  /\ UNCHANGED <<Panel, plan, shown, escaped>>

(* A keystroke writes its bound through, in whatever order it leaves them. *)
(* An empty box is no bound.                                               *)
Type ==
  /\ Move /\ edit # None
  /\ \E b \in {"min", "max"}, v \in Typable \cup {None} :
       /\ box \in {None, b}
       /\ Write(edit, [Row EXCEPT ![b] = v])
       /\ box' = b /\ typedMax' = (b = "max")
  /\ UNCHANGED <<Panel, edit, shown, escaped>>

LeaveBox ==
  /\ edit # None /\ box # None
  /\ Write(edit, OrderBounds(Row, box = "max"))
  /\ box' = None /\ UNCHANGED <<Panel, edit, typedMax, shown, escaped, moves>>

(* A drag past the other knob takes it along; pressing the slider leaves   *)
(* the box.                                                                *)
Drag ==
  /\ Move /\ edit # None
  /\ \E v \in Typable :
       \/ Write(edit, [Row EXCEPT !.min = v, !.max = IF @ # None /\ @ < v THEN v ELSE @])
       \/ Write(edit, [Row EXCEPT !.max = v, !.min = IF @ # None /\ @ > v THEN v ELSE @])
  /\ box' = None /\ UNCHANGED <<Panel, edit, typedMax, shown, escaped>>

Reset ==
  /\ edit # None /\ box = None
  /\ Write(edit, [Row EXCEPT !.min = Row.smin, !.max = Row.smax])
  /\ UNCHANGED <<Panel, Editor, shown, escaped, moves>>

CloseEditor == edit' = None /\ box' = None /\ UNCHANGED <<Panel, typedMax, shown, moves>>

(* Confirm, by its button or by Enter: the box is left on the same frame.  *)
Confirm ==
  /\ edit # None /\ CloseEditor /\ UNCHANGED escaped
  /\ Write(edit, IF box = None THEN Row ELSE OrderBounds(Row, box = "max"))

(* A press away from the popup: ImGui closes it, and the editor follows.   *)
ClickAway ==
  /\ edit # None /\ CloseEditor /\ UNCHANGED escaped
  /\ Write(edit, OrderBounds(Row, typedMax))

(* Escape is taken by the event handler, which closes the editor itself:   *)
(* the next frame does not draw it and nothing puts the bounds in order.   *)
Escape ==
  /\ edit # None /\ CloseEditor /\ UNCHANGED plan
  /\ escaped' = escaped \cup {edit}

Next ==
  \/ Copy \/ SwapBundle \/ SetStrategy \/ SetUnique
  \/ TickRow \/ Choose \/ ToggleHidden
  \/ OpenEditor \/ Type \/ LeaveBox \/ Drag \/ Reset \/ Confirm \/ ClickAway \/ Escape

Spec == Init /\ [][Next]_vars

-----------------------------------------------------------------------------
(* The trade site, as the code knows it: what it indexes a listing of the  *)
(* item in hand under.                                                     *)

Sum(S, val(_)) == FoldSet(LAMBDA x, acc : acc + val(x), 0, S)

(* The mods a stat id is about, and their total in the site's own sign.    *)
Bearing(it, id) == {i \in DOMAIN it.mods : HasId(it.mods[i]) /\ it.mods[i].stat.ids[it.mods[i].as] = id}
Indexed(it, id) ==
  LET value(i) == IF RollFor(it.mods[i]).value = None THEN 0
                  ELSE IF it.mods[i].stat.inverted THEN -RollFor(it.mods[i]).value
                  ELSE RollFor(it.mods[i]).value
  IN IF id = "affix_count"
       THEN Cardinality({i \in DOMAIN it.mods : it.mods[i].type = "explicit" /\ ~it.mods[i].continuation})
     ELSE IF id \in Range(Drops) THEN Num(it, id) ELSE Sum(Bearing(it, id), value)
Carries(it, id) ==
  \/ Bearing(it, id) # {} \/ id \in Range(it.effects)
  \/ id = "affix_count" \/ (id \in Range(Drops) /\ HasLine(it, id))
  \/ \E a \in Range(it.areas) : id \in {a.faction, a.area}
(* A number that is no roll is indexed under nothing a bound can find.     *)
Comparable(it, id) == \A i \in Bearing(it, id) : it.mods[i].rolls # <<>> /\ it.mods[i].real

Within(v, min, max) == (min # None => v # None /\ v >= min) /\ (max # None => v # None /\ v <= max)
MeetsStat(it, f) ==
  /\ Carries(it, f.id)
  /\ (f.min # None \/ f.max # None) => Comparable(it, f.id) /\ Within(Indexed(it, f.id), f.min, f.max)

Fact(it, key) ==
  CASE key = "ilvl" -> it.ilvl [] key = "quality" -> it.quality
    [] key = "gem_level" -> it.gemLevel [] key = "map_tier" -> it.mapTier
    [] key = "sockets" -> it.sockets [] key = "links" -> it.links
    [] key = "sanctum_resolve" -> Num(it, "resolve")
    [] key = "sanctum_max_resolve" -> Total(it, "resolve")
    [] key = "sanctum_inspiration" -> Num(it, "inspiration")
    [] key = "sanctum_gold" -> Num(it, "aureus")
    [] key = "chart_sulphur" -> Num(it, "sulphur")
    [] key = "heist_wings" -> Num(it, "wings") [] key = "heist_max_wings" -> Total(it, "wings")
    [] key = "heist_escape_routes" -> Num(it, "routes")
    [] key = "heist_reward_rooms" -> Num(it, "rooms")
    [] key = "heist_max_reward_rooms" -> Total(it, "rooms")
    [] key \in DOMAIN it.derived -> it.derived[key]
    [] OTHER -> Num(it, key)
(* The percentile is compared unrounded. *)
MeetsNumber(it, n) ==
  IF n[2] = "base_defence_percentile" THEN Derived(it, "base_pct") >= 100 * n[3]
  ELSE Within(Fact(it, n[2]), n[3], n[4])

HasFlag == [corrupted |-> "corrupted", mirrored |-> "mirrored", mutated |-> "foulborn",
            identified |-> "identified", synthesised_item |-> "synthesised",
            fractured_item |-> "fractured", map_blighted |-> "blighted", map_uberblighted |-> "ravaged"]
OptionOf(it, key) ==
  CASE key \in DOMAIN HasFlag -> IF HasFlag[key] \in it.flags THEN "true" ELSE "false"
    [] key \in {"map_completion_reward", "ultimatum_output"} -> Known(it, "reward")
    [] key = "ultimatum_reward" -> IF it.prop["reward"].unique THEN "ExchangeUnique" ELSE Known(it, "reward")
    [] key = "ultimatum_challenge" -> Known(it, "challenge")
    [] key = "ultimatum_input" -> Known(it, "sacrifice")
    [] key = "heist_objective_value" -> Known(it, "target")
    [] OTHER -> Known(it, key)

Listed(it) == IF it.chartArea # None THEN it.chartArea ELSE it.base
Admits(q, it) ==
  /\ q.name # None => q.name = it.unique.wire /\ q.nameDisc = it.unique.disc
  /\ q.type # None => q.type = Listed(it).wire
                      /\ (q.typeDisc # None => q.typeDisc = Listed(it).disc)
  /\ q.category # None => q.category = it.tradeCategory
  /\ q.rarity = IF it.rarity = "Unique" THEN "unique" ELSE "nonunique"
  /\ q.influences \subseteq it.influences
  /\ \A f \in q.stats : MeetsStat(it, f)
  /\ \A id \in q.absent : ~Carries(it, id)
  /\ \A n \in q.numbers : MeetsNumber(it, n)
  /\ \A o \in q.options : OptionOf(it, o[2]) = o[3]

-----------------------------------------------------------------------------
Edited(f) == f.min # f.smin \/ f.max # f.smax
(* A fixed number can be told from a roll only on an item that printed a   *)
(* range (item/plan.cpp:302-315), and on a map.                           *)
Legible(it) == \/ plan.strategy = "Map" \/ \E m \in Range(it.mods) : m.bounds # <<>>
               \/ \A m \in Range(it.mods) : m.rolls # <<>> => m.real
Stated(it) == /\ Legible(it)
              /\ it.base # None \/ it.chartArea # None \/ plan.type = None
              /\ plan.name # None => it.unique # None

(* Whatever the reader ticks, unticks, opens or picks, as long as no       *)
(* interval was edited the search finds the very item it was made from.    *)
MatchesItself ==
  (CanSearch /\ Stated(Hand) /\ \A l \in Lists : \A f \in Range(Rows(l)) : ~Edited(f))
    => Admits(BuildQuery(plan), Hand)

(* Every modifier of the item is a row or part of one, is named in a note, *)
(* or is one the strategy left out; and no two rows carry the same one.    *)
NothingSilentlyDropped ==
  \A i \in DOMAIN Hand.mods :
    LET carriers == {r \in DOMAIN plan.stats : i \in Range(plan.stats[r].mods)}
    IN /\ \/ carriers # {} \/ <<"not searched", i>> \in plan.notes
          \/ plan.strategy = "Unsupported" \/ LeftOut(Hand, i, plan.strategy)
       /\ plan.strategy # "Map" => Cardinality(carriers) <= 1

(* Ticks and edits aside, the rows are always those of the item in hand    *)
(* read with the bundle, the strategy and the unique now in force.         *)
Shape(p) == <<p.strategy, p.name, p.type,
              [i \in DOMAIN p.stats |-> <<p.stats[i].id, p.stats[i].smin, p.stats[i].smax>>],
              [i \in DOMAIN p.nums |-> <<p.nums[i].key, p.nums[i].smin, p.nums[i].smax>>]>>
PlanIsOfItem == Shape(plan) = Shape(Planned(text, bundle, override, chosen))

(* With no editor open every interval is in order, so none is sent crossed *)
(* (pricecheck_screen.cpp:533-537 says so of a click away and of Escape).  *)
NeverCrossed ==
  edit = None => \A l \in Lists : \A f \in Range(Rows(l)) : ~Crossed(f)

(* The same, but for the rows the Escape key closed the editor on.         *)
CrossedOnlyByEscape ==
  \A l \in Lists : \A r \in DOMAIN Rows(l) :
    Crossed(Rows(l)[r]) => \/ edit = [list |-> l, row |-> r] /\ box # None
                           \/ [list |-> l, row |-> r] \in escaped
=============================================================================
