------------------------------ MODULE SearchPlan ------------------------------
(***************************************************************************)
(* What a price check asks the trade site about an item: item/plan.cpp     *)
(* turns the item into rows (stats, numerics, options), range_match.cpp    *)
(* gives a roll its interval, and trade/query.cpp sends the ticked rows.   *)
(*                                                                         *)
(* An item is a record; its modifiers are a sequence.  Numbers are in the  *)
(* last digit of the row they belong to (`dp' is abstracted), wordings are *)
(* the identifiers they resolve to, and an absent optional is None.        *)
(***************************************************************************)
EXTENDS Integers, Sequences, FiniteSets, SequencesExt

CONSTANT None
ASSUME NoneAssumption == None \notin Int \cup {"min", "max"}

-----------------------------------------------------------------------------
(* Range matching: the interval a roll is searched in. *)

Abs(x) == IF x < 0 THEN -x ELSE x
Min2(a, b) == IF a < b THEN a ELSE b
Max2(a, b) == IF a < b THEN b ELSE a

CeilTo(hundredths) == -((-hundredths) \div 100)
FloorTo(hundredths) == hundredths \div 100

Bound(side, value, gate, upper) ==
  LET slack == Abs(value) * side.pct
      wide  == IF upper THEN CeilTo(100 * value + slack)
                        ELSE FloorTo(100 * value - slack)
      gated == IF upper THEN Max2(value, Min2(wide, gate))
                        ELSE Min2(value, Max2(wide, gate))
  IN CASE side.mode = "unbound" -> None
       [] side.mode = "exact"   -> value
       [] side.mode = "tiered" /\ gate # None -> gated
       [] OTHER -> wide

(* The setting speaks of "worse" and "better": a modifier that is better   *)
(* when it is lower takes the two sides the other way round.               *)
SeedBounds(rm, value, lo, hi, lowerIsBetter) ==
  LET below == IF lowerIsBetter THEN rm.max ELSE rm.min
      above == IF lowerIsBetter THEN rm.min ELSE rm.max
  IN [min |-> Bound(below, value, lo, FALSE), max |-> Bound(above, value, hi, TRUE)]

-----------------------------------------------------------------------------
(* Rows. *)

OneIf(cond, x) == IF cond THEN <<x>> ELSE <<>>

Numeric(key, min, max, on) ==
  OneIf(min # None \/ max # None,
        [key |-> key, min |-> min, max |-> max, on |-> on, hidden |-> FALSE,
         smin |-> None, smax |-> None])
AtLeast(key, min, on) == Numeric(key, min, None, on)
Exactly(key, v) == Numeric(key, v, v, TRUE)

Option(key, opt, shown) == <<[key |-> key, opt |-> opt, on |-> TRUE, shown |-> shown]>>
Flag(key, value, shown) == Option(key, IF value THEN "true" ELSE "false", shown)

Stat0 == [mods |-> <<>>, id |-> None, type |-> "pseudo", on |-> FALSE, min |-> None,
          max |-> None, tiered |-> FALSE, inverted |-> FALSE, hidden |-> FALSE,
          negated |-> FALSE, choice |-> None, primary |-> FALSE, rmin |-> None,
          rmax |-> None, smin |-> None, smax |-> None, pooled |-> FALSE, caveat |-> FALSE]

(* What one strategy contributes to the plan. *)
Part == [category |-> None, name |-> None, type |-> None, disc |-> None,
         rarity |-> "nonunique", opts |-> <<>>, nums |-> <<>>, stats |-> <<>>,
         choices |-> <<>>, notes |-> {}]

Wire(rec, printed) == IF rec = None THEN printed ELSE rec.wire
Disc(rec) == IF rec = None THEN None ELSE rec.disc
HasLine(it, key) == key \in DOMAIN it.prop
(* The number a property line carries, and the one after its slash. *)
Num(it, key) == IF HasLine(it, key) THEN it.prop[key].num ELSE None
Total(it, key) == IF HasLine(it, key) THEN it.prop[key].total ELSE None
(* The trade site's own name for what the line says; None when unknown. *)
Known(it, key) == IF HasLine(it, key) THEN it.prop[key].opt ELSE None
Augmented(it, key) == HasLine(it, key) /\ it.prop[key].augmented

-----------------------------------------------------------------------------
(* Numbers of the whole item. *)

Derived(it, key) == IF key \in DOMAIN it.derived THEN it.derived[key] ELSE None

AddDefences(it, strategy, impose) ==
  FlattenSeq([i \in 1..4 |-> LET k == <<"ar", "ev", "es", "ward">>[i]
                             IN AtLeast(k, Derived(it, k), impose)])
  \o AtLeast("base_defence_percentile",
             IF Derived(it, "base_pct") = None THEN None
             ELSE FloorTo(Derived(it, "base_pct")), strategy = "BaseItem")

AddWeapon(it, impose) ==
  IF "weapon" \notin it.is THEN <<>>
  ELSE AtLeast("dps", Derived(it, "dps"), impose)
       \o AtLeast("pdps", Derived(it, "pdps"), impose)
       \o AtLeast("edps", Derived(it, "edps"), impose)
       \o AtLeast("aps", Derived(it, "aps"), impose /\ Augmented(it, "aps"))
       \o AtLeast("crit", Derived(it, "crit"), impose /\ Augmented(it, "crit"))

SocketsWorthAsking == 5
AddSockets(it) ==
  LET row(key, n) ==
        [i \in 1..(IF n > 0 THEN 1 ELSE 0) |->
           [AtLeast(key, n, n >= SocketsWorthAsking)[1]
              EXCEPT !.hidden = n < SocketsWorthAsking]]
  IN row("sockets", it.sockets) \o row("links", it.links)

(* The derived numbers a modifier's wording is already folded into. *)
DerivedKeys(it, m) ==
  LET weapon(form) == IF "weapon" \notin it.is THEN {}
                      ELSE CASE form = "phys"  -> {"pdps", "dps"}
                             [] form = "elem"  -> {"edps", "dps"}
                             [] form = "chaos" -> {"dps"}
                             [] form = "speed" -> {"aps", "pdps", "edps", "dps"}
                             [] form = "crit"  -> {"crit"}
                             [] OTHER -> {}
      shown(form) == {k \in {"ar", "ev", "es", "ward"} : k = form /\ Derived(it, k) # None}
  IN UNION {weapon(f) \cup shown(f) : f \in m.local}

UnimposeDerived(it, stats, nums) ==
  LET imposed == {n.key : n \in {x \in Range(nums) : x.on}}
      inside(f) == /\ f.mods # <<>>
                   /\ f.type # "fractured"
                   /\ DerivedKeys(it, it.mods[f.mods[1]]) \cap imposed # {}
  IN [i \in DOMAIN stats |-> IF inside(stats[i]) THEN [stats[i] EXCEPT !.on = FALSE]
                                                 ELSE stats[i]]

-----------------------------------------------------------------------------
(* One modifier. *)

AveragedRoll(m) == m.adds /\ Len(m.rolls) > 1
Average(s) == FoldLeft(LAMBDA a, b : a + b, 0, s) \div Len(s)

RollFor(m) ==
  CASE m.rolls = <<>> -> [value |-> None, min |-> None, max |-> None]
    [] AveragedRoll(m) ->
         [value |-> Average(m.rolls),
          min |-> IF Len(m.bounds) = Len(m.rolls) THEN Average([i \in DOMAIN m.bounds |-> m.bounds[i][1]]) ELSE None,
          max |-> IF Len(m.bounds) = Len(m.rolls) THEN Average([i \in DOMAIN m.bounds |-> m.bounds[i][2]]) ELSE None]
    [] OTHER -> [value |-> m.rolls[1],
                 min |-> IF m.bounds = <<>> THEN None ELSE m.bounds[1][1],
                 max |-> IF m.bounds = <<>> THEN None ELSE m.bounds[1][2]]
Variable(r) == r.min # None /\ r.max # None /\ r.min # r.max

AddedToCopy(type) ==
  type \in {"enchant", "crafted", "fractured", "scourge", "veiled", "crucible"}

HasId(m) == m.stat # None /\ m.as \in DOMAIN m.stat.ids
LowerIsBetter(m, value) == m.stat.better < 0 \/ (value # None /\ value < 0)

(* A number that is not a roll is not a bound. *)
Fixed(m, r, s, ranges) == ~Variable(r) /\ ~m.ranked /\ (s = "Map" \/ ranges)

TickedFor(it, m, r, s) ==
  LET imposed == m.type = "implicit" /\ "synthesised" \in it.flags
  IN CASE s \in {"Modifiers", "Map", "Sanctum"} -> TRUE
       [] s = "BaseItem" -> \/ m.type = "fractured"
                            \/ m.type = "implicit" /\ (Variable(r) \/ imposed)
       [] s = "Unique"   -> \/ Variable(r) \/ m.added \/ AddedToCopy(m.type) \/ imposed
                            \/ m.type = "implicit" /\ "corrupted" \in it.flags
       [] s = "Heist"    -> m.type = "enchant"
       [] OTHER -> FALSE

Unbounded == [min |-> None, max |-> None]
SeededFilter(m, r, b) ==
  [Stat0 EXCEPT !.id = m.stat.ids[m.as], !.type = m.as, !.inverted = m.stat.inverted,
                !.min = b.min, !.max = b.max, !.tiered = r.min # None /\ r.max # None,
                !.rmin = r.min, !.rmax = r.max]
RowOf(it, i, m, r, s, ranges, rm) ==
  [SeededFilter(m, r, IF r.value = None \/ Fixed(m, r, s, ranges) THEN Unbounded
                      ELSE SeedBounds(rm, r.value, r.min, r.max, LowerIsBetter(m, r.value)))
     EXCEPT !.mods = <<i>>, !.on = TickedFor(it, m, r, s)]
ToFilter(it, i, s, ranges, rm) == RowOf(it, i, it.mods[i], RollFor(it.mods[i]), s, ranges, rm)

-----------------------------------------------------------------------------
(* What the bundle knows of a named unique: `entry' is a function from the *)
(* trade ids it lists to [min, max, pooled].                               *)

UniqueRange(e, v) ==
  IF e.min # None /\ v # None /\ (v < e.min \/ v > e.max) THEN Unbounded
  ELSE [min |-> e.min, max |-> e.max]

Recorded(f, m, v, r, pooled, rm) ==
  LET rolls  == r.min # None /\ r.min # r.max
      seeded == rolls /\ v # None /\ f.min = None /\ f.max = None
      b == IF seeded THEN SeedBounds(rm, v, r.min, r.max, LowerIsBetter(m, v)) ELSE f
      untiered == f.rmin = None /\ f.rmax = None
  IN [f EXCEPT !.rmin = IF untiered THEN r.min ELSE @, !.rmax = IF untiered THEN r.max ELSE @,
               !.pooled = pooled, !.on = @ \/ pooled \/ rolls,
               !.min = b.min, !.max = b.max, !.tiered = @ \/ seeded]
WithValue(f, m, v, e, rm) == Recorded(f, m, v, UniqueRange(e, v), e.pooled, rm)
WithRecord(it, entry, rm, f) ==
  IF f.mods = <<>> THEN f
  ELSE IF f.id \notin DOMAIN entry THEN [f EXCEPT !.caveat = ~f.on /\ ~AddedToCopy(f.type)]
  ELSE WithValue(f, it.mods[f.mods[1]], RollFor(it.mods[f.mods[1]]).value, entry[f.id], rm)

(* The first row whose modifier printed the line; 0 for none. *)
FilterSaying(it, stats, l) ==
  SelectInSeq(stats, LAMBDA f : f.mods # <<>> /\ it.mods[f.mods[1]].line = l)
Enumerated(it, um, rm, stats, prose) ==
  [stats |-> [i \in DOMAIN stats |->
                [WithRecord(it, um.entry, rm, stats[i])
                   EXCEPT !.caveat = @ \/ \E l \in prose : FilterSaying(it, stats, l) = i]],
   notes |-> {<<"not enumerated", l>> : l \in {x \in prose : FilterSaying(it, stats, x) = 0}}]
ApplyUniqueMods(gd, it, name, rm, stats) ==
  CASE name = None -> [stats |-> stats, notes |-> {}]
    [] name # None /\ name \notin DOMAIN gd.uniques ->
         [stats |-> stats,
          notes |-> IF \E f \in Range(stats) : ~f.on /\ f.type = "explicit"
                    THEN {<<"no modifier data">>} ELSE {}]
    [] OTHER -> Enumerated(it, gd.uniques[name], rm, stats, gd.uniques[name].unlisted \ it.propertyLines)

Plus(a, b) == IF a # None /\ b # None THEN a + b ELSE None
FoldBounds(into, from) ==
  [into EXCEPT !.min = Plus(@, from.min), !.max = Plus(@, from.max), !.on = @ \/ from.on]
Fold(into, from) ==
  [into EXCEPT !.min = Plus(@, from.min), !.max = Plus(@, from.max),
               !.rmin = Plus(@, from.rmin), !.rmax = Plus(@, from.rmax),
               !.tiered = @ /\ from.tiered, !.on = @ \/ from.on,
               !.pooled = @ \/ from.pooled, !.mods = @ \o from.mods]

(* The site indexes two rolls of one stat as their total.                  *)
SameStat(a, b) == a.id = b.id /\ a.hidden = b.hidden /\ a.choice = b.choice
MergeInto(rows, f) ==
  LET at == {k \in DOMAIN rows : SameStat(rows[k], f)}
      k  == CHOOSE x \in at : TRUE
  IN IF at = {} THEN Append(rows, f) ELSE [rows EXCEPT ![k] = Fold(@, f)]
MergeSameStat(stats) == FoldLeft(MergeInto, <<>>, stats)

-----------------------------------------------------------------------------
(* The strategies, each with what it names and what it asks. *)

PlanGem(it) ==
  IF it.base = None THEN [Part EXCEPT !.notes = {<<"unknown gem">>}]
  ELSE [Part EXCEPT !.type = it.base.wire, !.disc = it.base.disc,
                    !.nums = Exactly("gem_level", it.gemLevel)
                             \o Exactly("quality", it.quality)]

PlanBeast(it) ==
  [Part EXCEPT !.category = "monster.beast", !.type = Wire(it.base, it.printed),
               !.disc = Disc(it.base), !.nums = AtLeast("ilvl", it.ilvl, TRUE),
               !.notes = IF it.base = None THEN {<<"unknown beast">>} ELSE {}]

(* A closed vocabulary: the row where the site knows the word, a note where *)
(* it does not.                                                             *)
Asked(it, prop, key) ==
  IF Known(it, prop) # None THEN Option(key, Known(it, prop), TRUE) ELSE <<>>
Unknown(it, props) ==
  {<<"not known to trade", p>> : p \in {x \in props : HasLine(it, x) /\ Known(it, x) = None}}

StakeMod(m) == m.stat # None /\ m.stat.stake
PlanUltimatum(it) ==
  LET mirrored == Known(it, "reward") = "MirrorRare"
      unique   == HasLine(it, "reward") /\ it.prop["reward"].unique
      sacrifice == IF mirrored THEN <<>> ELSE Asked(it, "sacrifice", "ultimatum_input")
      reward   == IF unique THEN Option("ultimatum_reward", "ExchangeUnique", TRUE)
                                 \o Option("ultimatum_output", Known(it, "reward"), TRUE)
                            ELSE Asked(it, "reward", "ultimatum_reward")
  IN [Part EXCEPT !.type = Wire(it.base, it.printed), !.disc = Disc(it.base),
                  !.opts = Asked(it, "challenge", "ultimatum_challenge") \o reward \o sacrifice,
                  !.nums = Exactly("area_level", Num(it, "area_level")),
                  !.notes = Unknown(it, {"challenge", "reward"}
                                        \cup IF mirrored THEN {} ELSE {"sacrifice"})]

Jobs == <<"heist_lockpicking", "heist_brute_force", "heist_perception", "heist_demolition",
          "heist_counter_thaumaturgy", "heist_trap_disarmament", "heist_agility",
          "heist_deception", "heist_engineering">>
(* Escape routes have no indexed total; a bound on one empties the search. *)
Reveals == <<[prop |-> "wings", key |-> "heist_wings", total |-> "heist_max_wings"],
             [prop |-> "routes", key |-> "heist_escape_routes", total |-> None],
             [prop |-> "rooms", key |-> "heist_reward_rooms", total |-> "heist_max_reward_rooms"]>>
PlanHeist(it) ==
  LET reveal(r) == IF Total(it, r.prop) = None THEN <<>>
                   ELSE AtLeast(r.key, Num(it, r.prop), TRUE)
                        \o IF r.total = None THEN <<>> ELSE Exactly(r.total, Total(it, r.prop))
      objective == [i \in DOMAIN Asked(it, "target", "heist_objective_value") |->
                      [Asked(it, "target", "heist_objective_value")[i] EXCEPT !.on = FALSE]]
  IN [Part EXCEPT !.type = Wire(it.base, None), !.disc = Disc(it.base),
                  !.opts = objective,
                  !.nums = Exactly("area_level", Num(it, "area_level"))
                           \o FlattenSeq([i \in DOMAIN Reveals |-> reveal(Reveals[i])])
                           \o FlattenSeq([i \in DOMAIN Jobs |-> AtLeast(Jobs[i], Num(it, Jobs[i]), TRUE)]),
                  !.notes = Unknown(it, {"target"})
                            \cup IF it.base = None THEN {<<"unknown heist base">>} ELSE {}]

AddSanctumEffects(it) ==
  FlattenSeq([i \in DOMAIN it.effects |->
                OneIf(it.effects[i] # None,
                      [Stat0 EXCEPT !.id = it.effects[i], !.type = "sanctum", !.on = TRUE])])
PlanSanctum(it) ==
  [Part EXCEPT !.type = Wire(it.base, None), !.disc = Disc(it.base),
               !.nums = Exactly("area_level", Num(it, "area_level"))
                        \o AtLeast("sanctum_resolve", Num(it, "resolve"), TRUE)
                        \o AtLeast("sanctum_max_resolve", Total(it, "resolve"), FALSE)
                        \o AtLeast("sanctum_inspiration", Num(it, "inspiration"), TRUE)
                        \o AtLeast("sanctum_gold", Num(it, "aureus"), TRUE),
               !.stats = AddSanctumEffects(it),
               !.notes = {<<"unknown sanctum effect">> : e \in {x \in Range(it.effects) : x = None}}
                         \cup IF it.base = None THEN {<<"unknown sanctum">>} ELSE {}]

Bonuses(it, rarityOn, on) ==
  AtLeast("map_iiq", Num(it, "map_iiq"), on)
  \o AtLeast("map_packsize", Num(it, "map_packsize"), on)
  \o AtLeast("map_iir", Num(it, "map_iir"), rarityOn)

PlanLogbook(it) ==
  LET ask(d, id, primary) ==
        OneIf(id # None, [Stat0 EXCEPT !.id = id, !.choice = d, !.primary = primary])
  IN [Part EXCEPT !.type = Wire(it.base, None), !.disc = Disc(it.base),
                  !.nums = AtLeast("area_level", Num(it, "area_level"), TRUE)
                           \o AtLeast("ilvl", it.ilvl, FALSE) \o Bonuses(it, FALSE, FALSE),
                  !.choices = [d \in DOMAIN it.areas |-> it.areas[d].faction],
                  !.stats = FlattenSeq([d \in DOMAIN it.areas |->
                              ask(d, it.areas[d].faction, TRUE) \o ask(d, it.areas[d].area, FALSE)]),
                  !.notes = {<<"unknown destination", d>> : d \in
                              {x \in DOMAIN it.areas : None \in {it.areas[x].faction, it.areas[x].area}}}]

DestinationMod(it, i) == \E d \in DOMAIN it.areas : i \in it.areas[d].mods

(* A destination's own modifiers go under it, unticked and open above.     *)
GroupLogbookMods(it, stats) ==
  LET homes(f) == {d \in DOMAIN it.areas : f.mods[1] \in it.areas[d].mods}
      first(S) == CHOOSE d \in S : \A e \in S : d <= e
      group(f) ==
        IF f.mods = <<>> \/ f.hidden \/ f.choice # None THEN f
        ELSE IF homes(f) = {} THEN f
        ELSE LET better == it.mods[f.mods[1]].stat.better
             IN [f EXCEPT !.choice = first(homes(f)), !.on = FALSE,
                          !.min = IF better < 0 THEN None ELSE @,
                          !.max = IF better < 0 THEN @ ELSE None]
  IN [i \in DOMAIN stats |-> group(stats[i])]

MapSearchedMod(m) == m.type \in {"implicit", "enchant"}
MapAffixCount(it) ==
  LET explicits == {i \in DOMAIN it.mods : it.mods[i].type = "explicit"}
      n == Cardinality({i \in explicits : ~it.mods[i].continuation /\ it.mods[i].affix})
  IN IF explicits # {} /\ n = 0 THEN None ELSE n

Drops == <<"more_maps", "more_scarabs", "more_currency", "more_cards">>
AddMapPseudo(it) ==
  LET ask(id, n) == OneIf(n # None, [Stat0 EXCEPT !.id = id, !.min = n, !.on = TRUE])
      n == MapAffixCount(it)
  IN [stats |-> FlattenSeq([i \in DOMAIN Drops |-> ask(Drops[i], Num(it, Drops[i]))])
                \o IF "corrupted" \in it.flags /\ n # 0 THEN ask("affix_count", n) ELSE <<>>,
      notes |-> IF "corrupted" \in it.flags /\ n = None THEN {<<"affix count unknown">>} ELSE {}]

(* A map that pays a unique is bought for whether dying voids it.          *)
AddVoidRule(gd, it) ==
  LET at == {i \in DOMAIN it.mods : it.mods[i].stat # None /\ it.mods[i].stat.void}
      i  == CHOOSE x \in at : \A y \in at : x <= y
  IN OneIf(gd.voidId # None,
           [Stat0 EXCEPT !.id = gd.voidId, !.type = "explicit", !.on = TRUE,
                         !.mods = IF at = {} THEN <<>> ELSE <<i>>, !.negated = at = {}])

PlanChart(it) ==
  [Part EXCEPT !.type = IF it.chartArea # None THEN it.chartArea.wire ELSE Wire(it.base, it.printed),
               !.disc = IF it.chartArea # None THEN it.chartArea.disc ELSE Disc(it.base),
               !.nums = Exactly("area_level", Num(it, "area_level"))
                        \o AtLeast("chart_sulphur", Num(it, "sulphur"), TRUE),
               !.opts = Asked(it, "chart_shape", "chart_shape"),
               !.notes = Unknown(it, {"chart_shape"})
                         \cup IF it.chartArea = None THEN {<<"unknown area">>} ELSE {}]

PlanMap(gd, it) ==
  LET unique == it.rarity = "Unique"
      record == IF unique THEN it.unique ELSE it.base
      reward == "chart" \notin it.is /\ HasLine(it, "reward")
      named  == Known(it, "reward")
      area   == IF "chart" \in it.is THEN PlanChart(it)
                ELSE [Part EXCEPT
                        !.type = Wire(it.base, it.printed), !.disc = Disc(record),
                        !.opts = (IF "blighted" \in it.flags THEN Flag("map_blighted", TRUE, FALSE) ELSE <<>>)
                              \o (IF "ravaged" \in it.flags THEN Flag("map_uberblighted", TRUE, FALSE) ELSE <<>>)
                              \o (IF reward /\ named # None
                                  THEN Option("map_completion_reward", named, FALSE) ELSE <<>>),
                        !.nums = Exactly("map_tier", it.mapTier),
                        !.stats = IF reward THEN AddVoidRule(gd, it) ELSE <<>>,
                        !.notes = (IF reward THEN Unknown(it, {"reward"}) ELSE {})
                           \cup IF Disc(record) = None /\ it.mapTier # None
                                THEN {<<"no discriminator">>} ELSE {}]
  IN [area EXCEPT !.rarity = IF unique THEN "unique" ELSE "nonunique",
                  !.name = IF unique THEN Wire(it.unique, it.name) ELSE None,
                  !.nums = @ \o Bonuses(it, FALSE, ~reward),
                  !.notes = @ \cup IF unique /\ "identified" \notin it.flags
                                   THEN {<<"unidentified map">>} ELSE {}]

PlanUnidentified(gd, it, name) ==
  [nums |-> AtLeast("ilvl", it.ilvl, TRUE),
   notes |-> IF name # None THEN {<<"priced on what it might roll">>}
             ELSE IF ~gd.hasUniqueBases \/ it.candidates = {}
               THEN {<<"which unique is not known">>} ELSE {<<"pick one">>}]

PlanUnique(gd, it) ==
  LET name == Wire(it.unique, it.name)
      un   == PlanUnidentified(gd, it, name)
      unread == "identified" \notin it.flags
  IN [Part EXCEPT !.name = name, !.type = Wire(it.base, it.printed), !.disc = Disc(it.unique),
                  !.nums = IF unread THEN un.nums ELSE <<>>,
                  !.notes = IF unread THEN un.notes
                            ELSE IF it.unique = None THEN {<<"unknown unique">>} ELSE {}]

PlanGear(it, s) ==
  LET named == s = "BaseItem" \/ ("flask" \in it.is /\ it.base # None)
  IN [Part EXCEPT !.type = IF named THEN Wire(it.base, it.printed) ELSE None,
                  !.disc = IF named THEN Disc(it.base) ELSE None,
                  !.nums = AtLeast("ilvl", it.ilvl, s = "BaseItem"),
                  !.notes = IF s = "Modifiers" /\ "flask" \in it.is /\ it.base = None
                            THEN {<<"any flask">>} ELSE {}]

PlanOther(it, s) ==
  CASE s = "Currency" /\ HasLine(it, "stored_experience") ->
         [Part EXCEPT !.type = Wire(it.base, it.printed), !.disc = Disc(it.base)]
    [] s = "Unsupported" -> [Part EXCEPT !.notes = {<<"not implemented">>}]
    [] OTHER -> Part

(* The first that holds. *)
DefaultStrategy(it) ==
  IF it.is \cap {"map", "chart"} # {} THEN "Map"
  ELSE IF "beast" \in it.is THEN "Beast"
  ELSE IF "ultimatum" \in it.is THEN "Ultimatum"
  ELSE IF "heist" \in it.is /\ it.rarity # "Unique" THEN "Heist"
  ELSE IF "sanctum" \in it.is THEN "Sanctum"
  ELSE IF "logbook" \in it.is THEN "Logbook"
  ELSE IF "fragment" \in it.is /\ it.ilvl = None THEN "Currency"
  ELSE CASE it.rarity = "Unique" -> "Unique"
         [] it.rarity = "Normal" -> "BaseItem"
         [] it.rarity \in {"Magic", "Rare"} -> "Modifiers"
         [] it.rarity \in {"Currency", "DivinationCard"} -> "Currency"
         [] it.rarity = "Gem" -> "Gem"
         [] OTHER -> "Unsupported"

AddItemFlags(it, s) ==
  LET is(f) == f \in it.flags
  IN IF s = "Unsupported" THEN <<>>
     ELSE Flag("corrupted", is("corrupted"), is("corrupted"))
       \o Flag("mirrored", is("mirrored"), is("mirrored"))
       \o Flag("mutated", is("foulborn"), is("foulborn"))
       \o (IF s \in {"BaseItem", "Modifiers", "Unique", "Map"}
           THEN Flag("identified", is("identified"), ~is("identified")) ELSE <<>>)
       \o (IF is("synthesised") THEN Flag("synthesised_item", TRUE, FALSE) ELSE <<>>)
       \o (IF is("fractured") THEN Flag("fractured_item", TRUE, FALSE) ELSE <<>>)

AddPropertyFilters(it) ==
  AtLeast("memory_level", Num(it, "memory_level"), TRUE)
  \o Numeric("intangibility", None, Num(it, "intangibility"), FALSE)
  \o AtLeast("stored_experience", Num(it, "stored_experience"), TRUE)

-----------------------------------------------------------------------------
(* The plan. *)

PartFor(gd, it, s) ==
  CASE s = "Unique" -> PlanUnique(gd, it)
    [] s \in {"BaseItem", "Modifiers"} -> PlanGear(it, s)
    [] s = "Map" -> PlanMap(gd, it)
    [] s = "Gem" -> PlanGem(it)
    [] s = "Beast" -> PlanBeast(it)
    [] s = "Ultimatum" -> PlanUltimatum(it)
    [] s = "Heist" -> PlanHeist(it)
    [] s = "Sanctum" -> PlanSanctum(it)
    [] s = "Logbook" -> PlanLogbook(it)
    [] OTHER -> PlanOther(it, s)

(* Matched, and not what the strategy is about: offered under the section  *)
(* at the foot of the list.                                                *)
LeftOut(it, i, s) ==
  \/ s = "Map" /\ ~MapSearchedMod(it.mods[i])
  \/ s = "Beast"
  \/ s = "Ultimatum" /\ ~StakeMod(it.mods[i])
  \/ s = "Logbook" /\ ~DestinationMod(it, i)

Placed(it, i, s, f, v) ==
  IF LeftOut(it, i, s) THEN [f EXCEPT !.hidden = TRUE, !.on = FALSE]
  ELSE IF s # "Ultimatum" THEN f
  ELSE [f EXCEPT !.min = IF v = None THEN @ ELSE v, !.max = IF v = None THEN @ ELSE v,
                 !.tiered = FALSE, !.on = TRUE]
ModRows(it, s, rm) ==
  LET ranges == \E m \in Range(it.mods) : m.bounds # <<>>
      row(i) == Placed(it, i, s, ToFilter(it, i, s, ranges, rm), RollFor(it.mods[i]).value)
  IN FlattenSeq([i \in DOMAIN it.mods |-> IF HasId(it.mods[i]) THEN <<row(i)>> ELSE <<>>])

Unread(it, s) ==
  {<<"not searched", i>> : i \in {j \in DOMAIN it.mods : ~HasId(it.mods[j]) /\ ~LeftOut(it, j, s)}}

SelectChoice(p, c) ==
  IF c \notin DOMAIN p.choices THEN p
  ELSE [p EXCEPT !.choice = c,
                 !.stats = [i \in DOMAIN p.stats |->
                   IF p.stats[i].choice = None THEN p.stats[i]
                   ELSE [p.stats[i] EXCEPT !.on = p.stats[i].choice = c /\ p.stats[i].primary]]]

Seeded(rows) == [i \in DOMAIN rows |-> [rows[i] EXCEPT !.smin = rows[i].min, !.smax = rows[i].max]]

GearStrategy(s) == s \in {"BaseItem", "Modifiers", "Unique"}

AllRows(it, s, rm, part) ==
  part.stats \o IF s = "Unsupported" THEN <<>> ELSE ModRows(it, s, rm)
RecordApplied(gd, it, s, rm, part) ==
  IF s = "Unique" THEN ApplyUniqueMods(gd, it, part.name, rm, AllRows(it, s, rm, part))
  ELSE [stats |-> AllRows(it, s, rm, part), notes |-> {}]
MapDrops(it, s) == IF s = "Map" THEN AddMapPseudo(it) ELSE [stats |-> <<>>, notes |-> {}]
Merged(it, s, stats, drops) ==
  MergeSameStat((IF s = "Logbook" THEN GroupLogbookMods(it, stats) ELSE stats) \o drops)
Numbers(it, s, part) ==
  part.nums
  \o IF GearStrategy(s)
     THEN AtLeast("quality", IF it.quality > 20 THEN it.quality ELSE None, TRUE)
          \o AddDefences(it, s, s # "Unique") \o AddWeapon(it, s # "Unique") \o AddSockets(it)
     ELSE <<>>

(* `um' and `drop' are the two sources of rows, each with its notes. *)
Assembled(it, s, part, um, drop, nums) ==
  LET merged == Merged(it, s, um.stats, drop.stats)
      own    == s \in {"Beast", "Ultimatum"}
  IN [strategy |-> s, category |-> IF own THEN part.category ELSE it.category,
      name |-> part.name, type |-> part.type, disc |-> part.disc,
      rarity |-> IF s = "Unique" THEN "unique" ELSE part.rarity,
      influences |-> IF s \in {"BaseItem", "Modifiers"} THEN it.influences ELSE {},
      opts |-> AddItemFlags(it, s) \o part.opts,
      nums |-> Seeded(nums \o IF s = "Unsupported" THEN <<>> ELSE AddPropertyFilters(it)),
      stats |-> Seeded(IF GearStrategy(s) THEN UnimposeDerived(it, merged, nums) ELSE merged),
      choices |-> part.choices, choice |-> None,
      notes |-> part.notes \cup um.notes \cup drop.notes
                \cup (IF it.category = None /\ ~own THEN {<<"no category">>} ELSE {})
                \cup IF s = "Unsupported" THEN {} ELSE Unread(it, s)]
PlanFrom(gd, it, s, rm, part) ==
  Assembled(it, s, part, RecordApplied(gd, it, s, rm, part), MapDrops(it, s), Numbers(it, s, part))

StrategyOf(it, force) == IF force = None THEN DefaultStrategy(it) ELSE force
PlanAs(gd, it, s, rm) == SelectChoice(PlanFrom(gd, it, s, rm, PartFor(gd, it, s)), 1)
BuildPlan(gd, it, force, rm) == PlanAs(gd, it, StrategyOf(it, force), rm)

-----------------------------------------------------------------------------
(* The query. *)

GroupFor(key) ==
  CASE key \in {"ilvl", "quality", "gem_level", "memory_level", "intangibility",
                "stored_experience"} -> "misc_filters"
    [] key \in {"ar", "ev", "es", "ward", "base_defence_percentile"} -> "armour_filters"
    [] key \in {"dps", "pdps", "edps", "aps", "crit"} -> "weapon_filters"
    [] key \in {"map_tier", "map_iiq", "map_iir", "map_packsize", "area_level",
                "chart_sulphur"} -> "map_filters"
    [] key \in {"sockets", "links"} -> "socket_filters"
    [] key \in Range(Jobs) \cup {r.key : r \in Range(Reveals)}
               \cup {r.total : r \in Range(Reveals)} -> "heist_filters"
    [] key \in {"sanctum_resolve", "sanctum_max_resolve", "sanctum_inspiration",
                "sanctum_gold"} -> "sanctum_filters"
    [] OTHER -> None

Ultimatum == {"ultimatum_challenge", "ultimatum_reward", "ultimatum_output", "ultimatum_input"}
OptionGroupFor(key) ==
  CASE key \in Ultimatum -> "ultimatum_filters"
    [] key = "heist_objective_value" -> "heist_filters"
    [] key \in {"map_blighted", "map_uberblighted", "map_completion_reward", "chart_shape"} ->
         "map_filters"
    [] OTHER -> "misc_filters"

InfluenceKeys == {"Shaper", "Elder", "Crusader", "Redeemer", "Hunter", "Warlord"}

Searchable(p) ==
  CASE p.strategy \in {"BaseItem", "Modifiers", "Unique", "Map"} -> TRUE
    [] p.strategy \in {"Beast", "Gem", "Currency"} -> p.type # None
    [] p.strategy \in {"Heist", "Sanctum", "Logbook"} -> p.type # None \/ p.category # None
    [] p.strategy = "Ultimatum" ->
         p.type # None /\ \E o \in Range(p.opts) : o.on /\ o.key \in Ultimatum
    [] OTHER -> FALSE

Neg(x) == IF x = None THEN None ELSE -x
StatTerm(f) ==
  IF f.inverted THEN [id |-> f.id, min |-> Neg(f.max), max |-> Neg(f.min)]
                ELSE [id |-> f.id, min |-> f.min, max |-> f.max]

BuildQuery(p) ==
  LET asked == {f \in Range(p.stats) : f.on}
  IN [name |-> p.name, type |-> p.type,
      nameDisc |-> IF p.name = None THEN None ELSE p.disc,
      typeDisc |-> IF p.type = None \/ p.strategy = "Unique" THEN None ELSE p.disc,
      category |-> p.category, rarity |-> p.rarity,
      stats |-> {StatTerm(f) : f \in {g \in asked : ~g.negated}},
      absent |-> {f.id : f \in {g \in asked : g.negated}},
      options |-> {<<OptionGroupFor(o.key), o.key, o.opt>> : o \in {x \in Range(p.opts) : x.on}},
      influences |-> p.influences \cap InfluenceKeys,
      numbers |-> {<<GroupFor(n.key), n.key, n.min, n.max>> :
                     n \in {x \in Range(p.nums) : x.on /\ GroupFor(x.key) # None
                                                  /\ (x.min # None \/ x.max # None)}}]
=============================================================================
