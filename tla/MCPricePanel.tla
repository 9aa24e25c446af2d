----------------------------- MODULE MCPricePanel -----------------------------
(* One item per strategy and per thing a plan does differently.            *)
EXTENDS PricePanel, TLC

St(id, types) == [ids |-> [t \in types |-> t \o "." \o id], better |-> 1, inverted |-> FALSE,
                  stake |-> FALSE, void |-> FALSE]
Rolled(stat, type, v, lo, hi) ==
  [type |-> type, as |-> type, stat |-> stat, rolls |-> <<v>>, bounds |-> <<<<lo, hi>>>>,
   adds |-> FALSE, ranked |-> FALSE, added |-> FALSE, continuation |-> FALSE, affix |-> TRUE,
   local |-> {}, line |-> None, real |-> TRUE]
Plain(stat, type, v) ==
  [Rolled(stat, type, v, v, v) EXCEPT !.bounds = <<>>, !.real = FALSE]
Unmatched(type) == [Plain(None, type, 0) EXCEPT !.rolls = <<>>]

All == {"explicit", "implicit", "enchant", "crafted", "fractured"}
Life == St("life", All)
Armour == St("armour", All)
Cost == [St("cost", All) EXCEPT !.inverted = TRUE]
Taken == [St("taken", All) EXCEPT !.better = -1]
Charge == St("charge", All)
Adds == St("adds", All)
Void == [St("void", All) EXCEPT !.void = TRUE]
Stake == [St("stake", All) EXCEPT !.stake = TRUE]

Base == [wire |-> "base", disc |-> "d"]
Prop(n) == [num |-> n, total |-> None, opt |-> None, unique |-> FALSE, augmented |-> FALSE]
Slashed(n, t) == [Prop(n) EXCEPT !.total = t]
Word(o) == [Prop(None) EXCEPT !.opt = o]
No == [k \in {} |-> 0]

Rare == [is |-> {}, rarity |-> "Rare", ilvl |-> 84, quality |-> 10, gemLevel |-> None,
         mapTier |-> None, flags |-> {"identified"}, influences |-> {"Elder"}, base |-> Base,
         printed |-> "base", name |-> None, unique |-> None, candidates |-> {}, exchange |-> FALSE,
         category |-> "cat", tradeCategory |-> "cat", prop |-> No, propertyLines |-> {},
         derived |-> No, sockets |-> 6, links |-> 4, mods |-> <<>>, areas |-> <<>>,
         effects |-> <<>>, chartArea |-> None]

Chest == [Rare EXCEPT
  !.flags = @ \cup {"fractured"},
  !.derived = [ar |-> 900, base_pct |-> 7861],
  !.mods = << Rolled(Life, "explicit", 28, 25, 30), Rolled(Life, "explicit", 89, 80, 95),
              [Rolled(Armour, "explicit", 55, 50, 60) EXCEPT !.local = {"ar"}],
              Rolled(Cost, "explicit", -7, -9, -5), Rolled(Taken, "fractured", 3, 2, 6),
              Unmatched("explicit") >>]
Bow == [Rare EXCEPT
  !.is = {"weapon"}, !.quality = 28, !.sockets = 3, !.links = 3, !.influences = {},
  !.derived = [dps |-> 500, pdps |-> 300, aps |-> 150, crit |-> 60],
  !.prop = [aps |-> [Prop(150) EXCEPT !.augmented = TRUE], intangibility |-> Prop(40)],
  !.mods = << [Rolled(Adds, "explicit", 10, 9, 12) EXCEPT !.rolls = <<10, 31>>,
                 !.bounds = <<<<9, 12>>, <<30, 33>>>>, !.adds = TRUE, !.local = {"phys"}],
              Plain(Life, "implicit", 20) >>]
Flask == [Rare EXCEPT !.is = {"flask"}, !.rarity = "Magic", !.sockets = 0, !.links = 0,
                      !.influences = {}, !.mods = << Rolled(Life, "explicit", 25, 20, 30) >>]
(* Advanced Mod Descriptions off: nothing prints a range. *)
NoRanges == [Rare EXCEPT !.mods = << [Plain(Life, "explicit", 40) EXCEPT !.real = TRUE],
                                     [Plain(Cost, "crafted", -6) EXCEPT !.real = TRUE] >>]

UMod(n) == [wire |-> n, disc |-> None, name |-> n]
Unique == [Rare EXCEPT !.rarity = "Unique", !.influences = {}, !.name = "u1", !.unique = UMod("u1"),
                       !.flags = @ \cup {"corrupted"}]
Belt == [Unique EXCEPT
  !.derived = [es |-> 100],
  !.mods = << [Plain(Charge, "explicit", 1) EXCEPT !.bounds = <<<<1, 1>>>>],
              [Plain(Life, "explicit", 40) EXCEPT !.real = TRUE, !.line = "l1"],
              Rolled(Taken, "implicit", 5, 5, 5), Plain(Adds, "explicit", 7),
              Unmatched("explicit") >>]
Unread1 == [Unique EXCEPT !.name = None, !.unique = None, !.flags = {},
                          !.candidates = {UMod("u1"), UMod("u2")}]

Worlds == [Rare EXCEPT
  !.is = {"map"}, !.mapTier = 16, !.flags = @ \cup {"corrupted"}, !.category = "map",
  !.tradeCategory = "map", !.sockets = 0, !.links = 0,
  !.prop = [map_iiq |-> Prop(90), map_iir |-> Prop(40), map_packsize |-> Prop(30), more_maps |-> Prop(70)],
  !.mods = << Plain(Taken, "implicit", 20), Rolled(Life, "explicit", 30, 20, 40),
              [Rolled(Cost, "explicit", 40, 40, 45) EXCEPT !.continuation = TRUE],
              Unmatched("explicit") >>]
Valdo == [Worlds EXCEPT !.prop = [reward |-> [Word("u2") EXCEPT !.unique = TRUE], map_iiq |-> Prop(200)],
                        !.mods = << Rolled(Life, "explicit", 30, 20, 40) >>]
Voiding == [Valdo EXCEPT !.mods = Append(@, Plain(Void, "explicit", 0))]
Chart == [Rare EXCEPT !.is = {"chart"}, !.chartArea = [wire |-> "area", disc |-> "chart"], !.sockets = 0,
                      !.links = 0,
                      !.prop = [chart_shape |-> Word("3"), sulphur |-> Prop(9), area_level |-> Prop(80)]]
Book == [Rare EXCEPT
  !.is = {"logbook"}, !.sockets = 0, !.links = 0, !.prop = [area_level |-> Prop(83), map_iiq |-> Prop(20)],
  !.areas = << [faction |-> "druids", area |-> "scrub", mods |-> {1, 2}],
               [faction |-> "druids", area |-> "mire", mods |-> {3}] >>,
  !.mods = << Rolled(Life, "implicit", 20, 15, 25), Rolled(Taken, "implicit", 6, 5, 9),
              Rolled(Life, "implicit", 18, 15, 25), Rolled(Charge, "explicit", 5, 4, 6) >>]
Trial == [Rare EXCEPT
  !.is = {"ultimatum"}, !.rarity = "Currency", !.sockets = 0, !.links = 0, !.tradeCategory = None,
  !.prop = [challenge |-> Word("Conquer"), reward |-> Word("MirrorRare"), sacrifice |-> Word(None),
            area_level |-> Prop(83)],
  !.mods = << [Plain(Stake, "implicit", 30) EXCEPT !.real = TRUE], Plain(Life, "implicit", 1) >>]
Paid == [Trial EXCEPT !.prop["reward"] = [Word("u1") EXCEPT !.unique = TRUE], !.prop["sacrifice"] = Word("orb")]
Blueprint == [Rare EXCEPT
  !.is = {"heist"}, !.rarity = "Magic", !.sockets = 0, !.links = 0,
  !.prop = [area_level |-> Prop(83), wings |-> Slashed(2, 4), routes |-> Slashed(3, 8), rooms |-> Slashed(5, 20),
            heist_agility |-> Prop(4), target |-> Word("high")],
  !.mods = << Rolled(Life, "enchant", 20, 10, 20), Rolled(Taken, "explicit", 9, 8, 10) >>]
Floor == [Rare EXCEPT
  !.is = {"sanctum"}, !.rarity = "Normal", !.sockets = 0, !.links = 0, !.effects = <<"boon", None>>,
  !.prop = [area_level |-> Prop(83), resolve |-> Slashed(299, 300), aureus |-> Prop(1200)],
  !.mods = << Rolled(Life, "explicit", 20, 10, 30) >>]
Gem == [Rare EXCEPT !.rarity = "Gem", !.gemLevel = 21, !.quality = 0, !.sockets = 0, !.links = 0]
Beast == [Rare EXCEPT !.is = {"beast"}, !.category = "currency", !.tradeCategory = "monster.beast",
                      !.sockets = 0, !.links = 0, !.mods = << Unmatched("explicit") >>]
Lens == [Rare EXCEPT !.rarity = "Currency", !.sockets = 0, !.links = 0, !.ilvl = None,
                     !.prop = [stored_experience |-> Prop(500)]]
Card == [Lens EXCEPT !.rarity = "DivinationCard", !.prop = No, !.exchange = TRUE]
Quest == [Lens EXCEPT !.rarity = "Quest", !.prop = No]

TextsMC == {"chest", "bow", "flask", "noranges", "belt", "unread", "worlds", "valdo", "voiding", "chart",
            "book", "trial", "paid", "blueprint", "floor", "gem", "beast", "lens", "card", "quest"}
(* After a map comes a logbook, after anything else the unidentified one.  *)
AfterMC == [t \in TextsMC |-> IF t \in {"worlds", "unread"} THEN {"book"} ELSE {"unread"}]
Full == [chest |-> Chest, bow |-> Bow, flask |-> Flask, noranges |-> NoRanges, belt |-> Belt,
         unread |-> Unread1, worlds |-> Worlds, valdo |-> Valdo, voiding |-> Voiding, chart |-> Chart,
         book |-> Book, trial |-> Trial, paid |-> Paid, blueprint |-> Blueprint, floor |-> Floor,
         gem |-> Gem, beast |-> Beast, lens |-> Lens, card |-> Card, quest |-> Quest]
(* An older bundle: fewer names resolve. *)
Older(it) == [it EXCEPT !.base = IF it.rarity = "Unique" THEN @ ELSE None, !.chartArea = None,
                        !.category = IF it.rarity = "Normal" THEN None ELSE @,
                        !.candidates = {c \in @ : c.name = "u1"},
                        !.unique = IF it.rarity = "Unique" THEN UMod("u1") ELSE None,
                        !.effects = [i \in DOMAIN @ |-> None],
                        !.mods = [i \in DOMAIN @ |-> IF i = 1 THEN [@[i] EXCEPT !.stat = None] ELSE @[i]]]
BundlesMC == {"new", "old"}
ItemMC == [t \in TextsMC |-> [b \in BundlesMC |-> IF b = "new" THEN Full[t] ELSE Older(Full[t])]]

Entry(lo, hi, pooled) == [min |-> lo, max |-> hi, pooled |-> pooled]
Record == [entry |-> ("explicit.charge" :> Entry(1, 1, TRUE)) @@ ("explicit.life" :> Entry(30, 50, FALSE))
                     @@ ("explicit.adds" :> Entry(40, 40, FALSE)),
           unlisted |-> {"l1", "l2"}]
GameDataMC ==
  [b \in BundlesMC |-> IF b = "new"
     THEN [uniques |-> [u \in {"u1"} |-> Record], hasUniqueBases |-> TRUE, voidId |-> "explicit.void"]
     ELSE [uniques |-> No, hasUniqueBases |-> FALSE, voidId |-> None]]
MatchMC == [min |-> [mode |-> "within", pct |-> 10], max |-> [mode |-> "tiered", pct |-> 10]]

=============================================================================
