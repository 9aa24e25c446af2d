------------------------------ MODULE MCItemText ------------------------------
(* What the game prints, block by block in its own order, with Advanced    *)
(* Mod Descriptions on or off; tests/data/items and examples hold captures *)
(* of every shape here.  `means' is what the game put in.                  *)
EXTENDS ItemText

Line(w) == [words |-> <<w>>, is |-> {"letter"}, key |-> Absent, suffix |-> Absent, num |-> Absent,
            info |-> Absent, kind |-> "Other"]
With(l, traits) == [l EXCEPT !.is = @ \cup traits]
Numbered(w) == [With(Line(w), {"digit"}) EXCEPT !.num = 1]
Rolling(w) == [With(Line(w), {"digit", "rolls"}) EXCEPT !.is = @ \ {"letter"}, !.num = 1]
Label(w, n) == [With(Line(w), {"label", "colon"}) EXCEPT !.key = w, !.num = n]
FlagLine(w) == [With(Line(w), {"flag"}) EXCEPT !.key = w]
InfluenceLine(w) == [With(Line(w), {"influence"}) EXCEPT !.key = w]
Reminder == [With(Line("reminder"), {"reminder"}) EXCEPT !.is = @ \ {"letter"}]
Quote == With(Line("quote"), {"quoted"})
Help == With(Line("usage note"), {"help"})
Cosmetic == With(Line("effect"), {"cosmetic"})
Class(c, k) == [Line(c) EXCEPT !.is = {"class", "label", "colon"}, !.key = c, !.kind = k]
RarityLine(r) == [Line(r) EXCEPT !.is = {"rarity", "label", "colon"}, !.key = r]
Name(ws) == [Line("name") EXCEPT !.words = ws]
Tiered(ws) == [Name(ws) EXCEPT !.num = 16]
Bar == With(Line("--------"), {"separator"})

(* An affix of the game: its lines, its type, and its reminder if any.     *)
Affix(type, lines, reminder) ==
  [type |-> type, lines |-> lines, reminder |-> reminder, foulborn |-> FALSE]
Life == Affix("explicit", <<Rolling("to maximum Life")>>, FALSE)
Wordy == Affix("explicit", <<Line("Players cannot Regenerate Life")>>, FALSE)
Hybrid == Affix("explicit", <<Rolling("increased Armour and Evasion"), Rolling("increased Stun Recovery")>>, TRUE)
Local == Affix("explicit", <<Rolling("to Accuracy Rating")>>, FALSE)
Adds == Affix("explicit", <<Numbered("adds fire")>>, FALSE)
Crafted == Affix("crafted", <<Rolling("to Armour")>>, FALSE)
Implicit == Affix("implicit", <<Rolling("increased Critical Strike Chance")>>, TRUE)
Sells == Affix("implicit", <<Line("Item sells for much more")>>, FALSE)
Enchant == Affix("enchant", <<Line("Used when Charges reach full")>>, FALSE)
Cluster == Affix("enchant", <<Line("Added Small Passives grant"), Line("increased Damage")>>, FALSE)
Scourge == Affix("scourge", <<Line("Nearby Enemies take increased Damage")>>, FALSE)
Mutated == [Affix("explicit", <<Numbered("Chance to Gain Wither")>>, FALSE) EXCEPT !.foulborn = TRUE]

(* Enchantments and scourge mods never get an info line; the others get    *)
(* one and then no suffix, except that a crafted line keeps its own.       *)
HasInfo(a, adv) == adv /\ a.type \notin {"enchant", "scourge"}
Suffixed(a, adv, mute) ==
  ~mute /\ (IF HasInfo(a, adv) THEN a.type = "crafted" ELSE a.type \notin {"explicit", "sanctum"})
InfoLine(a) == [Line("info") EXCEPT !.is = {"info", "digit"},
                  !.info = [type |-> a.type, foulborn |-> a.foulborn, of |-> a.lines]]
PrintAffix(a, adv, mute) ==
  (IF HasInfo(a, adv) THEN <<InfoLine(a)>> ELSE <<>>)
  \o [i \in DOMAIN a.lines |-> [a.lines[i] EXCEPT !.suffix = IF Suffixed(a, adv, mute) THEN a.type
                                                             ELSE Absent]]
  \o (IF a.reminder THEN <<Reminder>> ELSE <<>>)
PrintAll(as, adv, mute) == FlattenSeq([i \in DOMAIN as |-> PrintAffix(as[i], adv, mute)])

ReadAffix(a, adv) ==
  LET mod(ls, rs) == [type |-> a.type, lines |-> ls, reminder |-> rs]
      rs(last) == IF a.reminder /\ last THEN <<Reminder.words>> ELSE <<>>
      n == Len(a.lines)
  IN IF HasInfo(a, adv) THEN <<mod(Words(a.lines), rs(TRUE))>>
     ELSE [i \in 1..n |-> mod(<<a.lines[i].words>>, rs(i = n))]
ReadAll(as, adv) == FlattenSeq([i \in DOMAIN as |-> ReadAffix(as[i], adv)])

(* Blocks that print nothing are left out. *)
Blocks(blocks) ==
  LET shown == SelectSeq(blocks, LAMBDA b : b # <<>>)
  IN FlattenSeq([i \in DOMAIN shown |-> IF i = 1 THEN shown[i] ELSE <<Bar>> \o shown[i]])

Id(b, ns, id) == LET found == SelectSeq(b.bases[ns], LAMBDA r : r.id = id)
                 IN IF found = <<>> THEN Absent ELSE found[1]

-----------------------------------------------------------------------------
(* The bundles. *)

Rec(id, name, category) == [id |-> id, name |-> name, category |-> category, disc |-> Absent,
                            unique_base |-> <<>>]
St(id, lines, types) == [id |-> id, lines |-> [i \in DOMAIN lines |-> <<lines[i]>>], types |-> types,
                         local |-> FALSE]
Full ==
  [name |-> "full",
   stats |-> {St("life", <<"to maximum Life">>, {"explicit", "implicit"}),
              St("defence", <<"increased Armour and Evasion">>, {"explicit"}),
              [St("local defence", <<"increased Armour and Evasion">>, {"explicit"}) EXCEPT !.local = TRUE],
              St("accuracy", <<"to Accuracy Rating">>, {"explicit"}),
              [St("local accuracy", <<"to Accuracy Rating">>, {"explicit"}) EXCEPT !.local = TRUE],
              St("passive", <<"Added Small Passives grant", "increased Damage">>, {"enchant"}),
              St("stun", <<"increased Stun Recovery">>, {"explicit"}),
              St("markers", <<"Runic Monster Markers", "and Remnants">>, {"implicit"}),
              St("crit", <<"increased Critical Strike Chance">>, {"implicit"})},
   bases |-> [item |-> << Rec("ring", <<"Ring">>, "Rings"), Rec("two-stone", <<"Two-Stone", "Ring">>, "Rings"),
                          Rec("two-stone quest", <<"Two-Stone", "Ring">>, "Quest Items"),
                          Rec("gloves", <<"Goathide", "Gloves">>, "Gloves"), Rec("bow", <<"Bow">>, "Bows"),
                          Rec("sceptre", <<"Void", "Sceptre">>, "Sceptres"), Rec("map", <<"Map">>, "Maps"),
                          Rec("flask", <<"Topaz", "Flask">>, "Flasks"), Rec("logbook", <<"Logbook">>, "Logbooks") >>,
              unique |-> << [Rec("nebulis", <<"Nebulis">>, "u") EXCEPT !.unique_base = <<"Void", "Sceptre">>],
                            [Rec("nebulis glove", <<"Nebulis">>, "u") EXCEPT !.unique_base = <<"Bow">>],
                            [Rec("hrimsorrow", <<"Hrimsorrow">>, "u") EXCEPT !.unique_base = <<"Goathide", "Gloves">>],
                            [Rec("hrimburn", <<"Hrimburn">>, "u") EXCEPT !.unique_base = <<"Goathide", "Gloves">>],
                            [Rec("stormblood", <<"Stormblood">>, "u") EXCEPT !.unique_base = <<"Topaz", "Flask">>] >>,
              gem |-> << Rec("blight", <<"Blight">>, "g"), Rec("vaal blight", <<"Vaal", "Blight">>, "g"),
                         [Rec("blight of atrophy", <<"Blight", "of", "Atrophy">>, "g") EXCEPT !.disc = "alt_x"],
                         [Rec("blight alt", <<"Blight">>, "g") EXCEPT !.disc = "alt_y"] >>,
              card |-> << Rec("card", <<"Map">>, "c") >>,
              beast |-> << Rec("croaker", <<"Croaker">>, "b") >>]]
(* No bundle has been read: every lookup is empty. *)
Blank == [name |-> "empty", stats |-> {}, bases |-> [ns \in DOMAIN Full.bases |-> <<>>]]
TwoBundles == {Full, Blank}

-----------------------------------------------------------------------------
(* The texts. *)

Means(mods, base, unique) ==
  [mods |-> mods, flavour |-> <<>>, help |-> <<>>, description |-> <<>>, inherent |-> <<>>,
   note |-> Absent, gemLevel |-> Absent, keys |-> {}, flags |-> {}, influences |-> <<>>,
   base |-> [full |-> Id(Full, base[1], base[2]), empty |-> Absent],
   unique |-> [full |-> Id(Full, "unique", unique), empty |-> Absent]]

Two == <<"Two-Stone", "Ring">>
Nebulis == <<"Nebulis">>
(* [rarity, name lines, class, base, unique, flags the header alone gives] *)
Heads ==
  {[rarity |-> "Normal", names |-> <<Name(<<"Superior">> \o Two)>>, class |-> "Rings",
    base |-> "two-stone", unique |-> Absent],
   [rarity |-> "Magic", names |-> <<Name(<<"Void">> \o Two \o <<"of", "Ring">>)>>, class |-> "Rings",
    base |-> "two-stone", unique |-> Absent],
   [rarity |-> "Rare", names |-> <<Name(<<"Rage", "Ring">>), Name(Two)>>, class |-> "Rings",
    base |-> "two-stone", unique |-> Absent],
   [rarity |-> "Rare", names |-> <<Name(<<"Rage", "Bow">>), Name(<<"Goathide", "Gloves">>)>>,
    class |-> "Gloves", base |-> "gloves", unique |-> Absent],
   [rarity |-> "Unique", names |-> <<Name(Nebulis), Name(<<"Superior", "Synthesised", "Void", "Sceptre">>)>>,
    class |-> "Sceptres", base |-> "sceptre", unique |-> "nebulis"],
   [rarity |-> "Unique", names |-> <<Name(<<"Foulborn">> \o Nebulis), Name(<<"Void", "Sceptre">>)>>,
    class |-> "Sceptres", base |-> "sceptre", unique |-> "nebulis"]}

Explicits(rarity) ==
  CASE rarity = "Normal" -> {<<>>}
    [] rarity = "Magic" -> {<<Life>>, <<Wordy>>}
    [] rarity = "Unique" -> {<<Wordy>>, <<Life, Wordy>>, <<Hybrid, Mutated>>}
    [] OTHER -> {<<Wordy>>, <<Hybrid, Life>>, <<Local, Adds, Crafted>>, <<Wordy, Hybrid, Local>>}

WeaponProps == << Line("Bow"), Label("Quality", 20), Label("Elemental Damage", 1),
                  Label("Attacks per Second", 1) >>
DefenceProps == << Label("Armour", 300), Label("Evasion Rating", 300) >>

(* Where the game puts influence lines: in a block of their own, or glued  *)
(* to the last modifiers.                                                  *)
Gear(h, adv, props, enchants, implicits, explicits, tail, glued, flavour) ==
  LET influences == <<InfluenceLine("Searing Exarch"), InfluenceLine("Eater of Worlds")>>
      scourged == tail = "scourge"
      flagged  == IF tail = "corrupted" THEN {"Corrupted"} ELSE {}
      born == \/ \E a \in Range(explicits) : a.foulborn /\ adv
              \/ h.names[1].words[1] = "Foulborn"
      mods == enchants \o implicits \o explicits \o IF scourged THEN <<Scourge>> ELSE <<>>
  IN [lines |-> Blocks(<< <<Class(h.class, "Other"), RarityLine(h.rarity)>> \o h.names, props,
                         <<Label("Requirements", Absent), Label("Level", 60)>>, <<Label("Sockets", Absent)>>,
                         <<Label("Item Level", 84)>>, PrintAll(enchants, adv, FALSE),
                         PrintAll(implicits, adv, FALSE),
                         PrintAll(explicits, adv, FALSE) \o IF glued THEN influences ELSE <<>>,
                         IF scourged THEN PrintAll(<<Scourge>>, adv, FALSE) ELSE <<>>,
                         IF h.rarity = "Unique" THEN flavour ELSE <<>>,
                         IF tail = "corrupted" THEN <<FlagLine("Corrupted")>> ELSE <<>>,
                         IF tail = "effect" THEN <<Cosmetic>> ELSE <<>>,
                         IF tail = "note" THEN <<Label("Note", Absent)>> ELSE <<>> >>),
      means |-> [Means(ReadAll(mods, adv), <<"item", h.base>>, h.unique) EXCEPT
                   !.flavour = IF h.rarity = "Unique" THEN Words(flavour) ELSE <<>>,
                   !.note = IF tail = "note" THEN <<"Note">> ELSE Absent,
                   !.keys = {l.key : l \in {x \in Range(props) : x.key # Absent}} \cup {"Item Level"},
                   !.flags = flagged \cup IF born THEN {"foulborn"} ELSE {},
                   !.influences = IF glued THEN <<"Searing Exarch", "Eater of Worlds">> ELSE <<>>]]

PropsOf(class) == CASE class = "Sceptres" -> WeaponProps
                    [] class = "Gloves" -> DefenceProps
                    [] OTHER -> <<>>
Flavours == {<<Quote, Line("-Rumi")>>, <<Line("The vastness of the cosmos")>>}
Kit(class) == IF class = "Rings" THEN {<<>>, <<Implicit>>, <<Sells, Implicit>>} ELSE {<<>>, <<Sells>>}
GearTexts ==
  UNION {{Gear(h, adv, PropsOf(h.class), en, im, ex, tail, gl, fl) :
            adv \in BOOLEAN, en \in {<<>>, <<Cluster>>}, im \in Kit(h.class),
            ex \in Explicits(h.rarity), tail \in {"none", "corrupted", "effect", "note", "scourge"},
            gl \in {x \in BOOLEAN : x => h.rarity = "Rare"},
            fl \in IF h.rarity = "Unique" THEN Flavours ELSE {<<>>}} : h \in Heads}

(* A flask's own effect stands in its property block; an enchantment comes *)
(* without a suffix.                                                       *)
FlaskText(adv, enchanted, ex, plain) ==
  LET block == (IF plain THEN <<>> ELSE <<Label("Quality", 20)>>)
               \o << Numbered("Lasts 4 Seconds"), Numbered("Consumes 20 Charges"),
                     Rolling("to maximum Resistance") >>
      en == IF enchanted THEN <<Enchant>> ELSE <<>>
  IN [lines |-> Blocks(<< <<Class("Flasks", "Flask"), RarityLine("Unique"), Name(<<"Stormblood">>),
                           Name(<<"Topaz", "Flask">>)>>, block,
                         <<Label("Requirements", Absent), Label("Level", 36)>>,
                         <<Label("Item Level", 85)>>, PrintAll(en, adv, TRUE), PrintAll(ex, adv, TRUE),
                         <<Line("On that fateful day")>>, <<Help>> >>),
      means |-> [Means(ReadAll(en \o ex, adv), <<"item", "flask">>, "stormblood") EXCEPT
                   !.flavour = << <<"On that fateful day">> >>, !.help = <<Help.words>>,
                   !.inherent = << <<"to maximum Resistance">> >>,
                   !.keys = {Absent, "Item Level"} \cup IF plain THEN {} ELSE {"Quality"}]]
FlaskTexts == {FlaskText(adv, en, ex, pl) : adv \in BOOLEAN, en \in BOOLEAN, pl \in BOOLEAN,
                 ex \in {<<Wordy>>, <<Life, Wordy>>, <<Hybrid>>}}

GemText(vaal, alt) ==
  LET half(w) == <<Line(w)>>
      stats == << Numbered("Deals 5 Damage"), With(Line("Quality:"), {"colon"}), Rolling("to duration") >>
      id == CASE vaal -> "vaal blight" [] alt /\ ~vaal -> "blight of atrophy" [] OTHER -> "blight"
  IN [lines |-> Blocks(<< <<Class("Skill Gems", "Other"), RarityLine("Gem"),
                           Name(IF alt /\ ~vaal THEN <<"Blight", "of", "Atrophy">> ELSE <<"Blight">>)>>,
                         <<Line("Spell, Chaos"), Label("Level", 1), Label("Cost", 2)>>,
                         <<Label("Requirements", Absent), Label("Level", 60)>>,
                         half("Apply a debuff"), stats,
                         IF vaal THEN <<[Name(<<"Vaal", "Blight">>) EXCEPT !.is = {"vaal", "letter"}]>> ELSE <<>>,
                         IF vaal THEN <<Label("Souls Per Use", 25)>> ELSE <<>>,
                         IF vaal THEN half("Apply a powerful debuff") ELSE <<>>,
                         IF vaal THEN stats ELSE <<>>, <<Label("Experience", 1)>>, <<Help>>,
                         (IF alt /\ ~vaal THEN <<FlagLine("transfigured")>> ELSE <<>>)
                         \o IF vaal THEN <<FlagLine("Corrupted")>> ELSE <<>> >>),
      means |-> [Means(<<>>, <<"gem", id>>, Absent) EXCEPT
                   !.gemLevel = 1, !.description = Words(half("Apply a debuff")), !.help = <<Help.words>>,
                   !.inherent = Words(stats) \o (IF vaal THEN Words(half("Apply a powerful debuff") \o stats)
                                                ELSE <<>>),
                   !.keys = {"Level", "Cost", "Experience"} \cup IF vaal THEN {"Souls Per Use"} ELSE {},
                   !.flags = (IF alt /\ ~vaal THEN {"transfigured"} ELSE {})
                             \cup IF vaal THEN {"Corrupted"} ELSE {}]]
GemTexts == {GemText(v, a) : v \in BOOLEAN, a \in BOOLEAN}

(* A destination's implicits: one line each, or a stat of two lines.       *)
One(w) == Affix("implicit", <<Rolling(w)>>, FALSE)
Pair == Affix("implicit", <<Rolling("Runic Monster Markers"), Line("and Remnants")>>, FALSE)
LogbookText(adv, first, second, affixes) ==
  LET block(a, f, ms) == <<Line(a), Line(f)>> \o PrintAll(ms, adv, FALSE)
  IN [lines |-> Blocks(<< <<Class("Expedition Logbooks", "ExpeditionLogbook"), RarityLine("Rare"),
                           Name(<<"Ancient", "Lands">>), Name(<<"Logbook">>)>>,
                         <<Label("Area Level", 80)>>, <<Label("Item Level", 80)>>,
                         block("Volcanic Island", "Druids", first),
                         block("Battleground Graves", "Order", second),
                         PrintAll(affixes, adv, FALSE), <<Help>> >>),
      means |-> [Means(ReadAll(first \o second \o affixes, adv), <<"item", "logbook">>, Absent) EXCEPT
                   !.help = <<Help.words>>, !.keys = {"Area Level", "Item Level"}]]
Logbook(firsts) ==
  {LogbookText(adv, f, s, af) : adv \in BOOLEAN, f \in firsts,
      s \in {<<One("Explosives")>>, <<One("Explosives"), One("Artifacts")>>},
      af \in {<<Life>>, <<Life, Wordy>>}}
PlainLogbooks == Logbook({<<One("Placement Range")>>, <<One("Placement Range"), One("Remnants")>>})
PairLogbooks == Logbook({<<Pair>>, <<One("Placement Range"), Pair>>})

SanctumText(affixes) ==
  [lines |-> Blocks(<< <<Class("Sanctum Research", "SanctumResearch"), RarityLine("Normal"),
                        Name(<<"Sanctum", "Vaults", "Research">>)>>,
                      <<Label("Area Level", 83), Label("Major Boons", Absent)>>, <<Label("Item Level", 84)>>,
                      PrintAll(affixes, FALSE, TRUE), <<Line("The treasures within are tainted")>>,
                      <<Help>>, <<FlagLine("Unmodifiable")>> >>),
   means |-> [Means(ReadAll(affixes, FALSE), <<"item", Absent>>, Absent) EXCEPT
                !.flavour = << <<"The treasures within are tainted">> >>, !.help = <<Help.words>>,
                !.keys = {"Area Level", "Major Boons", "Item Level"}, !.flags = {"Unmodifiable"}]]
Sanctum(w) == Affix("sanctum", <<w>>, FALSE)
SanctumTexts == {SanctumText(as) : as \in {<<Sanctum(Line("Cannot have Boons"))>>,
                   <<Sanctum(Rolling("reduced Prices")), Sanctum(Line("Cannot have Boons"))>>}}

BeastText ==
  LET ms == << Affix("explicit", <<Line("Charge Removal")>>, FALSE),
               Affix("explicit", <<Line("Crushing Claws")>>, FALSE) >>
  IN [lines |-> Blocks(<< <<Class("Stackable Currency", "Other"), RarityLine("Rare"), Name(<<"Deathcrawl">>),
                           Name(<<"Croaker">>)>>, <<Label("Genus", Absent), Label("Family", Absent)>>,
                         <<Label("Item Level", 76)>>, PrintAll(ms, TRUE, FALSE), <<Help>> >>),
      means |-> [Means(ReadAll(ms, TRUE), <<"beast", "croaker">>, Absent) EXCEPT
                   !.help = <<Help.words>>, !.keys = {"Genus", "Family", "Item Level"}]]

(* What describes itself in prose from top to bottom. *)
ProseText(class, kind, rarity, name, base, blocks) ==
  LET twice == kind = "MapFragment"
  IN [lines |-> Blocks(<< <<Class(class, kind), RarityLine(rarity), name>>, <<Label("Stack Size", 1)>> >>
                      \o [i \in DOMAIN blocks |-> <<Line(blocks[i])>>] \o << <<Help>> >>),
      means |-> [Means(<<>>, base, Absent) EXCEPT
                   !.keys = {"Stack Size"}, !.help = <<Help.words>>, !.description = << <<blocks[1]>> >>,
                   !.flavour = IF twice THEN [i \in 1..(Len(blocks) - 1) |-> <<blocks[i + 1]>>] ELSE <<>>,
                   !.inherent = IF twice THEN <<>> ELSE [i \in 1..(Len(blocks) - 1) |-> <<blocks[i + 1]>>]]]
ProseTexts ==
  {ProseText("Map Fragments", "MapFragment", "Normal", Name(<<"Scarab">>), <<"item", Absent>>, bs) :
     bs \in {<<"Maps are Corrupted">>, <<"Maps are Corrupted", "Corruption bleeds">>}}
  \cup {ProseText("Stackable Currency", "Other", "Currency", Name(<<"Orb">>), <<"item", Absent>>, <<"Rerolls">>),
        ProseText("Divination Cards", "Other", "DivinationCard", Name(<<"Map">>), <<"card", "card">>,
                  <<"Chin Sol", "Lethal, untouchable">>)}

MapText(blight, adv, magic) ==
  LET words == (IF blight = Absent THEN <<>> ELSE <<blight>>) \o <<"Map">>
               \o IF magic THEN <<"of", "Impedance">> ELSE <<>>
      mark == CASE blight = "Blighted" -> {"blighted"} [] blight = "Blight-ravaged" -> {"ravaged"} [] OTHER -> {}
  IN [lines |-> Blocks(<< <<Class("Maps", "Map"), RarityLine(IF magic THEN "Magic" ELSE "Rare")>>
                         \o (IF magic THEN <<>> ELSE <<Name(<<"Void", "Resolve">>)>>) \o <<Tiered(words)>>,
                         <<Label("Item Quantity", 96)>>, <<Label("Item Level", 85)>>,
                         <<Label("Monster Level", 83)>>, PrintAll(<<Wordy, Life>>, adv, FALSE), <<Help>>,
                         <<Help>> >>),
      means |-> [Means(ReadAll(<<Wordy, Life>>, adv), <<"item", "map">>, Absent) EXCEPT
                   !.keys = {"Item Quantity", "Item Level", "Monster Level"}, !.flags = mark,
                   !.help = <<Help.words, Help.words>>]]
MapTexts == {MapText(b, adv, FALSE) : b \in {Absent, "Blighted", "Blight-ravaged"}, adv \in BOOLEAN}
            \cup {MapText(Absent, adv, TRUE) : adv \in BOOLEAN}

UnidentifiedText(base, class, id, only) ==
  [lines |-> Blocks(<< <<Class(class, "Other"), RarityLine("Unique"), Name(<<"Superior">> \o base)>>,
                      <<Label("Evasion Rating", 36)>>, <<Label("Item Level", 84)>>,
                      <<FlagLine("unidentified")>> >>),
   means |-> [Means(<<>>, <<"item", id>>, only) EXCEPT
                !.keys = {"Evasion Rating", "Item Level"}, !.flags = {"unidentified"}]]
Unidentified == {UnidentifiedText(<<"Goathide", "Gloves">>, "Gloves", "gloves", Absent),
                 UnidentifiedText(<<"Bow">>, "Bows", "bow", "nebulis glove")}

NotAnItem == [lines |-> <<Line("hello")>>, means |-> Absent]

AllTexts == GearTexts \cup FlaskTexts \cup GemTexts \cup PlainLogbooks \cup PairLogbooks
            \cup SanctumTexts \cup {BeastText} \cup ProseTexts \cup MapTexts \cup Unidentified
            \cup {NotAnItem}
=============================================================================
