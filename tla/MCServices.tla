----------------------------- MODULE MCServices -----------------------------
(***************************************************************************)
(* The services that fetch beside the trade search, for TLC.  They share   *)
(* no state, so a behaviour is one of one service: `focus` says which.     *)
(***************************************************************************)
EXTENDS NinjaService, ExchangeService, LeagueList, IconCache

CONSTANTS Everything  \* which services a behaviour can be of

VARIABLE focus

allVars == <<focus, nVars, xVars, lVars, iVars>>

-----------------------------------------------------------------------------
(* poe.ninja's lists, cut down to the lines that can be taken for another. *)

Nothing == [strategy |-> "Modifiers", category |-> "armour", gem |-> <<>>, unique |-> <<>>,
            name |-> <<>>, planName |-> <<>>, base |-> <<>>, baseType |-> <<>>, mods |-> <<>>,
            corrupted |-> FALSE, gaps |-> <<>>, stack |-> 1, level |-> 0, gemLevel |-> 0,
            gemQuality |-> 0, influences |-> {}]
Line == [id |-> "", name |-> <<>>, base |-> <<>>, variant |-> {}, chaos |-> 0, links |-> 0,
         level |-> 0, gemLevel |-> 0, gemQuality |-> 0, corrupted |-> FALSE, mods |-> <<>>]

Regalia == <<"Twilight", "Regalia">>
Ralakesh == <<"Ralakesh's", "Impatience">>
Boots == <<"Riveted", "Boots">>
Headhunter == <<"Headhunter">>
Mod(says, n, ranged) == [says |-> says, n |-> n, ranged |-> ranged]
BaseLine(level, influences, chaos) ==
  [Line EXCEPT !.name = Regalia, !.level = level, !.variant = influences, !.chaos = chaos]
Charges(kind, chaos) ==
  [Line EXCEPT !.name = Ralakesh, !.base = Boots, !.chaos = chaos,
               !.mods = <<Mod("cold", 15, TRUE), Mod(kind, 3, FALSE)>>]
GemLine(name, level, quality, corrupted, chaos) ==
  [Line EXCEPT !.name = name, !.gemLevel = level, !.gemQuality = quality,
               !.corrupted = corrupted, !.chaos = chaos]
Coin(id, chaos) == [Line EXCEPT !.id = id, !.chaos = chaos]
Blight == <<"Blight">>
VaalBlight == <<"Vaal", "Blight">>

Stash(lines) == [rate |-> 0, names |-> <<>>, lines |-> lines]
Standard == [
  Currency |->
    [rate |-> 199, lines |-> <<Coin("chaos", 1), Coin("divine", 200), Coin("unnamed", 7), Coin("mirror", 90000)>>,
     names |-> [chaos |-> <<"Chaos", "Orb">>, divine |-> <<"Divine", "Orb">>,
                mirror |-> <<"Mirror", "of", "Kalandra">>]],
  Scarab |-> [rate |-> 199, lines |-> <<Coin("gilded", 3), Coin("rusted", 1)>>,
              names |-> [gilded |-> <<"Gilded", "Scarab">>, rusted |-> <<"Rusted", "Scarab">>]],
  BaseType |-> Stash(<<BaseLine(82, {}, 5), BaseLine(84, {}, 8), BaseLine(84, {"Warlord"}, 2000),
                       BaseLine(82, {"Warlord"}, 1370), BaseLine(83, {"Shaper", "Elder"}, 900)>>),
  UniqueArmour |-> Stash(<<Charges("power", 805), Charges("endurance", 133), Charges("frenzy", 75),
                           [Charges("frenzy", 60) EXCEPT !.corrupted = TRUE]>>),
  UniqueAccessory |-> Stash(<<[Line EXCEPT !.name = Headhunter, !.chaos = 3000],
                              [Line EXCEPT !.name = <<"Foulborn">> \o Headhunter, !.chaos = 900]>>),
  SkillGem |-> Stash(<<GemLine(Blight, 1, 0, FALSE, 1), GemLine(Blight, 20, 20, FALSE, 12),
                       GemLine(VaalBlight, 1, 0, TRUE, 3), GemLine(VaalBlight, 20, 20, TRUE, 120),
                       GemLine(VaalBlight, 21, 20, TRUE, 400)>>)]
Nowhere == [rate |-> 0, names |-> <<>>, lines |-> <<>>]

Economy ==
  [k \in {Key(t, "Standard") : t \in DOMAIN Standard} |-> Standard[k.type]] @@
  [k \in {Key(t, "Private") : t \in {"Currency", "BaseType"}} |-> Nowhere]

Rare(level, influences) ==
  [Nothing EXCEPT !.base = Regalia, !.baseType = Regalia, !.name = <<"Dread", "Shell">>,
                  !.level = level, !.influences = influences]
Impatience(kind, corrupted) ==
  [Nothing EXCEPT !.strategy = "Unique", !.unique = Ralakesh, !.name = Ralakesh,
                  !.planName = Ralakesh, !.base = Boots, !.baseType = Boots,
                  !.corrupted = corrupted, !.mods = <<Mod("cold", 22, FALSE), Mod(kind, 3, FALSE)>>]
Stack(name, category, n) ==
  [Nothing EXCEPT !.strategy = "Currency", !.category = category, !.base = name,
                  !.baseType = name, !.planName = name, !.stack = n]
Vaal(level, quality) ==
  [Nothing EXCEPT !.strategy = "Gem", !.category = "gem", !.gem = VaalBlight, !.base = Blight,
                  !.baseType = Blight, !.corrupted = TRUE, !.gemLevel = level, !.gemQuality = quality]
AMap == [Nothing EXCEPT !.strategy = "Map", !.category = "map", !.name = <<"Strand", "Map">>]

In(league, items) == {[item |-> it, league |-> league] : it \in items}
AsPrinted ==
  In("Standard", {Rare(83, {"Warlord"}), Rare(85, {"Searing Exarch"}), Impatience("power", FALSE),
                  Impatience("frenzy", TRUE), Stack(<<"Divine", "Orb">>, "currency", 3),
                  Stack(<<"Gilded", "Scarab">>, "map.fragment", 1), Vaal(20, 20), AMap})
  \cup In("Private", {Rare(83, {})})

\* A unique that carries a name it was not born with.
Renamed == In("Standard",
  {[Nothing EXCEPT !.strategy = "Unique", !.category = "accessory", !.unique = Headhunter,
                            !.name = <<"Foulborn">> \o Headhunter, !.planName = Headhunter,
                            !.base = <<"Leather", "Belt">>, !.baseType = <<"Leather", "Belt">>]})

\* "A unique renamed by what was done to it is a separate line on poe.ninja, so
\* the printed name is tried before the canonical one" (Query::names).
PricedUnderItsName == PricedAsItself

-----------------------------------------------------------------------------
(* The exchange's hours.                                                   *)

Side(of, for) == [of |-> of, for |-> for]
Market(league, a, b, low, high, volume) ==
  [league |-> league, pair |-> <<a, b>>, volume |-> volume,
   lowest |-> <<low, Side(low.for, low.of)>>, highest |-> <<high, Side(high.for, high.of)>>]

\* The orbs against each other, an ember whose band straddles one, a scarab
\* that trades only in an old hour, a market nobody traded in and one of
\* another league.
Orbs == Market("Standard", "chaos", "divine", Side(199, 1), Side(204, 1), <<402, 2>>)
Ember == Market("Standard", "ember", "chaos", Side(2, 1), Side(1, 2), <<57, 76>>)
Hours == [h \in 1..5 |->
  <<Orbs, Ember, Market("Standard", "oil", "chaos", Side(0, 0), Side(0, 0), <<0, 0>>)>>
  \o IF h = 2 THEN <<Market("Standard", "scarab", "divine", Side(5, 1), Side(4, 1), <<9, 2>>)>>
     ELSE <<Market("Hardcore", "scarab", "chaos", Side(1, 3), Side(1, 3), <<1, 3>>)>>]
XLeagues == {"Standard", "Hardcore"}
XIds == {"chaos", "ember", "scarab", "oil", ""}

\* "No trades in the past hour" is "only a fact if the hour was actually read"
\* (draw_exchange_price).
SilenceIsRead ==
  xchg.state = "Ok" /\ xchg.listing = <<>> /\ xchg.id # "" => xchg.digest.league = xchg.league

-----------------------------------------------------------------------------
(* The leagues and the pictures.                                           *)

\* "A future timestamp counts as stale: a clock rollback or a hand-edited file
\* must not pin a cache forever" (league_cache::fresh, which refresh() does not ask).
RollbackIsStale == leagues.cachedAt > time => ~StillGood

\* "These never change, so a second launch should make no requests at all"
\* (cache_path): it makes none, and has no picture either, when the file is bad.
CachedIsShown == \A u \in Urls : entries[u] = "failed" => iDisk[u] # "bad"

-----------------------------------------------------------------------------
ServicesInit ==
  /\ focus \in Everything /\ NinjaInit /\ XchgInit /\ LeaguesInit /\ IconsInit
  /\ focus # "exchange" => published = {}

ServicesNext ==
  \/ focus = "ninja" /\ NinjaNext /\ UNCHANGED <<focus, xVars, lVars, iVars>>
  \/ focus = "exchange" /\ XchgNext /\ UNCHANGED <<focus, nVars, lVars, iVars>>
  \/ focus = "leagues" /\ LeaguesNext /\ UNCHANGED <<focus, nVars, xVars, iVars>>
  \/ focus = "icons" /\ IconsNext /\ UNCHANGED <<focus, nVars, xVars, lVars>>

ServicesSpec ==
  /\ ServicesInit /\ [][ServicesNext]_allVars
  /\ NinjaFairness /\ XchgFairness /\ LeaguesFairness /\ IconsFairness

\* Nothing that fetches beside the trade search stays loading, whatever is
\* asked of it meanwhile, unless a result was lost to a full event queue.
ServicesEnd == NinjaEnds /\ XchgEnds /\ LeaguesEnd /\ IconsEnd
=============================================================================
