---------------------------- MODULE MarketPrices ----------------------------
(***************************************************************************)
(* What poe.ninja says of an item (src/ninja/ninja.cpp): which overviews a *)
(* check asks for, what an overview's body is read as, and which of its    *)
(* lines the item is priced by.                                            *)
(*                                                                         *)
(* A name is a sequence of words.  Prices are whole chaos; an amount that  *)
(* is drawn is in hundredths of its currency.  A line's modifier is what   *)
(* it says, the number it says it of and whether poe.ninja prints a range  *)
(* there, for which the number is the low end.                             *)
(***************************************************************************)
EXTENDS Integers, Sequences, FiniteSets, SequencesExt

StashTypes == {"Invitation", "UniqueWeapon", "UniqueArmour", "UniqueAccessory", "UniqueFlask",
               "UniqueJewel", "UniqueTincture", "UniqueRelic", "SkillGem", "BaseType"}
Feed(type) == IF type \in StashTypes THEN "StashItem" ELSE "Exchange"

\* kKeywords, in order.
Keywords == <<
  [words |-> <<"Scarab">>, type |-> "Scarab"],
  [words |-> <<"Essence", "of">>, type |-> "Essence"],
  [words |-> <<"Remnant", "of", "Corruption">>, type |-> "Essence"],
  [words |-> <<"Delirium", "Orb">>, type |-> "DeliriumOrb"],
  [words |-> <<"Oil">>, type |-> "Oil"],
  [words |-> <<"Artifact">>, type |-> "Artifact"],
  [words |-> <<"Tattoo">>, type |-> "Tattoo"],
  [words |-> <<"Omen">>, type |-> "Omen"],
  [words |-> <<"Allflame", "Ember">>, type |-> "AllflameEmber"],
  [words |-> <<"Runegraft">>, type |-> "Runegraft"],
  [words |-> <<"Djinn">>, type |-> "DjinnCoin"],
  [words |-> <<"Ducat">>, type |-> "Ducat"],
  [words |-> <<"Enshrouding", "Crystal">>, type |-> "EnshroudingCrystal"],
  [words |-> <<"Astrolabe">>, type |-> "Astrolabe"] >>

Says(name, words) ==
  \E i \in 0..(Len(name) - Len(words)) : SubSeq(name, i + 1, i + Len(words)) = words

Key(type, league) == [type |-> type, league |-> league]

-----------------------------------------------------------------------------
(* The question: query_for and keys_for.                                   *)

\* max_links: the separators between sockets are a link or a gap.
MaxLinks(gaps) ==
  LET Joined(n) == \E i \in 0..(Len(gaps) - n) : \A j \in (i + 1)..(i + n) : gaps[j] = "link"
      best == 1 + CHOOSE n \in 0..Len(gaps) :
                    Joined(n) /\ \A m \in (n + 1)..Len(gaps) : ~Joined(m)
  IN  IF best >= 5 THEN best ELSE 0

FirstOf(list) == SelectSeq(list, LAMBDA n : n # <<>>)

\* The names a check goes by, best first.  gem is the name the market knows a
\* gem under, which is not what a Vaal gem prints.
NamesOf(it) ==
  IF it.gem # <<>> THEN <<it.gem>>
  ELSE FirstOf(<<it.unique, it.name, it.planName, it.base, it.baseType>>)

Eldritch == {"Searing Exarch", "Eater of Worlds"}

QueryFor(it, league) ==
  [strategy |-> it.strategy, league |-> league, names |-> NamesOf(it), base |-> it.base,
   category |-> it.category, mods |-> it.mods, corrupted |-> it.corrupted,
   links |-> MaxLinks(it.gaps), stack |-> it.stack, level |-> it.level,
   gemLevel |-> IF it.strategy = "Gem" THEN it.gemLevel ELSE 0,
   gemQuality |-> IF it.strategy = "Gem" THEN it.gemQuality ELSE 0,
   influences |-> it.influences \ Eldritch]

KeywordType(q) ==
  LET hits == IF q.names = <<>> THEN <<>>
              ELSE SelectSeq(Keywords, LAMBDA k : Says(Head(q.names), k.words))
  IN  IF hits = <<>> THEN "" ELSE Head(hits).type

\* map_item_type: scarabs, embers, invitations and fragments share one class.
MapItemType(q) ==
  IF q.category # "map.fragment" THEN ""
  ELSE IF KeywordType(q) # "" THEN KeywordType(q)
  ELSE IF q.names # <<>> /\ Says(Head(q.names), <<"Invitation">>) THEN "Invitation"
  ELSE "Fragment"

UniqueType == [weapon |-> "UniqueWeapon", armour |-> "UniqueArmour",
               accessory |-> "UniqueAccessory", flask |-> "UniqueFlask", jewel |-> "UniqueJewel",
               tincture |-> "UniqueTincture", relic |-> "UniqueRelic"]
CurrencyType == [card |-> "DivinationCard", fossil |-> "Fossil", resonator |-> "Resonator"]

OverviewType(q) ==
  CASE q.strategy = "Unique" ->
         IF q.category \in DOMAIN UniqueType THEN UniqueType[q.category] ELSE ""
    [] q.strategy = "Gem" -> "SkillGem"
    [] q.strategy \in {"BaseItem", "Modifiers"} -> "BaseType"
    [] q.strategy = "Currency" ->
         IF q.category \in DOMAIN CurrencyType THEN CurrencyType[q.category] ELSE KeywordType(q)
    [] OTHER -> ""

\* The currency market leads, since it has the rate everything is converted with.
KeysFor(q) ==
  LET map == MapItemType(q)
      type == IF map # "" THEN map ELSE OverviewType(q)
  IN  IF type # "" THEN <<Key("Currency", q.league), Key(type, q.league)>>
      ELSE IF q.strategy = "Currency" THEN <<Key("Currency", q.league)>>
      ELSE <<>>

-----------------------------------------------------------------------------
(* The answer: parse_overview.                                             *)

\* A line of the exchange feed takes its name from the sibling array, and one
\* without an entry there is dropped; the Divine Orb's own line outranks the
\* rounded rate of the head.
ParseExchange(body) ==
  LET named == SelectSeq(body.lines, LAMBDA l : l.id \in DOMAIN body.names)
      lines == [i \in 1..Len(named) |-> [named[i] EXCEPT !.name = body.names[named[i].id]]]
      divine == SelectSeq(lines, LAMBDA l : l.id = "divine")
  IN  [rate |-> IF divine # <<>> /\ Head(divine).chaos > 0 THEN Head(divine).chaos ELSE body.rate,
       lines |-> lines]

ParseStash(body) == [rate |-> 0, lines |-> SelectSeq(body.lines, LAMBDA l : l.name # <<>>)]

ParseOverview(body, type) ==
  IF Feed(type) = "Exchange" THEN ParseExchange(body) ELSE ParseStash(body)

-----------------------------------------------------------------------------
(* Which lines are the item's.                                             *)

\* narrow: keep what passes, unless nothing does.
Narrow(lines, Pass(_)) ==
  LET kept == SelectSeq(lines, Pass) IN IF kept # <<>> THEN kept ELSE lines

\* by_name: the first name that hits settles it.
ByName(lines, names) ==
  LET Hits(n) == SelectSeq(lines, LAMBDA l : l.name = n)
      hit == SelectSeq(names, LAMBDA n : Hits(n) # <<>>)
  IN  IF hit = <<>> THEN <<>> ELSE Hits(Head(hit))

\* A range says the number is whatever this copy rolled; a bare number is fixed.
Prints(mods, m) ==
  \E i \in DOMAIN mods : mods[i].says = m.says /\ (m.ranged \/ mods[i].n = m.n)

Misses(l, mods) == Cardinality({i \in DOMAIN l.mods : ~Prints(mods, l.mods[i])})

\* narrow_by_mods: the count is relative, and silence scores nothing.
NarrowByMods(lines, mods) ==
  IF Len(lines) < 2 \/ mods = <<>> \/ \E i \in DOMAIN lines : lines[i].mods = <<>>
  THEN lines
  ELSE SelectSeq(lines, LAMBDA l : \A i \in DOMAIN lines : Misses(l, mods) <= Misses(lines[i], mods))

Tier(l) == <<l.gemLevel, l.gemQuality>>
Above(a, b) == a[1] > b[1] \/ (a[1] = b[1] /\ a[2] > b[2])

\* nearest_gem: the best tier the gem has reached, else the lowest there is.
\* Both scans keep the first of equals.
NearestGem(lines, level, quality) ==
  LET reached == SelectSeq(lines, LAMBDA l : l.gemLevel <= level /\ l.gemQuality <= quality)
      Best(s) == s[CHOOSE i \in DOMAIN s : /\ \A j \in DOMAIN s : ~Above(Tier(s[j]), Tier(s[i]))
                                           /\ \A j \in 1..(i - 1) : Tier(s[j]) # Tier(s[i])]
      Least(s) == s[CHOOSE i \in DOMAIN s : /\ \A j \in DOMAIN s : ~Above(Tier(s[i]), Tier(s[j]))
                                            /\ \A j \in 1..(i - 1) : Tier(s[j]) # Tier(s[i])]
  IN  IF reached # <<>> THEN Best(reached) ELSE Least(lines)

-----------------------------------------------------------------------------
(* What is shown.                                                          *)

Nearest(n, d) == (2 * n + d) \div (2 * d)

\* quote_in: two decimals below ten, one below a hundred, none above.
QuoteIn(chaos, rate, currency) ==
  LET d == IF currency = "divine" /\ rate > 0 THEN rate ELSE 1
      unit == IF chaos < 10 * d THEN 1 ELSE IF chaos < 100 * d THEN 10 ELSE 100
  IN  [currency |-> currency, amount |-> unit * Nearest(100 * chaos, unit * d)]

Quote(chaos, rate) == QuoteIn(chaos, rate, IF rate > 0 /\ chaos >= rate THEN "divine" ELSE "chaos")

NoQuote == [currency |-> "", amount |-> 0]
NoReference == [state |-> "None", note |-> "", price |-> NoQuote, high |-> NoQuote, per |-> "",
                stack |-> NoQuote, low |-> 0, top |-> 0, fetched |-> 0]

StackPrice(l, rate, n) == IF n > 1 THEN Quote(l.chaos * n, rate) ELSE NoQuote

\* fill_price.  low and top are the chaos prices behind what is drawn.
Priced(l, rate, n, fetched) ==
  [NoReference EXCEPT !.state = "Priced", !.price = Quote(l.chaos, rate), !.fetched = fetched,
                      !.stack = StackPrice(l, rate, n), !.low = l.chaos, !.top = l.chaos]

Unpriced(note, fetched) == [NoReference EXCEPT !.note = note, !.fetched = fetched]

\* rate_reference: an orb the economy is counted in is worth the rate.
RateReference(l, rate, n, fetched) ==
  [NoReference EXCEPT !.state = "Priced", !.price = QuoteIn(rate, rate, "chaos"), !.per = "divine",
                      !.stack = StackPrice(l, rate, n), !.low = rate, !.top = rate,
                      !.fetched = fetched]

\* base_type_reference: influences exactly, then the best bracket reached.
NoOtherInfluence(lines, want) == SelectSeq(lines, LAMBDA l : l.variant \subseteq want)  \* altered
SameInfluences(lines, want) == SelectSeq(lines, LAMBDA l : l.variant = want)

BaseReference(q, ov, rate) ==
  LET named == ByName(ov.lines, <<q.base>>)
      matched == SameInfluences(named, q.influences)
      reached == SelectSeq(matched, LAMBDA l : l.level <= q.level)
      best == reached[CHOOSE i \in DOMAIN reached :
                        /\ \A j \in DOMAIN reached : reached[j].level <= reached[i].level
                        /\ \A j \in 1..(i - 1) : reached[j].level < reached[i].level]
  IN  IF named = <<>> THEN Unpriced("not priced as a base", ov.fetched)
      ELSE IF matched = <<>> THEN Unpriced("no price for these influences", ov.fetched)
      ELSE IF q.level <= 0 THEN Unpriced("no item level", ov.fetched)
      ELSE IF reached = <<>> THEN Unpriced("item level too low", ov.fetched)
      ELSE Priced(best, rate, 1, ov.fetched)

\* The variants left, cheapest first: one price, or a span in one currency.
Span(lines, rate, n, fetched) ==
  LET Cheaper(a, b) == a.chaos < b.chaos
      sorted == SortSeq(lines, Cheaper)
      low == Head(sorted)
      top == Last(sorted)
      high == Quote(top.chaos, rate)
  IN  IF low.chaos = top.chaos THEN Priced(low, rate, n, fetched)
      ELSE [NoReference EXCEPT !.state = "Ambiguous", !.high = high, !.fetched = fetched,
                               !.price = QuoteIn(low.chaos, rate, high.currency),
                               !.low = low.chaos, !.top = top.chaos]

\* The hard and soft filters of everything that is neither a base nor a gem.
Variants(q, named) ==
  LET based == IF q.base = <<>> THEN named
               ELSE Narrow(named, LAMBDA l : l.base \in {<<>>, q.base})
      sameState == Narrow(based, LAMBDA l : l.corrupted = q.corrupted)
      linked == Narrow(sameState, LAMBDA l : l.links = q.links)
  IN  NarrowByMods(linked, q.mods)

\* reference_for: `have` is what is held of the overviews the query asks for.
ReferenceFor(q, have) ==
  LET markets == SelectSeq(have, LAMBDA o : o.type = "Currency")
      others == SelectSeq(have, LAMBDA o : o.type # "Currency")
      market == Head(markets)
      rate == IF markets = <<>> THEN 0 ELSE market.rate
      inMarket == IF q.strategy = "Currency" /\ markets # <<>>
                  THEN ByName(market.lines, q.names) ELSE <<>>
      ov == IF inMarket # <<>> THEN market ELSE Head(others)
      named == IF inMarket # <<>> THEN inMarket ELSE ByName(ov.lines, q.names)
      gem == NearestGem(Narrow(named, LAMBDA l : l.corrupted = q.corrupted),
                        q.gemLevel, q.gemQuality)
  IN  IF markets # <<>> /\ market.lines = <<>>
      THEN Unpriced("no economy tracked", market.fetched)
      ELSE IF inMarket # <<>> /\ rate > 0 /\ Head(inMarket).id \in {"chaos", "divine"}
      THEN RateReference(Head(inMarket), rate, q.stack, market.fetched)
      ELSE IF inMarket = <<>> /\ others = <<>>
      THEN Unpriced("nothing of this kind", IF markets = <<>> THEN 0 ELSE market.fetched)
      ELSE IF inMarket = <<>> /\ ov.type = "BaseType" THEN BaseReference(q, ov, rate)
      ELSE IF named = <<>> THEN Unpriced("no price for this item", ov.fetched)
      ELSE IF q.strategy = "Gem" THEN Priced(gem, rate, 1, ov.fetched)
      ELSE Span(Variants(q, named), rate, q.stack, ov.fetched)
=============================================================================
