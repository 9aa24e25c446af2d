------------------------------- MODULE ItemText -------------------------------
(***************************************************************************)
(* Reading an item: item/parse.cpp takes the text the game copies apart,   *)
(* item/resolve.cpp matches it against the bundle and regroups its         *)
(* modifiers, and the panel may then settle which unique it is.            *)
(*                                                                         *)
(* A line is a record: `words' is what it says (one word where nothing     *)
(* takes it apart), `is' the traits the parser tests it for, `key' the     *)
(* closed word it is, `suffix' its modifier type suffix, `num' its first   *)
(* number, and `info' what a { } line states.  Traits are read off the     *)
(* characters: "rolls" opens with a number, "digit" has one anywhere,      *)
(* "label" is a digitless label before a colon.                            *)
(***************************************************************************)
EXTENDS Integers, Sequences, FiniteSets, SequencesExt

CONSTANTS Absent,   \* an optional that holds nothing
          Texts,    \* what may be copied: [lines |-> ..., means |-> ...]
          Bundles   \* the game data that may be loaded

(* The game writes an affix right under its info line, in the same block.  *)
ASSUME TextAssumption ==
  \A t \in Texts :
    /\ t.lines \in Seq({t.lines[k] : k \in DOMAIN t.lines})
    /\ \A k \in DOMAIN t.lines :
         "info" \in t.lines[k].is =>
           /\ t.lines[k].info # Absent /\ k < Len(t.lines)
           /\ t.lines[k + 1].is \cap {"info", "reminder", "flag", "influence", "separator", "blank"}
                = {}

VARIABLES text, gd, item, stage

readingVars == <<text, gd, item, stage>>

-----------------------------------------------------------------------------
(* Lines and sections. *)

Is(l, trait) == trait \in l.is
Every(s, Test(_)) == \A i \in DOMAIN s : Test(s[i])
Some(s, Test(_)) == \E i \in DOMAIN s : Test(s[i])

(* Those that pass, in their order. *)
Where(s, Test(_)) == FlattenSeq([i \in DOMAIN s |-> IF Test(s[i]) THEN <<s[i]>> ELSE <<>>])

SplitLine(acc, l) ==
  IF Is(l, "separator") THEN Append(acc, <<>>)
  ELSE IF Is(l, "blank") THEN acc
  ELSE [acc EXCEPT ![Len(acc)] = Append(@, l)]
SplitSections(lines) == Where(FoldLeft(SplitLine, <<<<>>>>, lines), LAMBDA s : s # <<>>)

IsFlagLine(l) == Is(l, "flag") \/ Is(l, "influence")
IsPropertyLine(l) == Is(l, "label")
IsFlagSection(s) == Every(s, IsFlagLine)
IsCosmetic(s) == Every(s, LAMBDA l : Is(l, "cosmetic"))
IsProse(s) == ~Some(s, LAMBDA l : Is(l, "rolls"))
IsHelp(s) == Some(s, LAMBDA l : Is(l, "help"))
LooksLikeMods(s) == Some(s, LAMBDA l : Is(l, "info") \/ l.suffix # Absent)
IsBareName(l) == l.suffix = Absent /\ l.is \cap {"info", "label", "colon", "digit"} = {}
IsDestination(s) ==
  Len(s) >= 3 /\ IsBareName(s[1]) /\ IsBareName(s[2]) /\ LooksLikeMods(SubSeq(s, 3, Len(s)))

Labelled(s, key) == s[1].key = key

-----------------------------------------------------------------------------
(* The item. *)

Item0 == [class |-> Absent, kind |-> "Other", rarity |-> "Unknown", name |-> <<>>,
          base_type |-> <<>>, base_name |-> <<>>, unparsed |-> <<>>, map_tier |-> Absent,
          type_line |-> Absent,
          props |-> <<>>, inherent |-> <<>>, flags |-> {}, influences |-> <<>>, req |-> <<>>,
          sockets |-> Absent, note |-> Absent, cosmetic |-> <<>>, vaal |-> Absent, help |-> <<>>,
          flavour |-> <<>>, description |-> <<>>, mods |-> <<>>, areas |-> <<>>, elemental |-> <<>>,
          base |-> Absent, unique |-> Absent, candidates |-> {}]

Mod0 == [type |-> "explicit", lines |-> <<>>, reminder |-> <<>>, info |-> Absent,
         continuation |-> FALSE, match |-> Absent]

HasProp(it, key) == \E p \in Range(it.props) : p.key = key
Value(it, key) == LET at == {i \in DOMAIN it.props : it.props[i].key = key}
                  IN IF at = {} THEN Absent
                     ELSE it.props[CHOOSE i \in at : \A j \in at : j <= i].num

IsWeapon(it) == Value(it, "Attacks per Second") # Absent
IsBeast(it) == HasProp(it, "Genus")
IsGear(it) == /\ it.kind # "MapFragment"
              /\ ~IsBeast(it)
              /\ it.rarity \in {"Normal", "Magic", "Rare", "Unique"}
IsSanctum(it) == it.kind = "SanctumResearch"

-----------------------------------------------------------------------------
(* The header. *)

WithoutPrefix(word, words) == IF words # <<>> /\ words[1] = word THEN Tail(words) ELSE words

HeaderLine(it, l) ==
  IF Is(l, "class") THEN [it EXCEPT !.class = l.key, !.kind = l.kind]
  ELSE IF Is(l, "rarity") THEN [it EXCEPT !.rarity = l.key]
  ELSE IF it.name = <<>>
  THEN [it EXCEPT !.name = it.base_type, !.base_type = l.words, !.map_tier = l.num]
  ELSE [it EXCEPT !.unparsed = Append(@, l.words)]

ParseHeader(s) ==
  LET read == FoldLeft(HeaderLine, Item0, s)
      base == WithoutPrefix("Synthesised", WithoutPrefix("Superior", read.base_type))
  IN [read EXCEPT !.base_type = base, !.base_name = base,
                  !.flags = (IF base = <<"Blighted", "Map">> THEN {"blighted"} ELSE {})
                       \cup (IF base = <<"Blight-ravaged", "Map">> THEN {"ravaged"} ELSE {})]

-----------------------------------------------------------------------------
(* Sections that are not modifiers. *)

Prop(l, key) == [key |-> key, words |-> l.words, num |-> l.num, reminder |-> <<>>]

(* A gem prints "Level" twice; the one in a property block is the gem's.   *)
GemLevel(it) == IF it.rarity = "Gem" THEN Value(it, "Level") ELSE Absent

BlockLine(it, l) ==
  IF Is(l, "reminder") /\ it.props # <<>>
  THEN [it EXCEPT !.props[Len(it.props)].reminder = Append(@, l.words)]
  ELSE IF IsPropertyLine(l) THEN [it EXCEPT !.props = Append(@, Prop(l, l.key))]
  ELSE IF Is(l, "job") THEN [it EXCEPT !.props = Append(@, Prop(l, "HeistJob"))]
  ELSE IF it.type_line = Absent /\ it.props = <<>> /\ ~Is(l, "digit")
  THEN [it EXCEPT !.type_line = l.words]
  ELSE IF Is(l, "digit") /\ ~Is(l, "letter")
  THEN [it EXCEPT !.inherent = Append(@, l.words)]
  ELSE [it EXCEPT !.props = Append(@, Prop(l, Absent))]
ParseProperties(s, it) == FoldLeft(BlockLine, it, s)

FlagOrInfluence(it, l) ==
  IF Is(l, "flag") THEN [it EXCEPT !.flags = @ \cup {l.key}]
  ELSE IF Is(l, "influence") THEN [it EXCEPT !.influences = Append(@, l.key)]
  ELSE it
ParseFlags(s, it) == FoldLeft(FlagOrInfluence, it, s)

Words(s) == [i \in DOMAIN s |-> s[i].words]

-----------------------------------------------------------------------------
(* Modifiers. *)

(* `open' is the modifier the last info line of this section began, if any. *)
ModLine(fallback, acc, l) ==
  LET last == Len(acc.mods)
      opened == acc.mods[acc.open]
      type(t) == IF l.suffix = Absent THEN t ELSE l.suffix
  IN IF Is(l, "info")
     THEN [mods |-> Append(acc.mods, [Mod0 EXCEPT !.type = l.info.type, !.info = l.info]),
           open |-> last + 1]
     ELSE IF Is(l, "reminder")
     THEN IF last = 0 THEN acc ELSE [acc EXCEPT !.mods[last].reminder = Append(@, l.words)]
     ELSE IF acc.open # 0
     THEN [acc EXCEPT !.mods[acc.open] = [opened EXCEPT !.lines = Append(@, l.words),
                                                        !.type = type(@)]]
     ELSE [acc EXCEPT !.mods = Append(@, [Mod0 EXCEPT !.type = type(fallback),
                                                      !.lines = <<l.words>>])]

ParseModSection(s, fallback, it) ==
  LET step(acc, l) == ModLine(fallback, acc, l)
  IN [it EXCEPT !.mods = FoldLeft(step, [mods |-> it.mods, open |-> 0], s).mods]

ParseDestination(s, it) ==
  LET read == ParseModSection(SubSeq(s, 3, Len(s)), "implicit", it)
  IN [read EXCEPT !.areas = Append(@, [area |-> s[1].words, faction |-> s[2].words,
                                       mods |-> (Len(it.mods) + 1)..Len(read.mods)])]

FlavourLast(ss) ==
  IF IsProse(ss[Len(ss)]) /\ ~LooksLikeMods(ss[Len(ss)]) THEN Len(ss) ELSE 0
(* The text that closes a unique or a sanctum, counted from the end.       *)
FlavourAt(ss) ==
  LET skipped(s) == IsFlagSection(s) \/ IsCosmetic(s) \/ IsHelp(s) \/ Labelled(s, "Note")
      rest == {i \in 2..Len(ss) : ~skipped(ss[i])}
      last == CHOOSE i \in rest : \A j \in rest : j <= i
  IN IF rest # {} /\ IsProse(ss[last]) /\ ~LooksLikeMods(ss[last]) THEN last ELSE 0

IsBottomProse(it, s, i, flavourAt) ==
  \/ Is(s[1], "quoted")
  \/ ~IsGear(it)
  \/ IsSanctum(it) /\ i = flavourAt
  \/ ~IsSanctum(it) /\ i = flavourAt /\ it.rarity = "Unique" /\ it.mods # <<>>

ParseProse(s, it) ==
  IF IsGear(it) \/ Is(s[1], "quoted") \/ (it.kind = "MapFragment" /\ it.description # <<>>)
  THEN [it EXCEPT !.flavour = @ \o Words(s)]
  ELSE IF it.description = <<>> THEN [it EXCEPT !.description = Words(s)]
  ELSE [it EXCEPT !.inherent = @ \o Words(s)]

(* An influence line glued to the last block is not part of its last affix. *)
PeelFlags(s, it) ==
  LET body == {n \in 0..Len(s) : \A i \in (n + 1)..Len(s) : IsFlagLine(s[i])}
      n == CHOOSE x \in body : \A y \in body : x <= y
      flagged == ParseFlags(SubSeq(s, n + 1, Len(s)), it)
      fallback == IF IsSanctum(it) THEN "sanctum" ELSE "explicit"
  IN [it |-> ParseModSection(SubSeq(s, 1, n), fallback, flagged),
      any |-> n > 0]

ParseSection(acc, s, i, flavourAt) ==
  LET it == acc.it
      read(x) == [acc EXCEPT !.it = x]
      peeled == PeelFlags(s, it)
  IN IF IsFlagSection(s) THEN read(ParseFlags(s, it))
     ELSE IF Labelled(s, "Requirements") THEN read([it EXCEPT !.req = Words(Tail(s))])
     ELSE IF Labelled(s, "Sockets") THEN read([it EXCEPT !.sockets = s[1].words])
     ELSE IF Labelled(s, "Note") THEN read([it EXCEPT !.note = s[1].words])
     ELSE IF IsCosmetic(s) THEN read([it EXCEPT !.cosmetic = @ \o Words(s)])
     ELSE IF \/ Every(s, IsPropertyLine)
             \/ ~acc.props /\ i = 2 /\ (Some(s, IsPropertyLine) \/ it.kind = "Flask")
     THEN [acc EXCEPT !.it = ParseProperties(s, it), !.props = TRUE]
     ELSE IF it.kind = "ExpeditionLogbook" /\ IsDestination(s) THEN read(ParseDestination(s, it))
     ELSE IF it.rarity = "Gem" /\ it.vaal = Absent /\ Len(s) = 1 /\ Is(s[1], "vaal")
     THEN read([it EXCEPT !.vaal = s[1].words])
     ELSE IF IsHelp(s) /\ IsProse(s) THEN read([it EXCEPT !.help = @ \o Words(s)])
     ELSE IF IsProse(s) /\ ~LooksLikeMods(s) /\ IsBottomProse(it, s, i, flavourAt)
     THEN read(ParseProse(s, it))
     ELSE IF it.rarity = "Gem" THEN read([it EXCEPT !.inherent = @ \o Words(s)])
     ELSE [acc EXCEPT !.it = peeled.it,
                      !.at = IF peeled.any THEN Append(@, Len(it.mods)) ELSE @]

(* A flask's enchantment carries no suffix: the earlier of two such blocks. *)
FlaskEnchants(it, at) ==
  IF it.kind # "Flask" \/ Len(at) <= 1 THEN it
  ELSE [it EXCEPT !.mods = [m \in DOMAIN @ |->
          IF m <= Last(at) /\ @[m].type = "explicit" /\ @[m].info = Absent
          THEN [@[m] EXCEPT !.type = "enchant"] ELSE @[m]]]

Foulborn(it) == \/ it.rarity = "Unique" /\ it.name # <<>> /\ it.name[1] = "Foulborn"
                \/ \E m \in Range(it.mods) : m.info # Absent /\ m.info.foulborn

Elements == <<"fire", "cold", "lightning">>
ElementalKinds(it) ==
  LET adds(e) == \E m \in Range(it.mods) : <<"adds " \o e>> \in Range(m.lines)
      present == SelectSeq(Elements, adds)
      printed == Value(it, "Elemental Damage")
  IN IF printed = Absent THEN <<>>
     ELSE IF Len(present) = printed THEN present ELSE [i \in 1..printed |-> Absent]

LooksLikeItem(lines) == Some(lines, LAMBDA l : Is(l, "class") \/ Is(l, "rarity"))

ParseSections(ss, head) ==
  LET flavourAt == FlavourAt(ss)
      step(acc, i) == IF i = 1 THEN acc ELSE ParseSection(acc, ss[i], i, flavourAt)
  IN FoldLeftDomain(step, [it |-> head, props |-> FALSE, at |-> <<>>], ss)

Parse(lines) ==
  LET ss == SplitSections(lines)
      head == ParseHeader(ss[1])
      read == ParseSections(ss, head)
      it == FlaskEnchants(read.it, read.at)
      known == head.rarity # "Unknown" \/ head.class # Absent
  IN IF ~(LooksLikeItem(lines) /\ ss # <<>> /\ known) THEN Absent
     ELSE [it EXCEPT !.flags = @ \cup IF Foulborn(it) THEN {"foulborn"} ELSE {},
                     !.elemental = ElementalKinds(it)]

-----------------------------------------------------------------------------
(* The bundle: `stats' are records [lines, types, id, local], `bases' a    *)
(* sequence of records for each namespace.                                 *)

FindStat(b, lines, type, local) ==
  LET found == {s \in b.stats : s.lines = lines /\ type \in s.types /\ s.local = local}
  IN IF Cardinality(found) = 1 THEN (CHOOSE s \in found : TRUE).id ELSE Absent

MaxModLines == 8
(* The fewest lines, from this one on, that are a wording the bundle knows. *)
MatchStat(b, lines, at, type) ==
  LET upto(e) == FindStat(b, SubSeq(lines, at, e), type, FALSE)
      ends == {e \in DOMAIN lines : at <= e /\ e - at < MaxModLines /\ upto(e) # Absent}
      e == CHOOSE x \in ends : \A y \in ends : x <= y
  IN IF ends = {} THEN Absent ELSE [id |-> upto(e), consumed |-> e - at + 1, local |-> FALSE]

(* A wording is local where the item shows the property it changes.        *)
LocalNeeds(line) ==
  CASE line = <<"to Accuracy Rating">> -> {"weapon"}
    [] line = <<"to Armour">> -> {"Armour"}
    [] line = <<"increased Armour and Evasion">> -> {"Armour", "Evasion Rating"}
    [] OTHER -> {}

WantsLocal(it, line) ==
  LET has == {k \in {"Armour", "Evasion Rating", "Energy Shield"} : Value(it, k) # Absent}
             \cup IF IsWeapon(it) THEN {"weapon"} ELSE {}
  IN LocalNeeds(line) \cap has # {}

MatchMod(b, it, lines, at, type) ==
  LET local == IF WantsLocal(it, lines[at]) THEN FindStat(b, <<lines[at]>>, type, TRUE) ELSE Absent
  IN IF local # Absent THEN [id |-> local, consumed |-> 1, local |-> TRUE]
     ELSE MatchStat(b, lines, at, type)

Consumed(match) == IF match = Absent THEN 1 ELSE match.consumed

-----------------------------------------------------------------------------
(* Regrouping: one modifier per stat.  `Parts' cuts a run of lines where   *)
(* the matcher says each stat ends.                                        *)

PartAt(b, it, lines, at, type) ==
  LET match == MatchMod(b, it, lines, at, type)
  IN [at |-> at, next |-> Min({at + Consumed(match), Len(lines) + 1}), match |-> match]

Parts(b, it, lines, type) ==
  LET from[at \in 1..(Len(lines) + 1)] ==
        IF at > Len(lines) THEN <<>>
        ELSE LET p == PartAt(b, it, lines, at, type) IN <<p>> \o from[p.next]
  IN from[1]

SplitPlainly(b, it, m) ==
  LET ps == Parts(b, it, m.lines, m.type)
  IN [i \in DOMAIN ps |-> [m EXCEPT !.lines = SubSeq(m.lines, ps[i].at, ps[i].next - 1),
                                    !.match = ps[i].match,
                                    !.reminder = IF ps[i].next > Len(m.lines) THEN @ ELSE <<>>]]
(* The parts of one affix keep what its info line says; the reminder is    *)
(* the last one's.                                                         *)
SplitAffix(b, it, m) ==
  LET part(p) == [m EXCEPT !.continuation = p.at # 1,
                           !.lines = SubSeq(m.lines, p.at, p.next - 1), !.match = p.match,
                           !.reminder = IF p.next > Len(m.lines) THEN @ ELSE <<>>]
      ps == Parts(b, it, m.lines, m.type)
  IN [i \in DOMAIN ps |-> part(ps[i])]

RemindersOf(ms) == FlattenSeq([i \in DOMAIN ms |-> ms[i].reminder])

(* Lines of one type that came one by one are joined where a stat needs    *)
(* several.                                                                *)
ResolveRun(b, it, ms) ==
  LET lines == [i \in DOMAIN ms |-> ms[i].lines[1]]
      ps == Parts(b, it, lines, ms[1].type)
      part(p) == [ms[p.at] EXCEPT !.lines = SubSeq(lines, p.at, p.next - 1), !.match = p.match,
                    !.reminder = RemindersOf(SubSeq(ms, p.at, p.next - 1))]
  IN [i \in DOMAIN ps |-> part(ps[i])]

RunEnd(ms, i) ==
  LET joins(m) == m.info = Absent /\ m.type = ms[i].type /\ Len(m.lines) = 1
      run == {e \in i..Len(ms) : \A k \in i..e : joins(ms[k])}
  IN CHOOSE e \in run : \A f \in run : f <= e

Regroup(b, it) ==
  LET ms == it.mods
      from[i \in 1..(Len(ms) + 1)] ==
        IF i > Len(ms) THEN <<>>
        ELSE IF ms[i].info # Absent THEN SplitAffix(b, it, ms[i]) \o from[i + 1]
        ELSE ResolveRun(b, it, SubSeq(ms, i, RunEnd(ms, i))) \o from[RunEnd(ms, i) + 1]
  IN from[1]

-----------------------------------------------------------------------------
(* Names. *)

FindBases(b, ns, name) == SelectSeq(b.bases[ns], LAMBDA r : r.name = name)
(* The first that fits, or the last there is: same-named records are told  *)
(* apart where the item says enough.                                       *)
Preferring(rs, Fits(_)) ==
  LET fit == {i \in DOMAIN rs : Fits(rs[i])}
  IN IF rs = <<>> THEN Absent
     ELSE IF fit = {} THEN Last(rs) ELSE rs[CHOOSE i \in fit : \A j \in fit : i <= j]

ShortestKnown(b, ns, words, class) ==
  LET spans == {p \in (DOMAIN words) \X (DOMAIN words) : p[1] + p[2] - 1 <= Len(words)}
      says(p) == SubSeq(words, p[1], p[1] + p[2] - 1)
      known == {p \in spans : FindBases(b, ns, says(p)) # <<>>}
      first(P) == CHOOSE p \in P : \A q \in P : p[2] < q[2] \/ (p[2] = q[2] /\ p[1] <= q[1])
  IN IF known = {} THEN <<>> ELSE says(first(known))
(* The longest run of words that names something, of the item's own class  *)
(* first.                                                                  *)
FindKnownName(b, ns, words, class) ==
  LET spans == {p \in (DOMAIN words) \X (DOMAIN words) : p[1] + p[2] - 1 <= Len(words)}
      says(p) == SubSeq(words, p[1], p[1] + p[2] - 1)
      known(C) == {p \in spans : \E r \in Range(FindBases(b, ns, says(p))) : r.category \in C}
      pick(P) == CHOOSE p \in P : \A q \in P : q[2] < p[2] \/ (q[2] = p[2] /\ p[1] <= q[1])
      every == {r.category : r \in Range(b.bases[ns])}
  IN IF class # Absent /\ known({class}) # {} THEN says(pick(known({class})))
     ELSE IF known(every) # {} THEN says(pick(known(every))) ELSE <<>>

GemName(it) ==
  LET printed == IF it.name = <<>> THEN it.base_type ELSE it.name
  IN IF it.vaal = Absent THEN printed
     ELSE IF "transfigured" \in it.flags THEN it.vaal \o <<"of">> \o printed ELSE it.vaal

ResolveGem(b, it) ==
  LET fits == SelectSeq(FindBases(b, "gem", GemName(it)),
                        LAMBDA r : ("transfigured" \in it.flags) = (r.disc # Absent))
  IN [it EXCEPT !.base = IF fits = <<>> THEN Absent ELSE fits[1]]

ByName(b, ns, it) ==
  LET found == FindBases(b, ns, it.base_name)
  IN [it EXCEPT !.base = IF found = <<>> THEN Absent ELSE Last(found)]

UniquesOn(b, base) == {u \in Range(b.bases.unique) : u.unique_base = base}
ResolveUnique(b, it) ==
  LET onBase(u) == u.unique_base = it.base_type
      whole == FindBases(b, "unique", it.name)
      inner == FindBases(b, "unique", FindKnownName(b, "unique", it.name, Absent))
      drops == UniquesOn(b, it.base_type)
  IN IF it.rarity # "Unique" THEN it
     ELSE IF it.name = <<>>
     THEN IF "unidentified" \notin it.flags THEN it
          ELSE [it EXCEPT !.candidates = drops,
                          !.unique = IF Cardinality(drops) = 1 THEN CHOOSE u \in drops : TRUE
                                     ELSE Absent]
     ELSE [it EXCEPT !.unique = Preferring(IF whole # <<>> THEN whole ELSE inner, onBase)]

BaseName(b, it) ==
  LET stripped == IF it.rarity = "Magic" THEN FindKnownName(b, "item", it.base_type, it.class)
                  ELSE <<>>
  IN IF it.flags \cap {"blighted", "ravaged"} # {} /\ FindBases(b, "item", <<"Map">>) # <<>>
     THEN <<"Map">>
     ELSE IF stripped # <<>> THEN stripped ELSE it.base_name

ResolveBase(b, it) ==
  IF it.rarity = "Gem" THEN ResolveGem(b, it)
  ELSE IF it.rarity = "DivinationCard" THEN ByName(b, "card", it)
  ELSE IF IsBeast(it) THEN ByName(b, "beast", it)
  ELSE LET named == [ResolveUnique(b, it) EXCEPT !.base_name = BaseName(b, it)]
       IN [named EXCEPT !.base = Preferring(FindBases(b, "item", named.base_name),
                                            LAMBDA r : r.category = it.class)]

Resolve(b, it) == LET based == ResolveBase(b, it) IN [based EXCEPT !.mods = Regroup(b, based)]

-----------------------------------------------------------------------------
(* The reading of one copied text. *)

ReadInit == /\ text \in Texts
            /\ gd \in Bundles
            /\ item = Absent
            /\ stage = "copied"

ParseItem == /\ stage = "copied"
             /\ item' = Parse(text.lines)
             /\ stage' = IF item' = Absent THEN "refused" ELSE "parsed"
             /\ UNCHANGED <<text, gd>>

ResolveItem == /\ stage = "parsed"
               /\ item' = Resolve(gd, item)
               /\ stage' = "resolved"
               /\ UNCHANGED <<text, gd>>

(* The panel offers the candidates, and the choice can be taken back.      *)
PickUnique(u) == /\ stage = "resolved"
                 /\ Cardinality(item.candidates) > 1
                 /\ item' = [item EXCEPT !.unique = u]
                 /\ UNCHANGED <<text, gd, stage>>

ReadNext == \/ ParseItem
            \/ ResolveItem
            \/ stage = "resolved" /\ \E u \in item.candidates \cup {Absent} : PickUnique(u)

ReadSpec == ReadInit /\ [][ReadNext]_readingVars

-----------------------------------------------------------------------------
(* Resolving goes through the modifiers run by run, and a run is of those  *)
(* of one line: one without an info line that had none, or several, would  *)
(* make a run of nothing, which resolve_item goes on at for ever.          *)
RunsAdvance ==
  stage = "parsed" =>
    \A i \in DOMAIN item.mods : item.mods[i].info = Absent => Len(item.mods[i].lines) = 1

(* Every printed modifier comes back once, in order, under the type and    *)
(* with the reminder it was printed with, and flavour, description, usage  *)
(* note, properties and flags land where they belong: the branches of      *)
(* parse_item only tell these blocks apart by their shape and position.    *)
ReadsAsPrinted ==
  /\ stage = "refused" => text.means = Absent
  /\ stage = "parsed" =>
       /\ text.means # Absent
       /\ [i \in DOMAIN item.mods |->
             [type |-> item.mods[i].type, lines |-> item.mods[i].lines,
              reminder |-> item.mods[i].reminder]] = text.means.mods
       /\ <<item.flavour, item.help, item.description, item.inherent, item.note>>
            = <<text.means.flavour, text.means.help, text.means.description,
                text.means.inherent, text.means.note>>
       /\ {p.key : p \in Range(item.props)} = text.means.keys
       /\ GemLevel(item) = text.means.gemLevel
       /\ <<item.flags, item.influences>> = <<text.means.flags, text.means.influences>>
  /\ RunsAdvance

(* Resolving loses no line, moves none and retypes none, and every affix   *)
(* that was printed still opens exactly once however many stats it became: *)
(* continuation parts are what map affix counts and the card leave out.    *)
LinesOf(ms) == FlattenSeq([i \in DOMAIN ms |->
                 [k \in DOMAIN ms[i].lines |-> <<ms[i].type, ms[i].lines[k]>>]])
OpensOf(ms) == FlattenSeq([i \in DOMAIN ms |->
                 IF ms[i].info # Absent /\ ~ms[i].continuation THEN <<ms[i].info>> ELSE <<>>])
AffixesKept ==
  [][stage = "parsed" /\ stage' = "resolved" =>
       /\ LinesOf(item'.mods) = LinesOf(item.mods)
       /\ RemindersOf(item'.mods) = RemindersOf(item.mods)
       /\ OpensOf(item'.mods) = OpensOf(item.mods)]_readingVars

(* An unidentified unique is only ever one that drops on its base, whoever *)
(* said which: resolving, where there is one, or a choice of the user's    *)
(* that may have been taken back and made again.                           *)
DropsOnItsBase ==
  stage = "resolved" /\ item.name = <<>> /\ item.unique # Absent =>
    item.unique \in Range(gd.bases.unique) /\ item.unique.unique_base = item.base_type

(* The record an item resolves to is the one the game meant: not a base in *)
(* another class, nor a shorter name inside it, nor a gem that shares its  *)
(* printed name; and where it is the user's to say, one that drops there.  *)
NamesTheItem ==
  /\ DropsOnItsBase
  /\ stage = "resolved" =>
       /\ item.base = text.means.base[gd.name]
       /\ item.candidates = {} => item.unique = text.means.unique[gd.name]
=============================================================================
