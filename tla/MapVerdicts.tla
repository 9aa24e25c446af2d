----------------------------- MODULE MapVerdicts -----------------------------
(***************************************************************************)
(* What map check computes: a table of verdicts on affixes, the rows of a  *)
(* map and what they come to, the browsable pool and a search over it.     *)
(* From mapcheck/verdict.cpp, rate.cpp and filter.cpp.                     *)
(*                                                                         *)
(* A wording is what a stat record is identified by; an affix is the set   *)
(* of wordings it grants, and a profile a function from affixes to the     *)
(* verdicts given on them, defined on those that have one.                 *)
(***************************************************************************)
EXTENDS Integers, Sequences, FiniteSets, SequencesExt

CONSTANT None  \* an optional without a value, a bundle that is not there

Unrated == 0
Safe == 1
Dangerous == 2
Deadly == 3
Verdicts == Unrated..Deadly

WorseOf(v, w) == IF v > w THEN v ELSE w
NextVerdict(v) == IF v = Deadly THEN Unrated ELSE v + 1

-----------------------------------------------------------------------------
(* A profile.                                                              *)

AffixKey(refs) == refs \ {""}

(* f, and g where f says nothing: @@ with a definition a proof can expand. *)
Over(f, g) == [x \in DOMAIN f \cup DOMAIN g |-> IF x \in DOMAIN f THEN f[x] ELSE g[x]]

(* The members of s that are in S, in their order.                         *)
Among(s, S) ==
  FoldLeft(LAMBDA kept, x : IF x \in S THEN Append(kept, x) ELSE kept, <<>>, s)

LastOfEqual(best, key, verdict) ==
  IF Cardinality(key) >= best.length THEN [length |-> Cardinality(key), verdict |-> verdict]
  ELSE best

(* One entry of the index met on the way through it: the longest key wins, *)
(* and of two as long the worse verdict.                                   *)
Weighed(best, key, verdict) ==
  IF Cardinality(key) > best.length THEN [length |-> Cardinality(key), verdict |-> verdict]
  ELSE IF Cardinality(key) = best.length
  THEN [best EXCEPT !.verdict = WorseOf(@, verdict)]
  ELSE best

VerdictOf(table, refs) ==
  LET covering == {key \in DOMAIN table : key \subseteq refs}
  IN FoldSet(LAMBDA key, best : Weighed(best, key, table[key]),
             [length |-> 0, verdict |-> Unrated], covering).verdict

Exact(table, refs) ==
  IF AffixKey(refs) \in DOMAIN table THEN table[AffixKey(refs)] ELSE Unrated

Put(table, refs, v) ==
  LET key == AffixKey(refs)
  IN IF key = {} THEN table
     ELSE IF v = Unrated THEN Restrict(table, DOMAIN table \ {key})
     ELSE Over([k \in {key} |-> v], table)

(* A file that breaks off is read as an empty table; an unrated row and a  *)
(* row about nothing are no rows.                                          *)
ToJson(table) ==
  [whole |-> TRUE, rows |-> {[mods |-> key, verdict |-> table[key]] : key \in DOMAIN table}]
Torn == [whole |-> FALSE, rows |-> {}]
FromJson(file) ==
  LET rows == {r \in file.rows : r.verdict # Unrated /\ AffixKey(r.mods) # {}}
  IN [key \in {AffixKey(r.mods) : r \in rows} |->
        (CHOOSE r \in rows : AffixKey(r.mods) = key).verdict]

-----------------------------------------------------------------------------
(* The pool of a bundle: b.pools gives each domain its entries in order,   *)
(* b.flips a wording the one the game prints instead below zero.           *)

Domains == <<"map", "chart", "heist">>

Pool(b, domain) == IF b # None /\ domain \in DOMAIN b.pools THEN b.pools[domain] ELSE <<>>
HasPools(b) == b # None /\ DOMAIN b.pools # {}

PoolKeyRefs(mod) == {mod.stats[i].ref : i \in DOMAIN mod.stats} \ {""}

(* One group for each key, where its first entry stands.                   *)
PoolGroups(b) ==
  LET mods == SelectSeq(FlattenSeq([i \in DOMAIN Domains |-> Pool(b, Domains[i])]),
                        LAMBDA mod : PoolKeyRefs(mod) # {})
      heads == {i \in DOMAIN mods : \A j \in 1..(i - 1) : PoolKeyRefs(mods[j]) # PoolKeyRefs(mods[i])}
      Group(i) == [refs |-> PoolKeyRefs(mods[i]), of |-> b.id,
                   all |-> SelectSeq(mods, LAMBDA mod : PoolKeyRefs(mod) = PoolKeyRefs(mods[i]))]
      inOrder == SetToSortSeq(heads, <)
  IN [n \in DOMAIN inOrder |-> Group(inOrder[n])]

(* The lines an entry can print, at either end of what it rolls, and its   *)
(* name.                                                                   *)
PrintedWording(b, ref, value) ==
  IF value # None /\ value < 0
  THEN [says |-> IF ref \in DOMAIN b.flips THEN b.flips[ref] ELSE ref,
        at |-> IF ref \in DOMAIN b.flips THEN -value ELSE value]
  ELSE [says |-> ref, at |-> value]

MatchableLines(b, mod) ==
  UNION {{PrintedWording(b, s.ref, v) : v \in {s.min, s.max}} : s \in ToSet(mod.stats)}
  \cup {[says |-> name, at |-> None] : name \in {mod.name} \ {""}}

GroupLines(b, group) == UNION {MatchableLines(b, mod) : mod \in ToSet(group.all)}

-----------------------------------------------------------------------------
(* A search: its terms in order.  A term that asks about the item is set   *)
(* aside, and one that does not compile hits nothing.                      *)

SearchFilter(terms) == SelectSeq(terms, LAMBDA t : ~t.aboutItem)

Hits(term, lines) == term.valid /\ \E l \in lines : l.says \in term.says

Matches(filter, lines) == \A i \in DOMAIN filter : Hits(filter[i], lines) # filter[i].negated

Classify(filter, lines) ==
  LET hit == {t \in ToSet(filter) : Hits(t, lines)}
  IN IF \E t \in hit : t.negated THEN "Unwanted"
     ELSE IF hit # {} THEN "Wanted" ELSE "None"

-----------------------------------------------------------------------------
(* The map on screen.                                                      *)

RateableTypes == {"Implicit", "Explicit", "Fractured", "Crafted", "Veiled", "Scourge", "Crucible"}

(* The bundle's answer, and without one the parser's own reading.          *)
MapDomainOf(item, b) ==
  IF b # None /\ item.base \in DOMAIN b.domains THEN b.domains[item.base] ELSE item.kind
IsRateable(item, b) == MapDomainOf(item, b) \in ToSet(Domains)

(* The smallest entry of the pool that covers what was printed, the first  *)
(* of several as small.  An entry has each wording once, so what was       *)
(* printed twice is covered by none (std::includes counts).                *)
PoolRefsFor(printed, domain, b) ==
  LET want == ToSet(printed)
      pool == Pool(b, domain)
      covers == {i \in DOMAIN pool : /\ Len(pool[i].stats) >= Len(printed)
                                     /\ want \subseteq PoolKeyRefs(pool[i])
                                     /\ Cardinality(want) = Len(printed)}
      Size(i) == Cardinality(PoolKeyRefs(pool[i]))
      best == CHOOSE i \in covers :
                \A j \in covers : Size(i) < Size(j) \/ (Size(i) = Size(j) /\ i <= j)
  IN IF printed = <<>> \/ covers = {} THEN want ELSE PoolKeyRefs(pool[best])

(* A continuation joins the row its affix opened.                          *)
Grouped(mods) ==
  FoldLeft(LAMBDA rows, m :
             LET refs == IF m.ref = None THEN <<>> ELSE <<m.ref>>
             IN IF m.type \notin RateableTypes THEN rows
                ELSE IF m.continuation /\ rows # <<>>
                THEN [rows EXCEPT ![Len(rows)] = @ \o refs]
                ELSE Append(rows, refs),
           <<>>, mods)

Row(refs, table) ==
  [refs |-> refs, verdict |-> VerdictOf(table, refs)]

Rate(item, table, b) ==
  LET printed == Grouped(item.mods)
      domain == MapDomainOf(item, b)
  IN [i \in DOMAIN printed |-> Row(PoolRefsFor(printed[i], domain, b), table)]

Rateable(row) == row.refs # {}

Tally(rows) ==
  [v \in Verdicts |-> Cardinality({i \in DOMAIN rows : rows[i].verdict = v})]

Assess(t) ==
  LET n == t[Unrated] + t[Safe] + t[Dangerous] + t[Deadly]
  IN IF n = 0 THEN "NoMods"
     ELSE IF t[Deadly] > 0 THEN "Fatal"
     ELSE IF 2 * t[Safe] > n THEN "Safe"
     ELSE IF 2 * t[Unrated] >= n /\ t[Dangerous] = 0 THEN "Unrated"
     ELSE IF t[Safe] > t[Dangerous] THEN "Likely" ELSE "Careful"

=============================================================================
