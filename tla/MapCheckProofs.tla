--------------------------- MODULE MapCheckProofs ---------------------------
(***************************************************************************)
(* What map check promises, for every set of bundles, maps, names and      *)
(* searches: no verdict is lost between the tables and their files, the    *)
(* rows on screen agree with the tables, Accept writes the list in front   *)
(* of the user, only Save saves the settings, and the next run finds what  *)
(* this one had.                                                           *)
(*                                                                         *)
(* All of it rests on one invariant, Held: every table is a table of       *)
(* verdicts on affixes and is read back from its file as it was; the list  *)
(* of profiles names exactly the tables there are; every row is rated by   *)
(* the table in use; and the list in Settings is of affixes, the proposal  *)
(* on it those the list lights.                                            *)
(***************************************************************************)
EXTENDS MapCheck, FiniteSetTheorems, SequenceTheorems, WellFoundedInduction, TLAPS

-----------------------------------------------------------------------------
(* Tables.  An affix is of finitely many wordings, none of them empty, and *)
(* a table of finitely many affixes.                                       *)

Table(t) == /\ t = [key \in DOMAIN t |-> t[key]] /\ IsFiniteSet(DOMAIN t)
            /\ \A key \in DOMAIN t : IsFiniteSet(key) /\ key # {} /\ "" \notin key
                                     /\ t[key] \in Verdicts \ {Unrated}
File(f) == f = Torn \/ \E t : Table(t) /\ f = ToJson(t)

\* A table comes back from its file as it was.
LEMMA RoundTrip == ASSUME NEW t, Table(t) PROVE FromJson(ToJson(t)) = t
<1> DEFINE all == {[mods |-> key, verdict |-> t[key]] : key \in DOMAIN t}
           rows == {r \in all : r.verdict # Unrated /\ AffixKey(r.mods) # {}}
<1>1. \A key \in DOMAIN t : AffixKey(key) = key
  BY DEF Table, AffixKey
<1>2. \A r \in all : r.mods \in DOMAIN t /\ r.verdict = t[r.mods]
  OBVIOUS
<1>3. \A key \in DOMAIN t : \E r \in all : r.mods = key
  <2>1. ASSUME NEW key \in DOMAIN t PROVE \E r \in all : r.mods = key
    <3>1. [mods |-> key, verdict |-> t[key]] \in all
      OBVIOUS
    <3> QED
      BY <3>1
  <2> QED
    BY <2>1
<1>4. rows \subseteq all /\ \A r \in all : r \in rows <=> r.verdict # Unrated /\ AffixKey(r.mods) # {}
  OBVIOUS
<1>5. FromJson(ToJson(t))
        = [key \in {AffixKey(r.mods) : r \in rows} |-> (CHOOSE r \in rows : AffixKey(r.mods) = key).verdict]
  BY DEF FromJson, ToJson
<1> HIDE DEF all, rows
<1>6. \A r \in all : AffixKey(r.mods) = r.mods /\ r.mods # {} /\ r.verdict # Unrated
  BY <1>1, <1>2 DEF Table
<1>7. rows = all
  BY <1>4, <1>6
<1>8. {AffixKey(r.mods) : r \in rows} = DOMAIN t
  <2>1. ASSUME NEW key \in {AffixKey(r.mods) : r \in rows} PROVE key \in DOMAIN t
    <3>1. PICK r \in rows : key = AffixKey(r.mods)
      BY <2>1
    <3> QED
      BY <3>1, <1>7, <1>6, <1>2
  <2>2. ASSUME NEW key \in DOMAIN t PROVE key \in {AffixKey(r.mods) : r \in rows}
    <3>1. PICK r \in rows : key = AffixKey(r.mods)
      BY <1>7, <1>6, <1>3
    <3> QED
      BY <3>1
  <2> QED
    BY <2>1, <2>2
<1>9. ASSUME NEW key \in DOMAIN t PROVE (CHOOSE r \in rows : AffixKey(r.mods) = key).verdict = t[key]
  <2>1. \E r \in rows : AffixKey(r.mods) = key
    BY <1>7, <1>6, <1>3
  <2>2. \A r \in rows : AffixKey(r.mods) = key => r.verdict = t[key]
    BY <1>7, <1>6, <1>2
  <2> QED
    BY <2>1, <2>2
<1>10. FromJson(ToJson(t)) = [key \in DOMAIN t |-> t[key]]
  BY <1>8, <1>9, <1>5
<1> QED
  BY <1>10 DEF Table

\* Having nothing rated, or no proposal, is having an empty table.
LEMMA EmptyIsTable == Table(NoTable) /\ Table(NoProposal)
<1>1. IsFiniteSet({})
  BY FS_EmptySet
<1> QED
  BY <1>1 DEF Table, NoTable, NoProposal

\* What is read of a file, whole or broken off, is a table.
LEMMA ReadIsTable == ASSUME NEW file, File(file) PROVE Table(FromJson(file))
<1>1. CASE file = Torn
  <2> DEFINE rows == {r \in file.rows : r.verdict # Unrated /\ AffixKey(r.mods) # {}}
  <2>1. rows = {}
    BY <1>1 DEF Torn
  <2>2. FromJson(file) = [key \in {AffixKey(r.mods) : r \in rows} |->
                            (CHOOSE r \in rows : AffixKey(r.mods) = key).verdict]
    BY DEF FromJson
  <2> HIDE DEF rows
  <2>3. DOMAIN FromJson(file) = {} /\ FromJson(file) = [key \in DOMAIN FromJson(file) |-> FromJson(file)[key]]
    BY <2>1, <2>2
  <2> QED
    BY <2>3, FS_EmptySet DEF Table
<1>2. CASE \E t : Table(t) /\ file = ToJson(t)
  BY <1>2, RoundTrip
<1> QED
  BY <1>1, <1>2 DEF File

\* A verdict given or taken away leaves a table (Profile::set).
LEMMA PutIsTable ==
  ASSUME NEW t, Table(t), NEW refs, IsFiniteSet(refs), NEW v \in Verdicts
  PROVE  Table(Put(t, refs, v))
<1> DEFINE key == AffixKey(refs)
<1>1. "" \notin key /\ IsFiniteSet(key)
  BY FS_Subset DEF AffixKey
<1>2. CASE key = {}
  BY <1>2 DEF Put
<1>3. CASE key # {} /\ v = Unrated
  <2>1. Put(t, refs, v) = [k \in DOMAIN t \ {key} |-> t[k]]
    BY <1>3 DEF Put, Restrict
  <2>2. IsFiniteSet(DOMAIN t \ {key})
    BY FS_Subset DEF Table
  <2> QED
    BY <2>1, <2>2 DEF Table
<1>4. CASE key # {} /\ v # Unrated
  <2>1. Put(t, refs, v) = Over([k \in {key} |-> v], t)
    BY <1>4 DEF Put
  <2>2. IsFiniteSet({key} \cup DOMAIN t)
    <3>1. IsFiniteSet({key}) /\ IsFiniteSet(DOMAIN t)
      BY FS_Singleton DEF Table
    <3> QED
      BY <3>1, FS_Union
  <2> HIDE DEF key
  <2> QED
    BY <1>1, <1>4, <2>1, <2>2 DEF Table, Over
<1> QED
  BY <1>2, <1>3, <1>4

\* Verdicts laid over a table make a table.
LEMMA OverIsTable == ASSUME NEW t, NEW u, Table(t), Table(u) PROVE Table(Over(t, u))
<1>1. PICK w : w = Over(t, u)
  OBVIOUS
<1>2. w = [k \in DOMAIN t \cup DOMAIN u |-> IF k \in DOMAIN t THEN t[k] ELSE u[k]]
  BY <1>1 DEF Over
<1>3. ASSUME NEW k \in DOMAIN w
      PROVE  IsFiniteSet(k) /\ k # {} /\ "" \notin k /\ w[k] \in Verdicts \ {Unrated}
  BY <1>2, <1>3 DEF Table
<1>4. IsFiniteSet(DOMAIN t \cup DOMAIN u)
  BY FS_Union DEF Table
<1> QED
  BY <1>1, <1>2, <1>3, <1>4 DEF Table

\* A set of naturals that is not empty has a least member.
LEMMA LeastMember == ASSUME NEW T, T \subseteq Nat, T # {} PROVE \E n \in T : \A m \in T : n <= m
<1> DEFINE R == OpToRel(<, Nat)
<1>1. IsWellFoundedOn(R, Nat)
  BY NatLessThanWellFounded
<1>2. \A a, b \in Nat : a < b => <<a, b>> \in R
  BY DEF OpToRel
<1> HIDE DEF R
<1>3. PICK n \in T : \A m \in T : ~ (<<m, n>> \in R)
  BY <1>1, WFMin
<1>4. ASSUME NEW m \in T PROVE n <= m
  <2>1. m \in Nat /\ n \in Nat
    OBVIOUS
  <2>2. ~(m < n)
    BY <1>2, <1>3, <2>1
  <2> QED
    BY <2>1, <2>2
<1> QED
  BY <1>4

-----------------------------------------------------------------------------
(* What weighing the entries of the index one after another comes to.      *)

NothingYet == [length |-> 0, verdict |-> Unrated]
\* One call of the fold of VerdictOf.
WeighsOne(f, s, t) ==
  IF s = {} THEN NothingYet
  ELSE Weighed(f[s \ {CHOOSE x \in s : TRUE}], CHOOSE x \in s : TRUE, t[CHOOSE x \in s : TRUE])
\* f is that fold on the sets of up to n keys.
Weighs(f, S, n, t) ==
  \A s \in SUBSET S : Cardinality(s) <= n => f[s] = WeighsOne(f, s, t)

LEMMA FewerLeft ==
  ASSUME NEW S, IsFiniteSet(S), NEW s \in SUBSET S, s # {}
  PROVE  /\ s \ {CHOOSE x \in s : TRUE} \in SUBSET S
         /\ Cardinality(s) \in Nat /\ Cardinality(s) # 0
         /\ Cardinality(s \ {CHOOSE x \in s : TRUE}) = Cardinality(s) - 1
<1>1. IsFiniteSet(s)
  BY FS_Subset
<1>2. PICK x : x = (CHOOSE y \in s : TRUE) /\ x \in s
  OBVIOUS
<1>3. Cardinality(s) \in Nat
  BY <1>1, FS_CardinalityType
<1>4. Cardinality(s) # 0
  BY <1>1, FS_EmptySet
<1>5. Cardinality(s \ {x}) = Cardinality(s) - 1
  BY <1>1, <1>2, FS_RemoveElement
<1> QED
  BY <1>2, <1>3, <1>4, <1>5

\* The fold exists: what it is on n keys is given by what it is on fewer.
LEMMA WeighingExists ==
  ASSUME NEW S, IsFiniteSet(S), NEW t, NEW n \in Nat
  PROVE  \E f : Weighs(f, S, n, t)
<1> DEFINE T == {m \in Nat : ~ \E f : Weighs(f, S, m, t)}
<1>1. SUFFICES ASSUME T # {} PROVE FALSE
  OBVIOUS
<1>2. PICK m \in T : \A k \in T : m <= k
  BY <1>1, LeastMember
<1>3. CASE m = 0
  <2> DEFINE f == [s \in SUBSET S |-> NothingYet]
  <2>1. ASSUME NEW s \in SUBSET S, Cardinality(s) <= 0 PROVE f[s] = WeighsOne(f, s, t)
    <3>1. s = {}
      <4>1. s # {} => Cardinality(s) \in Nat /\ Cardinality(s) # 0
        BY FewerLeft
      <4> QED
        BY <2>1, <4>1
    <3> QED
      BY <3>1 DEF WeighsOne
  <2>2. Weighs(f, S, 0, t)
    BY <2>1 DEF Weighs
  <2> QED
    BY <1>3, <2>2
<1>4. CASE m # 0
  <2>1. m - 1 \in Nat /\ m - 1 \notin T
    BY <1>2, <1>4
  <2>2. PICK g : Weighs(g, S, m - 1, t)
    BY <2>1
  <2> DEFINE f == [s \in SUBSET S |-> IF Cardinality(s) <= m - 1 THEN g[s] ELSE WeighsOne(g, s, t)]
  <2>3. ASSUME NEW s \in SUBSET S, Cardinality(s) <= m PROVE f[s] = WeighsOne(f, s, t)
    <3>1. f[s] = WeighsOne(g, s, t)
      BY <2>2 DEF Weighs
    <3>2. CASE s = {}
      BY <3>1, <3>2 DEF WeighsOne
    <3>3. CASE s # {}
      <4>1. PICK r : r = s \ {CHOOSE x \in s : TRUE}
        OBVIOUS
      <4>2. r \in SUBSET S /\ Cardinality(r) <= m - 1
        BY <2>3, <3>3, <4>1, FewerLeft
      <4>3. f[r] = g[r]
        BY <4>2
      <4> HIDE DEF f
      <4> QED
        BY <3>1, <3>3, <4>1, <4>3 DEF WeighsOne
    <3> QED
      BY <3>2, <3>3
  <2> HIDE DEF f
  <2>4. Weighs(f, S, m, t)
    BY <2>3 DEF Weighs
  <2> QED
    BY <2>4
<1> QED
  BY <1>3, <1>4

\* The longest of the keys so far, and of those as long the worst verdict.
Heaviest(b, s, t) ==
  /\ b = [length |-> b.length, verdict |-> b.verdict]
  /\ s = {} => b = NothingYet
  /\ s # {} => \E key \in s :
       /\ b.length = Cardinality(key) /\ b.verdict = t[key]
       /\ \A other \in s : /\ Cardinality(other) <= b.length
                           /\ Cardinality(other) = b.length => t[other] <= b.verdict

LEMMA WeighedIsHeaviest ==
  ASSUME NEW t, Table(t), NEW s \in SUBSET DOMAIN t, NEW x \in s,
         NEW b, Heaviest(b, s \ {x}, t)
  PROVE  Heaviest(Weighed(b, x, t[x]), s, t)
<1>1. ASSUME NEW key \in s
      PROVE  Cardinality(key) \in Nat /\ Cardinality(key) # 0 /\ t[key] \in Int
  <2>1. IsFiniteSet(key) /\ key # {} /\ t[key] \in Verdicts
    BY DEF Table
  <2>2. t[key] \in Int
    BY <2>1 DEF Verdicts, Unrated, Deadly
  <2> QED
    BY <2>1, <2>2, FS_CardinalityType, FS_EmptySet
<1>2. PICK c \in Nat, v \in Int : c = Cardinality(x) /\ v = t[x]
  BY <1>1
<1>3. PICK l, w : b = [length |-> l, verdict |-> w]
  BY DEF Heaviest
<1>4. Weighed(b, x, t[x]) = IF c > l THEN [length |-> c, verdict |-> v]
                            ELSE IF c = l THEN [length |-> l, verdict |-> WorseOf(w, v)]
                            ELSE b
  BY <1>2, <1>3 DEF Weighed
<1>5. CASE s \ {x} = {}
  <2>1. l = 0 /\ s = {x}
    BY <1>3, <1>5 DEF Heaviest, NothingYet
  <2>2. Weighed(b, x, t[x]) = [length |-> c, verdict |-> v]
    BY <1>1, <1>2, <1>4, <2>1
  <2> QED
    BY <1>2, <2>1, <2>2 DEF Heaviest
<1>6. CASE s \ {x} # {}
  <2>1. PICK key \in s \ {x} :
          /\ l = Cardinality(key) /\ w = t[key]
          /\ \A other \in s \ {x} : /\ Cardinality(other) <= l
                                    /\ Cardinality(other) = l => t[other] <= w
    BY <1>3, <1>6 DEF Heaviest
  <2>2. l \in Nat /\ w \in Int
    BY <1>1, <2>1
  <2>3. ASSUME NEW top \in s, NEW a \in Nat, NEW u \in Int,
               Weighed(b, x, t[x]) = [length |-> a, verdict |-> u],
               a = Cardinality(top), u = t[top], l <= a, l = a => w <= u,
               c <= a, c = a => v <= u
        PROVE  Heaviest(Weighed(b, x, t[x]), s, t)
    <3>1. ASSUME NEW other \in s
          PROVE  Cardinality(other) <= a /\ (Cardinality(other) = a => t[other] <= u)
      <4>1. CASE other = x
        BY <1>2, <2>3, <4>1
      <4>2. CASE other # x
        <5>1. /\ Cardinality(other) \in Nat /\ t[other] \in Int /\ Cardinality(other) <= l
              /\ Cardinality(other) = l => t[other] <= w
          BY <1>1, <2>1, <4>2
        <5> QED
          BY <2>2, <2>3, <5>1
      <4> QED
        BY <4>1, <4>2
    <3> QED
      BY <2>3, <3>1 DEF Heaviest
  <2>4. CASE c > l
    BY <1>2, <1>4, <2>2, <2>3, <2>4
  <2>5. CASE c = l /\ w > v
    BY <1>2, <1>4, <2>1, <2>2, <2>3, <2>5 DEF WorseOf
  <2>6. CASE c = l /\ ~(w > v)
    <3>1. WorseOf(w, v) = v /\ w <= v
      BY <2>2, <2>6 DEF WorseOf
    <3>2. Weighed(b, x, t[x]) = [length |-> c, verdict |-> v]
      BY <1>4, <2>6, <3>1
    <3>3. l <= c /\ c <= c /\ v <= v
      BY <2>2, <2>6
    <3> QED
      BY ONLY <1>2, <2>3, <3>1, <3>2, <3>3
  <2>7. CASE c < l
    BY <1>2, <1>3, <1>4, <2>1, <2>2, <2>3, <2>7
  <2> QED
    BY <1>2, <2>2, <2>4, <2>5, <2>6, <2>7
<1> QED
  BY <1>5, <1>6

\* The fold comes to the heaviest, however many keys there are.
LEMMA FoldIsHeaviest ==
  ASSUME NEW t, Table(t), NEW S \in SUBSET DOMAIN t, NEW f, Weighs(f, S, Cardinality(S), t)
  PROVE  Heaviest(f[S], S, t)
<1> DEFINE T == {m \in Nat : \E s \in SUBSET S : Cardinality(s) = m /\ ~Heaviest(f[s], s, t)}
<1>0. IsFiniteSet(S) /\ Cardinality(S) \in Nat
  BY FS_Subset, FS_CardinalityType DEF Table
<1>1. SUFFICES ASSUME T # {} PROVE FALSE
  BY <1>0
<1>2. PICK m \in T : \A k \in T : m <= k
  BY <1>1, LeastMember
<1>3. PICK s \in SUBSET S : Cardinality(s) = m /\ ~Heaviest(f[s], s, t)
  OBVIOUS
<1>4. Cardinality(s) <= Cardinality(S)
  BY <1>0, FS_Subset
<1>5. f[s] = WeighsOne(f, s, t)
  BY <1>4 DEF Weighs
<1>6. s # {}
  BY <1>3, <1>5 DEF WeighsOne, Heaviest, NothingYet
<1>7. PICK x : x = (CHOOSE y \in s : TRUE) /\ x \in s
  BY <1>6
<1>8. s \ {x} \in SUBSET S /\ Cardinality(s \ {x}) = m - 1 /\ m - 1 \in Nat
  BY <1>0, <1>3, <1>6, <1>7, FewerLeft
<1>9. Heaviest(f[s \ {x}], s \ {x}, t)
  BY <1>2, <1>8
<1>10. f[s] = Weighed(f[s \ {x}], x, t[x])
  BY <1>5, <1>6, <1>7 DEF WeighsOne
<1>11. s \in SUBSET DOMAIN t /\ x \in s
  BY <1>7
<1>12. Heaviest(Weighed(f[s \ {x}], x, t[x]), s, t)
  BY <1>9, <1>11, WeighedIsHeaviest
<1> QED
  BY <1>3, <1>10, <1>12

Covering(t, refs) == {key \in DOMAIN t : key \subseteq refs}

\* Profile::verdict_of, as a fold over the index, is the heaviest of what covers.
LEMMA VerdictIsHeaviest ==
  ASSUME NEW t, Table(t), NEW refs
  PROVE  \E b : Heaviest(b, Covering(t, refs), t) /\ VerdictOf(t, refs) = b.verdict
<1> DEFINE S == Covering(t, refs)
           Is(f) == f = [s \in SUBSET S |->
                           IF s = {} THEN NothingYet
                           ELSE LET x == CHOOSE x \in s : TRUE
                                IN Weighed(f[s \ {x}], x, t[x])]
<1>1. S \in SUBSET DOMAIN t /\ IsFiniteSet(S)
  BY FS_Subset DEF Table, Covering
<1>2. Cardinality(S) \in Nat
  BY <1>1, FS_CardinalityType
<1>3. PICK g : Weighs(g, S, Cardinality(S), t)
  BY <1>1, <1>2, WeighingExists
<1>4. \A s \in SUBSET S : Cardinality(s) <= Cardinality(S)
  BY <1>1, FS_Subset
<1> HIDE DEF S
<1> DEFINE f0 == [s \in SUBSET S |-> g[s]]
<1>5. Is(f0)
  <2>1. ASSUME NEW s \in SUBSET S PROVE f0[s] = WeighsOne(f0, s, t)
    <3>1. f0[s] = WeighsOne(g, s, t)
      BY <1>3, <1>4 DEF Weighs
    <3>2. f0[s \ {CHOOSE x \in s : TRUE}] = g[s \ {CHOOSE x \in s : TRUE}]
      OBVIOUS
    <3> HIDE DEF f0
    <3> QED
      BY <3>1, <3>2 DEF WeighsOne
  <2> DEFINE f1 == [s \in SUBSET S |-> WeighsOne(f0, s, t)]
  <2>2. f0 = f1
    <3>1. DOMAIN f0 = SUBSET S /\ f0 = [s \in SUBSET S |-> f0[s]]
      OBVIOUS
    <3> HIDE DEF f0
    <3> QED
      BY <2>1, <3>1
  <2> HIDE DEF f0
  <2> QED
    BY <2>2 DEF WeighsOne
<1> DEFINE f == CHOOSE f : Is(f)
<1>6. Is(f)
  <2> HIDE DEF Is
  <2> QED
    BY <1>5
<1>7. VerdictOf(t, refs) = f[S].verdict
  BY DEF VerdictOf, FoldSet, MapThenFoldSet, NothingYet, S, Covering
<1> HIDE DEF f
<1>8. \A s \in SUBSET S : f[s] = WeighsOne(f, s, t)
  BY <1>6 DEF WeighsOne
<1>9. Weighs(f, S, Cardinality(S), t)
  BY <1>8 DEF Weighs
<1>10. Heaviest(f[S], S, t)
  BY <1>1, <1>9, FoldIsHeaviest
<1> QED
  BY <1>7, <1>10 DEF S

Closest(t, refs) ==
  {key \in Covering(t, refs) : \A other \in Covering(t, refs) : Cardinality(other) <= Cardinality(key)}
Says(t, refs) == IF refs \in DOMAIN t THEN t[refs]
                 ELSE Max({Unrated} \cup {t[key] : key \in Closest(t, refs)})

\* The rule of verdict.hpp, which the index is walked to apply.
LEMMA VerdictSays ==
  ASSUME NEW t, Table(t), NEW refs, IsFiniteSet(refs)
  PROVE  VerdictOf(t, refs) = Says(t, refs) /\ VerdictOf(t, refs) \in Verdicts
<1> DEFINE C == Covering(t, refs)
<1>1. PICK b : Heaviest(b, C, t) /\ VerdictOf(t, refs) = b.verdict
  BY VerdictIsHeaviest
<1>2. ASSUME NEW key \in C
      PROVE  Cardinality(key) \in Nat /\ t[key] \in Verdicts /\ t[key] \in Int /\ key \subseteq refs
             /\ t[key] > Unrated
  <2>1. key \in DOMAIN t /\ key \subseteq refs
    BY DEF Covering
  <2>2. IsFiniteSet(key) /\ t[key] \in Verdicts \ {Unrated}
    BY <2>1 DEF Table
  <2> QED
    BY <2>1, <2>2, FS_CardinalityType DEF Verdicts, Unrated, Deadly
<1> HIDE DEF C
<1>3. CASE C = {}
  <2>1. VerdictOf(t, refs) = Unrated
    BY <1>1, <1>3 DEF Heaviest, NothingYet
  <2>2. refs \notin DOMAIN t
    BY <1>3 DEF C, Covering
  <2>3. Closest(t, refs) = {}
    BY <1>3 DEF Closest, C
  <2>4. {Unrated} \cup {t[key] : key \in Closest(t, refs)} = {Unrated}
    BY <2>3
  <2>5. Max({Unrated}) = Unrated
    BY DEF Max, Unrated
  <2> QED
    BY <2>1, <2>2, <2>4, <2>5 DEF Says, Verdicts, Unrated, Deadly
<1>4. CASE C # {}
  <2>1. PICK key \in C :
          /\ b.length = Cardinality(key) /\ b.verdict = t[key]
          /\ \A other \in C : /\ Cardinality(other) <= b.length
                              /\ Cardinality(other) = b.length => t[other] <= b.verdict
    BY <1>1, <1>4 DEF Heaviest
  <2>2. VerdictOf(t, refs) = t[key] /\ t[key] \in Verdicts
    BY <1>1, <1>2, <2>1
  <2>3. CASE refs \in DOMAIN t
    <3>1. refs \in C
      BY <2>3 DEF C, Covering
    <3>2. Cardinality(refs) <= Cardinality(key) /\ key \in SUBSET refs
      BY <1>2, <2>1, <3>1
    <3>3. Cardinality(key) <= Cardinality(refs) /\ (Cardinality(refs) = Cardinality(key) => refs = key)
      BY <3>2, FS_Subset
    <3>4. refs = key
      BY <1>2, <3>1, <3>2, <3>3
    <3> QED
      BY <2>2, <2>3, <3>4 DEF Says
  <2>4. CASE refs \notin DOMAIN t
    <3> DEFINE V == {Unrated} \cup {t[k] : k \in Closest(t, refs)}
    <3>1. key \in Closest(t, refs)
      BY <2>1 DEF Closest, C
    <3>2. \A k \in Closest(t, refs) : k \in C /\ Cardinality(k) = Cardinality(key)
      <4>1. ASSUME NEW k \in Closest(t, refs) PROVE k \in C /\ Cardinality(k) = Cardinality(key)
        <5>1. k \in C /\ Cardinality(key) <= Cardinality(k) /\ Cardinality(k) <= Cardinality(key)
          BY <2>1, <3>1 DEF Closest, C
        <5> QED
          BY <1>2, <2>1, <5>1
      <4> QED
        BY <4>1
    <3>3. \A v \in V : v \in Int /\ t[key] >= v
      <4>1. \A k \in Closest(t, refs) : t[k] \in Int /\ t[key] >= t[k]
        BY <1>2, <2>1, <3>2
      <4>2. Unrated \in Int /\ t[key] >= Unrated
        BY <1>2, <2>1 DEF Unrated
      <4> QED
        BY <4>1, <4>2
    <3>4. t[key] \in V
      BY <3>1
    <3> HIDE DEF V
    <3>5. Max(V) \in V /\ \A v \in V : Max(V) >= v
      BY <3>3, <3>4 DEF Max
    <3>6. Max(V) = t[key]
      BY <3>3, <3>4, <3>5
    <3> QED
      BY <2>2, <2>4, <3>6 DEF Says, V
  <2> QED
    BY <2>2, <2>3, <2>4
<1> QED
  BY <1>3, <1>4

-----------------------------------------------------------------------------
(* What is left of a sequence by Among.                                    *)

\* Of finitely many positions one is the last.
LEMMA LastPosition ==
  ASSUME NEW n \in Nat, NEW u \in SUBSET (1..n), u # {}
  PROVE  Max(u) \in u /\ \A i \in u : Max(u) >= i
<1> DEFINE T == {n - i : i \in u}
<1>1. T \subseteq Nat /\ T # {}
  <2>1. \A i \in u : n - i \in Nat
    OBVIOUS
  <2> QED
    BY <2>1
<1>2. PICK k \in T : \A m \in T : k <= m
  BY <1>1, LeastMember
<1>3. PICK i \in u : k = n - i
  OBVIOUS
<1>4. ASSUME NEW j \in u PROVE i >= j
  <2>1. n - j \in T /\ i \in Int /\ j \in Int
    OBVIOUS
  <2>2. n - i <= n - j
    BY <1>2, <1>3, <2>1
  <2> QED
    BY <2>1, <2>2
<1>5. \E x \in u : \A y \in u : x >= y
  BY <1>4
<1> QED
  BY <1>5 DEF Max

KeepsOne(f, u, s, S) ==
  IF u = {} THEN <<>>
  ELSE IF s[Max(u)] \in S THEN Append(f[u \ {Max(u)}], s[Max(u)]) ELSE f[u \ {Max(u)}]
\* f is the fold of Among on the sets of up to n positions.
Keeps(f, s, n, S) ==
  \A u \in SUBSET (1..Len(s)) : Cardinality(u) <= n => f[u] = KeepsOne(f, u, s, S)

LEMMA FewerPositions ==
  ASSUME NEW n \in Nat, NEW u \in SUBSET (1..n), u # {}
  PROVE  /\ u \ {Max(u)} \in SUBSET (1..n)
         /\ Cardinality(u) \in Nat /\ Cardinality(u) # 0
         /\ Cardinality(u \ {Max(u)}) = Cardinality(u) - 1
<1>1. IsFiniteSet(u)
  <2>1. IsFiniteSet(1..n)
    BY FS_Interval
  <2> QED
    BY <2>1, FS_Subset
<1>2. PICK x \in u : x = Max(u)
  BY LastPosition
<1>3. Cardinality(u) \in Nat
  BY <1>1, FS_CardinalityType
<1>4. Cardinality(u) # 0
  BY <1>1, FS_EmptySet
<1>5. Cardinality(u \ {x}) = Cardinality(u) - 1
  BY <1>1, <1>2, FS_RemoveElement
<1> QED
  BY <1>2, <1>3, <1>4, <1>5

LEMMA KeepingExists ==
  ASSUME NEW X, NEW s \in Seq(X), NEW S, NEW n \in Nat
  PROVE  \E f : Keeps(f, s, n, S)
<1> DEFINE T == {m \in Nat : ~ \E f : Keeps(f, s, m, S)}
           P == 1..Len(s)
<1>0. Len(s) \in Nat
  OBVIOUS
<1>1. SUFFICES ASSUME T # {} PROVE FALSE
  OBVIOUS
<1>2. PICK m \in T : \A k \in T : m <= k
  BY <1>1, LeastMember
<1>3. CASE m = 0
  <2> DEFINE f == [u \in SUBSET P |-> <<>>]
  <2>1. ASSUME NEW u \in SUBSET P, Cardinality(u) <= 0 PROVE f[u] = KeepsOne(f, u, s, S)
    <3>1. u # {} => Cardinality(u) \in Nat /\ Cardinality(u) # 0
      BY <1>0, FewerPositions
    <3>2. u = {}
      BY <2>1, <3>1
    <3> QED
      BY <3>2 DEF KeepsOne
  <2>2. Keeps(f, s, 0, S)
    BY <2>1 DEF Keeps
  <2> QED
    BY <1>3, <2>2
<1>4. CASE m # 0
  <2>1. m - 1 \in Nat /\ m - 1 \notin T
    BY <1>2, <1>4
  <2>2. PICK g : Keeps(g, s, m - 1, S)
    BY <2>1
  <2> DEFINE f == [u \in SUBSET P |-> IF Cardinality(u) <= m - 1 THEN g[u] ELSE KeepsOne(g, u, s, S)]
  <2>3. ASSUME NEW u \in SUBSET P, Cardinality(u) <= m PROVE f[u] = KeepsOne(f, u, s, S)
    <3>1. f[u] = KeepsOne(g, u, s, S)
      BY <2>2 DEF Keeps
    <3>2. CASE u = {}
      BY <3>1, <3>2 DEF KeepsOne
    <3>3. CASE u # {}
      <4>1. PICK r : r = u \ {Max(u)}
        OBVIOUS
      <4>2. r \in SUBSET P /\ Cardinality(r) <= m - 1
        BY <1>0, <2>3, <3>3, <4>1, FewerPositions
      <4>3. f[r] = g[r]
        BY <4>2
      <4> HIDE DEF f
      <4> QED
        BY <3>1, <3>3, <4>1, <4>3 DEF KeepsOne
    <3> QED
      BY <3>2, <3>3
  <2> HIDE DEF f
  <2>4. Keeps(f, s, m, S)
    BY <2>3 DEF Keeps
  <2> QED
    BY <2>4
<1> QED
  BY <1>3, <1>4

\* r is what is left of the first k members of s: those in S, in their order.
KeptOf(r, s, k, S, X) ==
  /\ r \in Seq(X)
  /\ \A x : (\E i \in 1..Len(r) : r[i] = x) <=> (x \in S /\ \E i \in 1..k : s[i] = x)
  /\ (\A i, j \in 1..k : s[i] = s[j] => i = j)
       => \A i, j \in 1..Len(r) : r[i] = r[j] => i = j
  /\ (\A i \in 1..k : s[i] \in S) => r = SubSeq(s, 1, k)

LEMMA KeptMore ==
  ASSUME NEW X, NEW s \in Seq(X), NEW S, NEW k \in 1..Len(s), NEW r, KeptOf(r, s, k - 1, S, X)
  PROVE  KeptOf(IF s[k] \in S THEN Append(r, s[k]) ELSE r, s, k, S, X)
<1>1. s[k] \in X /\ r \in Seq(X) /\ Len(s) \in Nat /\ Len(r) \in Nat
  BY DEF KeptOf
<1>2. \A i \in 1..k : i = k \/ i \in 1..(k - 1)
  OBVIOUS
<1>3. CASE s[k] \notin S
  <2>1. \A x : (\E i \in 1..Len(r) : r[i] = x) <=> (x \in S /\ \E i \in 1..k : s[i] = x)
    BY <1>2, <1>3 DEF KeptOf
  <2> QED
    BY <1>1, <1>3, <2>1 DEF KeptOf
<1>4. CASE s[k] \in S
  <2>1. PICK q : q = Append(r, s[k])
    OBVIOUS
  <2>2. /\ q \in Seq(X) /\ Len(q) = Len(r) + 1 /\ q[Len(r) + 1] = s[k]
        /\ \A i \in 1..Len(r) : q[i] = r[i]
    BY <1>1, <2>1
  <2>3. \A i \in 1..Len(q) : i = Len(r) + 1 \/ i \in 1..Len(r)
    BY <1>1, <2>2
  <2>4. ASSUME NEW x
        PROVE  (\E i \in 1..Len(q) : q[i] = x) <=> (x \in S /\ \E i \in 1..k : s[i] = x)
    <3>1. (\E i \in 1..Len(q) : q[i] = x) <=> (x = s[k] \/ \E i \in 1..Len(r) : r[i] = x)
      BY <1>1, <2>2, <2>3
    <3>2. (\E i \in 1..k : s[i] = x) <=> (x = s[k] \/ \E i \in 1..(k - 1) : s[i] = x)
      BY <1>2
    <3>3. (\E i \in 1..Len(r) : r[i] = x) <=> (x \in S /\ \E i \in 1..(k - 1) : s[i] = x)
      BY DEF KeptOf
    <3> QED
      BY <1>4, <3>1, <3>2, <3>3
  <2>5. ASSUME \A i, j \in 1..k : s[i] = s[j] => i = j, NEW i \in 1..Len(q), NEW j \in 1..Len(q),
               q[i] = q[j]
        PROVE  i = j
    <3>1. ASSUME NEW a \in 1..Len(r), r[a] = s[k] PROVE FALSE
      <4>1. PICK b \in 1..(k - 1) : s[b] = s[k]
        BY <3>1 DEF KeptOf
      <4> QED
        BY <2>5, <4>1
    <3>2. \A a, b \in 1..Len(r) : r[a] = r[b] => a = b
      BY <2>5 DEF KeptOf
    <3> QED
      BY <2>2, <2>3, <2>5, <3>1, <3>2
  <2>6. ASSUME \A i \in 1..k : s[i] \in S PROVE q = SubSeq(s, 1, k)
    <3>1. r = SubSeq(s, 1, k - 1)
      BY <2>6 DEF KeptOf
    <3>2. Len(r) = k - 1 /\ \A i \in 1..(k - 1) : r[i] = s[i]
      BY <3>1
    <3>3. Len(q) = k /\ \A i \in 1..k : q[i] = s[i]
      BY <2>2, <3>2
    <3> QED
      BY <2>2, <3>3
  <2>7. KeptOf(q, s, k, S, X)
    BY <2>2, <2>4, <2>5, <2>6 DEF KeptOf
  <2> QED
    BY <1>4, <2>1, <2>7
<1> QED
  BY <1>3, <1>4

LEMMA NothingKept == ASSUME NEW X, NEW s \in Seq(X), NEW S PROVE KeptOf(<<>>, s, 0, S, X)
<1>1. SubSeq(s, 1, 0) = <<>>
  OBVIOUS
<1> QED
  BY <1>1 DEF KeptOf

LEMMA PrefixesKept ==
  ASSUME NEW X, NEW s \in Seq(X), NEW S, NEW f, Keeps(f, s, Len(s), S)
  PROVE  KeptOf(f[1..Len(s)], s, Len(s), S, X)
<1> DEFINE T == {m \in Nat : m <= Len(s) /\ ~KeptOf(f[1..m], s, m, S, X)}
<1>0. Len(s) \in Nat
  OBVIOUS
<1>1. SUFFICES ASSUME T # {} PROVE FALSE
  BY <1>0
<1>2. PICK m \in T : \A k \in T : m <= k
  BY <1>1, LeastMember
<1>3. 1..m \in SUBSET (1..Len(s)) /\ m \in Nat /\ m <= Len(s)
  BY <1>0
<1>4. Cardinality(1..m) <= Len(s)
  BY <1>3, FS_Interval
<1>5. f[1..m] = KeepsOne(f, 1..m, s, S)
  BY <1>3, <1>4 DEF Keeps
<1>6. CASE m = 0
  <2>1. f[1..m] = <<>>
    BY <1>5, <1>6 DEF KeepsOne
  <2> QED
    BY <1>6, <2>1, NothingKept
<1>7. CASE m # 0
  <2>1. 1..m # {} /\ m \in 1..m
    <3>1. m \in 1..m
      BY <1>3, <1>7
    <3> QED
      BY <3>1
  <2>2. Max(1..m) = m
    <3>1. Max(1..m) \in 1..m /\ Max(1..m) >= m
      BY <1>3, <2>1, LastPosition
    <3> QED
      BY <1>3, <3>1
  <2>3. (1..m) \ {m} = 1..(m - 1)
    BY <1>3
  <2>4. m - 1 \in Nat /\ m - 1 <= Len(s) /\ m - 1 \notin T
    BY <1>2, <1>3, <1>7, <1>0
  <2>5. KeptOf(f[1..(m - 1)], s, m - 1, S, X)
    BY <2>4
  <2>6. f[1..m] = IF s[m] \in S THEN Append(f[1..(m - 1)], s[m]) ELSE f[1..(m - 1)]
    BY <1>5, <2>1, <2>2, <2>3 DEF KeepsOne
  <2>7. m \in 1..Len(s)
    BY <1>3, <1>7, <1>0
  <2>8. KeptOf(f[1..m], s, m, S, X)
    BY <2>5, <2>6, <2>7, KeptMore
  <2> QED
    BY <2>8
<1> QED
  BY <1>6, <1>7

\* What Among makes of a sequence.
LEMMA AmongIs ==
  ASSUME NEW X, NEW s \in Seq(X), NEW S
  PROVE  KeptOf(Among(s, S), s, Len(s), S, X)
<1> DEFINE D == DOMAIN s
           Is(f) == f = [u \in SUBSET D |->
                           IF u = {} THEN <<>>
                           ELSE LET x == Max(u)
                                IN IF s[x] \in S THEN Append(f[u \ {x}], s[x]) ELSE f[u \ {x}]]
<1>1. D = 1..Len(s) /\ Len(s) \in Nat
  OBVIOUS
<1>2. PICK g : Keeps(g, s, Len(s), S)
  BY <1>1, KeepingExists
<1>3. \A u \in SUBSET (1..Len(s)) : Cardinality(u) <= Len(s)
  <2>1. IsFiniteSet(1..Len(s)) /\ Cardinality(1..Len(s)) = Len(s)
    BY <1>1, FS_Interval
  <2> QED
    BY <2>1, FS_Subset
<1> HIDE DEF D
<1> DEFINE f0 == [u \in SUBSET D |-> g[u]]
<1>5. Is(f0)
  <2>1. ASSUME NEW u \in SUBSET D PROVE f0[u] = KeepsOne(f0, u, s, S)
    <3>1. f0[u] = KeepsOne(g, u, s, S)
      BY <1>1, <1>2, <1>3 DEF Keeps
    <3>2. f0[u \ {Max(u)}] = g[u \ {Max(u)}]
      OBVIOUS
    <3> HIDE DEF f0
    <3> QED
      BY <3>1, <3>2 DEF KeepsOne
  <2> DEFINE f1 == [u \in SUBSET D |-> KeepsOne(f0, u, s, S)]
  <2>2. f0 = f1
    <3>1. f0 = [u \in SUBSET D |-> f0[u]]
      OBVIOUS
    <3> HIDE DEF f0
    <3> QED
      BY <2>1, <3>1
  <2> HIDE DEF f0
  <2> QED
    BY <2>2 DEF KeepsOne
<1> DEFINE f == CHOOSE f : Is(f)
<1>6. Is(f)
  <2> HIDE DEF Is
  <2> QED
    BY <1>5
<1>7. Among(s, S) = f[D]
  BY DEF Among, FoldLeft, MapThenFoldSet, D
<1> HIDE DEF f
<1>8. \A u \in SUBSET D : f[u] = KeepsOne(f, u, s, S)
  BY <1>6 DEF KeepsOne
<1>9. Keeps(f, s, Len(s), S)
  BY <1>1, <1>8 DEF Keeps
<1>10. KeptOf(f[1..Len(s)], s, Len(s), S, X)
  BY <1>9, PrefixesKept
<1> QED
  BY <1>1, <1>7, <1>10

-----------------------------------------------------------------------------
(* The store.                                                              *)

Members(s) == s = [names |-> s.names, tables |-> s.tables, current |-> s.current,
                   dirty |-> s.dirty, settled |-> s.settled, files |-> s.files,
                   unwritten |-> s.unwritten]

\* Every table is in step with its file, and every file is one of ours.
Good(s) == /\ Members(s)
           /\ \A name \in DOMAIN s.tables : Table(s.tables[name]) /\ InStep(s, name)
           /\ \A name \in DOMAIN s.files : File(s.files[name])

\* A write puts the one table it is of in step, or is known to have failed.
LEMMA WrittenIsGood ==
  ASSUME NEW s, Members(s), NEW name, NEW fails \in BOOLEAN,
         name \in DOMAIN s.tables, \A n \in DOMAIN s.tables : Table(s.tables[n]),
         \A n \in DOMAIN s.tables : n # name => InStep(s, n),
         \A n \in DOMAIN s.files : File(s.files[n])
  PROVE  Good(Written(s, name, fails)) /\ Written(s, name, fails).dirty = s.dirty
<1> DEFINE w == Written(s, name, fails)
<1>1. CASE fails
  <2>1. w = [s EXCEPT !.unwritten = s.unwritten \cup {name}]
    BY <1>1 DEF Written
  <2>2. Members(w) /\ w.tables = s.tables /\ w.dirty = s.dirty /\ w.files = s.files
        /\ w.unwritten = s.unwritten \cup {name}
    BY <2>1 DEF Members
  <2> HIDE DEF w
  <2> QED
    BY <2>2 DEF Good, InStep, w
<1>2. CASE ~fails
  <2>1. w = [s EXCEPT !.files = Over([n \in {name} |-> ToJson(s.tables[n])], s.files),
                      !.unwritten = s.unwritten \ {name}]
    BY <1>2 DEF Written
  <2>2. /\ Members(w) /\ w.tables = s.tables /\ w.dirty = s.dirty
        /\ w.files = Over([n \in {name} |-> ToJson(s.tables[n])], s.files)
        /\ w.unwritten = s.unwritten \ {name}
    BY <2>1 DEF Members
  <2>3. name \in DOMAIN w.files /\ w.files[name] = ToJson(s.tables[name])
    BY <2>2 DEF Over
  <2>4. \A n \in DOMAIN s.files : n # name => n \in DOMAIN w.files /\ w.files[n] = s.files[n]
    BY <2>2 DEF Over
  <2> HIDE DEF w
  <2>5. InStep(w, name)
    BY <2>2, <2>3, RoundTrip DEF InStep
  <2>6. ASSUME NEW n \in DOMAIN s.tables, n # name PROVE InStep(w, n)
    BY <2>2, <2>4, <2>6 DEF InStep
  <2>7. ASSUME NEW n \in DOMAIN w.files PROVE File(w.files[n])
    BY <2>2, <2>3, <2>4, <2>7 DEF File, Over
  <2> QED
    BY <2>2, <2>5, <2>6, <2>7 DEF Good, w
<1> QED
  BY <1>1, <1>2

\* A flush empties what is dirty, and leaves no table behind its file unnoticed.
LEMMA FlushedIsGood ==
  ASSUME NEW s, Good(s), NEW F
  PROVE  Good(Flushed(s, F)) /\ Flushed(s, F).dirty = {}
<1> DEFINE w == Flushed(s, F)
           written == (s.dirty \ F) \cap DOMAIN s.tables
<1>1. w = [s EXCEPT !.files = Over([name \in written |-> ToJson(s.tables[name])], s.files),
                    !.unwritten = (s.unwritten \ written) \cup (F \cap s.dirty),
                    !.dirty = {}]
  BY DEF Flushed
<1>2. /\ Members(w) /\ w.tables = s.tables /\ w.dirty = {}
      /\ w.files = Over([name \in written |-> ToJson(s.tables[name])], s.files)
      /\ w.unwritten = (s.unwritten \ written) \cup (F \cap s.dirty)
  BY <1>1 DEF Good, Members
<1>3. \A n \in written : n \in DOMAIN w.files /\ w.files[n] = ToJson(s.tables[n])
  BY <1>2 DEF Over
<1>4. \A n \in DOMAIN s.files : n \notin written => n \in DOMAIN w.files /\ w.files[n] = s.files[n]
  BY <1>2 DEF Over
<1> HIDE DEF w
<1>5. ASSUME NEW n \in DOMAIN s.tables PROVE InStep(w, n)
  <2>1. CASE n \in written
    BY <1>2, <1>3, <2>1, RoundTrip DEF Good, InStep
  <2>2. CASE n \notin written /\ n \in s.dirty
    BY <1>2, <2>2 DEF InStep
  <2>3. CASE n \notin s.dirty
    BY <1>2, <1>4, <2>3 DEF Good, InStep
  <2> QED
    BY <2>1, <2>2, <2>3
<1>6. ASSUME NEW n \in DOMAIN w.files PROVE File(w.files[n])
  <2>1. n \in written \/ n \in DOMAIN s.files
    BY <1>2 DEF Over
  <2> QED
    BY <1>3, <1>4, <2>1 DEF File, Good
<1> QED
  BY <1>2, <1>5, <1>6 DEF Good, w

\* A table that changed is marked (Store::mark).
LEMMA ReplacedIsGood ==
  ASSUME NEW s, Good(s), NEW t, s.current \in DOMAIN s.tables => Table(t)
  PROVE  Good(Replaced(s, t))
<1> DEFINE w == Replaced(s, t)
<1>1. CASE w = s
  BY <1>1
<1>2. CASE w = Marked([s EXCEPT !.tables[s.current] = t])
  <2>1. PICK ts : ts = [s.tables EXCEPT ![s.current] = t]
    OBVIOUS
  <2>2. PICK r : r = [names |-> s.names, tables |-> ts, current |-> s.current, dirty |-> s.dirty,
                      settled |-> s.settled, files |-> s.files, unwritten |-> s.unwritten]
    OBVIOUS
  <2>3. [s EXCEPT !.tables[s.current] = t] = r
    BY <2>1, <2>2 DEF Good, Members
  <2>4. w = Marked(r)
    BY <1>2, <2>3
  <2>5. w = [names |-> s.names, tables |-> ts, current |-> s.current,
             dirty |-> s.dirty \cup {s.current}, settled |-> FALSE, files |-> s.files,
             unwritten |-> s.unwritten]
    <3> HIDE DEF w
    <3> QED
      BY <2>2, <2>4 DEF Marked
  <2>6. Members(w) /\ w.tables = ts /\ w.dirty = s.dirty \cup {s.current} /\ w.files = s.files
        /\ w.unwritten = s.unwritten
    BY <2>5 DEF Members
  <2> HIDE DEF w
  <2>7. DOMAIN ts = DOMAIN s.tables
    BY <2>1
  <2>8. ASSUME NEW n \in DOMAIN s.tables PROVE Table(ts[n]) /\ InStep(w, n)
    BY <2>1, <2>6 DEF Good, InStep
  <2> QED
    BY <2>6, <2>7, <2>8 DEF Good, w
<1> QED
  BY <1>1, <1>2 DEF Replaced

\* One click keeps the store good.
LEMMA SetVerdictIsGood ==
  ASSUME NEW s, Good(s), NEW refs, IsFiniteSet(refs), NEW v \in Verdicts
  PROVE  Good(SetVerdict(s, refs, v))
  BY ReplacedIsGood, PutIsTable DEF SetVerdict, Good

\* So does the whole of a proposal.
LEMMA SetVerdictsIsGood ==
  ASSUME NEW s, Good(s), NEW t, Table(t) PROVE Good(SetVerdicts(s, t))
  BY ReplacedIsGood, OverIsTable DEF SetVerdicts, Good

\* A new profile is written at once, a copy of a table or none (Store::create).
LEMMA CreatedIsGood ==
  ASSUME NEW s, Good(s), NEW name, NEW from, NEW fails \in BOOLEAN
  PROVE  Good(Created(s, name, from, fails)) /\ Created(s, name, from, fails).dirty = s.dirty
<1>1. CASE name \in DOMAIN s.tables
  BY <1>1 DEF Created
<1>2. CASE name \notin DOMAIN s.tables
  <2>1. PICK table : table = IF from \in DOMAIN s.tables THEN s.tables[from] ELSE NoTable
    OBVIOUS
  <2>2. Table(table)
    BY <2>1, EmptyIsTable DEF Good
  <2>3. PICK r : r = [s EXCEPT !.names = Append(s.names, name),
                               !.tables = Over([n \in {name} |-> table], s.tables),
                               !.current = name]
    OBVIOUS
  <2>4. Created(s, name, from, fails) = Written(r, name, fails)
    BY <1>2, <2>1, <2>3 DEF Created
  <2>5. /\ Members(r) /\ r.tables = Over([n \in {name} |-> table], s.tables) /\ r.dirty = s.dirty
        /\ r.files = s.files /\ r.unwritten = s.unwritten
    BY <2>3 DEF Good, Members
  <2>6. /\ DOMAIN r.tables = DOMAIN s.tables \cup {name} /\ r.tables[name] = table
        /\ \A n \in DOMAIN s.tables : r.tables[n] = s.tables[n]
    BY <1>2, <2>5 DEF Over
  <2>7. \A n \in DOMAIN r.tables : Table(r.tables[n]) /\ (n # name => InStep(r, n))
    BY <2>2, <2>5, <2>6 DEF Good, InStep
  <2>8. \A n \in DOMAIN r.files : File(r.files[n])
    BY <2>5 DEF Good
  <2> QED
    BY <2>4, <2>5, <2>6, <2>7, <2>8, WrittenIsGood
<1> QED
  BY <1>1, <1>2

\* A profile goes with its file and its mark; the last one leaves a new default
\* (Store::remove).
LEMMA RemovedIsGood ==
  ASSUME NEW s, Good(s), NEW name, NEW fails \in BOOLEAN
  PROVE  Good(Removed(s, name, fails)) /\ Removed(s, name, fails).dirty \subseteq s.dirty
<1>1. PICK left, rest :
        /\ rest = [s EXCEPT !.names = left, !.dirty = s.dirty \ {name},
                            !.tables = Restrict(s.tables, DOMAIN s.tables \ {name}),
                            !.files = IF fails THEN s.files ELSE Restrict(s.files, DOMAIN s.files \ {name}),
                            !.unwritten = IF fails THEN s.unwritten \cup {name} ELSE s.unwritten \ {name}]
        /\ \/ Removed(s, name, fails) = Created(rest, DefaultName, None, FALSE)
           \/ \E now : Removed(s, name, fails) = [rest EXCEPT !.current = now]
           \/ Removed(s, name, fails) = rest
  BY DEF Removed
<1>2. /\ Members(rest) /\ rest.dirty = s.dirty \ {name}
      /\ rest.tables = [n \in DOMAIN s.tables \ {name} |-> s.tables[n]]
      /\ rest.files = IF fails THEN s.files ELSE [n \in DOMAIN s.files \ {name} |-> s.files[n]]
      /\ rest.unwritten = IF fails THEN s.unwritten \cup {name} ELSE s.unwritten \ {name}
  BY <1>1 DEF Good, Members, Restrict
<1>3. ASSUME NEW n \in DOMAIN rest.tables PROVE Table(rest.tables[n]) /\ InStep(rest, n)
  <2>1. n \in DOMAIN s.tables /\ n # name /\ rest.tables[n] = s.tables[n]
    BY <1>2
  <2>2. n \in DOMAIN s.files => n \in DOMAIN rest.files /\ rest.files[n] = s.files[n]
    BY <1>2, <2>1
  <2> QED
    BY <1>2, <2>1, <2>2 DEF Good, InStep
<1>4. Good(rest)
  BY <1>2, <1>3 DEF Good
<1>5. ASSUME NEW now, NEW w, w = [rest EXCEPT !.current = now] PROVE Good(w) /\ w.dirty = rest.dirty
  <2>1. Members(w) /\ w.tables = rest.tables /\ w.dirty = rest.dirty /\ w.files = rest.files
        /\ w.unwritten = rest.unwritten
    BY <1>2, <1>5 DEF Members
  <2> QED
    BY <1>4, <2>1 DEF Good, InStep
<1> DEFINE w == Removed(s, name, fails)
<1> HIDE DEF w
<1>6. CASE w = Created(rest, DefaultName, None, FALSE)
  <2>1. Good(w) /\ w.dirty = rest.dirty
    BY <1>4, <1>6, CreatedIsGood
  <2> QED
    BY <1>2, <2>1 DEF w
<1>7. CASE \E now : w = [rest EXCEPT !.current = now]
  <2>1. PICK now : w = [rest EXCEPT !.current = now]
    BY <1>7
  <2>2. Good(w) /\ w.dirty = rest.dirty
    BY <1>5, <2>1
  <2> QED
    BY <1>2, <2>2 DEF w
<1>8. CASE w = rest
  BY <1>2, <1>4, <1>8 DEF w
<1> QED
  BY <1>1, <1>6, <1>7, <1>8 DEF w

\* What a launch reads is what the files hold (Store::open).
LEMMA OpenedIsGood ==
  ASSUME NEW files, \A name \in DOMAIN files : File(files[name]),
         NEW unwritten, NEW listed, NEW current
  PROVE  Good(Opened(files, unwritten, listed, current))
         /\ Opened(files, unwritten, listed, current).dirty = {}
<1> DEFINE o == Opened(files, unwritten, listed, current)
<1>1. PICK s : /\ \E names : s = [names |-> names, tables |-> [name \in DOMAIN files |-> FromJson(files[name])],
                                  current |-> current, dirty |-> {}, settled |-> TRUE,
                                  files |-> files, unwritten |-> unwritten]
               /\ \/ o = Created(s, DefaultName, None, FALSE)
                  \/ \E now : o = [s EXCEPT !.current = now]
  BY DEF Opened
<1> HIDE DEF o
<1>2. /\ Members(s) /\ s.dirty = {} /\ s.files = files /\ s.unwritten = unwritten
      /\ s.tables = [name \in DOMAIN files |-> FromJson(files[name])]
  BY <1>1 DEF Members
<1>3. ASSUME NEW n \in DOMAIN s.tables PROVE Table(s.tables[n]) /\ InStep(s, n)
  BY <1>2, ReadIsTable DEF InStep
<1>4. Good(s)
  BY <1>2, <1>3 DEF Good
<1>5. ASSUME NEW now, NEW w, w = [s EXCEPT !.current = now] PROVE Good(w) /\ w.dirty = {}
  <2>1. Members(w) /\ w.tables = s.tables /\ w.dirty = s.dirty /\ w.files = s.files
        /\ w.unwritten = s.unwritten
    BY <1>2, <1>5 DEF Members
  <2> QED
    BY <1>2, <1>4, <2>1 DEF Good, InStep
<1>6. CASE o = Created(s, DefaultName, None, FALSE)
  <2>1. Good(o) /\ o.dirty = s.dirty
    BY <1>4, <1>6, CreatedIsGood
  <2> QED
    BY <1>2, <2>1 DEF o
<1>7. CASE \E now : o = [s EXCEPT !.current = now]
  <2>1. PICK now : o = [s EXCEPT !.current = now]
    BY <1>7
  <2> QED
    BY <1>5, <2>1 DEF o
<1> QED
  BY <1>1, <1>6, <1>7

\* What settling changes.
LEMMA SettledIsGood ==
  ASSUME NEW s, Good(s), NEW w, NEW now, NEW b, w = [s EXCEPT !.current = now] \/ w = [s EXCEPT !.settled = b]
  PROVE  Good(w) /\ w.dirty = s.dirty
<1>1. Members(w) /\ w.tables = s.tables /\ w.dirty = s.dirty /\ w.files = s.files
      /\ w.unwritten = s.unwritten
  BY DEF Good, Members
<1> QED
  BY <1>1 DEF Good, InStep

-----------------------------------------------------------------------------
(* The list of profiles.                                                   *)

\* names lists the members of D, each once.
Lists(names, D) ==
  /\ names \in Seq(Names)
  /\ \A i, j \in 1..Len(names) : names[i] = names[j] => i = j
  /\ \A x : (\E i \in 1..Len(names) : names[i] = x) <=> x \in D

\* names_ and profiles_ are parallel, what is to be written has a table, and
\* a table without a file, or a file without a table, is a write or a removal
\* that did not happen.
Catalogued(s) ==
  /\ Lists(s.names, DOMAIN s.tables)
  /\ s.dirty \subseteq DOMAIN s.tables
  /\ DOMAIN s.tables \subseteq s.unwritten \cup DOMAIN s.files
  /\ DOMAIN s.files \subseteq DOMAIN s.tables \cup s.unwritten
  /\ DOMAIN s.files \subseteq Names

\* And one of the profiles is in use.
Listed(s) == Catalogued(s) /\ s.current \in DOMAIN s.tables

\* What w has of s: its tables and which of them is in use.
SameTables(w, s) == w.tables = s.tables /\ w.current = s.current /\ w.names = s.names

LEMMA ListsIsSet == ASSUME NEW names, NEW D, Lists(names, D) PROVE ToSet(names) = D
<1>1. DOMAIN names = 1..Len(names)
  BY DEF Lists
<1>2. \A x : x \in ToSet(names) <=> \E i \in 1..Len(names) : names[i] = x
  BY <1>1 DEF ToSet
<1> QED
  BY <1>2 DEF Lists

\* A name more at the end.
LEMMA AppendLists ==
  ASSUME NEW names, NEW D, Lists(names, D), NEW name \in Names, name \notin D
  PROVE  Lists(Append(names, name), D \cup {name})
<1> DEFINE n == Len(names)
           w == Append(names, name)
<1>1. names \in Seq(Names) /\ n \in Nat
  BY DEF Lists
<1>2. /\ w \in Seq(Names) /\ Len(w) = n + 1 /\ w[n + 1] = name
      /\ \A i \in 1..n : w[i] = names[i]
  BY <1>1
<1>3. \A i \in 1..(n + 1) : i = n + 1 \/ i \in 1..n
  BY <1>1
<1>4. n + 1 \in 1..(n + 1) /\ \A i \in 1..n : i \in 1..(n + 1)
  BY <1>1
<1>5. \A i \in 1..n : names[i] # name
  BY DEF Lists
<1> HIDE DEF n, w
<1>6. ASSUME NEW i \in 1..(n + 1), NEW j \in 1..(n + 1), w[i] = w[j] PROVE i = j
  <2>1. \A a, b \in 1..n : names[a] = names[b] => a = b
    BY DEF Lists, n
  <2> QED
    BY <1>2, <1>3, <1>5, <1>6, <2>1
<1>7. ASSUME NEW x PROVE (\E i \in 1..(n + 1) : w[i] = x) <=> x \in D \cup {name}
  <2>1. (\E i \in 1..n : names[i] = x) <=> x \in D
    BY DEF Lists, n
  <2> QED
    BY <1>2, <1>3, <1>4, <2>1
<1> QED
  BY <1>2, <1>6, <1>7 DEF Lists, w

\* A name fewer, wherever it stood.
LEMMA RemoveLists ==
  ASSUME NEW names, NEW D, Lists(names, D), NEW name \in D,
         NEW at, at = CHOOSE i \in DOMAIN names : names[i] = name
  PROVE  Lists(RemoveAt(names, at), D \ {name})
<1>0. names \in Seq(Names)
  BY DEF Lists
<1>1. PICK n \in Nat : n = Len(names)
  BY <1>0
<1> DEFINE w == RemoveAt(names, at)
<1>2. at \in 1..n /\ names[at] = name
  <2>1. DOMAIN names = 1..n
    BY <1>0, <1>1
  <2>2. \E i \in DOMAIN names : names[i] = name
    BY <1>1, <2>1 DEF Lists
  <2> QED
    BY <2>1, <2>2
<1>3. /\ w \in Seq(Names) /\ Len(w) = n - 1
      /\ \A i \in 1..(n - 1) : w[i] = IF i < at THEN names[i] ELSE names[i + 1]
  <2>1. PICK a, b : a = SubSeq(names, 1, at - 1) /\ b = SubSeq(names, at + 1, n)
    OBVIOUS
  <2>2. w = a \o b
    BY <1>1, <2>1 DEF RemoveAt
  <2> HIDE DEF w
  <2>3. a \in Seq(Names) /\ Len(a) = at - 1 /\ \A i \in 1..(at - 1) : a[i] = names[i]
    BY <1>0, <1>1, <1>2, <2>1
  <2>4. b \in Seq(Names) /\ Len(b) = n - at /\ \A i \in 1..(n - at) : b[i] = names[at + i]
    <3>0. PICK lo \in Int : lo = at + 1
      <4>1. at + 1 \in Int
        BY <1>2
      <4> QED
        BY <4>1
    <3>1. b = SubSeq(names, lo, n) /\ \A i \in lo..n : names[i] \in Names
      BY <1>0, <1>1, <1>2, <2>1, <3>0
    <3>2. /\ b \in Seq(Names) /\ Len(b) = IF lo <= n THEN n - lo + 1 ELSE 0
          /\ \A i \in 1..(n - lo + 1) : b[i] = names[lo + i - 1]
      <4>1. n \in Int
        OBVIOUS
      <4> QED
        BY <3>1, <4>1, SubSeqProperties, SMT
    <3>3. Len(b) = n - at
      BY <1>2, <3>0, <3>2
    <3>4. ASSUME NEW i \in 1..(n - at) PROVE b[i] = names[at + i]
      <4>1. i \in 1..(n - lo + 1) /\ lo + i - 1 = at + i
        BY ONLY <1>2, <3>0, i \in 1..(n - at)
      <4> QED
        BY <3>2, <4>1
    <3> QED
      BY <3>2, <3>3, <3>4
  <2>5. w \in Seq(Names) /\ Len(w) = n - 1 /\ Len(a) + Len(b) = n - 1
    <3>1. w \in Seq(Names) /\ Len(w) = Len(a) + Len(b)
      BY <2>2, <2>3, <2>4, ConcatProperties
    <3>2. (at - 1) + (n - at) = n - 1
      BY <1>2
    <3> QED
      BY <2>3, <2>4, <3>1, <3>2
  <2>6. ASSUME NEW i \in 1..(n - 1) PROVE w[i] = IF i < at THEN names[i] ELSE names[i + 1]
    <3>1. w[i] = IF i <= Len(a) THEN a[i] ELSE b[i - Len(a)]
      BY <2>2, <2>3, <2>4, <2>5, ConcatProperties
    <3>2. CASE i < at
      <4>1. i \in 1..(at - 1) /\ i <= at - 1
        BY ONLY <1>2, i \in 1..(n - 1), i < at
      <4> QED
        BY <2>3, <3>1, <3>2, <4>1
    <3>3. CASE ~(i < at)
      <4>1. i - (at - 1) \in 1..(n - at) /\ at + (i - (at - 1)) = i + 1 /\ ~(i <= at - 1)
        BY ONLY <1>2, i \in 1..(n - 1), ~(i < at)
      <4> QED
        BY <2>3, <2>4, <3>1, <3>3, <4>1
    <3> QED
      BY <3>2, <3>3
  <2> QED
    BY <2>5, <2>6
<1> HIDE DEF w
<1>4. \A a, b \in 1..n : names[a] = names[b] => a = b
  BY <1>1 DEF Lists
<1>5. ASSUME NEW i \in 1..(n - 1)
      PROVE  \E a \in 1..n : a # at /\ w[i] = names[a] /\ a = IF i < at THEN i ELSE i + 1
  <2>1. CASE i < at
    <3>1. i \in 1..n /\ i # at
      BY ONLY <1>2, i \in 1..(n - 1), i < at
    <3> QED
      BY <1>3, <2>1, <3>1
  <2>2. CASE ~(i < at)
    <3>1. i + 1 \in 1..n /\ i + 1 # at
      BY ONLY <1>2, i \in 1..(n - 1), ~(i < at)
    <3> QED
      BY <1>3, <2>2, <3>1
  <2> QED
    BY <2>1, <2>2
<1>6. ASSUME NEW a \in 1..n, a # at PROVE \E i \in 1..(n - 1) : w[i] = names[a]
  <2>1. CASE a < at
    <3>1. a \in 1..(n - 1)
      BY <1>1, <1>2, <2>1
    <3> QED
      BY <1>3, <2>1, <3>1
  <2>2. CASE ~(a < at)
    <3>1. a - 1 \in 1..(n - 1) /\ ~(a - 1 < at) /\ (a - 1) + 1 = a
      BY <1>1, <1>2, <1>6, <2>2
    <3> QED
      BY <1>3, <3>1
  <2> QED
    BY <2>1, <2>2
<1>7. ASSUME NEW i \in 1..(n - 1), NEW j \in 1..(n - 1), w[i] = w[j] PROVE i = j
  <2>1. PICK a \in 1..n : w[i] = names[a] /\ a = IF i < at THEN i ELSE i + 1
    BY <1>5
  <2>2. PICK b \in 1..n : w[j] = names[b] /\ b = IF j < at THEN j ELSE j + 1
    BY <1>5
  <2>3. a = b
    BY <1>4, <1>7, <2>1, <2>2
  <2> QED
    BY <1>2, <2>1, <2>2, <2>3
<1>8. ASSUME NEW x PROVE (\E i \in 1..(n - 1) : w[i] = x) <=> x \in D \ {name}
  <2>1. (\E i \in 1..n : names[i] = x) <=> x \in D
    BY <1>1 DEF Lists
  <2>2. (\E i \in 1..(n - 1) : w[i] = x) <=> \E a \in 1..n : a # at /\ names[a] = x
    BY <1>5, <1>6
  <2>3. \A a \in 1..n : a # at <=> names[a] # name
    BY <1>2, <1>4
  <2> QED
    BY <2>1, <2>2, <2>3
<1>9. Len(w) = n - 1 /\ w \in Seq(Names)
  BY <1>3
<1>10. Lists(w, D \ {name})
  BY <1>7, <1>8, <1>9 DEF Lists
<1> QED
  BY <1>10 DEF w

\* A list of some, and one of the others after it.
LEMMA ConcatLists ==
  ASSUME NEW a, NEW b, NEW D, NEW E, Lists(a, D), Lists(b, E), D \cap E = {}
  PROVE  Lists(a \o b, D \cup E)
<1> DEFINE w == a \o b
<1>1. PICK m \in Nat, n \in Nat : m = Len(a) /\ n = Len(b)
  BY DEF Lists
<1>2. a \in Seq(Names) /\ b \in Seq(Names)
  BY DEF Lists
<1>3. /\ w \in Seq(Names) /\ Len(w) = m + n
      /\ \A i \in 1..m : w[i] = a[i]
      /\ \A i \in 1..(m + n) : i > m => w[i] = b[i - m]
  BY <1>1, <1>2
<1> HIDE DEF w
<1>4. \A i \in 1..(m + n) : i \in 1..m \/ (i > m /\ i - m \in 1..n)
  BY <1>1
<1>5. \A i \in 1..m : i \in 1..(m + n) /\ a[i] \in D
  BY <1>1 DEF Lists
<1>6. \A i \in 1..n : m + i \in 1..(m + n) /\ m + i > m /\ (m + i) - m = i /\ b[i] \in E
  BY <1>1 DEF Lists
<1>7. ASSUME NEW i \in 1..(m + n), NEW j \in 1..(m + n), w[i] = w[j] PROVE i = j
  <2>1. /\ \A p, q \in 1..m : a[p] = a[q] => p = q
        /\ \A p, q \in 1..n : b[p] = b[q] => p = q
    BY <1>1 DEF Lists
  <2>2. CASE i \in 1..m /\ j \in 1..m
    BY <1>3, <1>7, <2>1, <2>2
  <2>3. CASE i \in 1..m /\ j > m
    <3>1. w[i] \in D /\ w[j] \in E
      BY <1>3, <1>4, <1>5, <1>6, <2>3
    <3> QED
      BY <1>7, <3>1
  <2>4. CASE i > m /\ j \in 1..m
    <3>1. w[j] \in D /\ w[i] \in E
      BY <1>3, <1>4, <1>5, <1>6, <2>4
    <3> QED
      BY <1>7, <3>1
  <2>5. CASE i > m /\ j > m
    <3>1. i - m \in 1..n /\ j - m \in 1..n /\ b[i - m] = b[j - m]
      BY <1>1, <1>3, <1>4, <1>7, <2>5
    <3>2. i - m = j - m
      BY <2>1, <3>1
    <3> QED
      BY <3>2
  <2> QED
    BY <1>4, <2>2, <2>3, <2>4, <2>5
<1>8. ASSUME NEW x PROVE (\E i \in 1..(m + n) : w[i] = x) <=> x \in D \cup E
  <2>1. /\ (\E i \in 1..m : a[i] = x) <=> x \in D
        /\ (\E i \in 1..n : b[i] = x) <=> x \in E
    BY <1>1 DEF Lists
  <2>2. ASSUME NEW i \in 1..n, b[i] = x PROVE \E k \in 1..(m + n) : w[k] = x
    <3>1. PICK k \in 1..(m + n) : k = m + i /\ k > m /\ k - m = i
      BY <1>6
    <3>2. w[k] = x
      BY <1>3, <2>2, <3>1
    <3> QED
      BY <3>2
  <2>3. ASSUME NEW i \in 1..m, a[i] = x PROVE \E k \in 1..(m + n) : w[k] = x
    BY <1>3, <1>5, <2>3
  <2>4. ASSUME NEW i \in 1..(m + n), w[i] = x PROVE x \in D \cup E
    BY <1>3, <1>4, <2>1, <2>4
  <2> QED
    BY <2>1, <2>2, <2>3, <2>4
<1> QED
  BY <1>1, <1>3, <1>7, <1>8 DEF Lists, w

-----------------------------------------------------------------------------
(* What the store does to the list of profiles.                            *)

LEMMA WrittenIsListed ==
  ASSUME NEW s, Members(s), NEW name, NEW fails \in BOOLEAN, name \in DOMAIN s.tables,
         name \in Names, Lists(s.names, DOMAIN s.tables), s.dirty \subseteq DOMAIN s.tables,
         DOMAIN s.tables \subseteq s.unwritten \cup DOMAIN s.files \cup {name},
         DOMAIN s.files \subseteq DOMAIN s.tables \cup s.unwritten, DOMAIN s.files \subseteq Names
  PROVE  /\ Catalogued(Written(s, name, fails)) /\ SameTables(Written(s, name, fails), s)
         /\ ~fails => /\ Written(s, name, fails).unwritten = s.unwritten \ {name}
                      /\ DOMAIN Written(s, name, fails).files = {name} \cup DOMAIN s.files
<1>1. PICK w : w = Written(s, name, fails)
  OBVIOUS
<1>2. CASE fails
  <2>1. w = [s EXCEPT !.unwritten = s.unwritten \cup {name}]
    BY <1>1, <1>2 DEF Written
  <2>2. /\ w.names = s.names /\ w.tables = s.tables /\ w.current = s.current
        /\ w.dirty = s.dirty /\ w.files = s.files /\ w.unwritten = s.unwritten \cup {name}
    BY <2>1 DEF Members
  <2> QED
    BY <1>1, <1>2, <2>2 DEF Catalogued, SameTables
<1>3. CASE ~fails
  <2>1. w = [s EXCEPT !.files = Over([n \in {name} |-> ToJson(s.tables[n])], s.files),
                      !.unwritten = s.unwritten \ {name}]
    BY <1>1, <1>3 DEF Written
  <2>2. /\ w.names = s.names /\ w.tables = s.tables /\ w.current = s.current
        /\ w.dirty = s.dirty /\ w.unwritten = s.unwritten \ {name}
        /\ w.files = Over([n \in {name} |-> ToJson(s.tables[n])], s.files)
    BY <2>1 DEF Members
  <2>3. DOMAIN w.files = {name} \cup DOMAIN s.files
    BY <2>2 DEF Over
  <2> QED
    BY <1>1, <1>3, <2>2, <2>3 DEF Catalogued, SameTables
<1> QED
  BY <1>2, <1>3

\* A flush moves no name and no table.
LEMMA FlushedIsListed ==
  ASSUME NEW s, Good(s), Catalogued(s), NEW F
  PROVE  /\ Catalogued(Flushed(s, F)) /\ SameTables(Flushed(s, F), s)
         /\ \A n \in Flushed(s, F).unwritten : n \in s.unwritten \/ n \in s.dirty
         /\ DOMAIN s.files \subseteq DOMAIN Flushed(s, F).files
<1>1. PICK w : w = Flushed(s, F)
  OBVIOUS
<1>2. PICK written : written = (s.dirty \ F) \cap DOMAIN s.tables
  OBVIOUS
<1>3. w = [s EXCEPT !.files = Over([name \in written |-> ToJson(s.tables[name])], s.files),
                    !.unwritten = (s.unwritten \ written) \cup (F \cap s.dirty),
                    !.dirty = {}]
  BY <1>1, <1>2 DEF Flushed
<1>4. /\ w.names = s.names /\ w.tables = s.tables /\ w.current = s.current /\ w.dirty = {}
      /\ w.unwritten = (s.unwritten \ written) \cup (F \cap s.dirty)
      /\ w.files = Over([name \in written |-> ToJson(s.tables[name])], s.files)
  BY <1>3 DEF Good, Members
<1>5. DOMAIN w.files = written \cup DOMAIN s.files
  BY <1>4 DEF Over
<1>6. written \subseteq DOMAIN s.tables
  BY <1>2
<1>7. DOMAIN s.tables \subseteq Names
  BY DEF Catalogued, Lists
<1> QED
  BY <1>1, <1>4, <1>5, <1>6, <1>7 DEF Catalogued, SameTables

\* Nor does a table that takes another's place.
LEMMA ReplacedIsListed ==
  ASSUME NEW s, Good(s), Listed(s), NEW t
  PROVE  /\ Listed(Replaced(s, t))
         /\ Replaced(s, t).tables[s.current] = t
         /\ Replaced(s, t).names = s.names /\ Replaced(s, t).current = s.current
<1>1. CASE t = s.tables[s.current]
  <2>1. Replaced(s, t) = s
    BY <1>1 DEF Replaced
  <2> QED
    BY <1>1, <2>1
<1>2. CASE t # s.tables[s.current]
  <2>1. PICK ts : ts = [s.tables EXCEPT ![s.current] = t]
    OBVIOUS
  <2>2. PICK r : r = [names |-> s.names, tables |-> ts, current |-> s.current, dirty |-> s.dirty,
                      settled |-> s.settled, files |-> s.files, unwritten |-> s.unwritten]
    OBVIOUS
  <2>3. [s EXCEPT !.tables[s.current] = t] = r
    BY <2>1, <2>2 DEF Good, Members
  <2>4. PICK w : w = Replaced(s, t)
    OBVIOUS
  <2>5. w = Marked(r)
    BY <1>2, <2>3, <2>4 DEF Replaced
  <2>6. w = [names |-> s.names, tables |-> ts, current |-> s.current,
             dirty |-> s.dirty \cup {s.current}, settled |-> FALSE, files |-> s.files,
             unwritten |-> s.unwritten]
    BY <2>2, <2>5 DEF Marked
  <2>7. /\ w.names = s.names /\ w.tables = ts /\ w.current = s.current
        /\ w.dirty = s.dirty \cup {s.current} /\ w.files = s.files /\ w.unwritten = s.unwritten
    BY <2>6
  <2>8. DOMAIN ts = DOMAIN s.tables /\ ts[s.current] = t
    BY <2>1 DEF Listed
  <2>9. Listed(w)
    BY <2>7, <2>8 DEF Listed, Catalogued
  <2> QED
    BY <2>4, <2>7, <2>8, <2>9
<1> QED
  BY <1>1, <1>2

\* A new profile is listed last, and is the one in use.
LEMMA CreatedIsListed ==
  ASSUME NEW s, Good(s), Catalogued(s), NEW name \in Names, NEW from, NEW fails \in BOOLEAN,
         name \in DOMAIN s.tables => Listed(s)
  PROVE  Listed(Created(s, name, from, fails))
<1>1. CASE name \in DOMAIN s.tables
  BY <1>1 DEF Created
<1>2. CASE name \notin DOMAIN s.tables
  <2>1. PICK table : table = IF from \in DOMAIN s.tables THEN s.tables[from] ELSE NoTable
    OBVIOUS
  <2>2. PICK r : r = [s EXCEPT !.names = Append(s.names, name),
                               !.tables = Over([n \in {name} |-> table], s.tables),
                               !.current = name]
    OBVIOUS
  <2>3. Created(s, name, from, fails) = Written(r, name, fails)
    BY <1>2, <2>1, <2>2 DEF Created
  <2>4. /\ Members(r) /\ r.names = Append(s.names, name) /\ r.current = name
        /\ r.tables = Over([n \in {name} |-> table], s.tables) /\ r.dirty = s.dirty
        /\ r.files = s.files /\ r.unwritten = s.unwritten
    BY <2>2 DEF Good, Members
  <2>5. DOMAIN r.tables = DOMAIN s.tables \cup {name}
    BY <2>4 DEF Over
  <2>6. Lists(r.names, DOMAIN r.tables)
    BY <1>2, <2>4, <2>5, AppendLists DEF Catalogued
  <2>7. /\ r.dirty \subseteq DOMAIN r.tables
        /\ DOMAIN r.tables \subseteq r.unwritten \cup DOMAIN r.files \cup {name}
        /\ DOMAIN r.files \subseteq DOMAIN r.tables \cup r.unwritten /\ DOMAIN r.files \subseteq Names
        /\ name \in DOMAIN r.tables
    BY <2>4, <2>5 DEF Catalogued
  <2>8. Catalogued(Written(r, name, fails)) /\ SameTables(Written(r, name, fails), r)
    BY <2>4, <2>6, <2>7, WrittenIsListed
  <2> QED
    BY <2>3, <2>4, <2>7, <2>8 DEF Listed, SameTables
<1> QED
  BY <1>1, <1>2

\* The first default of an empty directory (Store::open, Store::remove).
LEMMA DefaultIsListed ==
  ASSUME NEW s, Good(s), Catalogued(s), s.names = <<>>
  PROVE  LET w == Created(s, DefaultName, None, FALSE)
         IN /\ Listed(w) /\ w.names = <<DefaultName>> /\ w.current = DefaultName
            /\ w.unwritten = s.unwritten \ {DefaultName}
<1>1. DOMAIN s.tables = {}
  <2>1. Len(s.names) = 0
    OBVIOUS
  <2>2. \A i : i \notin 1..Len(s.names)
    BY <2>1
  <2> QED
    BY <2>2 DEF Catalogued, Lists
<1>2. DefaultName \in Names
  BY NamesAssumption DEF Names
<1>3. Listed(Created(s, DefaultName, None, FALSE))
  BY <1>1, <1>2, CreatedIsListed
<1>4. PICK table : table = IF None \in DOMAIN s.tables THEN s.tables[None] ELSE NoTable
  OBVIOUS
<1>5. PICK r : r = [s EXCEPT !.names = Append(s.names, DefaultName),
                             !.tables = Over([n \in {DefaultName} |-> table], s.tables),
                             !.current = DefaultName]
  OBVIOUS
<1>6. PICK w : w = Created(s, DefaultName, None, FALSE)
  OBVIOUS
<1>7. w = Written(r, DefaultName, FALSE)
  BY <1>1, <1>4, <1>5, <1>6 DEF Created
<1>8. Members(r) /\ r.names = <<DefaultName>> /\ r.current = DefaultName /\ r.unwritten = s.unwritten
  <2>1. Append(s.names, DefaultName) = <<DefaultName>>
    OBVIOUS
  <2>2. Members(r) /\ r.names = Append(s.names, DefaultName) /\ r.current = DefaultName
        /\ r.unwritten = s.unwritten
    BY <1>5 DEF Good, Members
  <2> QED
    BY <2>1, <2>2
<1>9. w = [r EXCEPT !.files = Over([n \in {DefaultName} |-> ToJson(r.tables[n])], r.files),
                    !.unwritten = r.unwritten \ {DefaultName}]
  BY <1>7 DEF Written
<1>10. w.names = <<DefaultName>> /\ w.current = DefaultName
       /\ w.unwritten = s.unwritten \ {DefaultName}
  BY <1>8, <1>9 DEF Members
<1> QED
  BY <1>3, <1>6, <1>10

\* A profile goes with its name; another is in use after it.
LEMMA RemovedIsListed ==
  ASSUME NEW s, Good(s), Listed(s), NEW name \in DOMAIN s.tables, NEW fails \in BOOLEAN
  PROVE  Listed(Removed(s, name, fails))
<1>1. PICK at : at = CHOOSE i \in DOMAIN s.names : s.names[i] = name
  OBVIOUS
<1>2. PICK left : left = RemoveAt(s.names, at)
  OBVIOUS
<1>3. PICK rest :
        rest = [s EXCEPT !.names = left, !.dirty = s.dirty \ {name},
                         !.tables = Restrict(s.tables, DOMAIN s.tables \ {name}),
                         !.files = IF fails THEN s.files ELSE Restrict(s.files, DOMAIN s.files \ {name}),
                         !.unwritten = IF fails THEN s.unwritten \cup {name} ELSE s.unwritten \ {name}]
  OBVIOUS
<1>4. PICK w : w = Removed(s, name, fails)
  OBVIOUS
<1>5. w = IF left = <<>> THEN Created(rest, DefaultName, None, FALSE)
          ELSE IF s.current = name
          THEN [rest EXCEPT !.current = left[IF at <= Len(left) THEN at ELSE Len(left)]]
          ELSE rest
  BY <1>1, <1>2, <1>3, <1>4 DEF Removed
<1>6. /\ Members(rest) /\ rest.names = left /\ rest.current = s.current
      /\ rest.dirty = s.dirty \ {name}
      /\ rest.tables = [n \in DOMAIN s.tables \ {name} |-> s.tables[n]]
      /\ rest.files = IF fails THEN s.files ELSE [n \in DOMAIN s.files \ {name} |-> s.files[n]]
      /\ rest.unwritten = IF fails THEN s.unwritten \cup {name} ELSE s.unwritten \ {name}
  BY <1>3 DEF Good, Members, Restrict
<1>7. DOMAIN rest.tables = DOMAIN s.tables \ {name}
      /\ DOMAIN rest.files = IF fails THEN DOMAIN s.files ELSE DOMAIN s.files \ {name}
  BY <1>6
<1>8. Lists(left, DOMAIN s.tables \ {name})
  BY <1>1, <1>2, RemoveLists DEF Listed, Catalogued
<1>9. Catalogued(rest)
  BY <1>6, <1>7, <1>8 DEF Listed, Catalogued
<1>10. Good(rest)
  <2>1. ASSUME NEW n \in DOMAIN rest.tables PROVE Table(rest.tables[n]) /\ InStep(rest, n)
    <3>1. n \in DOMAIN s.tables /\ n # name /\ rest.tables[n] = s.tables[n]
      BY <1>6
    <3>2. n \in DOMAIN s.files => n \in DOMAIN rest.files /\ rest.files[n] = s.files[n]
      BY <1>6, <3>1
    <3> QED
      BY <1>6, <3>1, <3>2 DEF Good, InStep
  <2>2. \A n \in DOMAIN rest.files : File(rest.files[n])
    BY <1>6 DEF Good
  <2> QED
    BY <1>6, <2>1, <2>2 DEF Good
<1>11. CASE left = <<>>
  <2>1. w = Created(rest, DefaultName, None, FALSE) /\ rest.names = <<>>
    BY <1>5, <1>6, <1>11
  <2>2. Listed(Created(rest, DefaultName, None, FALSE))
    BY <1>9, <1>10, <2>1, DefaultIsListed
  <2> QED
    BY <1>4, <2>1, <2>2
<1>12. CASE left # <<>> /\ s.current = name
  <2>1. PICK k : k = IF at <= Len(left) THEN at ELSE Len(left)
    OBVIOUS
  <2>2. k \in 1..Len(left)
    <3>1. at \in DOMAIN s.names
      <4>1. \E i \in 1..Len(s.names) : s.names[i] = name
        BY DEF Listed, Catalogued, Lists
      <4>2. DOMAIN s.names = 1..Len(s.names)
        BY DEF Listed, Catalogued, Lists
      <4> QED
        BY <1>1, <4>1, <4>2
    <3>2. at \in 1..Len(s.names)
      BY <3>1 DEF Listed, Catalogued, Lists
    <3>3. Len(s.names) \in Nat
      BY DEF Listed, Catalogued, Lists
    <3>4. Len(left) \in Nat /\ Len(left) # 0
      BY <1>8, <1>12 DEF Lists
    <3> QED
      BY <2>1, <3>2, <3>3, <3>4
  <2>3. left[k] \in DOMAIN rest.tables
    BY <1>7, <1>8, <2>2 DEF Lists
  <2>4. w = [rest EXCEPT !.current = left[k]]
    BY <1>5, <1>12, <2>1
  <2>5. /\ w.names = rest.names /\ w.tables = rest.tables /\ w.dirty = rest.dirty
        /\ w.files = rest.files /\ w.unwritten = rest.unwritten /\ w.current = left[k]
    BY <1>6, <2>4 DEF Members
  <2> QED
    BY <1>4, <1>9, <2>3, <2>5 DEF Listed, Catalogued
<1>13. CASE left # <<>> /\ s.current # name
  BY <1>4, <1>5, <1>6, <1>7, <1>9, <1>13 DEF Listed
<1> QED
  BY <1>11, <1>12, <1>13

\* What a launch finds is what the directory holds, in the order it is told.
Finds(o, files, unwritten, D, listed, current) ==
  /\ Listed(o)
  /\ DOMAIN files # {} =>
       /\ o.unwritten = unwritten
       /\ o.tables = [name \in DOMAIN files |-> FromJson(files[name])]
       /\ D = DOMAIN files => o.names = listed /\ (current \in D => o.current = current)
  /\ DOMAIN files = {} => o.names = <<DefaultName>> /\ o.current = DefaultName
                          /\ o.unwritten = unwritten \ {DefaultName}

LEMMA OpenedFinds ==
  ASSUME NEW files, \A name \in DOMAIN files : File(files[name]), DOMAIN files \subseteq Names,
         NEW unwritten, NEW D, NEW listed, Lists(listed, D), NEW current
  PROVE  Finds(Opened(files, unwritten, listed, current), files, unwritten, D, listed, current)
<1>1. PICK first, others, names :
        /\ first = Among(listed, DOMAIN files)
        /\ others = Among(NameOrder, DOMAIN files \ ToSet(first))
        /\ names = first \o others
  OBVIOUS
<1>2. listed \in Seq(Names) /\ NameOrder \in Seq(Names)
  BY NamesAssumption DEF Lists, Names
<1>3. KeptOf(first, listed, Len(listed), DOMAIN files, Names)
  BY <1>1, <1>2, AmongIs
<1>4. KeptOf(others, NameOrder, Len(NameOrder), DOMAIN files \ ToSet(first), Names)
  BY <1>1, <1>2, AmongIs
<1>5. Lists(first, DOMAIN files \cap D)
  <2>1. first \in Seq(Names)
    BY <1>3 DEF KeptOf
  <2>2. \A i, j \in 1..Len(first) : first[i] = first[j] => i = j
    BY <1>3 DEF KeptOf, Lists
  <2>3. \A x : (\E i \in 1..Len(first) : first[i] = x) <=> x \in DOMAIN files \cap D
    BY <1>3 DEF KeptOf, Lists
  <2> QED
    BY <2>1, <2>2, <2>3 DEF Lists
<1>6. ToSet(first) = DOMAIN files \cap D
  BY <1>5, ListsIsSet
<1>7. Lists(others, DOMAIN files \ D)
  <2>1. others \in Seq(Names)
    BY <1>4 DEF KeptOf
  <2>2. \A i, j \in 1..Len(others) : others[i] = others[j] => i = j
    BY <1>4, NamesAssumption DEF KeptOf
  <2>3. \A x \in Names : \E i \in 1..Len(NameOrder) : NameOrder[i] = x
    <3>1. DOMAIN NameOrder = 1..Len(NameOrder)
      BY <1>2
    <3> QED
      BY <3>1 DEF Names, ToSet
  <2>4. \A x : (\E i \in 1..Len(others) : others[i] = x) <=> x \in DOMAIN files \ D
    <3>1. \A x : (\E i \in 1..Len(others) : others[i] = x)
                   <=> (x \in DOMAIN files \ ToSet(first) /\ \E i \in 1..Len(NameOrder) : NameOrder[i] = x)
      BY <1>4 DEF KeptOf
    <3> QED
      BY <1>6, <2>3, <3>1
  <2> QED
    BY <2>1, <2>2, <2>4 DEF Lists
<1>8. Lists(names, DOMAIN files)
  <2>1. (DOMAIN files \cap D) \cap (DOMAIN files \ D) = {}
    OBVIOUS
  <2>2. Lists(names, (DOMAIN files \cap D) \cup (DOMAIN files \ D))
    BY <1>1, <1>5, <1>7, <2>1, ConcatLists
  <2>3. (DOMAIN files \cap D) \cup (DOMAIN files \ D) = DOMAIN files
    OBVIOUS
  <2> QED
    BY <2>2, <2>3
<1>9. PICK s : s = [names |-> names, tables |-> [name \in DOMAIN files |-> FromJson(files[name])],
                    current |-> current, dirty |-> {}, settled |-> TRUE,
                    files |-> files, unwritten |-> unwritten]
  OBVIOUS
<1>10. PICK o : o = Opened(files, unwritten, listed, current)
  OBVIOUS
<1>11. o = IF names = <<>> THEN Created(s, DefaultName, None, FALSE)
           ELSE [s EXCEPT !.current = IF current \in ToSet(names) THEN current ELSE names[1]]
  BY <1>1, <1>9, <1>10 DEF Opened
<1>12. /\ Members(s) /\ s.names = names /\ s.dirty = {} /\ s.files = files
       /\ s.unwritten = unwritten
       /\ s.tables = [name \in DOMAIN files |-> FromJson(files[name])]
  BY <1>9 DEF Members
<1>13. Good(s)
  <2>1. ASSUME NEW n \in DOMAIN s.tables PROVE Table(s.tables[n]) /\ InStep(s, n)
    BY <1>12, ReadIsTable DEF InStep
  <2> QED
    BY <1>12, <2>1 DEF Good
<1>14. DOMAIN s.tables = DOMAIN files /\ Catalogued(s)
  <2>1. DOMAIN s.tables = DOMAIN files
    BY <1>12
  <2> QED
    BY <1>8, <1>12, <2>1 DEF Catalogued
<1>15. names = <<>> <=> DOMAIN files = {}
  <2>1. names \in Seq(Names) /\ Len(names) \in Nat
    BY <1>8 DEF Lists
  <2>2. ASSUME names = <<>> PROVE DOMAIN files = {}
    <3>1. Len(names) = 0
      BY <2>2
    <3>2. \A i : i \notin 1..Len(names)
      BY <3>1
    <3> QED
      BY <1>8, <3>2 DEF Lists
  <2>3. ASSUME names # <<>> PROVE DOMAIN files # {}
    <3>1. 1 \in 1..Len(names)
      BY <2>1, <2>3
    <3> QED
      BY <1>8, <3>1 DEF Lists
  <2> QED
    BY <2>2, <2>3
<1>16. CASE DOMAIN files = {}
  <2>1. o = Created(s, DefaultName, None, FALSE) /\ s.names = <<>>
    BY <1>11, <1>12, <1>15, <1>16
  <2>2. /\ Listed(o) /\ o.names = <<DefaultName>> /\ o.current = DefaultName
        /\ o.unwritten = s.unwritten \ {DefaultName}
    BY <1>13, <1>14, <2>1, DefaultIsListed
  <2> QED
    BY <1>10, <1>12, <1>16, <2>2 DEF Finds
<1>17. CASE DOMAIN files # {}
  <2>1. PICK now : now = IF current \in ToSet(names) THEN current ELSE names[1]
    OBVIOUS
  <2>2. o = [s EXCEPT !.current = now]
    BY <1>11, <1>15, <1>17, <2>1
  <2>3. /\ o.names = names /\ o.tables = s.tables /\ o.dirty = s.dirty /\ o.files = s.files
        /\ o.unwritten = unwritten /\ o.current = now
    BY <1>12, <2>2 DEF Members
  <2>4. ToSet(names) = DOMAIN files
    BY <1>8, ListsIsSet
  <2>5. now \in DOMAIN files
    <3>1. 1 \in 1..Len(names)
      BY <1>8, <1>15, <1>17 DEF Lists
    <3>2. names[1] \in DOMAIN files
      BY <1>8, <3>1 DEF Lists
    <3> QED
      BY <2>1, <2>4, <3>2
  <2>6. Listed(o)
    BY <1>12, <1>14, <2>3, <2>5 DEF Listed, Catalogued
  <2>7. ASSUME D = DOMAIN files PROVE names = listed /\ (current \in D => now = current)
    <3>1. first = SubSeq(listed, 1, Len(listed))
      BY <1>3, <2>7 DEF KeptOf, Lists
    <3>2. first = listed
      BY <1>2, <3>1
    <3>3. others = <<>>
      <4>1. others \in Seq(Names) /\ Len(others) \in Nat
        BY <1>7 DEF Lists
      <4>2. 1 \notin 1..Len(others)
        BY <1>7, <2>7 DEF Lists
      <4>3. Len(others) = 0
        BY <4>1, <4>2
      <4> QED
        BY <4>1, <4>3
    <3>4. names = listed
      <4>1. names = listed \o <<>> /\ listed \in Seq(Names)
        BY <1>1, <1>2, <3>2, <3>3
      <4> QED
        BY <4>1, ConcatEmptySeq
    <3> QED
      BY <2>1, <2>4, <2>7, <3>4
  <2> QED
    BY <1>10, <1>12, <1>17, <2>3, <2>6, <2>7 DEF Finds
<1> QED
  BY <1>16, <1>17

-----------------------------------------------------------------------------
(* The rows of the map.                                                    *)

\* Every row is rated by table t.
Rated(m, t) ==
  /\ m = [item |-> m.item, rows |-> m.rows] /\ m.item \in {0} \cup DOMAIN Maps
  /\ IsFiniteSet(DOMAIN m.rows)
  /\ \A i \in DOMAIN m.rows : IsFiniteSet(m.rows[i].refs) /\ m.rows[i] = Row(m.rows[i].refs, t)

LEMMA NothingIsUnrated == ASSUME NEW t, Table(t) PROVE VerdictOf(t, {}) = Unrated
<1>1. PICK b : Heaviest(b, Covering(t, {}), t) /\ VerdictOf(t, {}) = b.verdict
  BY VerdictIsHeaviest
<1>2. Covering(t, {}) = {}
  BY DEF Covering, Table
<1> QED
  BY <1>1, <1>2 DEF Heaviest, NothingYet

\* Read again, the rows are rated by the table that is in use now.
LEMMA RereadIsRated ==
  ASSUME NEW m, NEW t, Table(t), Rated(m, t), NEW s, Table(s.tables[s.current])
  PROVE  Rated(Reread(m, s), s.tables[s.current])
<1>1. PICK u : u = s.tables[s.current]
  OBVIOUS
<1>2. PICK rows : rows = [i \in DOMAIN m.rows |->
                            IF Rateable(m.rows[i]) THEN Row(m.rows[i].refs, u) ELSE m.rows[i]]
  OBVIOUS
<1>3. Reread(m, s) = [item |-> m.item, rows |-> rows]
  <2>1. PICK item, old : m = [item |-> item, rows |-> old]
    BY DEF Rated
  <2>2. Reread(m, s) = [m EXCEPT !.rows = rows]
    BY <1>1, <1>2 DEF Reread
  <2> QED
    BY <2>1, <2>2
<1>4. ASSUME NEW i \in DOMAIN m.rows
      PROVE  IsFiniteSet(rows[i].refs) /\ rows[i] = Row(rows[i].refs, u)
  <2>1. PICK refs : refs = m.rows[i].refs
    OBVIOUS
  <2>2. IsFiniteSet(refs) /\ m.rows[i] = Row(refs, t)
    BY <2>1 DEF Rated
  <2>3. Row(refs, u).refs = refs
    BY DEF Row
  <2>4. CASE Rateable(m.rows[i])
    <3>1. rows[i] = Row(refs, u)
      BY <1>2, <2>1, <2>4
    <3> QED
      BY <2>2, <2>3, <3>1
  <2>5. CASE ~Rateable(m.rows[i])
    <3>1. refs = {}
      BY <2>1, <2>5 DEF Rateable
    <3>2. VerdictOf(t, {}) = VerdictOf(u, {})
      BY <1>1, NothingIsUnrated
    <3>3. Row(refs, t) = Row(refs, u)
      BY <3>1, <3>2 DEF Row
    <3>4. rows[i] = Row(refs, u)
      BY <1>2, <2>2, <2>5, <3>3
    <3> QED
      BY <2>2, <2>3, <3>4
  <2> QED
    BY <2>4, <2>5
<1>5. DOMAIN rows = DOMAIN m.rows
  BY <1>2
<1>6. PICK r : r = Reread(m, s)
  OBVIOUS
<1>7. r.item = m.item /\ r.rows = rows
  BY <1>3, <1>6
<1>8. Rated(r, u)
  BY <1>3, <1>4, <1>5, <1>6, <1>7 DEF Rated
<1> QED
  BY <1>1, <1>6, <1>8

\* Built anew, whatever the bundle, they are too.
LEMMA RebuiltIsRated ==
  ASSUME NEW item \in DOMAIN Maps, NEW b \in 0..Len(Bundles), NEW s
  PROVE  Rated(Rebuilt(item, b, s), s.tables[s.current])
<1>1. PICK u, data0, printed, domain :
        /\ u = s.tables[s.current] /\ data0 = GameData(b)
        /\ printed = Grouped(Maps[item].mods) /\ domain = MapDomainOf(Maps[item], data0)
  OBVIOUS
<1>2. PICK rows, blank : rows = Rate(Maps[item], u, data0) /\ blank = Rate(Maps[item], NoTable, data0)
  OBVIOUS
<1>3. rows = [i \in DOMAIN printed |-> Row(PoolRefsFor(printed[i], domain, data0), u)]
  BY <1>1, <1>2 DEF Rate
<1>4. blank = [i \in DOMAIN printed |-> Row(PoolRefsFor(printed[i], domain, data0), NoTable)]
  BY <1>1, <1>2 DEF Rate
<1>5. IsFiniteSet(DOMAIN blank) /\ \A i \in DOMAIN blank : IsFiniteSet(blank[i].refs)
  BY <1>1, <1>2, RowsAssumption
<1>6. \A refs, t : Row(refs, t).refs = refs
  BY DEF Row
<1>7. DOMAIN rows = DOMAIN blank
  BY <1>3, <1>4
<1>8. ASSUME NEW i \in DOMAIN rows PROVE IsFiniteSet(rows[i].refs) /\ rows[i] = Row(rows[i].refs, u)
  <2>1. PICK refs : refs = PoolRefsFor(printed[i], domain, data0)
    OBVIOUS
  <2>2. i \in DOMAIN printed
    BY <1>3
  <2>3. rows[i] = Row(refs, u) /\ blank[i] = Row(refs, NoTable)
    BY <1>3, <1>4, <2>1, <2>2
  <2>4. rows[i].refs = refs /\ blank[i].refs = refs
    BY <1>6, <2>3
  <2> QED
    BY <1>5, <1>7, <2>3, <2>4
<1>9. PICK r : r = Rebuilt(item, b, s)
  OBVIOUS
<1>10. r = [item |-> item, rows |-> rows]
  BY <1>1, <1>2, <1>9 DEF Rebuilt
<1>11. r.item = item /\ r.rows = rows
  BY <1>10
<1>12. Rated(r, u)
  BY <1>5, <1>7, <1>8, <1>10, <1>11 DEF Rated
<1> QED
  BY <1>1, <1>9, <1>12

LEMMA NoMapIsRated == ASSUME NEW t PROVE Rated(NoMap, t)
<1>1. NoMap.item = 0 /\ NoMap.rows = <<>> /\ DOMAIN <<>> = {}
  BY DEF NoMap
<1> QED
  BY <1>1, FS_EmptySet DEF Rated, NoMap

-----------------------------------------------------------------------------
(* The list in Settings.                                                   *)

\* The list is one of affixes.
Affixed(p) ==
  /\ p = [view |-> p.view, filter |-> p.filter, data |-> p.data, stale |-> p.stale]
  /\ \A g \in ToSet(p.view) : IsFiniteSet(g.refs) /\ "" \notin g.refs

\* What is proposed is what the list lights.
Lights(p, e) == {g.refs : g \in ToSet(p.view)} = DOMAIN e.proposal
Shown(p, e) == Affixed(p) /\ (Proposing(e) => ~p.stale /\ Lights(p, e))

Affixes(b) == {g.refs : g \in ToSet(Groups[b])}

\* Rows are of the affixes of their groups, as many and in their order.
LEMMA RowsOfGroups ==
  ASSUME NEW X, NEW groups \in Seq(X)
  PROVE  /\ Rows(groups) \in Seq(ToSet(Rows(groups))) /\ Len(Rows(groups)) = Len(groups)
         /\ \A i \in 1..Len(groups) : Rows(groups)[i].refs = groups[i].refs
<1>1. PICK n \in Nat : n = Len(groups)
  OBVIOUS
<1>2. DOMAIN groups = 1..n
  BY <1>1
<1>3. PICK rows : rows = Rows(groups)
  OBVIOUS
<1>4. rows = [i \in 1..n |-> [of |-> groups[i].of, refs |-> groups[i].refs]]
  BY <1>2, <1>3 DEF Rows
<1>5. DOMAIN rows = 1..n /\ \A i \in 1..n : rows[i] \in ToSet(rows) /\ rows[i].refs = groups[i].refs
  BY <1>4 DEF ToSet
<1>6. rows \in Seq(ToSet(rows)) /\ Len(rows) = n
  BY <1>4, <1>5
<1> QED
  BY <1>1, <1>3, <1>5, <1>6

LEMMA GroupsAreAffixes ==
  ASSUME NEW b \in 0..Len(Bundles)
  PROVE  \A i \in 1..Len(Groups[b]) : /\ Groups[b][i] \in ToSet(Groups[b])
                                      /\ IsFiniteSet(Groups[b][i].refs) /\ "" \notin Groups[b][i].refs
<1>1. PICK gs, X : gs = Groups[b] /\ X = ToSet(gs)
  OBVIOUS
<1>2. gs \in Seq(X)
  BY <1>1, GroupsAssumption
<1>3. \A i \in 1..Len(gs) : gs[i] \in X
  BY <1>2
<1>4. \A g \in X : IsFiniteSet(g.refs) /\ "" \notin g.refs
  BY <1>1, GroupsAssumption
<1> QED
  BY <1>1, <1>3, <1>4

\* What a search leaves.
LEMMA LeftIsAffixes ==
  ASSUME NEW b \in 0..Len(Bundles), NEW text \in DOMAIN Searches
  PROVE  \A g \in ToSet(Left[b][text]) : IsFiniteSet(g.refs) /\ "" \notin g.refs
<1>1. PICK S : Left[b][text] = Rows(Among(Groups[b], S))
  <2> DEFINE filter == SearchFilter(Searches[text])
             S == {g \in ToSet(Groups[b]) : Matches(filter, Lines[b][g])}
  <2>1. Left[b][text] = Rows(Among(Groups[b], S))
    BY DEF Left
  <2> HIDE DEF S
  <2> QED
    BY <2>1
<1>2. PICK kept, X : kept = Among(Groups[b], S) /\ X = ToSet(Groups[b])
  OBVIOUS
<1>3. Groups[b] \in Seq(X)
  BY <1>2, GroupsAssumption
<1>4. KeptOf(kept, Groups[b], Len(Groups[b]), S, X)
  BY <1>2, <1>3, AmongIs
<1>5. kept \in Seq(X)
  BY <1>4 DEF KeptOf
<1>6. \A i \in 1..Len(kept) : IsFiniteSet(kept[i].refs) /\ "" \notin kept[i].refs
  BY <1>4, GroupsAreAffixes DEF KeptOf
<1>7. PICK rows : rows = Rows(kept)
  OBVIOUS
<1>8. /\ DOMAIN rows = 1..Len(kept)
      /\ \A i \in 1..Len(kept) : rows[i].refs = kept[i].refs
  <2>1. rows \in Seq(ToSet(rows)) /\ Len(rows) = Len(kept)
        /\ \A i \in 1..Len(kept) : rows[i].refs = kept[i].refs
    BY <1>5, <1>7, RowsOfGroups
  <2> QED
    BY <2>1
<1>9. ASSUME NEW g \in ToSet(rows) PROVE IsFiniteSet(g.refs) /\ "" \notin g.refs
  <2>1. PICK i \in DOMAIN rows : g = rows[i]
    BY DEF ToSet
  <2> QED
    BY <1>6, <1>8, <2>1
<1> QED
  BY <1>1, <1>2, <1>7, <1>9

\* What a proposal leaves: the rows it is about, every one of them.
LEMMA ProposedIsAffixes ==
  ASSUME NEW b \in 0..Len(Bundles), NEW p
  PROVE  /\ \A g \in ToSet(Proposed(b, p)) : IsFiniteSet(g.refs) /\ "" \notin g.refs
         /\ DOMAIN p \subseteq Affixes(b) => {g.refs : g \in ToSet(Proposed(b, p))} = DOMAIN p
<1>1. PICK rows, X, Y :
        rows = Rows(Groups[b]) /\ X = ToSet(Groups[b]) /\ Y = ToSet(Rows(Groups[b]))
  OBVIOUS
<1>2. PICK S : S = {g \in Y : g.refs \in DOMAIN p}
  OBVIOUS
<1>3. PICK kept : kept = Proposed(b, p)
  OBVIOUS
<1>4. kept = Among(rows, S)
  BY <1>1, <1>2, <1>3 DEF Proposed
<1>5. Groups[b] \in Seq(X)
  BY <1>1, GroupsAssumption
<1>6. /\ rows \in Seq(Y) /\ Len(rows) = Len(Groups[b])
      /\ \A i \in 1..Len(rows) : rows[i].refs = Groups[b][i].refs
  BY <1>1, <1>5, RowsOfGroups
<1>7. KeptOf(kept, rows, Len(rows), S, Y)
  BY <1>4, <1>6, AmongIs
<1>8. DOMAIN kept = 1..Len(kept)
  BY <1>7 DEF KeptOf
<1>9. ASSUME NEW g \in ToSet(kept)
      PROVE  IsFiniteSet(g.refs) /\ "" \notin g.refs /\ g.refs \in DOMAIN p
  <2>1. PICK i \in 1..Len(kept) : g = kept[i]
    BY <1>8 DEF ToSet
  <2>2. PICK j \in 1..Len(rows) : g = rows[j] /\ g \in S
    BY <1>7, <2>1 DEF KeptOf
  <2> QED
    BY <1>2, <1>6, <2>2, GroupsAreAffixes
<1>10. ASSUME DOMAIN p \subseteq Affixes(b), NEW key \in DOMAIN p
       PROVE  \E g \in ToSet(kept) : g.refs = key
  <2>1. PICK h \in X : h.refs = key
    BY <1>1, <1>10 DEF Affixes
  <2>2. PICK j \in 1..Len(rows) : h = Groups[b][j]
    <3>1. DOMAIN Groups[b] = 1..Len(Groups[b])
      BY <1>5
    <3> QED
      BY <1>1, <1>6, <3>1 DEF ToSet
  <2>3. rows[j] \in Y /\ rows[j].refs = key
    BY <1>6, <2>1, <2>2
  <2>4. rows[j] \in S
    BY <1>2, <2>3
  <2>5. PICK i \in 1..Len(kept) : kept[i] = rows[j]
    BY <1>7, <2>4 DEF KeptOf
  <2>6. kept[i] \in ToSet(kept)
    BY <1>8 DEF ToSet
  <2> QED
    BY <2>3, <2>5, <2>6
<1>11. DOMAIN p \subseteq Affixes(b) => {g.refs : g \in ToSet(kept)} = DOMAIN p
  BY <1>9, <1>10
<1> QED
  BY <1>3, <1>9, <1>11

\* What a frame draws (App::map_pool_view).
LEMMA DrawnIsShown ==
  ASSUME NEW p, NEW e, NEW b \in 0..Len(Bundles), e.filter \in DOMAIN Searches, Affixed(p),
         Proposing(e) => IF p.stale THEN DOMAIN e.proposal \subseteq Affixes(b) ELSE Lights(p, e)
  PROVE  Shown(MapPoolView(p, e, b), e)
<1>1. PICK w : w = MapPoolView(p, e, b)
  OBVIOUS
<1>2. CASE w = p /\ (Proposing(e) => ~p.stale)
  BY <1>1, <1>2 DEF Shown
<1>3. CASE Proposing(e) /\ p.stale
  <2>1. PICK view : view = Proposed(b, e.proposal)
    OBVIOUS
  <2>2. w = [p EXCEPT !.view = view, !.stale = FALSE]
    BY <1>1, <1>3, <2>1 DEF MapPoolView
  <2>3. w.view = view /\ w.stale = FALSE
        /\ w = [view |-> w.view, filter |-> w.filter, data |-> w.data, stale |-> w.stale]
    BY <2>2 DEF Affixed
  <2> QED
    BY <1>1, <1>3, <2>1, <2>3, ProposedIsAffixes DEF Shown, Affixed, Lights
<1>4. CASE ~Proposing(e) /\ w = [view |-> Left[b][e.filter], filter |-> e.filter, data |-> b,
                                 stale |-> FALSE]
  <2>1. PICK view, text : text = e.filter /\ view = Left[b][text]
    OBVIOUS
  <2>2. w = [view |-> view, filter |-> text, data |-> b, stale |-> FALSE]
    BY <1>4, <2>1
  <2>3. w.view = view /\ w = [view |-> w.view, filter |-> w.filter, data |-> w.data, stale |-> w.stale]
    BY <2>2
  <2> QED
    BY <1>1, <1>4, <2>1, <2>3, LeftIsAffixes DEF Shown, Affixed
<1> QED
  BY <1>1, <1>2, <1>3, <1>4 DEF MapPoolView

LEMMA ImageIsFinite == ASSUME NEW S, IsFiniteSet(S), NEW f PROVE IsFiniteSet({f[x] : x \in S})
<1> DEFINE T == {f[x] : x \in S}
           g == [x \in S |-> f[x]]
<1>1. g \in [S -> T] /\ \A t \in T : \E x \in S : g[x] = t
  OBVIOUS
<1> HIDE DEF g, T
<1>2. g \in Surjection(S, T)
  BY <1>1 DEF Surjection
<1>3. IsFiniteSet(T)
  BY <1>2, FS_Surjection
<1> QED
  BY <1>3 DEF T

\* What the button proposes is a table, and of the affixes of the pool.
LEMMA ProposalIsTable ==
  ASSUME NEW b \in 0..Len(Bundles), NEW text
  PROVE  Table(Proposal(b, text)) /\ DOMAIN Proposal(b, text) \subseteq Affixes(b)
<1> DEFINE hits == {g \in ToSet(Groups[b]) : Hit(b, text)[g] # "None"}
           keys == {g.refs : g \in hits}
           p == Proposal(b, text)
<1>1. ASSUME NEW key \in keys PROVE key # {} /\ "" \notin key /\ IsFiniteSet(key) /\ key \in Affixes(b)
  <2>1. PICK g \in hits : g.refs = key
    OBVIOUS
  <2> QED
    BY <2>1, GroupsAssumption DEF Affixes
<1>2. p = [key \in keys |-> IF \E g \in hits : g.refs = key /\ Hit(b, text)[g] = "Unwanted"
                           THEN Deadly ELSE Safe]
  BY DEF Proposal
<1>3. IsFiniteSet(keys)
  <2>1. Groups[b] \in Seq(ToSet(Groups[b]))
    BY GroupsAssumption
  <2>2. IsFiniteSet(DOMAIN Groups[b])
    <3>1. DOMAIN Groups[b] = 1..Len(Groups[b]) /\ Len(Groups[b]) \in Nat
      BY <2>1
    <3> QED
      BY <3>1, FS_Interval
  <2>3. IsFiniteSet(ToSet(Groups[b]))
    <3>1. ToSet(Groups[b]) = {Groups[b][i] : i \in DOMAIN Groups[b]}
      BY DEF ToSet
    <3>2. IsFiniteSet({Groups[b][i] : i \in DOMAIN Groups[b]})
      BY <2>2, ImageIsFinite
    <3> QED
      BY <3>1, <3>2
  <2>4. IsFiniteSet(hits)
    <3>1. hits \subseteq ToSet(Groups[b])
      OBVIOUS
    <3> HIDE DEF hits
    <3> QED
      BY <2>3, <3>1, FS_Subset
  <2> HIDE DEF hits
  <2> DEFINE refsOf == [g \in hits |-> g.refs]
  <2>5. IsFiniteSet({refsOf[g] : g \in hits})
    BY <2>4, ImageIsFinite
  <2>6. {refsOf[g] : g \in hits} = {g.refs : g \in hits}
    OBVIOUS
  <2> QED
    BY <2>5, <2>6
<1> HIDE DEF hits, keys, p
<1>4. DOMAIN p = keys /\ \A key \in keys : p[key] = Deadly \/ p[key] = Safe
  BY <1>2
<1>5. p = [key \in DOMAIN p |-> p[key]]
  BY <1>2
<1>6. \A key \in keys : p[key] \in Verdicts \ {Unrated}
  BY <1>4 DEF Deadly, Safe, Unrated, Verdicts
<1>7. Table(p) /\ DOMAIN p \subseteq Affixes(b)
  BY <1>1, <1>3, <1>4, <1>5, <1>6 DEF Table
<1> QED
  BY <1>7 DEF p

\* Without a pool there is nothing to propose.
LEMMA NoPoolNoProposal ==
  ASSUME NEW b \in 0..Len(Bundles), ~HasPools(GameData(b)) PROVE Affixes(b) = {}
<1>1. Groups[b] = <<>>
  BY GroupsAssumption
<1>2. ToSet(<<>>) = {}
  BY DEF ToSet
<1> QED
  BY <1>1, <1>2 DEF Affixes

-----------------------------------------------------------------------------
(* The invariant.                                                          *)

UpWhileDirty(s, up) == s.dirty # {} => up \in {"MapCheck", "Settings"}

Held == /\ Good(store) /\ Listed(store)
        /\ edit = [filter |-> edit.filter, proposal |-> edit.proposal]
        /\ Table(edit.proposal) /\ edit.filter \in DOMAIN Searches
        /\ data \in 0..Len(Bundles)
        /\ screen \in {"Hidden", "MapCheck", "Settings"}
        /\ UpWhileDirty(store, screen)
        /\ Rated(map, store.tables[store.current])
        /\ Shown(pool, edit)

\* config.json has the fields of the settings, and lists profiles, each once.
Fields(c) == c = [names |-> c.names, current |-> c.current, other |-> c.other]
ListKept == \E D : Lists(saved.names, D)

LEMMA TableInUse == ASSUME NEW s, Good(s), Listed(s) PROVE Table(s.tables[s.current])
  BY DEF Good, Listed

LEMMA ClearedIs ==
  ASSUME NEW e, e = [filter |-> e.filter, proposal |-> e.proposal]
  PROVE  /\ Cleared(e) = [filter |-> e.filter, proposal |-> NoProposal]
         /\ Cleared(e).filter = e.filter /\ Cleared(e).proposal = NoProposal /\ ~Proposing(Cleared(e))
<1>1. PICK f, p : e = [filter |-> f, proposal |-> p]
  OBVIOUS
<1>2. Cleared(e) = [filter |-> f, proposal |-> NoProposal] /\ e.filter = f
  BY <1>1 DEF Cleared
<1>3. DOMAIN NoProposal = {}
  BY DEF NoProposal
<1> QED
  BY <1>2, <1>3 DEF Proposing

LEMMA StaleIsAffixed ==
  ASSUME NEW p, Affixed(p) PROVE Affixed(Stale(p)) /\ Stale(p).stale
<1>1. PICK w : w = [p EXCEPT !.stale = TRUE]
  OBVIOUS
<1>2. /\ w = [view |-> p.view, filter |-> p.filter, data |-> p.data, stale |-> TRUE]
      /\ w.view = p.view /\ w.filter = p.filter /\ w.data = p.data /\ w.stale = TRUE
  BY <1>1 DEF Affixed
<1>3. Affixed(w)
  BY <1>2 DEF Affixed
<1> QED
  BY <1>1, <1>2, <1>3 DEF Stale

\* A frame that draws the list leaves it shown.
LEMMA RedrawsIsShown ==
  ASSUME data \in 0..Len(Bundles), NEW p, Affixed(p), NEW e, e.filter \in DOMAIN Searches,
         Proposing(e) => IF p.stale THEN DOMAIN e.proposal \subseteq Affixes(data) ELSE Lights(p, e)
  PROVE  Shown(IF HasPools(GameData(data)) THEN MapPoolView(p, e, data) ELSE p, e)
<1>1. CASE HasPools(GameData(data))
  BY <1>1, DrawnIsShown
<1>2. CASE ~HasPools(GameData(data))
  <2>1. Affixes(data) = {}
    BY <1>2, NoPoolNoProposal
  <2>2. Proposing(e) => ~p.stale /\ Lights(p, e)
    BY <2>1 DEF Proposing
  <2> QED
    BY <1>2, <2>2 DEF Shown
<1> QED
  BY <1>1, <1>2

LEMMA DrawnHolds == ASSUME Held PROVE Shown(Drawn, edit)
<1>1. Proposing(edit) => ~pool.stale /\ Lights(pool, edit)
  BY DEF Held, Shown
<1> QED
  BY <1>1, RedrawsIsShown DEF Held, Shown, Drawn

\* The first launch.
LEMMA HeldInit == Init => Held /\ ListKept
<1> SUFFICES ASSUME Init PROVE Held /\ ListKept
  OBVIOUS
<1>1. PICK files : files = [name \in {} |-> Torn]
  OBVIOUS
<1>2. DOMAIN files = {} /\ (\A name \in DOMAIN files : File(files[name])) /\ DOMAIN files \subseteq Names
  BY <1>1
<1>3. Lists(<<>>, {})
  BY DEF Lists
<1>4. store = Opened(files, {}, <<>>, "")
  BY <1>1 DEF Init
<1>5. Good(store) /\ store.dirty = {}
  BY <1>2, <1>4, OpenedIsGood
<1>6. Listed(store)
  BY <1>2, <1>3, <1>4, OpenedFinds DEF Finds
<1>7. edit = [filter |-> "", proposal |-> NoProposal] /\ screen = "Hidden" /\ data \in 0..1
      /\ map = NoMap /\ pool = [view |-> <<>>, filter |-> "", data |-> 0, stale |-> TRUE]
  BY DEF Init, Blank, NoList
<1>8. edit.filter = "" /\ edit.proposal = NoProposal
  BY <1>7
<1>9. data \in 0..Len(Bundles)
  <2>1. PICK n \in Nat \ {0} : n = Len(Bundles)
    BY BundlesAssumption
  <2>2. data \in 0..1
    BY <1>7
  <2> QED
    BY <2>1, <2>2
<1>10. Rated(map, store.tables[store.current])
  BY <1>7, NoMapIsRated
<1>11. Shown(pool, edit)
  <2>1. ToSet(<<>>) = {}
    BY DEF ToSet
  <2>2. DOMAIN NoProposal = {}
    BY DEF NoProposal
  <2> QED
    BY <1>7, <1>8, <2>1, <2>2 DEF Shown, Affixed, Proposing
<1>12. ListKept
  <2>1. saved = [Defaults EXCEPT !.names = store.names, !.current = store.current]
    BY DEF Init, Listing
  <2>2. saved.names = store.names
    BY <2>1 DEF Defaults
  <2> QED
    BY <1>6, <2>2 DEF ListKept, Listed, Catalogued
<1> QED
  BY <1>5, <1>6, <1>7, <1>8, <1>9, <1>10, <1>11, <1>12, EmptyIsTable, SearchesAssumption
     DEF Held, UpWhileDirty

\* A screen that can rate is left with nothing dirty (App::set_screen).
LEMMA SetScreenHolds ==
  ASSUME Held, NEW to \in {"Hidden", "MapCheck", "Settings"}, to # screen \/ to = "Hidden",
         SetScreen(to)
  PROVE  Good(store') /\ Listed(store') /\ SameTables(store', store) /\ store'.dirty = {}
         /\ screen' = to
<1>1. PICK F : screen' = to /\ store' = Flushes(store, to, F)
  BY DEF SetScreen
<1>2. CASE screen \in {"MapCheck", "Settings"} /\ to # screen
  <2>1. store' = Flushed(store, F)
    BY <1>1, <1>2 DEF Flushes
  <2> QED
    BY <1>1, <2>1, FlushedIsGood, FlushedIsListed DEF Held, Listed, SameTables
<1>3. CASE screen = "Hidden"
  BY <1>1, <1>3 DEF Flushes, Held, UpWhileDirty, SameTables
<1> QED
  BY <1>2, <1>3 DEF Held

\* What a launch may be given: files of ours, and one of the names.
Found(files) == DOMAIN files \subseteq Names /\ \A name \in DOMAIN files : File(files[name])

LEMMA QuitFinds == ASSUME Held, NEW F PROVE Found(Flushed(store, F).files)
<1>1. Good(Flushed(store, F)) /\ Catalogued(Flushed(store, F))
  BY FlushedIsGood, FlushedIsListed DEF Held, Listed
<1> QED
  BY <1>1 DEF Found, Good, Catalogued

LEMMA KillFinds ==
  ASSUME Held, NEW T \in SUBSET store.dirty
  PROVE  /\ Found(Over([name \in T |-> Torn], store.files))
         /\ DOMAIN Over([name \in T |-> Torn], store.files) = T \cup DOMAIN store.files
         /\ \A name \in DOMAIN store.files \ T :
              Over([n \in T |-> Torn], store.files)[name] = store.files[name]
<1>1. PICK files : files = Over([name \in T |-> Torn], store.files)
  OBVIOUS
<1>2. DOMAIN files = T \cup DOMAIN store.files
  BY <1>1 DEF Over
<1>3. \A name \in DOMAIN files : files[name] = IF name \in T THEN Torn ELSE store.files[name]
  BY <1>1 DEF Over
<1>4. T \subseteq Names /\ DOMAIN store.files \subseteq Names
  BY DEF Held, Listed, Catalogued, Lists
<1>5. \A name \in DOMAIN files : File(files[name])
  BY <1>2, <1>3 DEF File, Held, Good
<1> QED
  BY <1>1, <1>2, <1>3, <1>4, <1>5 DEF Found

\* A file that was cut lists no profiles, each of them once.
LEMMA DefaultsList == Fields(Defaults) /\ Defaults.names = <<>> /\ Lists(Defaults.names, {})
<1>1. Defaults.names = <<>> /\ Fields(Defaults)
  BY DEF Defaults, Fields
<1> QED
  BY <1>1 DEF Lists

\* The next launch, after whatever end.
LEMMA LaunchHolds ==
  ASSUME Held, NEW files, Found(files), NEW unwritten, NEW onDisk, NEW faults,
         \E D : Lists(onDisk.names, D), Launch(files, unwritten, onDisk, faults)
  PROVE  Held'
<1>1. store' = Opened(files, unwritten, onDisk.names, onDisk.current)
  BY DEF Launch
<1>2. PICK D : Lists(onDisk.names, D)
  OBVIOUS
<1>3. Good(store') /\ store'.dirty = {}
  BY <1>1, OpenedIsGood DEF Found
<1>4. Listed(store')
  BY <1>1, <1>2, OpenedFinds DEF Found, Finds
<1>5. edit' = [filter |-> "", proposal |-> NoProposal] /\ screen' = "Hidden" /\ data' = data
      /\ map' = NoMap /\ pool' = [view |-> <<>>, filter |-> "", data |-> 0, stale |-> TRUE]
  BY DEF Launch, Blank, NoList
<1>6. Rated(map', store'.tables[store'.current])
  BY <1>5, NoMapIsRated
<1>7. edit'.filter = "" /\ edit'.proposal = NoProposal /\ pool'.view = <<>>
  BY <1>5
<1>8. Shown(pool', edit')
  <2>1. ToSet(<<>>) = {}
    BY DEF ToSet
  <2>2. DOMAIN NoProposal = {}
    BY DEF NoProposal
  <2> QED
    BY <1>5, <1>7, <2>1, <2>2 DEF Shown, Affixed, Proposing
<1> QED
  BY <1>3, <1>4, <1>5, <1>6, <1>7, <1>8, EmptyIsTable, SearchesAssumption DEF Held, UpWhileDirty

\* A step of the popup or of Settings that reads the rows again: the screen
\* and the bundle stay.
LEMMA SettingsHolds ==
  ASSUME Held, screen \in {"MapCheck", "Settings"}, Good(store'), Listed(store'),
         UNCHANGED <<screen, data>>, map' = Reread(map, store') \/ UNCHANGED <<map, store>>,
         edit' = [filter |-> edit'.filter, proposal |-> edit'.proposal],
         Table(edit'.proposal), edit'.filter \in DOMAIN Searches, Shown(pool', edit')
  PROVE  Held'
<1>1. Table(store'.tables[store'.current]) /\ Table(store.tables[store.current])
  BY TableInUse DEF Held
<1>2. Rated(map', store'.tables[store'.current])
  BY <1>1, RereadIsRated DEF Held
<1> QED
  BY <1>2 DEF Held, UpWhileDirty

\* One click on an affix.
LEMMA ClickHolds ==
  ASSUME Held, NEW refs, IsFiniteSet(refs), NEW v \in Verdicts
  PROVE  Good(SetVerdict(store, refs, v)) /\ Listed(SetVerdict(store, refs, v))
         /\ SetVerdict(store, refs, v).names = store.names
         /\ SetVerdict(store, refs, v).current = store.current
  BY SetVerdictIsGood, ReplacedIsListed DEF Held, SetVerdict

\* A proposal accepted: each of its verdicts, laid over the table in use.
LEMMA AcceptHolds ==
  ASSUME Held, NEW F, NEW w, w = Flushed(SetVerdicts(store, edit.proposal), F)
  PROVE  /\ Good(w) /\ Listed(w) /\ w.names = store.names /\ w.current = store.current
         /\ w.tables[w.current] = Over(edit.proposal, store.tables[store.current])
<1>1. PICK t : t = Over(edit.proposal, store.tables[store.current])
  OBVIOUS
<1>2. PICK s : s = Replaced(store, t)
  OBVIOUS
<1>3. w = Flushed(s, F)
  BY <1>1, <1>2 DEF SetVerdicts
<1>4. Good(s)
  BY <1>1, <1>2, SetVerdictsIsGood DEF Held, SetVerdicts
<1>5. Listed(s) /\ s.tables[store.current] = t /\ s.names = store.names /\ s.current = store.current
  BY <1>2, ReplacedIsListed DEF Held
<1>6. Good(w) /\ Catalogued(w) /\ SameTables(w, s)
  BY <1>3, <1>4, <1>5, FlushedIsGood, FlushedIsListed DEF Listed
<1> QED
  BY <1>1, <1>5, <1>6 DEF SameTables, Listed

\* Another profile picked, what was dirty flushed before.
LEMMA SelectListed ==
  ASSUME Held, NEW name \in Names, SelectProfile(name)
  PROVE  Good(store') /\ Listed(store') /\ store'.dirty = {}
         /\ store'.names = store.names /\ store'.current = name
<1>1. PICK F : store' = [Flushed(store, F) EXCEPT !.current = name]
  BY DEF SelectProfile
<1>2. name \in DOMAIN store.tables
  BY ListsIsSet DEF SelectProfile, Held, Listed, Catalogued
<1>3. PICK s : s = Flushed(store, F)
  OBVIOUS
<1>4. Good(s) /\ s.dirty = {} /\ Catalogued(s) /\ SameTables(s, store)
  BY <1>3, FlushedIsGood, FlushedIsListed DEF Held, Listed
<1>5. PICK w : w = store' /\ w = [s EXCEPT !.current = name]
  BY <1>1, <1>3
<1>6. /\ w.names = s.names /\ w.tables = s.tables /\ w.dirty = s.dirty /\ w.files = s.files
      /\ w.unwritten = s.unwritten /\ w.current = name
  BY <1>4, <1>5 DEF Good, Members
<1>7. Good(w)
  BY <1>4, <1>5, SettledIsGood
<1>8. Listed(w) /\ w.names = store.names
  BY <1>2, <1>4, <1>6 DEF Listed, Catalogued, SameTables
<1> QED
  BY <1>4, <1>5, <1>6, <1>7, <1>8

\* No step of the map check breaks it.
LEMMA HeldStep == ASSUME Held, ListKept, [Next]_vars PROVE Held'
<1>0. Table(store.tables[store.current]) /\ Shown(pool, edit) /\ Affixed(pool) /\ Shown(Drawn, edit)
  BY TableInUse, DrawnHolds DEF Held, Shown
<1>c. PICK none : none = Cleared(edit)
  OBVIOUS
<1>d. /\ none = [filter |-> edit.filter, proposal |-> NoProposal] /\ none.filter = edit.filter
      /\ none.proposal = NoProposal /\ ~Proposing(none) /\ none.filter \in DOMAIN Searches
      /\ none = [filter |-> none.filter, proposal |-> none.proposal] /\ Table(none.proposal)
  BY <1>c, ClearedIs, EmptyIsTable DEF Held
<1>s. PICK old : old = Stale(pool) /\ Affixed(old) /\ old.stale
  BY <1>0, StaleIsAffixed
<1>1. CASE UNCHANGED vars
  BY <1>1 DEF vars, Held
<1>2. CASE Close
  BY <1>2, SetScreenHolds DEF Close, UpWhileDirty, Held, SameTables
<1>3. CASE OpenSettings
  BY <1>3, SetScreenHolds DEF OpenSettings, UpWhileDirty, Held, SameTables
<1>4. ASSUME NEW item \in DOMAIN Maps, CheckMap(item) PROVE Held'
  <2>1. PICK to : to = IF IsRateable(Maps[item], GameData(data)) THEN "MapCheck" ELSE "Hidden"
    OBVIOUS
  <2>2. SetScreen(to) /\ screen # "MapCheck" /\ to \in {"Hidden", "MapCheck"}
        /\ UNCHANGED <<data, edit, pool>> /\ map' = Rebuilt(item, data, store)
    BY <1>4, <2>1 DEF CheckMap
  <2>3. Rated(map', store.tables[store.current])
    BY <2>2, RebuiltIsRated DEF Held
  <2>4. Good(store') /\ Listed(store') /\ SameTables(store', store) /\ store'.dirty = {} /\ screen' = to
    BY <2>2, SetScreenHolds
  <2> QED
    BY <2>2, <2>3, <2>4 DEF UpWhileDirty, Held, SameTables
<1>5. ASSUME NEW i \in DOMAIN Bundles, DataEvent(i) PROVE Held'
  <2>1. data' = i /\ UNCHANGED <<store, screen, edit, pool>>
        /\ map' = IF map.item # 0 THEN Rebuilt(map.item, i, store) ELSE map
    BY <1>5 DEF DataEvent
  <2>2. i \in 0..Len(Bundles)
    BY BundlesAssumption
  <2>3. Rated(map', store.tables[store.current])
    <3>1. CASE map.item # 0
      <4>1. map.item \in DOMAIN Maps
        BY <3>1 DEF Held, Rated
      <4> QED
        BY <2>1, <2>2, <3>1, <4>1, RebuiltIsRated
    <3>2. CASE map.item = 0
      BY <2>1, <3>2 DEF Held
    <3> QED
      BY <3>1, <3>2
  <2> QED
    BY <2>1, <2>2, <2>3 DEF Held
<1>6. ASSUME NEW i \in DOMAIN map.rows, NEW right \in BOOLEAN, RateRow(i, right) PROVE Held'
  <2>1. PICK refs, v :
          /\ refs = map.rows[i].refs
          /\ v = IF right THEN Unrated ELSE NextVerdict(map.rows[i].verdict)
          /\ store' = SetVerdict(store, refs, v)
    BY <1>6 DEF RateRow
  <2>2. IsFiniteSet(refs) /\ map.rows[i] = Row(refs, store.tables[store.current])
    BY <2>1 DEF Held, Rated
  <2>3. map.rows[i].verdict \in Verdicts
    BY <1>0, <2>2, VerdictSays DEF Row
  <2>4. v \in Verdicts
    BY <2>1, <2>3 DEF NextVerdict, Verdicts, Unrated, Deadly
  <2>5. Good(store') /\ Listed(store')
    BY <2>1, <2>2, <2>4, ClickHolds
  <2>6. UNCHANGED <<screen, data, edit, pool>> /\ map' = Reread(map, store') /\ screen = "MapCheck"
    BY <1>6 DEF RateRow
  <2> QED
    BY <2>5, <2>6, SettingsHolds DEF Held
<1>7. ASSUME NEW name \in Names, SelectProfile(name) PROVE Held'
  <2>3. Good(store') /\ Listed(store') /\ store'.dirty = {}
    BY <1>7, SelectListed
  <2>4. UNCHANGED <<screen, data, edit, pool>> /\ map' = Reread(map, store') /\ screen # "Hidden"
    BY <1>7 DEF SelectProfile
  <2> QED
    BY <2>3, <2>4, SettingsHolds DEF Held
<1>8. CASE Draw
  BY <1>0, <1>8 DEF Draw, Held
<1>9. ASSUME NEW outcome, ProfilesChanged(outcome), InSettings, Good(store'), Listed(store') PROVE Held'
  <2>1. /\ UNCHANGED <<screen, data>> /\ map' = Reread(map, store') /\ edit' = none
        /\ pool' = IF HasPools(GameData(data)) THEN MapPoolView(old, none, data) ELSE old
    BY <1>9, <1>c, <1>s DEF ProfilesChanged, Redraws
  <2>2. Shown(pool', edit')
    BY <1>d, <1>s, <2>1, RedrawsIsShown DEF Held
  <2> QED
    BY <1>9, <1>d, <2>1, <2>2, SettingsHolds DEF InSettings
<1>10. ASSUME NEW name \in Names, NEW from, CreateProfile(name, from) PROVE Held'
  <2>1. PICK fails \in BOOLEAN, outcome \in Outcomes :
          store' = Created(store, name, from, fails) /\ ProfilesChanged(outcome)
    BY <1>10 DEF CreateProfile
  <2>2. Good(store') /\ Listed(store')
    BY <2>1, CreatedIsGood, CreatedIsListed DEF Held, Listed
  <2> QED
    BY <1>9, <1>10, <2>1, <2>2 DEF CreateProfile
<1>11. ASSUME NEW name \in Names, DeleteProfile(name) PROVE Held'
  <2>1. PICK fails \in BOOLEAN, outcome \in Outcomes :
          store' = Removed(store, name, fails) /\ ProfilesChanged(outcome)
    BY <1>11 DEF DeleteProfile
  <2>2. name \in DOMAIN store.tables
    BY <1>11, ListsIsSet DEF DeleteProfile, Held, Listed, Catalogued
  <2>3. Good(store') /\ Listed(store')
    BY <2>1, <2>2, RemovedIsGood, RemovedIsListed DEF Held
  <2> QED
    BY <1>9, <1>11, <2>1, <2>3 DEF DeleteProfile
<1>12. ASSUME NEW text \in DOMAIN Searches, EditFilter(text) PROVE Held'
  <2>1. PICK e : e = [filter |-> text, proposal |-> NoProposal]
    OBVIOUS
  <2>2. e.filter = text /\ e.proposal = NoProposal /\ ~Proposing(e)
    <3>1. DOMAIN NoProposal = {}
      BY DEF NoProposal
    <3> QED
      BY <2>1, <3>1 DEF Proposing
  <2>3. /\ UNCHANGED <<store, screen, data, map>> /\ edit' = e /\ screen = "Settings"
        /\ pool' = IF HasPools(GameData(data)) THEN MapPoolView(pool, e, data) ELSE pool
    BY <1>12, <2>1 DEF EditFilter, Redraws, InSettings
  <2>4. Shown(pool', edit')
    BY <1>0, <2>2, <2>3, RedrawsIsShown DEF Held
  <2>5. edit' = [filter |-> edit'.filter, proposal |-> edit'.proposal] /\ Table(edit'.proposal)
        /\ edit'.filter \in DOMAIN Searches
    BY <2>1, <2>2, <2>3, EmptyIsTable
  <2> QED
    BY <2>3, <2>4, <2>5, SettingsHolds DEF Held
<1>13. CASE Propose
  <2>1. PICK p : p = Proposal(data, edit.filter)
    OBVIOUS
  <2>2. Table(p) /\ DOMAIN p \subseteq Affixes(data)
    BY <2>1, ProposalIsTable DEF Held
  <2>3. PICK e : e = [edit EXCEPT !.proposal = p]
    OBVIOUS
  <2>4. e = [filter |-> e.filter, proposal |-> e.proposal] /\ e.filter = edit.filter /\ e.proposal = p
    BY <2>3 DEF Held
  <2>5. /\ UNCHANGED <<store, screen, data, map>> /\ edit' = e /\ screen = "Settings"
        /\ pool' = IF HasPools(GameData(data)) THEN MapPoolView(old, e, data) ELSE old
    BY <1>13, <1>s, <2>1, <2>3 DEF Propose, Redraws, InSettings
  <2>6. Shown(pool', edit')
    BY <1>s, <2>2, <2>4, <2>5, RedrawsIsShown DEF Held
  <2> QED
    BY <2>2, <2>4, <2>5, <2>6, SettingsHolds DEF Held
<1>d2. PICK drawn : drawn = Drawn /\ Affixed(drawn) /\ Affixed(Stale(drawn))
  BY <1>0, StaleIsAffixed DEF Shown
<1>14. ASSUME NEW g \in ToSet(Drawn.view), NEW v \in Verdicts, RateGroup(g, v) PROVE Held'
  <2>1. IsFiniteSet(g.refs)
    BY <1>d2 DEF Affixed
  <2>2. /\ store' = SetVerdict(store, g.refs, v) /\ UNCHANGED <<screen, data>> /\ edit' = none
        /\ map' = Reread(map, store') /\ screen = "Settings" /\ pool' = Stale(drawn)
    BY <1>14, <1>c, <1>d2 DEF RateGroup, InSettings
  <2>3. Good(store') /\ Listed(store')
    BY <2>1, <2>2, ClickHolds
  <2> QED
    BY <1>d, <1>d2, <2>2, <2>3, SettingsHolds DEF Shown
<1>15. CASE AcceptProposal
  <2>1. PICK F : store' = Flushed(SetVerdicts(store, edit.proposal), F)
    BY <1>15 DEF AcceptProposal
  <2>2. Good(store') /\ Listed(store')
    BY <2>1, AcceptHolds
  <2>3. /\ UNCHANGED <<screen, data>> /\ edit' = none
        /\ map' = Reread(map, store') /\ screen = "Settings" /\ pool' = Stale(drawn)
    BY <1>15, <1>c, <1>d2 DEF AcceptProposal, InSettings
  <2> QED
    BY <1>d, <1>d2, <2>2, <2>3, SettingsHolds DEF Shown
<1>16. CASE CancelProposal
  <2>1. /\ UNCHANGED <<screen, data, map, store>> /\ edit' = none
        /\ screen = "Settings" /\ pool' = drawn
    BY <1>16, <1>c, <1>d2 DEF CancelProposal, InSettings
  <2> QED
    BY <1>d, <1>d2, <2>1, SettingsHolds DEF Shown, Held
<1>17. CASE EditSetting
  BY <1>17 DEF EditSetting, Held
<1>18. CASE Save
  BY <1>18 DEF Save, Held
<1>19. CASE WriteDelayPasses
  <2>1. store' = [store EXCEPT !.settled = TRUE] /\ UNCHANGED <<screen, data, map, edit, pool>>
    BY <1>19 DEF WriteDelayPasses
  <2>2. Good(store') /\ store'.dirty = store.dirty
    BY <2>1, SettledIsGood DEF Held
  <2>3. /\ store'.names = store.names /\ store'.tables = store.tables /\ store'.files = store.files
        /\ store'.unwritten = store.unwritten /\ store'.current = store.current
    BY <2>1 DEF Held, Good, Members
  <2> QED
    BY <2>1, <2>2, <2>3 DEF Held, UpWhileDirty, Listed, Catalogued
<1>20. CASE Tick
  <2>1. PICK F : store' = Flushed(store, F) /\ UNCHANGED <<screen, data, map, edit, pool>>
    BY <1>20 DEF Tick
  <2>2. Good(store') /\ store'.dirty = {}
    BY <2>1, FlushedIsGood DEF Held
  <2>3. Catalogued(store') /\ SameTables(store', store)
    BY <2>1, FlushedIsListed DEF Held, Listed
  <2> QED
    BY <2>1, <2>2, <2>3 DEF Held, UpWhileDirty, Listed, SameTables
<1>21. CASE Quit
  BY <1>21, QuitFinds, LaunchHolds DEF Quit, ListKept
<1>22. CASE Kill
  <2>1. PICK T \in SUBSET store.dirty, onDisk \in {saved, Defaults} : Killed(T, onDisk)
    BY <1>22 DEF Kill, KilledFlushing, KilledSaving
  <2>2. \E D : Lists(onDisk.names, D)
    BY <2>1, DefaultsList DEF ListKept
  <2> QED
    BY <2>1, <2>2, KillFinds, LaunchHolds DEF Killed
<1> QED
  BY <1>1, <1>2, <1>3, <1>4, <1>5, <1>6, <1>7, <1>8, <1>10, <1>11, <1>12, <1>13, <1>14,
     <1>15, <1>16, <1>17, <1>18, <1>19, <1>20, <1>21, <1>22 DEF Next

-----------------------------------------------------------------------------
(* config.json.                                                            *)

Settings == Fields(config) /\ Fields(saved)

\* A listing or a selection changes two fields.
LEMMA ChangedIsFields ==
  ASSUME NEW c, Fields(c), NEW s
  PROVE  /\ Fields(Listing(c, s)) /\ Listing(c, s).other = c.other
         /\ Listing(c, s).names = s.names /\ Listing(c, s).current = s.current
         /\ Fields(Selecting(c, s))
         /\ Selecting(c, s).names = c.names /\ Selecting(c, s).current = s.current
<1>1. PICK a, b, o : c = [names |-> a, current |-> b, other |-> o]
  BY DEF Fields
<1>2. PICK names, current : names = s.names /\ current = s.current
  OBVIOUS
<1>3. Listing(c, s) = [c EXCEPT !.names = names, !.current = current]
  BY <1>2 DEF Listing
<1>4. Listing(c, s) = [names |-> names, current |-> current, other |-> o] /\ c.other = o
  BY <1>1, <1>3
<1>5. Selecting(c, s) = [names |-> a, current |-> s.current, other |-> o]
  BY <1>1 DEF Selecting
<1>6. /\ Fields(Listing(c, s)) /\ Listing(c, s).other = c.other
      /\ Listing(c, s).names = names /\ Listing(c, s).current = current
  BY <1>4 DEF Fields
<1>7. Fields(Selecting(c, s)) /\ Selecting(c, s).names = c.names
      /\ Selecting(c, s).current = s.current
  BY <1>1, <1>5 DEF Fields
<1> QED
  BY <1>2, <1>6, <1>7

\* So does what is written of them into the file (persist_map_profile).
LEMMA WrittenIsFields ==
  ASSUME NEW c, NEW onDisk, Fields(onDisk)
  PROVE  /\ Fields(PersistMapProfile(c, onDisk))
         /\ PersistMapProfile(c, onDisk).other = onDisk.other
         /\ PersistMapProfile(c, onDisk).names = c.names
         /\ PersistMapProfile(c, onDisk).current = c.current
<1>1. PICK a, b, o : onDisk = [names |-> a, current |-> b, other |-> o]
  BY DEF Fields
<1>2. PICK names, current : names = c.names /\ current = c.current
  OBVIOUS
<1>3. PersistMapProfile(c, onDisk) = [onDisk EXCEPT !.names = names, !.current = current]
  BY <1>2 DEF PersistMapProfile
<1>4. PersistMapProfile(c, onDisk) = [names |-> names, current |-> current, other |-> o]
      /\ onDisk.other = o
  BY <1>1, <1>3
<1>5. /\ Fields(PersistMapProfile(c, onDisk)) /\ PersistMapProfile(c, onDisk).other = onDisk.other
      /\ PersistMapProfile(c, onDisk).names = names /\ PersistMapProfile(c, onDisk).current = current
  BY <1>4 DEF Fields
<1> QED
  BY <1>2, <1>5

\* Hence what a step that persists them leaves there, by how the write went.
LEMMA PersistsKeeps ==
  ASSUME Settings, NEW c, Fields(c), NEW outcome \in Outcomes, Persists(c, outcome)
  PROVE  /\ Settings' /\ config' = c
         /\ outcome = "done" => /\ saved'.names = c.names /\ saved'.current = c.current
                               /\ saved'.other = saved.other
         /\ outcome = "refused" => saved' = saved
         /\ outcome = "cut" => saved' = Defaults
<1>1. config' = c /\ saved' = Rewritten(saved, PersistMapProfile(c, saved), outcome)
  BY DEF Persists
<1>2. Fields(PersistMapProfile(c, saved)) /\ Fields(Defaults)
  BY WrittenIsFields, DefaultsList DEF Settings
<1> QED
  BY <1>1, <1>2, WrittenIsFields DEF Settings, Rewritten, Outcomes

\* The lists agree but for a write that is known to have failed, and the other
\* settings are as last saved but for one that was cut.
Counted == count = [inputs |-> count.inputs, faults |-> count.faults, runs |-> count.runs,
                    missed |-> count.missed, kept |-> count.kept, cut |-> count.cut]
Remembered == saved.other # count.kept => count.cut /\ saved.other = Defaults.other
Kept == /\ config.names = store.names /\ config.current = store.current
        /\ ~count.missed => saved.names = store.names /\ saved.current = store.current
        /\ ListKept /\ Settings /\ Counted /\ Remembered

\* What of the count is not a bound.
SameNotes == count'.missed = count.missed /\ count'.kept = count.kept /\ count'.cut = count.cut

LEMMA CountsOn ==
  ASSUME Counted, NEW i, NEW f,
         \/ count' = count
         \/ count' = [count EXCEPT !.inputs = i, !.faults = f]
         \/ count' = [count EXCEPT !.faults = f]
  PROVE  Counted' /\ SameNotes
<1>1. PICK c : c = count'
  OBVIOUS
<1>2. /\ c = [inputs |-> c.inputs, faults |-> c.faults, runs |-> c.runs,
              missed |-> c.missed, kept |-> c.kept, cut |-> c.cut]
      /\ c.missed = count.missed /\ c.kept = count.kept /\ c.cut = count.cut
  BY <1>1 DEF Counted
<1> QED
  BY <1>1, <1>2 DEF Counted, SameNotes

\* A count with its notes written anew, by an input and by a launch.
LEMMA CountsInput ==
  ASSUME Counted, NEW i, NEW f, NEW m, NEW t,
         count' = [count EXCEPT !.inputs = i, !.faults = f, !.missed = m, !.cut = t]
  PROVE  Counted' /\ count'.missed = m /\ count'.kept = count.kept /\ count'.cut = t
<1>1. PICK c : c = count'
  OBVIOUS
<1>2. /\ c = [inputs |-> c.inputs, faults |-> c.faults, runs |-> c.runs,
              missed |-> c.missed, kept |-> c.kept, cut |-> c.cut]
      /\ c.missed = m /\ c.kept = count.kept /\ c.cut = t
  BY <1>1 DEF Counted
<1> QED
  BY <1>1, <1>2 DEF Counted

LEMMA CountsRun ==
  ASSUME Counted, NEW i, NEW f, NEW m, NEW t,
         count' = [count EXCEPT !.runs = i, !.faults = f, !.missed = m, !.cut = t]
  PROVE  Counted' /\ count'.missed = m /\ count'.kept = count.kept /\ count'.cut = t
<1>1. PICK c : c = count'
  OBVIOUS
<1>2. /\ c = [inputs |-> c.inputs, faults |-> c.faults, runs |-> c.runs,
              missed |-> c.missed, kept |-> c.kept, cut |-> c.cut]
      /\ c.missed = m /\ c.kept = count.kept /\ c.cut = t
  BY <1>1 DEF Counted
<1> QED
  BY <1>1, <1>2 DEF Counted

\* An input that writes config.json.
LEMMA CountsSaving ==
  ASSUME Counted, NEW n, NEW outcome, InputSaving(n, outcome)
  PROVE  /\ Counted' /\ count'.kept = count.kept
         /\ count'.missed <=> outcome # "done"
         /\ count'.cut <=> (count.cut \/ outcome = "cut")
<1>1. PICK m, t : m = (outcome # "done") /\ t = (count.cut \/ outcome = "cut")
  OBVIOUS
<1>2. PICK i, f : count' = [count EXCEPT !.inputs = i, !.faults = f, !.missed = m, !.cut = t]
  BY <1>1 DEF InputSaving
<1>3. Counted' /\ count'.missed = m /\ count'.kept = count.kept /\ count'.cut = t
  BY <1>2, CountsInput
<1> QED
  BY <1>1, <1>3

\* A step that is no business of the list.
LEMMA QuietKeeps ==
  ASSUME Kept, UNCHANGED <<config, saved>>, store'.names = store.names,
         store'.current = store.current, Counted', SameNotes
  PROVE  Kept'
  BY DEF Kept, ListKept, Settings, SameNotes, Remembered

\* A step that changes the list, or which of it is in use, and writes it.
LEMMA PersistedKeeps ==
  ASSUME Held', Kept, NEW c, Fields(c), c.names = store'.names, c.current = store'.current,
         NEW outcome \in Outcomes, Persists(c, outcome), NEW n, InputSaving(n, outcome)
  PROVE  Kept'
<1>1. Settings' /\ config' = c
  BY PersistsKeeps DEF Kept
<1>2. Lists(store'.names, DOMAIN store'.tables)
  BY DEF Held, Listed, Catalogued
<1>3. /\ Counted' /\ count'.kept = count.kept
      /\ count'.missed <=> outcome # "done"
      /\ count'.cut <=> (count.cut \/ outcome = "cut")
  BY CountsSaving DEF Kept
<1>4. CASE outcome = "refused"
  <2>1. saved' = saved
    BY <1>4, PersistsKeeps DEF Kept
  <2> QED
    BY <1>1, <1>3, <1>4, <2>1 DEF Kept, ListKept, Remembered
<1>5. CASE outcome = "cut"
  <2>1. saved' = Defaults
    BY <1>5, PersistsKeeps DEF Kept
  <2> QED
    BY <1>1, <1>3, <1>5, <2>1, DefaultsList DEF Kept, ListKept, Remembered
<1>6. CASE outcome = "done"
  <2>1. saved'.names = store'.names /\ saved'.current = store'.current /\ saved'.other = saved.other
    BY <1>6, PersistsKeeps DEF Kept
  <2> QED
    BY <1>1, <1>2, <1>3, <1>6, <2>1 DEF Kept, ListKept, Remembered
<1> QED
  BY <1>4, <1>5, <1>6 DEF Outcomes

\* Save writes all of it.
LEMMA SaveKeeps == ASSUME Held, Kept, Save PROVE Kept'
<1>n. Counted
  BY DEF Kept
<1>a. PICK outcome \in Outcomes :
        /\ saved' = Rewritten(saved, config, outcome)
        /\ count' = [count EXCEPT !.inputs = @ + 1, !.faults = @ + Faults(outcome),
                       !.missed = outcome # "done" /\ (@ \/ outcome = "cut"),
                       !.kept = IF outcome = "done" THEN config.other ELSE @,
                       !.cut = outcome # "done" /\ (@ \/ outcome = "cut")]
  BY DEF Save
<1>b. PICK m, k, t :
        /\ m = (outcome # "done" /\ (count.missed \/ outcome = "cut"))
        /\ k = IF outcome = "done" THEN config.other ELSE count.kept
        /\ t = (outcome # "done" /\ (count.cut \/ outcome = "cut"))
  OBVIOUS
<1>c. PICK i, f :
        count' = [count EXCEPT !.inputs = i, !.faults = f, !.missed = m, !.kept = k, !.cut = t]
  BY <1>a, <1>b
<1>1. /\ saved' = Rewritten(saved, config, outcome)
      /\ m = (outcome # "done" /\ (count.missed \/ outcome = "cut"))
      /\ k = IF outcome = "done" THEN config.other ELSE count.kept
      /\ t = (outcome # "done" /\ (count.cut \/ outcome = "cut"))
  BY <1>a, <1>b
<1>2. Counted' /\ count'.missed = m /\ count'.kept = k /\ count'.cut = t
  <2>1. PICK n : n = count'
    OBVIOUS
  <2>2. /\ n = [inputs |-> n.inputs, faults |-> n.faults, runs |-> n.runs,
                missed |-> n.missed, kept |-> n.kept, cut |-> n.cut]
        /\ n.missed = m /\ n.kept = k /\ n.cut = t
    BY <1>c, <1>n, <2>1 DEF Counted
  <2> QED
    BY <2>1, <2>2 DEF Counted
<1>3. UNCHANGED <<store, config>>
  BY DEF Save
<1>4. Lists(store.names, DOMAIN store.tables)
  BY DEF Held, Listed, Catalogued
<1>5. CASE outcome = "refused"
  <2>1. saved' = saved /\ k = count.kept /\ (m <=> count.missed) /\ (t <=> count.cut)
    BY <1>1, <1>5 DEF Rewritten
  <2> QED
    BY <1>2, <1>3, <2>1 DEF Kept, ListKept, Settings, Remembered
<1>6. CASE outcome = "cut"
  <2>1. saved' = Defaults /\ m /\ t
    BY <1>1, <1>6 DEF Rewritten
  <2> QED
    BY <1>2, <1>3, <2>1, DefaultsList DEF Kept, ListKept, Settings, Remembered
<1>7. CASE outcome = "done"
  <2>1. saved' = config /\ k = config.other
    BY <1>1, <1>7 DEF Rewritten
  <2> QED
    BY <1>2, <1>3, <1>4, <2>1 DEF Kept, ListKept, Settings, Remembered
<1> QED
  BY <1>1, <1>5, <1>6, <1>7 DEF Outcomes

\* A launch writes the list into what it has read, be that the defaults.
LEMMA LaunchKeeps ==
  ASSUME Kept, Held', NEW files, NEW unwritten, NEW onDisk \in {saved, Defaults}, NEW faults,
         Launch(files, unwritten, onDisk, faults)
  PROVE  Kept'
<1>n. Counted
  BY DEF Kept
<1>1. PICK c : c = Listing(onDisk, store')
  OBVIOUS
<1>2. Fields(onDisk) /\ \E D : Lists(onDisk.names, D)
  BY DefaultsList DEF Kept, ListKept, Settings
<1>3. Fields(c) /\ c.names = store'.names /\ c.current = store'.current
  BY <1>1, <1>2, ChangedIsFields
<1>4. config' = c
  BY <1>1 DEF Launch
<1>a. PICK outcome \in Outcomes :
        /\ saved' = Rewritten(onDisk, PersistMapProfile(c, onDisk), outcome)
        /\ count' = [count EXCEPT !.runs = @ + 1, !.faults = @ + faults + Faults(outcome),
                                  !.missed = outcome # "done",
                                  !.cut = @ \/ outcome = "cut" \/ onDisk # saved]
  BY <1>4 DEF Launch
<1>b. PICK m, t : m = (outcome # "done") /\ t = (count.cut \/ outcome = "cut" \/ onDisk # saved)
  OBVIOUS
<1>c. PICK r, f : count' = [count EXCEPT !.runs = r, !.faults = f, !.missed = m, !.cut = t]
  BY <1>a, <1>b
<1>5. /\ saved' = Rewritten(onDisk, PersistMapProfile(c, onDisk), outcome)
      /\ m = (outcome # "done") /\ t = (count.cut \/ outcome = "cut" \/ onDisk # saved)
  BY <1>a, <1>b
<1>6. Counted' /\ count'.missed = m /\ count'.kept = count.kept /\ count'.cut = t
  BY <1>c, <1>n, CountsRun
<1>7. Lists(store'.names, DOMAIN store'.tables)
  BY DEF Held, Listed, Catalogued
<1>8. onDisk.other # count.kept => t /\ onDisk.other = Defaults.other
  BY <1>5 DEF Kept, Remembered
<1>9. CASE outcome = "refused"
  <2>1. saved' = onDisk /\ m
    BY <1>5, <1>9 DEF Rewritten
  <2> QED
    BY <1>2, <1>3, <1>4, <1>6, <1>8, <2>1 DEF Kept, ListKept, Settings, Remembered
<1>10. CASE outcome = "cut"
  <2>1. saved' = Defaults /\ m /\ t
    BY <1>5, <1>10 DEF Rewritten
  <2> QED
    BY <1>3, <1>4, <1>6, <2>1, DefaultsList DEF Kept, ListKept, Settings, Remembered
<1>11. CASE outcome = "done"
  <2>1. saved' = PersistMapProfile(c, onDisk)
    BY <1>5, <1>11 DEF Rewritten
  <2>2. /\ saved'.names = store'.names /\ saved'.current = store'.current
        /\ saved'.other = onDisk.other /\ Fields(saved')
    BY <1>2, <1>3, <2>1, WrittenIsFields
  <2> QED
    BY <1>3, <1>4, <1>6, <1>7, <1>8, <2>2 DEF Kept, ListKept, Settings, Remembered
<1> QED
  BY <1>9, <1>10, <1>11 DEF Outcomes

LEMMA KeptStep == ASSUME Held, Held', Kept, [Next]_vars PROVE Kept'
<1> USE DEF Kept
<1>1. CASE UNCHANGED vars
  BY <1>1, QuietKeeps DEF vars, Counted, SameNotes
<1>2. ASSUME NEW to, SetScreen(to), UNCHANGED <<config, saved>> PROVE Kept'
  <2>1. PICK F : store' = Flushes(store, to, F) /\ \E f : count' = [count EXCEPT !.faults = f]
    BY <1>2 DEF SetScreen
  <2>2. store'.names = store.names /\ store'.current = store.current
    BY <2>1, FlushedIsListed DEF Flushes, Held, Listed, SameTables
  <2> QED
    BY <1>2, <2>1, <2>2, CountsOn, QuietKeeps
<1>3. CASE Close
  BY <1>2, <1>3 DEF Close
<1>4. CASE OpenSettings
  BY <1>2, <1>4 DEF OpenSettings
<1>5. ASSUME NEW item, CheckMap(item) PROVE Kept'
  BY <1>2, <1>5 DEF CheckMap
<1>6. ASSUME NEW i, DataEvent(i) PROVE Kept'
  BY <1>6, CountsOn, QuietKeeps DEF DataEvent
<1>7. ASSUME NEW refs, NEW v, store' = SetVerdict(store, refs, v), UNCHANGED <<config, saved>>, Input(0)
      PROVE  Kept'
  <2>1. store'.names = store.names /\ store'.current = store.current
    BY <1>7, ReplacedIsListed DEF SetVerdict, Held
  <2>2. \E i, f : count' = [count EXCEPT !.inputs = i, !.faults = f]
    BY <1>7 DEF Input
  <2> QED
    BY <1>7, <2>1, <2>2, CountsOn, QuietKeeps
<1>8. ASSUME NEW i, NEW right, RateRow(i, right) PROVE Kept'
  BY <1>7, <1>8 DEF RateRow
<1>9. ASSUME NEW name \in Names, SelectProfile(name) PROVE Kept'
  <2>3. Good(store') /\ Listed(store') /\ store'.names = store.names
    BY <1>9, SelectListed
  <2>7. PICK outcome \in Outcomes :
          Persists(Selecting(config, store'), outcome) /\ \E n : InputSaving(n, outcome)
    BY <1>9 DEF SelectProfile
  <2>4. PICK c : c = Selecting(config, store')
    OBVIOUS
  <2>5. Fields(c) /\ c.names = store'.names /\ c.current = store'.current
    BY <2>3, <2>4, ChangedIsFields DEF Settings
  <2> QED
    BY <2>4, <2>5, <2>7, PersistedKeeps
<1>10. CASE Draw
  BY <1>10, CountsOn, QuietKeeps DEF Draw
<1>11. ASSUME NEW outcome \in Outcomes, ProfilesChanged(outcome), NEW n, InputSaving(n, outcome)
       PROVE  Kept'
  <2>1. PICK c : c = Listing(config, store')
    OBVIOUS
  <2>2. Persists(c, outcome)
    BY <1>11, <2>1 DEF ProfilesChanged
  <2>3. Fields(c) /\ c.names = store'.names /\ c.current = store'.current
    BY <2>1, ChangedIsFields DEF Settings
  <2> QED
    BY <1>11, <2>2, <2>3, PersistedKeeps
<1>12. ASSUME NEW name, NEW from, CreateProfile(name, from) PROVE Kept'
  BY <1>11, <1>12 DEF CreateProfile
<1>13. ASSUME NEW name, DeleteProfile(name) PROVE Kept'
  BY <1>11, <1>13 DEF DeleteProfile
<1>14. ASSUME UNCHANGED <<store, config, saved>>, NEW n, Input(n) PROVE Kept'
  <2>1. \E i, f : count' = [count EXCEPT !.inputs = i, !.faults = f]
    BY <1>14 DEF Input
  <2> QED
    BY <1>14, <2>1, CountsOn, QuietKeeps
<1>15. ASSUME NEW text, EditFilter(text) PROVE Kept'
  BY <1>14, <1>15 DEF EditFilter
<1>16. CASE Propose
  BY <1>14, <1>16 DEF Propose
<1>17. ASSUME NEW g, NEW v, RateGroup(g, v) PROVE Kept'
  BY <1>7, <1>17 DEF RateGroup
<1>18. CASE AcceptProposal
  <2>1. PICK F : store' = Flushed(SetVerdicts(store, edit.proposal), F) /\ \E n : Input(n)
    BY <1>18 DEF AcceptProposal
  <2>2. store'.names = store.names /\ store'.current = store.current
    BY <2>1, AcceptHolds
  <2>3. \E i, f : count' = [count EXCEPT !.inputs = i, !.faults = f]
    BY <2>1 DEF Input
  <2>4. UNCHANGED <<config, saved>>
    BY <1>18 DEF AcceptProposal
  <2> QED
    BY <2>2, <2>3, <2>4, CountsOn, QuietKeeps
<1>19. CASE CancelProposal
  BY <1>14, <1>19 DEF CancelProposal
<1>20. CASE EditSetting
  <2>1. config' = [config EXCEPT !.other = "edited"] /\ UNCHANGED <<store, saved>>
        /\ \E i, f : count' = [count EXCEPT !.inputs = i, !.faults = f]
    BY <1>20 DEF EditSetting, Input
  <2>2. config'.names = config.names /\ config'.current = config.current /\ Fields(config')
    <3>1. PICK c : c = config'
      OBVIOUS
    <3>2. c = [names |-> config.names, current |-> config.current, other |-> "edited"]
      BY <2>1, <3>1 DEF Settings, Fields
    <3>3. c.names = config.names /\ c.current = config.current /\ Fields(c)
      BY <3>2 DEF Fields
    <3> QED
      BY <3>1, <3>3
  <2>3. Counted' /\ SameNotes
    BY <2>1, CountsOn
  <2> QED
    BY <2>1, <2>2, <2>3 DEF ListKept, Settings, SameNotes, Remembered
<1>21. CASE Save
  BY <1>21, SaveKeeps
<1>22. CASE WriteDelayPasses
  <2>1. store' = [store EXCEPT !.settled = TRUE] /\ UNCHANGED <<config, saved, count>>
    BY <1>22 DEF WriteDelayPasses
  <2>2. store'.names = store.names /\ store'.current = store.current
    BY <2>1 DEF Held, Good, Members
  <2> QED
    BY <2>1, <2>2, CountsOn, QuietKeeps
<1>23. CASE Tick
  <2>1. PICK F : store' = Flushed(store, F) /\ \E f : count' = [count EXCEPT !.faults = f]
    BY <1>23 DEF Tick
  <2>2. store'.names = store.names /\ store'.current = store.current
    BY <2>1, FlushedIsListed DEF Held, Listed, SameTables
  <2>3. UNCHANGED <<config, saved>>
    BY <1>23 DEF Tick
  <2> QED
    BY <2>1, <2>2, <2>3, CountsOn, QuietKeeps
<1>25. CASE Quit
  BY <1>25, LaunchKeeps DEF Quit
<1>26. CASE Kill
  BY <1>26, LaunchKeeps DEF Kill, KilledFlushing, KilledSaving, Killed
<1> QED
  BY <1>1, <1>3, <1>4, <1>5, <1>6, <1>8, <1>9, <1>10, <1>12, <1>13, <1>15, <1>16, <1>17,
     <1>18, <1>19, <1>20, <1>21, <1>22, <1>23, <1>25, <1>26 DEF Next

LEMMA KeptInit == Init => Kept
<1> SUFFICES ASSUME Init PROVE Kept
  OBVIOUS
<1>1. PICK c : c = Listing(Defaults, store)
  OBVIOUS
<1>2. /\ config = c /\ saved = c
      /\ count = [inputs |-> 0, faults |-> 0, runs |-> 1, missed |-> FALSE,
                  kept |-> Defaults.other, cut |-> FALSE]
  BY <1>1 DEF Init
<1>3. Fields(c) /\ c.names = store.names /\ c.current = store.current /\ c.other = Defaults.other
  BY <1>1, DefaultsList, ChangedIsFields
<1> QED
  BY <1>2, <1>3, HeldInit DEF Kept, Settings, Counted, Remembered

Whole == Held /\ Kept

LEMMA WholeInit == Init => Whole
  BY HeldInit, KeptInit DEF Whole

LEMMA WholeStep == Whole /\ [Next]_vars => Whole'
<1> SUFFICES ASSUME Whole, [Next]_vars PROVE Whole'
  OBVIOUS
<1>1. Held'
  BY HeldStep DEF Whole, Kept
<1> QED
  BY <1>1, KeptStep DEF Whole

-----------------------------------------------------------------------------
(* The theorems.                                                           *)

(* No click is lost between a table and its file: each is on disk as it is *)
(* in memory, or waits for a flush that a screen still up will make, or    *)
(* its last write failed (Store::mark, flush, create, remove).             *)
THEOREM NoVerdictIsLost == Spec => []SavedOrPending
<1>1. Whole => SavedOrPending
  BY DEF Whole, Held, Good, UpWhileDirty, SavedOrPending
<1> QED
  BY WholeInit, WholeStep, <1>1, PTL DEF Spec

\* One deadly row makes the map fatal, and nothing else does (assess).
LEMMA FatalIsDeadly ==
  ASSUME NEW rows, IsFiniteSet(DOMAIN rows)
  PROVE  Assess(Tally(rows)) = "Fatal" <=> \E i \in DOMAIN rows : rows[i].verdict = Deadly
<1> DEFINE Of(v) == {i \in DOMAIN rows : rows[i].verdict = v}
<1>1. ASSUME NEW v PROVE Cardinality(Of(v)) \in Nat /\ (Cardinality(Of(v)) = 0 <=> Of(v) = {})
  <2>1. IsFiniteSet(Of(v))
    BY FS_Subset
  <2> HIDE DEF Of
  <2> QED
    BY <2>1, FS_CardinalityType, FS_EmptySet
<1>2. PICK t : t = Tally(rows)
  OBVIOUS
<1>3. \A v \in Verdicts : t[v] = Cardinality(Of(v))
  BY <1>2 DEF Tally
<1>4. Of(Deadly) = {} <=> ~ \E i \in DOMAIN rows : rows[i].verdict = Deadly
  OBVIOUS
<1> HIDE DEF Of
<1>5. Unrated \in Verdicts /\ Safe \in Verdicts /\ Dangerous \in Verdicts /\ Deadly \in Verdicts
  BY DEF Verdicts, Unrated, Safe, Dangerous, Deadly
<1>6. PICK u \in Nat, s \in Nat, m \in Nat, d \in Nat :
        u = t[Unrated] /\ s = t[Safe] /\ m = t[Dangerous] /\ d = t[Deadly]
  BY <1>1, <1>3, <1>5
<1>7. Assess(t) = "Fatal" <=> d > 0
  <2>1. Assess(t) = IF u + s + m + d = 0 THEN "NoMods"
                    ELSE IF d > 0 THEN "Fatal"
                    ELSE IF 2 * s > u + s + m + d THEN "Safe"
                    ELSE IF 2 * u >= u + s + m + d /\ m = 0 THEN "Unrated"
                    ELSE IF s > m THEN "Likely" ELSE "Careful"
    BY <1>6 DEF Assess
  <2> QED
    BY <2>1
<1>8. d = Cardinality(Of(Deadly))
  BY <1>3, <1>5, <1>6
<1>9. d > 0 <=> Of(Deadly) # {}
  BY <1>1, <1>8
<1> QED
  BY <1>2, <1>4, <1>7, <1>9

LEMMA RatedAgree == Held => RowsAgree
<1> SUFFICES ASSUME Held PROVE RowsAgree
  OBVIOUS
<1> DEFINE table == store.tables[store.current]
<1>1. Table(table)
  BY TableInUse DEF Held
<1>2. ASSUME NEW i \in DOMAIN map.rows PROVE map.rows[i].verdict = Says(table, map.rows[i].refs)
  <2>1. PICK refs : refs = map.rows[i].refs
    OBVIOUS
  <2>2. IsFiniteSet(refs) /\ map.rows[i] = Row(refs, table)
    BY <1>1, <2>1 DEF Held, Rated
  <2>3. map.rows[i].verdict = VerdictOf(table, refs)
    BY <2>2 DEF Row
  <2> QED
    BY <1>1, <2>1, <2>2, <2>3, VerdictSays
<1>3. Assess(Tally(map.rows)) = "Fatal" <=> \E i \in DOMAIN map.rows : map.rows[i].verdict = Deadly
  BY FatalIsDeadly DEF Held, Rated
<1>4. \A i \in DOMAIN map.rows :
        Says(table, map.rows[i].refs)
          = IF map.rows[i].refs \in DOMAIN table THEN table[map.rows[i].refs]
            ELSE Max({Unrated} \cup {table[key] : key \in
                   {k \in {c \in DOMAIN table : c \subseteq map.rows[i].refs} :
                      \A other \in {c \in DOMAIN table : c \subseteq map.rows[i].refs} :
                        Cardinality(other) <= Cardinality(k)}})
  BY DEF Says, Closest, Covering
<1> QED
  BY <1>1, <1>2, <1>3, <1>4 DEF RowsAgree

(* A row of the map on screen shows what the tables say now, whatever was  *)
(* rated, picked or installed since it was read; one deadly row is fatal   *)
(* (App::refresh_map_verdicts, Profile::verdict_of, assess).               *)
THEOREM RowsTellTheTables == Spec => []RowsAgree
<1>1. Whole => RowsAgree
  BY RatedAgree DEF Whole
<1> QED
  BY WholeInit, WholeStep, <1>1, PTL DEF Spec

LEMMA AcceptedIsListed ==
  ASSUME Held, AcceptProposal
  PROVE  LET before == store.tables[store.current]
             after  == store'.tables[store.current]
         IN /\ \A g \in ToSet(Drawn.view) : Exact(after, g.refs) = PoolVerdict(g)
            /\ \A key \in DOMAIN before \cup DOMAIN after :
                 Exact(before, key) # Exact(after, key) =>
                   \E g \in ToSet(Drawn.view) : g.refs = key
<1>1. PICK before, after, p :
        before = store.tables[store.current] /\ after = store'.tables[store.current]
        /\ p = edit.proposal
  OBVIOUS
<1>2. Table(before) /\ Table(p)
  BY <1>1, TableInUse DEF Held
<1>3. after = Over(p, before)
  <2>1. PICK F : store' = Flushed(SetVerdicts(store, edit.proposal), F)
    BY DEF AcceptProposal
  <2>2. PICK w : w = Flushed(SetVerdicts(store, edit.proposal), F) /\ w = store'
    BY <2>1
  <2>3. w.current = store.current /\ w.tables[w.current] = Over(p, before)
    BY <1>1, <2>2, AcceptHolds
  <2> QED
    BY <1>1, <2>2, <2>3
<1>4. DOMAIN after = DOMAIN p \cup DOMAIN before
      /\ \A key \in DOMAIN after : after[key] = IF key \in DOMAIN p THEN p[key] ELSE before[key]
  BY <1>3 DEF Over
<1>5. Proposing(edit) /\ Lights(Drawn, edit) /\ Affixed(Drawn)
  BY DrawnHolds DEF Shown, AcceptProposal
<1>6. ASSUME NEW g \in ToSet(Drawn.view) PROVE Exact(after, g.refs) = PoolVerdict(g)
  <2>1. AffixKey(g.refs) = g.refs
    BY <1>5 DEF Affixed, AffixKey
  <2>2. g.refs \in DOMAIN p
    BY <1>1, <1>5 DEF Lights
  <2>3. Exact(after, g.refs) = p[g.refs]
    BY <1>4, <2>1, <2>2 DEF Exact
  <2>4. PoolVerdict(g) = p[g.refs]
    BY <1>1, <1>5, <2>2 DEF PoolVerdict
  <2> QED
    BY <2>3, <2>4
<1>7. ASSUME NEW key \in DOMAIN before \cup DOMAIN after, Exact(before, key) # Exact(after, key)
      PROVE  \E g \in ToSet(Drawn.view) : g.refs = key
  <2>1. AffixKey(key) = key
    <3>1. key \in DOMAIN before \/ key \in DOMAIN p
      BY <1>4
    <3>2. "" \notin key
      BY <1>2, <3>1 DEF Table
    <3> QED
      BY <3>2 DEF AffixKey
  <2>2. key \in DOMAIN p
    BY <1>4, <1>7, <2>1 DEF Exact
  <2>3. key \in {g.refs : g \in ToSet(Drawn.view)}
    BY <1>1, <1>5, <2>2 DEF Lights
  <2> QED
    BY <2>3
<1> QED
  BY <1>1, <1>6, <1>7

(* What Accept writes is the list in front of the user, row by row, and    *)
(* nothing else (App::accept_map_proposal), whatever was searched,         *)
(* switched or installed between the proposal and the click.               *)
THEOREM AcceptIsWhatIsLit == Spec => AcceptWritesTheList
<1>1. Whole /\ [Next]_vars =>
        [AcceptProposal =>
           LET before == store.tables[store.current]
               after  == store'.tables[store.current]
           IN /\ \A g \in ToSet(Drawn.view) : Exact(after, g.refs) = PoolVerdict(g)
              /\ \A key \in DOMAIN before \cup DOMAIN after :
                   Exact(before, key) # Exact(after, key) =>
                     \E g \in ToSet(Drawn.view) : g.refs = key]_vars
  BY AcceptedIsListed DEF Whole
<1> QED
  BY WholeInit, WholeStep, <1>1, PTL DEF Spec, AcceptWritesTheList

(* Whatever was picked, made, deleted, refused, cut or ended, config.json  *)
(* has the profiles as they are or a write of them failed, and the other   *)
(* settings as Save last put them or, once a write was cut, as shipped:    *)
(* never what waits for Save (persist_map_profile, Config::load).          *)
THEOREM LastSavedIsHeld == Spec => []HoldsLastSaved
<1>1. Whole => HoldsLastSaved
  BY DEF Whole, Kept, Remembered, HoldsLastSaved
<1> QED
  BY WholeInit, WholeStep, <1>1, PTL DEF Spec

-----------------------------------------------------------------------------
(* The next run.                                                           *)

LEMMA OnlyOne ==
  ASSUME NEW names, NEW D, NEW x, Lists(names, D), D = {x} PROVE names = <<x>>
<1>1. PICK n \in Nat : n = Len(names)
  BY DEF Lists
<1>2. names \in Seq(Names)
  BY DEF Lists
<1>3. \A i \in 1..n : names[i] = x
  BY <1>1 DEF Lists
<1>4. \E i \in 1..n : names[i] = x
  BY <1>1 DEF Lists
<1>5. n = 1
  <2>1. n >= 1
    BY <1>4
  <2>2. ASSUME n >= 2 PROVE FALSE
    <3>1. 1 \in 1..n /\ 2 \in 1..n
      BY <2>2
    <3>2. names[1] = names[2]
      BY <1>3, <3>1
    <3> QED
      BY <1>1, <3>1, <3>2 DEF Lists
  <2> QED
    BY <2>1, <2>2
<1>6. names[1] = x
  BY <1>3, <1>5
<1>7. PICK one : one = <<x>>
  OBVIOUS
<1>8. Len(names) = 1 /\ Len(one) = 1 /\ one[1] = x
  BY <1>1, <1>5, <1>7
<1>9. names \in Seq(Names \cup {x}) /\ one \in Seq(Names \cup {x})
  BY <1>2, <1>7
<1>10. names = one
  BY <1>6, <1>8, <1>9
<1> QED
  BY <1>7, <1>10

\* What a launch makes of a directory that holds the profiles or owes them.
LEMMA Relaunched ==
  ASSUME Whole, NEW files, Found(files), NEW unwritten,
         DOMAIN store.tables \subseteq unwritten \cup DOMAIN files,
         DOMAIN files \subseteq DOMAIN store.tables \cup unwritten,
         NEW onDisk, \E D : Lists(onDisk.names, D),
         NEW faults, Launch(files, unwritten, onDisk, faults)
  PROVE  /\ DOMAIN files # {} =>
              /\ store'.unwritten = unwritten
              /\ \A name \in DOMAIN files :
                   name \in ToSet(store'.names) /\ store'.tables[name] = FromJson(files[name])
         /\ DOMAIN files = {} => store'.unwritten = unwritten \ {DefaultName}
         /\ onDisk = saved /\ store'.unwritten = {} /\ ~count.missed =>
              store'.names = store.names /\ store'.current = store.current
<1>1. store' = Opened(files, unwritten, onDisk.names, onDisk.current)
  BY DEF Launch
<1>2. PICK D : Lists(onDisk.names, D)
  OBVIOUS
<1>3. /\ Listed(store')
      /\ DOMAIN files # {} =>
           /\ store'.unwritten = unwritten
           /\ store'.tables = [name \in DOMAIN files |-> FromJson(files[name])]
           /\ D = DOMAIN files =>
                store'.names = onDisk.names /\ (onDisk.current \in D => store'.current = onDisk.current)
      /\ DOMAIN files = {} => store'.names = <<DefaultName>> /\ store'.current = DefaultName
                              /\ store'.unwritten = unwritten \ {DefaultName}
  <2>1. DOMAIN files \subseteq Names /\ \A name \in DOMAIN files : File(files[name])
    BY DEF Found
  <2>2. Finds(Opened(files, unwritten, onDisk.names, onDisk.current), files, unwritten,
              D, onDisk.names, onDisk.current)
    BY <1>2, <2>1, OpenedFinds
  <2> QED
    BY <1>1, <2>2 DEF Finds
<1>4. ASSUME DOMAIN files # {}, NEW name \in DOMAIN files
      PROVE  name \in ToSet(store'.names) /\ store'.tables[name] = FromJson(files[name])
  <2>1. DOMAIN store'.tables = DOMAIN files /\ store'.tables[name] = FromJson(files[name])
    BY <1>3, <1>4
  <2>2. ToSet(store'.names) = DOMAIN store'.tables
    BY <1>3, ListsIsSet DEF Listed, Catalogued
  <2> QED
    BY <2>1, <2>2
<1>5. Lists(store.names, DOMAIN store.tables) /\ store.current \in DOMAIN store.tables
  BY DEF Whole, Held, Listed, Catalogued
<1>6. ASSUME onDisk = saved, store'.unwritten = {}, ~count.missed
      PROVE  store'.names = store.names /\ store'.current = store.current
  <2>1. saved.names = store.names /\ saved.current = store.current
    BY <1>6 DEF Whole, Kept
  <2>2. CASE DOMAIN files # {}
    <3>1. DOMAIN files = DOMAIN store.tables
      BY <1>3, <1>6, <2>2
    <3>2. D = DOMAIN store.tables
      <4>1. ToSet(saved.names) = D /\ ToSet(store.names) = DOMAIN store.tables
        BY <1>2, <1>5, <1>6, ListsIsSet
      <4> QED
        BY <2>1, <4>1
    <3> QED
      BY <1>3, <1>5, <1>6, <2>1, <2>2, <3>1, <3>2
  <2>3. CASE DOMAIN files = {}
    <3>1. unwritten \subseteq {DefaultName}
      BY <1>3, <1>6, <2>3
    <3>2. DOMAIN store.tables = {DefaultName}
      BY <1>5, <2>3, <3>1
    <3>3. store.names = <<DefaultName>> /\ store.current = DefaultName
      BY <1>5, <3>2, OnlyOne
    <3> QED
      BY <1>3, <2>3, <3>3
  <2> QED
    BY <2>2, <2>3
<1> QED
  BY <1>3, <1>4, <1>6

\* A run that is quit.
LEMMA QuitKeeps ==
  ASSUME Whole, Quit
  PROVE  /\ \A name \in ToSet(store.names) \ (store'.unwritten \cup NeverFiled(store)) :
              name \in ToSet(store'.names) /\ store'.tables[name] = store.tables[name]
         /\ store'.unwritten = {} /\ ~count.missed =>
              store'.names = store.names /\ store'.current = store.current
<1>1. PICK F : LET last == Flushed(store, F) IN Launch(last.files, last.unwritten, saved, Cardinality(F))
  BY DEF Quit
<1>2. PICK last : last = Flushed(store, F)
  OBVIOUS
<1>3. Launch(last.files, last.unwritten, saved, Cardinality(F))
  BY <1>1, <1>2
<1>4. Good(last) /\ last.dirty = {} /\ Catalogued(last) /\ SameTables(last, store)
      /\ DOMAIN store.files \subseteq DOMAIN last.files
  BY <1>2, FlushedIsGood, FlushedIsListed DEF Whole, Held, Listed
<1>5. Found(last.files)
  BY <1>2, QuitFinds DEF Whole
<1>6. /\ DOMAIN last.files # {} =>
           /\ store'.unwritten = last.unwritten
           /\ \A name \in DOMAIN last.files :
                name \in ToSet(store'.names) /\ store'.tables[name] = FromJson(last.files[name])
      /\ DOMAIN last.files = {} => store'.unwritten = last.unwritten \ {DefaultName}
      /\ store'.unwritten = {} /\ ~count.missed =>
           store'.names = store.names /\ store'.current = store.current
  <2>1. /\ DOMAIN store.tables \subseteq last.unwritten \cup DOMAIN last.files
        /\ DOMAIN last.files \subseteq DOMAIN store.tables \cup last.unwritten
    BY <1>4 DEF Catalogued, SameTables
  <2>2. \E D : Lists(saved.names, D)
    BY DEF Whole, Kept, ListKept
  <2> QED
    BY <1>3, <1>5, <2>1, <2>2, Relaunched
<1>7. ASSUME NEW name \in ToSet(store.names), name \notin store'.unwritten, name \notin NeverFiled(store)
      PROVE  name \in ToSet(store'.names) /\ store'.tables[name] = store.tables[name]
  <2>1. name \in DOMAIN store.tables
    BY ListsIsSet DEF Whole, Held, Listed, Catalogued
  <2>2. \/ name \in last.unwritten
        \/ name \in DOMAIN last.files /\ FromJson(last.files[name]) = store.tables[name]
    BY <1>4, <2>1 DEF Good, InStep, SameTables
  <2>3. name \notin last.unwritten
    <3>1. CASE DOMAIN last.files # {}
      BY <1>6, <1>7, <3>1
    <3>2. CASE DOMAIN last.files = {}
      <4>1. name \in store.unwritten /\ name \notin DOMAIN store.files
        BY <1>4, <2>1, <3>2 DEF Whole, Held, Listed, Catalogued
      <4> QED
        BY <1>7, <4>1 DEF NeverFiled
    <3> QED
      BY <3>1, <3>2
  <2> QED
    BY <1>6, <2>2, <2>3
<1> QED
  BY <1>6, <1>7

\* A run that is killed.
LEMMA KillKeeps ==
  ASSUME Whole, NEW T \in SUBSET store.dirty, NEW onDisk \in {saved, Defaults}, Killed(T, onDisk)
  PROVE  /\ \A name \in ToSet(store.names) \ (store'.unwritten \cup NeverFiled(store)) :
              name \notin store.dirty =>
                name \in ToSet(store'.names) /\ store'.tables[name] = store.tables[name]
         /\ onDisk = saved /\ store'.unwritten = {} /\ ~count.missed =>
              store'.names = store.names /\ store'.current = store.current
<1>1. \E D : Lists(onDisk.names, D)
  BY DefaultsList DEF Whole, Kept, ListKept
<1>2. PICK files, unwritten :
        files = Over([name \in T |-> Torn], store.files) /\ unwritten = store.unwritten \cup T
  OBVIOUS
<1>3. Launch(files, unwritten, onDisk, 1)
  BY <1>2 DEF Killed
<1>4. /\ Found(files) /\ DOMAIN files = T \cup DOMAIN store.files
      /\ \A name \in DOMAIN store.files \ T : files[name] = store.files[name]
  BY <1>2, KillFinds DEF Whole
<1>5. /\ DOMAIN files # {} =>
           /\ store'.unwritten = unwritten
           /\ \A name \in DOMAIN files :
                name \in ToSet(store'.names) /\ store'.tables[name] = FromJson(files[name])
      /\ DOMAIN files = {} => store'.unwritten = unwritten \ {DefaultName}
      /\ onDisk = saved /\ store'.unwritten = {} /\ ~count.missed =>
           store'.names = store.names /\ store'.current = store.current
  <2>1. /\ DOMAIN store.tables \subseteq unwritten \cup DOMAIN files
        /\ DOMAIN files \subseteq DOMAIN store.tables \cup unwritten
    BY <1>2, <1>4 DEF Whole, Held, Listed, Catalogued
  <2> QED
    BY <1>1, <1>3, <1>4, <2>1, Relaunched
<1>6. ASSUME NEW name \in ToSet(store.names), name \notin store'.unwritten,
             name \notin NeverFiled(store), name \notin store.dirty
      PROVE  name \in ToSet(store'.names) /\ store'.tables[name] = store.tables[name]
  <2>1. name \in DOMAIN store.tables
    BY ListsIsSet DEF Whole, Held, Listed, Catalogued
  <2>2. \/ name \in store.unwritten
        \/ name \in DOMAIN store.files /\ FromJson(store.files[name]) = store.tables[name]
    BY <1>6, <2>1 DEF Whole, Held, Good, InStep
  <2>3. name \notin T
    BY <1>6
  <2>4. CASE name \in store.unwritten
    <3>1. name \in DOMAIN files
      BY <1>4, <1>6, <2>4 DEF NeverFiled
    <3> QED
      BY <1>2, <1>5, <1>6, <2>4, <3>1
  <2>5. CASE name \in DOMAIN store.files /\ FromJson(store.files[name]) = store.tables[name]
    <3>1. name \in DOMAIN files /\ files[name] = store.files[name]
      BY <1>4, <2>3, <2>5
    <3> QED
      BY <1>5, <2>5, <3>1
  <2> QED
    BY <2>2, <2>4, <2>5
<1> QED
  BY <1>5, <1>6

(* The next run finds what this one had: every table whose file was        *)
(* written, and with nothing failed the same profiles in the same order    *)
(* with the same one in use (Store::open, map_profiles_changed).  A cut    *)
(* config.json costs the order and the choice, never a table.              *)
THEOREM NextRunFinds == Spec => RelaunchKeeps
<1>1. ASSUME Whole, Quit \/ Kill
      PROVE  /\ \A name \in ToSet(store.names) \ (store'.unwritten \cup NeverFiled(store)) :
                  Quit \/ name \notin store.dirty =>
                    name \in ToSet(store'.names) /\ store'.tables[name] = store.tables[name]
             /\ ~KilledSaving /\ store'.unwritten = {} /\ ~count.missed =>
                  store'.names = store.names /\ store'.current = store.current
  <2>1. CASE Quit
    BY <1>1, <2>1, QuitKeeps
  <2>2. CASE ~Quit /\ KilledFlushing
    BY <1>1, <2>2, KillKeeps DEF KilledFlushing
  <2>3. CASE ~Quit /\ KilledSaving
    BY <1>1, <2>3, KillKeeps DEF KilledSaving
  <2> QED
    BY <1>1, <2>1, <2>2, <2>3 DEF Kill
<1>2. Whole /\ [Next]_vars =>
        [Quit \/ Kill =>
           /\ \A name \in ToSet(store.names) \ (store'.unwritten \cup NeverFiled(store)) :
                Quit \/ name \notin store.dirty =>
                  name \in ToSet(store'.names) /\ store'.tables[name] = store.tables[name]
           /\ ~KilledSaving /\ store'.unwritten = {} /\ ~count.missed =>
                store'.names = store.names /\ store'.current = store.current]_vars
  BY <1>1
<1> QED
  BY WholeInit, WholeStep, <1>2, PTL DEF Spec, RelaunchKeeps

=============================================================================
