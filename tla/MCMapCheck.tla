----------------------------- MODULE MCMapCheck -----------------------------
(***************************************************************************)
(* Map check for TLC: two bundles, two maps, a search that wants one affix *)
(* and refuses another, and a profile beside the default.                   *)
(***************************************************************************)
EXTENDS MapCheck

Stat(ref, min, max) == [ref |-> ref, min |-> min, max |-> max]
Entry(name, stats) == [name |-> name, stats |-> stats]

Unwavering == Entry("Unwavering", <<Stat("no stun", None, None)>>)
Juggernaut == Entry("of the Juggernaut",
                    <<Stat("no stun", None, None), Stat("more life", 20, 30)>>)
Fecund == Entry("Fecund", <<Stat("more life", 20, 30)>>)
Nightmare == Entry("Nightmare", <<Stat("more life", 40, 50), Stat("more currency", 5, 5)>>)
Miring == Entry("of Miring", <<Stat("more defences", -30, -25)>>)
Nameless == Entry("", <<Stat("", None, None)>>)

Flips == ("more defences" :> "less defences")
BaseDomains == ("Strand Map" :> "map" @@ "Ring" :> "jewellery")
First == [id |-> 1, domains |-> BaseDomains, flips |-> Flips,
          pools |-> ("map" :> <<Unwavering, Juggernaut, Nameless, Fecund>> @@ "chart" :> <<Fecund>>)]
\* The next league's: the affix of one wording grants another now.
Second == [id |-> 2, domains |-> BaseDomains, flips |-> Flips,
           pools |-> ("map" :> <<Unwavering, Juggernaut, Nightmare, Miring>>)]
TwoBundles == <<First, Second>>

Mod(ref, type, continuation) == [ref |-> ref, type |-> type, continuation |-> continuation]
Strand == [base |-> "Strand Map", kind |-> "map",
           mods |-> <<Mod("quality", "Enchant", FALSE), Mod("no stun", "Explicit", FALSE),
                      Mod("more life", "Explicit", TRUE), Mod("more life", "Explicit", FALSE),
                      Mod(None, "Explicit", FALSE)>>]
Ring == [base |-> "Ring", kind |-> "none", mods |-> <<Mod("more life", "Explicit", FALSE)>>]
TwoMaps == <<Strand, Ring>>

Term(says, negated) == [says |-> says, negated |-> negated, aboutItem |-> FALSE, valid |-> TRUE]
ItemLevel == [Term({}, FALSE) EXCEPT !.aboutItem = TRUE]
HalfTyped == [Term({}, TRUE) EXCEPT !.valid = FALSE]
TwoSearches == "" :> <<>>
  @@ "refuse" :> <<ItemLevel, HalfTyped, Term({"of the Juggernaut", "less defences"}, TRUE),
                   Term({"more life"}, FALSE)>>

Profiles == <<"Boss", "Default">>

-----------------------------------------------------------------------------
(* A behaviour is of one of two kinds.  In the first files fail, runs end  *)
(* and settings wait for Save, before any bundle is there; in the second   *)
(* lists are searched and bundles replaced within one run in which every   *)
(* write succeeds.                                                         *)
VARIABLE focus

MCInit == Init /\ focus \in {"files", "lists"} /\ (focus = "files" => data = 0)
MCNext ==
  /\ Next
  /\ focus = "files" => data' = 0 /\ edit'.filter = ""
  /\ focus = "lists" => count'.faults = 0 /\ count'.runs = 1 /\ config'.other = "as shipped"
  /\ UNCHANGED focus

MCSpec == MCInit /\ [][MCNext]_<<vars, focus>>

-----------------------------------------------------------------------------
(* "The pool entries the search box leaves, rebuilt only when the search   *)
(* or the bundle changes ... While a proposal is pending this is the       *)
(* proposal's own rows and nothing else" (map_pool_view).                  *)
ListAsDescribed ==
  InSettings /\ HasPools(GameData(data)) =>
    Drawn.view = IF Proposing(edit) THEN Proposed(data, edit.proposal) ELSE Left[data][edit.filter]

(* "Left walks the four states" (draw_row).  Not so on a row whose deadly  *)
(* verdict is lent by a shorter affix: the click takes away what the row   *)
(* does not have.                                                          *)
ClickWalks ==
  [][\A i \in DOMAIN map.rows : RateRow(i, FALSE) =>
       map'.rows[i].verdict = NextVerdict(map.rows[i].verdict)]_vars

(* "A session ending badly loses at most the last click" (kWriteDelay).    *)
(* Each click starts the delay again, so two within it are both lost.      *)
LosesTheLastClick ==
  [][Kill =>
       \A name \in ToSet(store.names) \ store'.unwritten :
         LET had == store.tables[name]
             has == store'.tables[name]
         IN Cardinality({key \in DOMAIN had \cup DOMAIN has : Exact(had, key) # Exact(has, key)}) <= 1]_vars

(* "What goes to disk is the last saved state with the profile fields laid *)
(* over it" (persist_map_profile).  After a write that was cut it is not:  *)
(* the file reads as the defaults, and the launch, or the next profile     *)
(* picked, writes those down as if they had been saved.                    *)
LaidOverLastSaved ==
  [][saved' # saved /\ ~count'.missed /\ ~Save => saved'.other = count.kept]_vars

=============================================================================
