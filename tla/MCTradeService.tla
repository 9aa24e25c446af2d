--------------------------- MODULE MCTradeService ---------------------------
(***************************************************************************)
(* TradeService for TLC, and what comments and documents say of it and of  *)
(* the panel above it that the code does not do.                           *)
(***************************************************************************)
EXTENDS TradeService

CONSTANTS ring, jewel, orb, Standard, Hardcore

TwoRares == {ring, jewel}
RareAndOrb == {ring, orb}
OnlyRing == {ring}
BothLeagues == {Standard, Hardcore}
OneLeague == {Standard}

\* A listing parsed on hover is resolved against the bundle the item in hand is
\* pinned to (ListingItem), so nothing points into a bundle already let go.
ListingIsPinned == \A i \in 1..Len(parsed) : parsed[i] # None => parsed[i].data = data

\* "Nobody is selling one." is said of a search that matched nothing (run_search,
\* draw_results).
NobodyMeansNobody ==
  trade.state = "Ok" /\ trade.results.listings = <<>> => trade.results.hashes = 0

\* With auto_search on, the request goes out when the check opens (PRIVACY.md).
AutoSearchAsks ==
  [][AcceptClipboard /\ AutoSearch /\ CanSearch(item') => trade'.state = "Searching"]_vars
=============================================================================
