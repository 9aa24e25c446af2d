----------------------------- MODULE MCAppShell -----------------------------
(***************************************************************************)
(* AppShell for TLC: the clips, the controls each run gives the user, and  *)
(* what comments and documents say of the main loop that it does not do.   *)
(***************************************************************************)
EXTENDS AppShell

CONSTANTS ring, map, junk

ThreeClips == {ring, map, junk}
TwoItems == {ring, map}
OneMap == {map}
TwoClips == {ring, junk}
OneItem == {ring}
MapAndJunk == {map, junk}
NoMap == {}

AllHotkeys == {"PriceCheck", "MapCheck", "Settings", "QuickPaste"}
CheckKeys == {"PriceCheck", "MapCheck"}
ChecksAndReport == CheckKeys \cup {"report"}
Reporting == {"PriceCheck", "report"}
AllButReport == AllHotkeys \cup {"edit", "rebind", "exit"}
Editing == {"PriceCheck", "Settings", "edit", "rebind", "exit"}

\* restore_game_activation: the game is put back the moment the check is dropped,
\* so it is out of the foreground only while a check is in flight.
DeactivatedOnlyInFlight == copyDeactivated => copyPending

\* open_bug_report: the picture in a report is of the price check panel.
CaptureIsOfPanel == draft # None => draft.shot = "PriceCheck"

\* The report dialog is only ever left by dropping or sending the report: the
\* text in that window exists nowhere else (handle_event, poll_click_away).
DialogIsNotReplaced == [][screen = "BugReport" /\ screen' # "BugReport" => draft' = None]_vars

\* Only a send that landed throws a draft away, and it throws away the one sent
\* (handle_event on report_event_).
DroppedDraftWasSent == [][ReportEvent /\ draft # None /\ draft' = None => draft.posted]_vars

\* The panel is opened only once there is an item (poll_pending_copy).
PanelHasItem == screen = "PriceCheck" => plan.item # None

\* What the map popup shows is a map, or its rows would be rated into a map
\* profile (poll_pending_copy).
MapPanelHasMap == screen = "MapCheck" => plan.item \in Maps

\* The hotkey that opened the map popup can take it away again (handle_action).
MapHotkeyCloses == [][RereadForMapCheck => screen' # "MapCheck"]_vars

\* Settings closes on Escape (poll_click_away).
EscapeClosesSettings ==
  [][EscapeKey /\ screen = "Settings" /\ ~capturing => screen' = "Hidden"]_vars

\* A panel or popup that has had the focus goes away when it loses it (handle_event).
DismissedOnFocusLoss ==
  [][FocusEvent /\ hasFocus /\ screen \in {"PriceCheck", "QuickPaste", "MapCheck"}
       => screen' = "Hidden"]_vars

\* The hotkeys are off only while Settings waits for the combination (begin_capture).
GrabsComeBack == ~grabbed => screen = "Settings"

\* A late copy makes the game let go of the clipboard whatever is on screen, since
\* during a check nothing is (nudge_clipboard_handover).
NudgeAsks ==
  [][PollWaiting /\ ~copyNudged /\ copyNudged' /\ GameInFront /\ ~hasFocus
       => copyDeactivated']_vars

\* Handing the keyboard back never takes the focus from a third program
\* (give_keyboard_back).
NoFocusSteal ==
  [][active = "other" /\ input = "other" /\ screen # "Hidden" /\ screen' = "Hidden"
       => input' # "game"]_vars
=============================================================================
