------------------------------ MODULE AppShell ------------------------------
(***************************************************************************)
(* The main loop of the overlay (src/app.cpp): which screen is up, who has *)
(* the keyboard, the copy in flight behind a check, the item it yields and *)
(* the bug report opened from it.  One action per handler or per pass of   *)
(* one of the loop's polls; SetScreen, RestoreActivation, Accept and the   *)
(* other functions those handlers call are operators used by them.         *)
(*                                                                         *)
(* The environment is the game, the window manager, the X server's input   *)
(* focus (which SDL learns of late) and the user.  The network services    *)
(* that a new item asks questions of have modules of their own.            *)
(***************************************************************************)
EXTENDS Naturals

CONSTANTS
  Clips,        \* what a clipboard can hold, as far as a check can tell
  Items,        \* the clips that parse as an item
  Maps,         \* the items that map check will rate
  None,         \* no clip, no item, no draft, no row being edited
  MaxData,      \* bound: how many data bundles the session sees
  StatusMarker, \* Config::status_marker: the idle marker is drawn
  WmManages,    \* there is a window manager that can take the game off the front
  Controls      \* which hotkeys and buttons the user of this instance touches

ASSUME ClipAssumption == /\ Maps \subseteq Items
                         /\ Items \subseteq Clips
                         /\ Clips \ Items # {}
                         /\ None \notin Clips
ASSUME DataAssumption == MaxData \in Nat
ASSUME ConfigAssumption == StatusMarker \in BOOLEAN /\ WmManages \in BOOLEAN

VARIABLES
  screen,         \* screen_
  visible,        \* Overlay::visible()
  present,        \* the game has a window
  active,         \* _NET_ACTIVE_WINDOW: whose window the window manager has in front
  wmAsk,          \* an activation we asked the window manager for, not yet served
  input,          \* the X server's input focus
  hasFocus,       \* Overlay::has_focus(): SDL's view of it, which lags
  hadFocus,       \* had_focus_
  tookKeyboard,   \* took_keyboard_
  copyPending,    \* copy_pending_
  copyTarget,     \* copy_target_
  written,        \* clipboard_stamp() # copy_stamp_
  clip,           \* what a read of the clipboard returns
  copyAge,        \* time since copy_started_ms_: 0 grace, 1 past kGraceMs, 2 past kCopyTimeoutMs
  copyNudged,     \* copy_nudged_
  holdOver,       \* kHandoverHoldMs have passed since copy_nudge_ms_
  copyDeactivated,\* copy_deactivated_
  handover,       \* g_handover: the pixel window exists
  data,           \* data_: which bundle is current, 0 for none
  clipboard,      \* clipboard_: the text accepted last
  plan,           \* item_, item_data_ and plan_, which are only ever replaced together
  filterEdit,     \* filter_edit_: the plan its row was opened on
  mapDirty,       \* map_store_ holds verdicts it has not written
  capturing,      \* capturing_: Settings is waiting for a key to bind
  grabbed,        \* the hotkeys are registered with the system
  reportOpening,  \* report_opening_, which counts frames from the press to the dialog
  draft,          \* report_draft_
  report          \* ReportService::state()

winVars    == <<screen, visible>>
focusVars  == <<input, hasFocus, hadFocus, tookKeyboard>>
gameVars   == <<present, active>>
copyVars   == <<copyPending, copyTarget, written, copyAge, copyNudged, holdOver>>
giveVars   == <<copyDeactivated, handover, wmAsk>>
itemVars   == <<clipboard, plan, filterEdit>>
keyVars    == <<capturing, grabbed>>
reportVars == <<reportOpening, draft, report>>
vars == <<winVars, focusVars, gameVars, copyVars, giveVars, itemVars, keyVars, reportVars,
          clip, data, mapDirty>>

Screens == {"Hidden", "PriceCheck", "Settings", "QuickPaste", "MapCheck", "BugReport", "ReportSent"}

\* The screens that live on the keyboard: set_screen claims it for them.
Typing == {"Settings", "QuickPaste", "MapCheck", "BugReport"}

Plans == [item : Items \cup {None}, data : 0..MaxData, chosen : BOOLEAN]
Drafts == [shot : Screens, item : Clips \cup {None}, posted : BOOLEAN]

ASSUME DraftAssumption == None \notin Drafts

WindowType == screen \in Screens /\ visible \in BOOLEAN
FocusType == /\ input \in {"game", "overlay", "other"}
             /\ hasFocus \in BOOLEAN /\ hadFocus \in BOOLEAN /\ tookKeyboard \in BOOLEAN
GameType == present \in BOOLEAN /\ active \in {"game", "handover", "other"}
CopyType == /\ copyPending \in BOOLEAN /\ copyTarget \in {"PriceCheck", "MapCheck"}
            /\ written \in BOOLEAN
            /\ copyNudged \in BOOLEAN /\ holdOver \in BOOLEAN
GiveType == /\ copyDeactivated \in BOOLEAN /\ handover \in BOOLEAN
            /\ wmAsk \in {"none", "game", "handover"}
ItemType == /\ data \in 0..MaxData /\ clip \in Clips /\ clipboard \in Clips \cup {None}
            /\ plan \in Plans /\ filterEdit \in Plans \cup {None}
KeyType == capturing \in BOOLEAN /\ grabbed \in BOOLEAN
ReportType == /\ reportOpening \in {"No", "Masking", "Capturing"} /\ draft \in Drafts \cup {None}
              /\ report \in {"Idle", "Sending", "Sent", "Failed"}

TypeOK == /\ WindowType /\ FocusType /\ GameType /\ CopyType /\ GiveType
          /\ ItemType /\ KeyType /\ ReportType /\ mapDirty \in BOOLEAN /\ copyAge \in 0..2

Init ==
  /\ screen = "Hidden" /\ visible = FALSE
  /\ present = TRUE /\ active = "game" /\ input = "game" /\ wmAsk = "none"
  /\ hasFocus = FALSE /\ hadFocus = FALSE /\ tookKeyboard = FALSE
  /\ copyPending = FALSE /\ copyTarget = "PriceCheck" /\ written = FALSE
  /\ clip \in Clips \ Items
  /\ copyAge = 0 /\ copyNudged = FALSE /\ holdOver = FALSE
  /\ copyDeactivated = FALSE /\ handover = FALSE
  /\ data = 0 /\ clipboard = None
  /\ plan = [item |-> None, data |-> 0, chosen |-> FALSE] /\ filterEdit = None
  /\ mapDirty = FALSE /\ capturing = FALSE /\ grabbed = TRUE
  /\ reportOpening = "No" /\ draft = None /\ report = "Idle"

-----------------------------------------------------------------------------
(* The functions the handlers are made of.                                 *)

\* foreground_title_contains(poe_window_title)
GameInFront == active = "game"

\* focus_game_window(): a window that is gone cannot be given the focus.
FocusGame == IF present THEN "game" ELSE input

TakeKeyboard == input' = "overlay" /\ tookKeyboard' = TRUE

\* Unmapping the window that has the focus reverts it to the root window.
Unmapped == IF input = "overlay" THEN "other" ELSE input

\* give_keyboard_back(): focus we hold (as `focus` says), or took and have not
\* handed back while the game is still the window in front.
GiveKeyboardBackOnFocus(focus) ==  \* altered: SDL's late view is the only record
  /\ input' = IF focus THEN FocusGame ELSE IF StatusMarker THEN input ELSE Unmapped
  /\ tookKeyboard' = FALSE

GiveKeyboardBack(focus) ==
  /\ input' = IF focus \/ (tookKeyboard /\ GameInFront) THEN FocusGame
              ELSE IF StatusMarker THEN input ELSE Unmapped
  /\ tookKeyboard' = FALSE

\* Leaving a screen that can rate writes what it left buffered.
Flushes(s) == screen \in {"MapCheck", "Settings"} /\ s # screen

\* set_screen() with has_focus() answering `focus`, all but what it does to the
\* copy in flight.
Show(s, focus) ==
  /\ screen' = s
  /\ visible' = ((s # "Hidden") \/ (StatusMarker /\ visible))
  /\ hadFocus' = IF s = "Hidden" THEN hadFocus ELSE FALSE
  /\ mapDirty' = (mapDirty /\ ~Flushes(s))
  /\ \/ s \in Typing /\ TakeKeyboard
     \/ s = "Hidden" /\ GiveKeyboardBack(focus)
     \/ s \in {"PriceCheck", "ReportSent"} /\ UNCHANGED <<input, tookKeyboard>>
  /\ hasFocus' = focus

\* set_screen().  `pending` is copy_pending_ on the way in: hiding stops the watch.
SetScreen(s, pending) == Show(s, hasFocus) /\ copyPending' = (pending /\ s # "Hidden")

\* restore_game_activation(): ask for the game, and drop the pixel window.
RestoreLeaksWindow == copyDeactivated' = FALSE /\ UNCHANGED <<handover, wmAsk>>  \* altered
RestoreWhenInFront ==  \* altered: gives back only a game that is already there
  IF copyDeactivated /\ GameInFront
  THEN copyDeactivated' = FALSE /\ handover' = FALSE /\ wmAsk' = "game"
  ELSE UNCHANGED giveVars
RestoreActivation ==
  IF copyDeactivated
  THEN copyDeactivated' = FALSE /\ handover' = FALSE /\ wmAsk' = "game"
  ELSE UNCHANGED giveVars

\* abandon_copy(), on the screen that stays up.
AbandonKeepsWaiting ==  \* altered: the copy stays pending
  RestoreActivation /\ UNCHANGED <<copyPending, winVars, focusVars, mapDirty>>
AbandonCopy ==
  /\ copyPending' = FALSE
  /\ RestoreActivation
  /\ input' = IF hasFocus /\ screen # "Settings" THEN FocusGame ELSE input
  /\ UNCHANGED <<winVars, hasFocus, hadFocus, tookKeyboard, mapDirty>>

\* rebuild_plan(): parse the text again and pin the bundle `d` to the result.
RebuildKeepsEditor(text, d, chosen) ==  \* altered: the editor outlives its row
  /\ plan' = [item |-> IF text \in Items THEN text ELSE None, data |-> d, chosen |-> chosen]
  /\ UNCHANGED filterEdit
RebuildPlan(text, d, chosen) ==
  /\ plan' = [item |-> IF text \in Items THEN text ELSE None, data |-> d, chosen |-> chosen]
  /\ filterEdit' = None

\* accept_clipboard(): a new text, and every choice made for the last one dropped.
Accept(text) == clipboard' = text /\ RebuildPlan(text, data, FALSE)

Rateable(text, target) == text \in (IF target = "MapCheck" THEN Maps ELSE Items)

\* A read can also come back empty or as somebody else's text.
Readings == {clip} \cup (Clips \ Items)

-----------------------------------------------------------------------------
(* Hotkeys: handle_action().                                               *)

ClosesOwnScreen(a) == screen = a /\ a \in {"Settings", "QuickPaste", "MapCheck"}

\* The screens that show an item, which a new check takes down first.
ShowsPriceCheck == screen = "PriceCheck"  \* altered: the map popup stays up
ShowsItem == screen \in {"PriceCheck", "MapCheck"}

\* A check with the game in front: hide the panel that is about the previous
\* item, undo a handover still out, inject the copy.
StartCheck(a) ==
  /\ grabbed /\ a \in Controls \cap {"PriceCheck", "MapCheck"}
  /\ GameInFront
  /\ copyTarget' = a
  /\ copyAge' = 0 /\ copyNudged' = FALSE /\ written' = FALSE /\ holdOver' = FALSE
  /\ RestoreActivation
  /\ IF ShowsItem
     THEN Show("Hidden", hasFocus)
     ELSE UNCHANGED <<winVars, focusVars, mapDirty>>
  /\ copyPending' = TRUE
  /\ UNCHANGED <<gameVars, itemVars, keyVars, reportVars, clip, data>>

\* The map check hotkey let through the gate because its own screen is up: the
\* branch meant for dev mode reads the clipboard as it stands.
RereadForMapCheck ==
  /\ grabbed /\ "MapCheck" \in Controls
  /\ ~GameInFront /\ ClosesOwnScreen("MapCheck")
  /\ copyTarget' = "MapCheck"
  /\ \E text \in Readings :
       /\ Accept(text)
       /\ IF Rateable(text, "MapCheck")
          THEN SetScreen("MapCheck", copyPending)
          ELSE UNCHANGED <<winVars, focusVars, copyPending, mapDirty>>
  /\ UNCHANGED <<gameVars, written, copyAge, copyNudged, holdOver, giveVars, keyVars,
                 reportVars, clip, data>>

PasteHotkey ==
  /\ grabbed /\ "QuickPaste" \in Controls
  /\ GameInFront \/ ClosesOwnScreen("QuickPaste")
  /\ IF screen = "QuickPaste"
     THEN SetScreen("Hidden", copyPending) /\ UNCHANGED giveVars
     ELSE /\ IF copyPending THEN RestoreActivation ELSE UNCHANGED giveVars
          /\ SetScreen("QuickPaste", FALSE)
  /\ UNCHANGED <<gameVars, copyTarget, written, copyAge, copyNudged, holdOver, itemVars,
                 keyVars, reportVars, clip, data>>

SettingsHotkey ==
  /\ grabbed /\ "Settings" \in Controls
  /\ GameInFront \/ ClosesOwnScreen("Settings")
  /\ SetScreen(IF screen = "Settings" THEN "Hidden" ELSE "Settings", copyPending)
  /\ UNCHANGED <<gameVars, copyTarget, written, copyAge, copyNudged, holdOver, giveVars,
                 itemVars, keyVars, reportVars, clip, data>>

-----------------------------------------------------------------------------
(* The copy in flight: poll_pending_copy(), once a pass of the loop.       *)

\* deactivate_game_window(): at most one pixel window, and somebody to ask.
DeactivateGame ==
  IF WmManages /\ ~handover
  THEN copyDeactivated' = TRUE /\ handover' = TRUE /\ wmAsk' = "handover"
  ELSE copyDeactivated' = FALSE /\ UNCHANGED <<handover, wmAsk>>

\* Nothing has been written and there is still time.  Past the grace period the
\* game is asked to let go of the clipboard, once; past the hold it is put back.
Nudge ==
  /\ ~copyNudged /\ copyAge >= 1
  /\ copyNudged' = TRUE /\ holdOver' = FALSE
  /\ IF visible /\ ~hasFocus /\ GameInFront
     THEN DeactivateGame
     ELSE UNCHANGED giveVars

EndHold ==
  /\ copyNudged \/ copyAge = 0
  /\ copyDeactivated /\ holdOver
  /\ RestoreActivation
  /\ UNCHANGED <<copyNudged, holdOver>>

PollWaiting ==
  /\ copyPending /\ ~written /\ copyAge < 2
  /\ Nudge \/ EndHold
  /\ UNCHANGED <<winVars, focusVars, gameVars, copyPending, copyTarget, written, copyAge,
                 itemVars, keyVars, reportVars, clip, data, mapDirty>>

PollTimedOut ==
  /\ copyPending /\ ~written /\ copyAge = 2
  /\ AbandonCopy
  /\ UNCHANGED <<gameVars, copyTarget, written, copyAge, copyNudged, holdOver, itemVars,
                 keyVars, reportVars, clip, data>>

\* Something was written: read it, take it, and open the screen the check was
\* for, or drop the check without a word.
PollWritten ==
  /\ copyPending /\ written
  /\ \E text \in Readings :
       /\ Accept(text)
       /\ IF Rateable(text, copyTarget)
          THEN SetScreen(copyTarget, FALSE) /\ RestoreActivation
          ELSE AbandonCopy
  /\ UNCHANGED <<gameVars, copyTarget, written, copyAge, copyNudged, holdOver, keyVars,
                 reportVars, clip, data>>

PollPendingCopy == PollWaiting \/ PollTimedOut \/ PollWritten

-----------------------------------------------------------------------------
(* The other polls of the loop.                                            *)

\* reclaim_keyboard(), on a window that is up.
Reclaim ==
  IF ~hasFocus /\ screen \in Typing THEN TakeKeyboard ELSE UNCHANGED <<input, tookKeyboard>>

\* update_overlay_placement(): somebody else is in front, or the game is gone.
HideElsewhere ==
  LET elsewhere == present /\ ~GameInFront /\ ~hasFocus
  IN  /\ ~present \/ elsewhere
      /\ visible /\ (elsewhere \/ screen = "Hidden")
      /\ visible' = FALSE
      /\ input' = Unmapped
      /\ UNCHANGED tookKeyboard

\* ... or the game, or our own window, is in front.
ShowOverGame ==
  /\ present /\ (GameInFront \/ hasFocus)
  /\ visible' = (screen # "Hidden" \/ StatusMarker)
  /\ IF visible' THEN Reclaim ELSE input' = Unmapped /\ UNCHANGED tookKeyboard

UpdateOverlayPlacement ==
  /\ HideElsewhere \/ ShowOverGame
  /\ UNCHANGED <<screen, hasFocus, hadFocus, gameVars, copyVars, giveVars, itemVars, keyVars,
                 reportVars, clip, data, mapDirty>>

\* poll_click_away(): a press outside the panel.
ClickAway ==
  /\ screen \in {"PriceCheck", "QuickPaste", "MapCheck"}
  /\ SetScreen("Hidden", copyPending)
  /\ UNCHANGED <<gameVars, copyTarget, written, copyAge, copyNudged, holdOver, giveVars,
                 itemVars, keyVars, reportVars, clip, data>>

\* poll_click_away(): a press on the panel of a dialog that does not dismiss.
ClickBack ==
  /\ screen \in {"Settings", "BugReport", "ReportSent"} /\ visible
  /\ Reclaim
  /\ UNCHANGED <<winVars, hasFocus, hadFocus, gameVars, copyVars, giveVars, itemVars, keyVars,
                 reportVars, clip, data, mapDirty>>

\* The throttle in front of the rating tables: Store::tick().
TickRatings ==
  /\ mapDirty /\ mapDirty' = FALSE
  /\ UNCHANGED <<winVars, focusVars, gameVars, copyVars, giveVars, itemVars, keyVars,
                 reportVars, clip, data>>

\* The frame whose button asked for a bug report is up; the next one is masked, and to be
\* read back.
RequestCapture ==
  /\ reportOpening = "Masking" /\ visible /\ reportOpening' = "Capturing"
  /\ UNCHANGED <<winVars, focusVars, gameVars, copyVars, giveVars, itemVars, keyVars, draft,
                 report, clip, data, mapDirty>>

\* That frame is read back, and the dialog opens on it: finish_bug_report().
FinishBugReport ==
  /\ reportOpening = "Capturing" /\ visible
  /\ reportOpening' = "No"
  /\ draft' = [shot |-> screen, item |-> clipboard, posted |-> FALSE]
  /\ report' = IF report = "Sending" THEN report ELSE "Idle"
  /\ SetScreen("BugReport", copyPending)
  /\ UNCHANGED <<gameVars, copyTarget, written, copyAge, copyNudged, holdOver, giveVars,
                 itemVars, keyVars, clip, data>>

-----------------------------------------------------------------------------
(* SDL events the main thread handles: handle_event().                     *)

\* The X server has moved the input focus and SDL has now heard of it.
FocusEvent ==
  /\ hasFocus # (input = "overlay")
  /\ IF hasFocus /\ hadFocus /\ screen \in {"PriceCheck", "QuickPaste", "MapCheck"}
     THEN Show("Hidden", FALSE) /\ copyPending' = FALSE
     ELSE /\ hasFocus' = ~hasFocus /\ hadFocus' = (hadFocus \/ hasFocus')
          /\ UNCHANGED <<winVars, copyPending, mapDirty, input, tookKeyboard>>
  /\ UNCHANGED <<gameVars, copyTarget, written, copyAge, copyNudged, holdOver, giveVars,
                 itemVars, keyVars, reportVars, clip, data>>

\* take_ready_bundle() handed over a bundle: the item in hand is read again with it.
DataEvent ==
  /\ data < MaxData
  /\ data' = data + 1
  /\ IF plan.item # None
     THEN RebuildPlan(clipboard, data + 1, plan.chosen)
     ELSE UNCHANGED <<plan, filterEdit>>
  /\ UNCHANGED <<winVars, focusVars, gameVars, copyVars, giveVars, clipboard, keyVars,
                 reportVars, clip, mapDirty>>

\* Only a report that went closes the dialog.
AnyAnswerCloses(answer) == screen = "BugReport"  \* altered: a refusal closes it too
ClosesDialog(answer) == answer = "Sent" /\ screen = "BugReport"

\* The relay answered.
ReportEvent ==
  /\ report = "Sending"
  /\ \E answer \in {"Sent", "Failed"} :
       /\ report' = answer
       /\ IF ClosesDialog(answer)
          THEN draft' = None /\ SetScreen("ReportSent", copyPending)
          ELSE UNCHANGED <<draft, winVars, focusVars, copyPending, mapDirty>>
  /\ UNCHANGED <<gameVars, copyTarget, written, copyAge, copyNudged, holdOver, giveVars,
                 itemVars, keyVars, reportOpening, clip, data>>

\* close_bug_report(): back to the check the report was about.
CloseBugReport ==
  /\ draft' = None
  /\ report' = IF report = "Sending" THEN report ELSE "Idle"
  /\ SetScreen("PriceCheck", copyPending)
  /\ UNCHANGED <<itemVars, keyVars, reportOpening>>

\* dismiss_report_result(): the same button under a failure and under a success.
DismissResult ==
  /\ report' = IF report = "Sending" THEN report ELSE "Idle"
  /\ IF screen = "ReportSent"
     THEN SetScreen("Hidden", copyPending)
     ELSE UNCHANGED <<winVars, focusVars, copyPending, mapDirty>>
  /\ UNCHANGED <<itemVars, keyVars, reportOpening, draft>>

\* end_capture(): the hotkeys are registered again.
EndCapture ==
  /\ capturing' = FALSE /\ grabbed' = TRUE
  /\ UNCHANGED <<winVars, focusVars, copyPending, mapDirty, itemVars, reportVars>>

\* Escape reaches us only with the input focus.  A capture takes it first, then
\* an open range editor, then the screen.
EscapeKey ==
  /\ input = "overlay" /\ visible
  /\ IF capturing THEN EndCapture
     ELSE IF filterEdit # None
     THEN filterEdit' = None /\ UNCHANGED <<winVars, focusVars, copyPending, mapDirty, clipboard,
                                           plan, keyVars, reportVars>>
     ELSE IF screen = "BugReport" THEN CloseBugReport
     ELSE IF screen = "ReportSent" THEN DismissResult
     ELSE SetScreen("Hidden", copyPending) /\ UNCHANGED <<itemVars, keyVars, reportVars>>
  /\ UNCHANGED <<gameVars, copyTarget, written, copyAge, copyNudged, holdOver, giveVars, clip, data>>

\* Any other key while a binding is being captured.
BoundKey ==
  /\ capturing /\ input = "overlay"
  /\ EndCapture
  /\ UNCHANGED <<gameVars, copyTarget, written, copyAge, copyNudged, holdOver, giveVars, clip, data>>

-----------------------------------------------------------------------------
(* The controls on the screens, which work only on a window that is up.    *)

CloseButton ==
  /\ visible
  /\ \/ screen \in {"PriceCheck", "Settings", "MapCheck"} /\ SetScreen("Hidden", copyPending)
        /\ UNCHANGED <<itemVars, keyVars, reportVars>>
     \/ screen = "BugReport" /\ CloseBugReport
     \/ (screen = "ReportSent" \/ (screen = "BugReport" /\ report = "Failed")) /\ DismissResult
  /\ UNCHANGED <<gameVars, copyTarget, written, copyAge, copyNudged, holdOver, giveVars, clip, data>>

\* pick_paste(): what is written is never an item, and hiding drops a copy that
\* would have read it as one.
PickPaste ==
  /\ screen = "QuickPaste" /\ visible
  /\ clip' \in Clips \ Items
  /\ SetScreen("Hidden", copyPending)
  /\ UNCHANGED <<gameVars, copyTarget, written, copyAge, copyNudged, holdOver, giveVars,
                 itemVars, keyVars, reportVars, data>>

OpenPasteSettings ==
  /\ screen = "QuickPaste" /\ visible
  /\ SetScreen("Settings", copyPending)
  /\ UNCHANGED <<gameVars, copyTarget, written, copyAge, copyNudged, holdOver, giveVars,
                 itemVars, keyVars, reportVars, clip, data>>

\* edit_filter() on a row of the plan, which exists once a bundle made one; with an editor open
\* no row is a target (rows_live).
EditFilter ==
  /\ "edit" \in Controls /\ screen = "PriceCheck" /\ visible
  /\ plan.item # None /\ plan.data # 0 /\ filterEdit = None
  /\ filterEdit' = plan
  /\ IF hasFocus THEN UNCHANGED <<input, tookKeyboard>> ELSE TakeKeyboard
  /\ UNCHANGED <<winVars, hasFocus, hadFocus, gameVars, copyVars, giveVars, clipboard, plan,
                 keyVars, reportVars, clip, data, mapDirty>>

\* The editor's own popup closed, or set_strategy() / set_unique() planned again.
ReplanOrClose ==
  /\ "edit" \in Controls /\ screen = "PriceCheck" /\ visible
  /\ \/ filterEdit # None /\ UNCHANGED plan
     \/ plan.item # None /\ plan.data # 0 /\ plan' = [plan EXCEPT !.chosen = ~@]
  /\ filterEdit' = None
  /\ UNCHANGED <<winVars, focusVars, gameVars, copyVars, giveVars, clipboard, keyVars,
                 reportVars, clip, data, mapDirty>>

\* rate_map_row() in the popup, rate_pool_group() in Settings.
RateModifier ==
  /\ visible
  /\ (screen = "MapCheck" /\ plan.item # None) \/ (screen = "Settings" /\ data # 0)
  /\ mapDirty' = TRUE
  /\ UNCHANGED <<winVars, focusVars, gameVars, copyVars, giveVars, itemVars, keyVars,
                 reportVars, clip, data>>

\* begin_capture() drops the grabs so that the combination reaches us instead.
BeginCapture ==
  /\ "rebind" \in Controls /\ screen = "Settings" /\ visible
  /\ capturing' = TRUE /\ grabbed' = FALSE
  /\ UNCHANGED <<winVars, focusVars, gameVars, copyVars, giveVars, itemVars, reportVars,
                 clip, data, mapDirty>>

\* apply_and_save_config(): whatever was being captured, the hotkeys are registered.
SaveConfig ==
  /\ "rebind" \in Controls /\ screen = "Settings" /\ visible
  /\ grabbed' = TRUE
  /\ UNCHANGED <<winVars, focusVars, gameVars, copyVars, giveVars, itemVars, capturing,
                 reportVars, clip, data, mapDirty>>

\* open_bug_report(): nothing but a flag while the panel is being drawn.
OpenBugReport ==
  /\ "report" \in Controls /\ screen = "PriceCheck" /\ visible /\ reportOpening = "No"
  /\ reportOpening' = "Masking"
  /\ UNCHANGED <<winVars, focusVars, gameVars, copyVars, giveVars, itemVars, keyVars, draft,
                 report, clip, data, mapDirty>>

\* send_bug_report(): the button is live only on a draft with an item's text.
SendBugReport ==
  /\ screen = "BugReport" /\ visible /\ report # "Sending"
  /\ draft # None /\ draft.item # None
  /\ report' = "Sending" /\ draft' = [draft EXCEPT !.posted = TRUE]
  /\ UNCHANGED <<winVars, focusVars, gameVars, copyVars, giveVars, itemVars, keyVars,
                 reportOpening, clip, data, mapDirty>>

-----------------------------------------------------------------------------
(* The game, the window manager and time.                                  *)

\* The game publishes a copy, or any other program writes the clipboard.
Publish ==
  /\ clip' \in Clips
  /\ written' = (written \/ copyPending)
  /\ UNCHANGED <<winVars, focusVars, gameVars, copyPending, copyTarget, copyAge, copyNudged,
                 holdOver, giveVars, itemVars, keyVars, reportVars, data, mapDirty>>

\* The user clicks or alt-tabs to the game or to another program.
SwitchTo(w) ==
  /\ w = "game" => present
  /\ <<active, input>> # <<w, w>>
  /\ active' = w /\ input' = w
  /\ UNCHANGED <<winVars, hasFocus, hadFocus, tookKeyboard, present, copyVars, giveVars, itemVars,
                 keyVars, reportVars, clip, data, mapDirty>>

\* The window manager serves the activation we asked for, or refuses it.
ServeActivation ==
  /\ wmAsk # "none" /\ wmAsk' = "none"
  /\ \/ wmAsk = "game" /\ present /\ active' = "game" /\ input' = "game"
     \/ wmAsk = "handover" /\ active' = "handover" /\ input' = "other"
     \/ UNCHANGED <<active, input>>
  /\ UNCHANGED <<winVars, hasFocus, hadFocus, tookKeyboard, present, copyVars, copyDeactivated,
                 handover, itemVars, keyVars, reportVars, clip, data, mapDirty>>

GameStartsOrExits ==
  /\ "exit" \in Controls
  /\ present' = ~present
  /\ active' = IF present THEN "other" ELSE "game"
  /\ input' = IF ~present THEN "game" ELSE IF input = "game" THEN "other" ELSE input
  /\ UNCHANGED <<winVars, hasFocus, hadFocus, tookKeyboard, copyVars, giveVars, itemVars,
                 keyVars, reportVars, clip, data, mapDirty>>

Clock ==
  /\ \/ copyPending /\ copyAge < 2 /\ copyAge' = copyAge + 1 /\ UNCHANGED holdOver
     \/ copyDeactivated /\ ~holdOver /\ holdOver' = TRUE /\ UNCHANGED copyAge
  /\ UNCHANGED <<winVars, focusVars, gameVars, copyPending, copyTarget, written, copyNudged,
                 giveVars, itemVars, keyVars, reportVars, clip, data, mapDirty>>

-----------------------------------------------------------------------------
Hotkey == StartCheck("PriceCheck") \/ StartCheck("MapCheck") \/ RereadForMapCheck
          \/ PasteHotkey \/ SettingsHotkey

Loop == PollPendingCopy \/ UpdateOverlayPlacement \/ ClickAway \/ ClickBack \/ TickRatings
        \/ RequestCapture \/ FinishBugReport

Event == FocusEvent \/ DataEvent \/ ReportEvent \/ EscapeKey \/ BoundKey

Button == CloseButton \/ PickPaste \/ OpenPasteSettings \/ EditFilter \/ ReplanOrClose
          \/ RateModifier \/ BeginCapture \/ SaveConfig \/ OpenBugReport \/ SendBugReport

World == Publish \/ SwitchTo("game") \/ SwitchTo("other") \/ ServeActivation
         \/ GameStartsOrExits \/ Clock

Next == Hotkey \/ Loop \/ Event \/ Button \/ World

Spec == Init /\ [][Next]_vars

\* The loop runs for as long as the process does, and time passes.
FairSpec == Spec /\ WF_vars(PollPendingCopy) /\ WF_vars(Clock)

-----------------------------------------------------------------------------
(* What the loop guarantees.                                               *)

\* The pixel window asked for by a nudge is never forgotten while it exists, and
\* a check never asks for a second one while the first is out (handle_action,
\* nudge_clipboard_handover).
HandoverOwned ==
  /\ handover => copyDeactivated
  /\ copyPending /\ ~copyNudged => ~copyDeactivated

\* The item on screen is always resolved against the bundle that is current, and
\* a row being edited is a row of the plan on screen (rebuild_plan, edit_filter).
PlanIsPinned ==
  /\ plan.item # None => plan.data = data /\ plan.item = clipboard
  /\ filterEdit \in {None, plan}

\* No verdict is left unwritten once the screens that can rate are gone: the
\* flush in set_screen is what makes batching the clicks safe.
RatingsAreSafe == mapDirty => screen \in {"MapCheck", "Settings"}

\* A check hides the panel about the previous item, and nothing brings one back
\* while the new copy is in flight (handle_action).
NoStalePanel == copyPending => screen \notin {"PriceCheck", "MapCheck"}

\* Closing a screen while the game is in front leaves the keyboard with the game
\* (give_keyboard_back), SDL's late view of the focus or not.
KeyboardReturned ==
  [][screen # "Hidden" /\ screen' = "Hidden" /\ GameInFront /\ present /\ tookKeyboard
       => input' = "game"]_vars

\* The report dialog always has the report it shows, and the confirmation the
\* answer it quotes, however late an answer comes and whatever was closed, sent
\* or opened since (draw_report_screen reads both every frame).
ReportIsThere ==
  /\ screen = "BugReport" => draft # None
  /\ screen = "ReportSent" => report = "Sent"

\* A check that has aged is always concluded or started over (poll_pending_copy).
CheckEnds == copyPending /\ copyAge > 0 ~> ~copyPending \/ copyAge = 0

\* However a check ends, a game taken out of the foreground is given back with it
\* (poll_pending_copy, abandon_copy); all but hiding a screen, which forgets it: see
\* DeactivatedOnlyInFlight in MCAppShell.
GameGivenBack ==
  [][copyPending /\ copyDeactivated /\ ~copyPending'
       => ~copyDeactivated' \/ (screen # "Hidden" /\ screen' = "Hidden")]_vars
=============================================================================
