-------------------------- MODULE AppShellProofs --------------------------
(***************************************************************************)
(* Proofs about the main loop.  TypeOK, HandoverOwned, RatingsAreSafe and   *)
(* PlanIsPinned are each inductive (the last relative to TypeOK), so every  *)
(* safety proof is one step per action with the operators that SetScreen,  *)
(* Accept and RestoreActivation are made of expanded where they matter.    *)
(***************************************************************************)
EXTENDS AppShell, TLAPS

LEMMA TypeInit == Init => TypeOK
<1> SUFFICES ASSUME Init PROVE TypeOK  OBVIOUS
<1>1. WindowType /\ FocusType /\ GameType /\ CopyType /\ GiveType
  BY DEF Init, WindowType, FocusType, GameType, CopyType, GiveType, Screens
<1>2. ItemType
  BY ClipAssumption, DataAssumption DEF Init, ItemType, Plans
<1>3. KeyType /\ ReportType /\ mapDirty \in BOOLEAN
  BY DEF Init, KeyType, ReportType
<1>4. copyAge \in 0..2
  BY DEF Init
<1> QED BY <1>1, <1>2, <1>3, <1>4 DEF TypeOK

\* What an action leaves alone keeps its type.
LEMMA Frames ==
  /\ WindowType /\ UNCHANGED winVars => WindowType'
  /\ FocusType /\ UNCHANGED focusVars => FocusType'
  /\ GameType /\ UNCHANGED gameVars => GameType'
  /\ CopyType /\ UNCHANGED <<copyPending, copyTarget, written, copyNudged, holdOver>> => CopyType'
  /\ GiveType /\ UNCHANGED giveVars => GiveType'
  /\ ItemType /\ UNCHANGED <<itemVars, clip, data>> => ItemType'
  /\ KeyType /\ UNCHANGED keyVars => KeyType'
  /\ ReportType /\ UNCHANGED reportVars => ReportType'
  BY DEF WindowType, winVars, FocusType, focusVars, GameType, gameVars, CopyType, GiveType,
         giveVars, ItemType, itemVars, KeyType, keyVars, ReportType, reportVars

LEMMA ShowType ==
  ASSUME WindowType, FocusType, mapDirty \in BOOLEAN,
         NEW s \in Screens, NEW focus \in BOOLEAN, Show(s, focus)
  PROVE  WindowType' /\ FocusType' /\ mapDirty' \in BOOLEAN
<1>1. WindowType'
  BY ConfigAssumption DEF WindowType, Show
<1>2. mapDirty' \in BOOLEAN
  BY DEF Show, Flushes
<1>3. input' \in {"game", "overlay", "other"} /\ tookKeyboard' \in BOOLEAN
  BY DEF Show, FocusType, TakeKeyboard, GiveKeyboardBack, FocusGame, Unmapped
<1>4. hasFocus' \in BOOLEAN /\ hadFocus' \in BOOLEAN
  BY DEF Show, FocusType
<1> QED BY <1>1, <1>2, <1>3, <1>4 DEF FocusType

LEMMA SetScreenType ==
  ASSUME TypeOK, NEW s \in Screens, NEW pending \in BOOLEAN, SetScreen(s, pending)
  PROVE  WindowType' /\ FocusType' /\ mapDirty' \in BOOLEAN /\ copyPending' \in BOOLEAN
<1>1. hasFocus \in BOOLEAN /\ Show(s, hasFocus)
  BY DEF TypeOK, FocusType, SetScreen
<1>2. WindowType' /\ FocusType' /\ mapDirty' \in BOOLEAN
  BY <1>1, ShowType DEF TypeOK
<1>3. copyPending' \in BOOLEAN
  BY DEF SetScreen
<1> QED BY <1>2, <1>3

LEMMA RestoreType ==
  ASSUME GiveType, RestoreActivation PROVE GiveType'
  BY DEF GiveType, RestoreActivation, giveVars

LEMMA AcceptType ==
  ASSUME TypeOK, NEW text \in Clips, Accept(text), clip' = clip, data' = data PROVE ItemType'
<1>1. plan' \in Plans
  BY DEF TypeOK, ItemType, Accept, RebuildPlan, Plans
<1> QED BY <1>1 DEF TypeOK, ItemType, Accept, RebuildPlan

LEMMA TypeStep == TypeOK /\ [Next]_vars => TypeOK'
<1> SUFFICES ASSUME TypeOK, [Next]_vars PROVE TypeOK'
  OBVIOUS
<1> USE DEF winVars, focusVars, gameVars, copyVars, giveVars, itemVars, keyVars, reportVars
<1>1. CASE StartCheck("PriceCheck") \/ StartCheck("MapCheck")
  <2>1. (GameType /\ ItemType /\ KeyType /\ ReportType)'
    BY <1>1, Frames DEF TypeOK, StartCheck
  <2>2. (WindowType /\ FocusType /\ mapDirty \in BOOLEAN)'
    <3>1. CASE ShowsItem
      BY <1>1, <3>1, ShowType DEF TypeOK, StartCheck, Screens, FocusType
    <3>2. CASE ~ShowsItem
      BY <1>1, <3>2, Frames DEF TypeOK, StartCheck
    <3> QED BY <3>1, <3>2
  <2>3. CopyType'
    BY <1>1 DEF TypeOK, StartCheck, CopyType
  <2>4. GiveType'
    BY <1>1, RestoreType, Frames DEF TypeOK, StartCheck
  <2>5. (copyAge \in 0..2)'
    BY <1>1 DEF TypeOK, StartCheck
  <2> QED BY <2>1, <2>2, <2>3, <2>4, <2>5 DEF TypeOK
<1>2. CASE RereadForMapCheck
  <2>1. (GameType /\ GiveType /\ KeyType /\ ReportType /\ copyAge \in 0..2)'
    BY <1>2, Frames DEF TypeOK, RereadForMapCheck
  <2>2. (WindowType /\ FocusType /\ mapDirty \in BOOLEAN)'
    BY <1>2, SetScreenType, Frames DEF TypeOK, RereadForMapCheck, CopyType, Screens
  <2>3. CopyType'
    BY <1>2, SetScreenType, Frames DEF TypeOK, RereadForMapCheck, CopyType, Screens
  <2>4. ItemType'
    BY <1>2, AcceptType DEF TypeOK, RereadForMapCheck, ItemType, Readings
  <2> QED BY <2>1, <2>2, <2>3, <2>4 DEF TypeOK
<1>3. CASE PasteHotkey
  <2>1. (GameType /\ ItemType /\ KeyType /\ ReportType /\ copyAge \in 0..2)'
    BY <1>3, Frames DEF TypeOK, PasteHotkey
  <2>2. (WindowType /\ FocusType /\ mapDirty \in BOOLEAN)'
    BY <1>3, SetScreenType, Frames DEF TypeOK, PasteHotkey, CopyType, Screens
  <2>3. CopyType'
    BY <1>3, SetScreenType, Frames DEF TypeOK, PasteHotkey, CopyType, Screens
  <2>4. GiveType'
    BY <1>3, RestoreType, Frames DEF TypeOK, PasteHotkey
  <2> QED BY <2>1, <2>2, <2>3, <2>4 DEF TypeOK
<1>4. CASE SettingsHotkey
  <2>1. (GameType /\ GiveType /\ ItemType /\ KeyType /\ ReportType /\ copyAge \in 0..2)'
    BY <1>4, Frames DEF TypeOK, SettingsHotkey
  <2>2. (WindowType /\ FocusType /\ mapDirty \in BOOLEAN)'
    BY <1>4, SetScreenType, Frames DEF TypeOK, SettingsHotkey, CopyType, Screens
  <2>3. CopyType'
    BY <1>4, SetScreenType, Frames DEF TypeOK, SettingsHotkey, CopyType, Screens
  <2> QED BY <2>1, <2>2, <2>3 DEF TypeOK
<1>5. CASE PollWaiting
  <2>1. (WindowType /\ FocusType /\ GameType /\ ItemType /\ KeyType
        /\ ReportType /\ mapDirty \in BOOLEAN /\ copyAge \in 0..2)'
    BY <1>5, Frames DEF TypeOK, PollWaiting, Nudge, EndHold
  <2>2. CopyType'
    BY <1>5 DEF TypeOK, PollWaiting, Nudge, EndHold, CopyType
  <2>3. GiveType'
    BY <1>5 DEF TypeOK, PollWaiting, Nudge, EndHold, GiveType, DeactivateGame, RestoreActivation
  <2> QED BY <2>1, <2>2, <2>3 DEF TypeOK
<1>6. CASE PollTimedOut
  <2>1. (WindowType /\ GameType /\ ItemType /\ KeyType
        /\ ReportType /\ mapDirty \in BOOLEAN /\ copyAge \in 0..2)'
    BY <1>6, Frames DEF TypeOK, PollTimedOut, AbandonCopy
  <2>2. FocusType'
    BY <1>6 DEF TypeOK, PollTimedOut, AbandonCopy, FocusType, FocusGame
  <2>3. CopyType'
    BY <1>6 DEF TypeOK, PollTimedOut, AbandonCopy, CopyType
  <2>4. GiveType'
    BY <1>6, RestoreType, Frames DEF TypeOK, PollTimedOut, AbandonCopy
  <2> QED BY <2>1, <2>2, <2>3, <2>4 DEF TypeOK
<1>7. CASE PollWritten
  <2>1. (GameType /\ KeyType /\ ReportType /\ copyAge \in 0..2)'
    BY <1>7, Frames DEF TypeOK, PollWritten, AbandonCopy
  <2>2. (WindowType /\ mapDirty \in BOOLEAN)'
    BY <1>7, SetScreenType, Frames DEF TypeOK, PollWritten, AbandonCopy, CopyType, Screens
  <2>3. FocusType'
    BY <1>7, SetScreenType, Frames DEF TypeOK, PollWritten, AbandonCopy, CopyType, Screens,
       FocusType, FocusGame
  <2>4. CopyType'
    BY <1>7, SetScreenType, Frames DEF TypeOK, PollWritten, AbandonCopy, CopyType, Screens
  <2>5. GiveType'
    BY <1>7, RestoreType, Frames DEF TypeOK, PollWritten, AbandonCopy
  <2>6. ItemType'
    BY <1>7, AcceptType DEF TypeOK, PollWritten, AbandonCopy, ItemType, Readings
  <2> QED BY <2>1, <2>2, <2>3, <2>4, <2>5, <2>6 DEF TypeOK
<1>8. CASE UpdateOverlayPlacement
  <2>1. (GameType /\ CopyType /\ GiveType /\ ItemType /\ KeyType
        /\ ReportType /\ mapDirty \in BOOLEAN /\ copyAge \in 0..2)'
    BY <1>8, Frames DEF TypeOK, UpdateOverlayPlacement
  <2>2. WindowType'
    BY <1>8, ConfigAssumption DEF TypeOK, UpdateOverlayPlacement, WindowType, HideElsewhere,
       ShowOverGame
  <2>3. FocusType'
    BY <1>8 DEF TypeOK, UpdateOverlayPlacement, FocusType, HideElsewhere, ShowOverGame, Reclaim,
       Unmapped, TakeKeyboard
  <2> QED BY <2>1, <2>2, <2>3 DEF TypeOK
<1>9. CASE ClickAway
  <2>1. (GameType /\ GiveType /\ ItemType /\ KeyType /\ ReportType /\ copyAge \in 0..2)'
    BY <1>9, Frames DEF TypeOK, ClickAway
  <2>2. (WindowType /\ FocusType /\ mapDirty \in BOOLEAN)'
    BY <1>9, SetScreenType, Frames DEF TypeOK, ClickAway, CopyType, Screens
  <2>3. CopyType'
    BY <1>9, SetScreenType, Frames DEF TypeOK, ClickAway, CopyType, Screens
  <2> QED BY <2>1, <2>2, <2>3 DEF TypeOK
<1>10. CASE ClickBack
  <2>1. (WindowType /\ GameType /\ CopyType /\ GiveType /\ ItemType
        /\ KeyType /\ ReportType /\ mapDirty \in BOOLEAN /\ copyAge \in 0..2)'
    BY <1>10, Frames DEF TypeOK, ClickBack
  <2>2. FocusType'
    BY <1>10 DEF TypeOK, ClickBack, FocusType, Reclaim, TakeKeyboard
  <2> QED BY <2>1, <2>2 DEF TypeOK
<1>11. CASE TickRatings
  <2>1. (WindowType /\ FocusType /\ GameType /\ CopyType /\ GiveType
        /\ ItemType /\ KeyType /\ ReportType /\ copyAge \in 0..2)'
    BY <1>11, Frames DEF TypeOK, TickRatings
  <2>2. (mapDirty \in BOOLEAN)'
    BY <1>11 DEF TypeOK, TickRatings
  <2> QED BY <2>1, <2>2 DEF TypeOK
<1>34. CASE RequestCapture
  <2>1. (WindowType /\ FocusType /\ GameType /\ CopyType /\ GiveType
        /\ ItemType /\ KeyType /\ mapDirty \in BOOLEAN /\ copyAge \in 0..2)'
    BY <1>34, Frames DEF TypeOK, RequestCapture
  <2>2. ReportType'
    BY <1>34 DEF TypeOK, RequestCapture, ReportType
  <2> QED BY <2>1, <2>2 DEF TypeOK
<1>12. CASE FinishBugReport
  <2>1. (GameType /\ GiveType /\ ItemType /\ KeyType /\ copyAge \in 0..2)'
    BY <1>12, Frames DEF TypeOK, FinishBugReport
  <2>2. (WindowType /\ FocusType /\ mapDirty \in BOOLEAN)'
    BY <1>12, SetScreenType, Frames DEF TypeOK, FinishBugReport, CopyType, Screens
  <2>3. CopyType'
    BY <1>12, SetScreenType, Frames DEF TypeOK, FinishBugReport, CopyType, Screens
  <2>4. ReportType'
    BY <1>12 DEF TypeOK, FinishBugReport, ReportType, WindowType, ItemType, Drafts
  <2> QED BY <2>1, <2>2, <2>3, <2>4 DEF TypeOK
<1>13. CASE FocusEvent
  <2>1. (GameType /\ GiveType /\ ItemType /\ KeyType /\ ReportType /\ copyAge \in 0..2)'
    BY <1>13, Frames DEF TypeOK, FocusEvent
  <2>2. (WindowType /\ mapDirty \in BOOLEAN)'
    BY <1>13, ShowType, Frames DEF TypeOK, FocusEvent, Screens
  <2>3. FocusType'
    BY <1>13, ShowType, Frames DEF TypeOK, FocusEvent, FocusType, Screens
  <2>4. CopyType'
    BY <1>13 DEF TypeOK, FocusEvent, CopyType
  <2> QED BY <2>1, <2>2, <2>3, <2>4 DEF TypeOK
<1>14. CASE DataEvent
  <2>1. (WindowType /\ FocusType /\ GameType /\ CopyType /\ GiveType
        /\ KeyType /\ ReportType /\ mapDirty \in BOOLEAN /\ copyAge \in 0..2)'
    BY <1>14, Frames DEF TypeOK, DataEvent
  <2>2. ItemType'
    BY <1>14, DataAssumption DEF TypeOK, DataEvent, ItemType, RebuildPlan, Plans
  <2> QED BY <2>1, <2>2 DEF TypeOK
<1>15. CASE ReportEvent
  <2>1. (GameType /\ GiveType /\ ItemType /\ KeyType /\ copyAge \in 0..2)'
    BY <1>15, Frames DEF TypeOK, ReportEvent
  <2>2. (WindowType /\ FocusType /\ mapDirty \in BOOLEAN)'
    BY <1>15, SetScreenType, Frames DEF TypeOK, ReportEvent, CopyType, Screens
  <2>3. CopyType'
    BY <1>15, SetScreenType, Frames DEF TypeOK, ReportEvent, CopyType, Screens
  <2>4. ReportType'
    BY <1>15 DEF TypeOK, ReportEvent, ReportType
  <2> QED BY <2>1, <2>2, <2>3, <2>4 DEF TypeOK
<1>16. CASE EscapeKey
  <2>1. (GameType /\ GiveType /\ copyAge \in 0..2)'
    BY <1>16, Frames DEF TypeOK, EscapeKey, EndCapture, CloseBugReport, DismissResult
  <2>2. (WindowType /\ FocusType /\ mapDirty \in BOOLEAN)'
    BY <1>16, SetScreenType, Frames DEF TypeOK, EscapeKey, EndCapture, CloseBugReport,
       DismissResult, CopyType, Screens
  <2>3. CopyType'
    BY <1>16, SetScreenType, Frames DEF TypeOK, EscapeKey, EndCapture, CloseBugReport,
       DismissResult, CopyType, Screens
  <2>4. ItemType'
    BY <1>16 DEF TypeOK, EscapeKey, EndCapture, CloseBugReport, DismissResult, ItemType,
       itemVars
  <2>5. KeyType'
    BY <1>16 DEF TypeOK, EscapeKey, EndCapture, CloseBugReport, DismissResult, KeyType
  <2>6. ReportType'
    BY <1>16 DEF TypeOK, EscapeKey, EndCapture, CloseBugReport, DismissResult, ReportType
  <2> QED BY <2>1, <2>2, <2>3, <2>4, <2>5, <2>6 DEF TypeOK
<1>17. CASE BoundKey
  <2>1. (WindowType /\ FocusType /\ GameType /\ GiveType /\ ItemType
        /\ ReportType /\ mapDirty \in BOOLEAN /\ copyAge \in 0..2)'
    BY <1>17, Frames DEF TypeOK, BoundKey, EndCapture
  <2>2. CopyType'
    BY <1>17 DEF TypeOK, BoundKey, EndCapture, CopyType
  <2>3. KeyType'
    BY <1>17 DEF TypeOK, BoundKey, EndCapture, KeyType
  <2> QED BY <2>1, <2>2, <2>3 DEF TypeOK
<1>18. CASE CloseButton
  <2>1. (GameType /\ GiveType /\ ItemType /\ KeyType /\ copyAge \in 0..2)'
    BY <1>18, Frames DEF TypeOK, CloseButton, CloseBugReport, DismissResult
  <2>2. (WindowType /\ FocusType /\ mapDirty \in BOOLEAN)'
    BY <1>18, SetScreenType, Frames DEF TypeOK, CloseButton, CloseBugReport, DismissResult,
       CopyType, Screens
  <2>3. CopyType'
    BY <1>18, SetScreenType, Frames DEF TypeOK, CloseButton, CloseBugReport, DismissResult,
       CopyType, Screens
  <2>4. ReportType'
    BY <1>18 DEF TypeOK, CloseButton, CloseBugReport, DismissResult, ReportType
  <2> QED BY <2>1, <2>2, <2>3, <2>4 DEF TypeOK
<1>19. CASE PickPaste
  <2>1. (GameType /\ GiveType /\ KeyType /\ ReportType /\ copyAge \in 0..2)'
    BY <1>19, Frames DEF TypeOK, PickPaste
  <2>2. (WindowType /\ FocusType /\ mapDirty \in BOOLEAN)'
    BY <1>19, SetScreenType, Frames DEF TypeOK, PickPaste, CopyType, Screens
  <2>3. CopyType'
    BY <1>19, SetScreenType, Frames DEF TypeOK, PickPaste, CopyType, Screens
  <2>4. ItemType'
    BY <1>19 DEF TypeOK, PickPaste, ItemType
  <2> QED BY <2>1, <2>2, <2>3, <2>4 DEF TypeOK
<1>20. CASE OpenPasteSettings
  <2>1. (GameType /\ GiveType /\ ItemType /\ KeyType /\ ReportType /\ copyAge \in 0..2)'
    BY <1>20, Frames DEF TypeOK, OpenPasteSettings
  <2>2. (WindowType /\ FocusType /\ mapDirty \in BOOLEAN)'
    BY <1>20, SetScreenType, Frames DEF TypeOK, OpenPasteSettings, CopyType, Screens
  <2>3. CopyType'
    BY <1>20, SetScreenType, Frames DEF TypeOK, OpenPasteSettings, CopyType, Screens
  <2> QED BY <2>1, <2>2, <2>3 DEF TypeOK
<1>21. CASE EditFilter
  <2>1. (WindowType /\ GameType /\ CopyType /\ GiveType /\ KeyType
        /\ ReportType /\ mapDirty \in BOOLEAN /\ copyAge \in 0..2)'
    BY <1>21, Frames DEF TypeOK, EditFilter
  <2>2. FocusType'
    BY <1>21 DEF TypeOK, EditFilter, FocusType, TakeKeyboard
  <2>3. ItemType'
    BY <1>21 DEF TypeOK, EditFilter, ItemType
  <2> QED BY <2>1, <2>2, <2>3 DEF TypeOK
<1>22. CASE ReplanOrClose
  <2>1. (WindowType /\ FocusType /\ GameType /\ CopyType /\ GiveType
        /\ KeyType /\ ReportType /\ mapDirty \in BOOLEAN /\ copyAge \in 0..2)'
    BY <1>22, Frames DEF TypeOK, ReplanOrClose
  <2>2. ItemType'
    BY <1>22 DEF TypeOK, ReplanOrClose, ItemType, Plans
  <2> QED BY <2>1, <2>2 DEF TypeOK
<1>23. CASE RateModifier
  <2>1. (WindowType /\ FocusType /\ GameType /\ CopyType /\ GiveType
        /\ ItemType /\ KeyType /\ ReportType /\ copyAge \in 0..2)'
    BY <1>23, Frames DEF TypeOK, RateModifier
  <2>2. (mapDirty \in BOOLEAN)'
    BY <1>23 DEF TypeOK, RateModifier
  <2> QED BY <2>1, <2>2 DEF TypeOK
<1>24. CASE BeginCapture
  <2>1. (WindowType /\ FocusType /\ GameType /\ CopyType /\ GiveType
        /\ ItemType /\ ReportType /\ mapDirty \in BOOLEAN /\ copyAge \in 0..2)'
    BY <1>24, Frames DEF TypeOK, BeginCapture
  <2>2. KeyType'
    BY <1>24 DEF TypeOK, BeginCapture, KeyType
  <2> QED BY <2>1, <2>2 DEF TypeOK
<1>25. CASE SaveConfig
  <2>1. (WindowType /\ FocusType /\ GameType /\ CopyType /\ GiveType
        /\ ItemType /\ ReportType /\ mapDirty \in BOOLEAN /\ copyAge \in 0..2)'
    BY <1>25, Frames DEF TypeOK, SaveConfig
  <2>2. KeyType'
    BY <1>25 DEF TypeOK, SaveConfig, KeyType
  <2> QED BY <2>1, <2>2 DEF TypeOK
<1>26. CASE OpenBugReport
  <2>1. (WindowType /\ FocusType /\ GameType /\ CopyType /\ GiveType
        /\ ItemType /\ KeyType /\ mapDirty \in BOOLEAN /\ copyAge \in 0..2)'
    BY <1>26, Frames DEF TypeOK, OpenBugReport
  <2>2. ReportType'
    BY <1>26 DEF TypeOK, OpenBugReport, ReportType
  <2> QED BY <2>1, <2>2 DEF TypeOK
<1>27. CASE SendBugReport
  <2>1. (WindowType /\ FocusType /\ GameType /\ CopyType /\ GiveType
        /\ ItemType /\ KeyType /\ mapDirty \in BOOLEAN /\ copyAge \in 0..2)'
    BY <1>27, Frames DEF TypeOK, SendBugReport
  <2>2. ReportType'
    BY <1>27 DEF TypeOK, SendBugReport, ReportType, Drafts
  <2> QED BY <2>1, <2>2 DEF TypeOK
<1>28. CASE Publish
  <2>1. (WindowType /\ FocusType /\ GameType /\ GiveType /\ KeyType
        /\ ReportType /\ mapDirty \in BOOLEAN /\ copyAge \in 0..2)'
    BY <1>28, Frames DEF TypeOK, Publish
  <2>2. CopyType'
    BY <1>28 DEF TypeOK, Publish, CopyType
  <2>3. ItemType'
    BY <1>28 DEF TypeOK, Publish, ItemType
  <2> QED BY <2>1, <2>2, <2>3 DEF TypeOK
<1>29. CASE SwitchTo("game") \/ SwitchTo("other")
  <2>1. (WindowType /\ CopyType /\ GiveType /\ ItemType /\ KeyType
        /\ ReportType /\ mapDirty \in BOOLEAN /\ copyAge \in 0..2)'
    BY <1>29, Frames DEF TypeOK, SwitchTo
  <2>2. FocusType'
    BY <1>29 DEF TypeOK, SwitchTo, FocusType
  <2>3. GameType'
    BY <1>29 DEF TypeOK, SwitchTo, GameType
  <2> QED BY <2>1, <2>2, <2>3 DEF TypeOK
<1>30. CASE ServeActivation
  <2>1. (WindowType /\ CopyType /\ ItemType /\ KeyType
        /\ ReportType /\ mapDirty \in BOOLEAN /\ copyAge \in 0..2)'
    BY <1>30, Frames DEF TypeOK, ServeActivation
  <2>2. FocusType'
    BY <1>30 DEF TypeOK, ServeActivation, FocusType
  <2>3. GameType'
    BY <1>30 DEF TypeOK, ServeActivation, GameType
  <2>4. GiveType'
    BY <1>30 DEF TypeOK, ServeActivation, GiveType
  <2> QED BY <2>1, <2>2, <2>3, <2>4 DEF TypeOK
<1>31. CASE GameStartsOrExits
  <2>1. (WindowType /\ CopyType /\ GiveType /\ ItemType /\ KeyType
        /\ ReportType /\ mapDirty \in BOOLEAN /\ copyAge \in 0..2)'
    BY <1>31, Frames DEF TypeOK, GameStartsOrExits
  <2>2. FocusType'
    BY <1>31 DEF TypeOK, GameStartsOrExits, FocusType
  <2>3. GameType'
    BY <1>31 DEF TypeOK, GameStartsOrExits, GameType
  <2> QED BY <2>1, <2>2, <2>3 DEF TypeOK
<1>32. CASE Clock
  <2>1. (WindowType /\ FocusType /\ GameType /\ GiveType /\ ItemType
        /\ KeyType /\ ReportType /\ mapDirty \in BOOLEAN)'
    BY <1>32, Frames DEF TypeOK, Clock
  <2>2. CopyType'
    BY <1>32 DEF TypeOK, Clock, CopyType
  <2>3. (copyAge \in 0..2)'
    BY <1>32 DEF TypeOK, Clock
  <2> QED BY <2>1, <2>2, <2>3 DEF TypeOK
<1>33. CASE UNCHANGED vars
  <2>1. (WindowType /\ FocusType /\ GameType /\ CopyType /\ GiveType /\ ItemType
        /\ KeyType /\ ReportType /\ mapDirty \in BOOLEAN /\ copyAge \in 0..2)'
    BY <1>33, Frames DEF TypeOK, vars
  <2> QED BY <2>1 DEF TypeOK
<1> QED
  BY <1>1, <1>2, <1>3, <1>4, <1>5, <1>6, <1>7, <1>8, <1>9, <1>10, <1>11, <1>12, <1>13,
     <1>14, <1>15, <1>16, <1>17, <1>18, <1>19, <1>20, <1>21, <1>22, <1>23, <1>24, <1>25, <1>26,
     <1>27, <1>28, <1>29, <1>30, <1>31, <1>32, <1>33, <1>34
  DEF Next, Hotkey, Loop, Event, Button, World, PollPendingCopy

\* Every variable keeps its type, whatever the instance: among other things the
\* plan on screen is always of an item that parsed, or of none.
THEOREM TypeCorrect == Spec => []TypeOK
  BY TypeInit, TypeStep, PTL DEF Spec

-----------------------------------------------------------------------------
(* The pixel window of a handover.                                         *)

LEMMA HandoverStep == HandoverOwned /\ [Next]_vars => HandoverOwned'
<1> SUFFICES ASSUME HandoverOwned, [Next]_vars PROVE HandoverOwned'
  OBVIOUS
<1> DEFINE Keeps == /\ UNCHANGED <<copyDeactivated, handover, copyNudged>>
                    /\ copyPending' => copyPending
<1> USE DEF giveVars, copyVars
<1>1. Keeps => HandoverOwned'
  BY DEF HandoverOwned
<1>2. RestoreActivation => HandoverOwned'
  BY DEF HandoverOwned, RestoreActivation
<1> HIDE DEF Keeps
<1>3. CASE Hotkey
  <2>1. CASE StartCheck("PriceCheck") \/ StartCheck("MapCheck")
    BY <2>1, <1>2 DEF StartCheck
  <2>2. CASE RereadForMapCheck \/ SettingsHotkey
    BY <2>2, <1>1 DEF RereadForMapCheck, SettingsHotkey, SetScreen, Keeps
  <2>3. CASE PasteHotkey
    <3>1. CASE RestoreActivation
      BY <3>1, <1>2
    <3>2. CASE UNCHANGED giveVars
      BY <2>3, <3>2, <1>1 DEF PasteHotkey, SetScreen, Keeps
    <3> QED BY <2>3, <3>1, <3>2 DEF PasteHotkey
  <2> QED BY <1>3, <2>1, <2>2, <2>3 DEF Hotkey
<1>4. CASE PollWaiting
  <2>1. CASE Nudge
    BY <1>4, <2>1 DEF HandoverOwned, PollWaiting, Nudge, DeactivateGame
  <2>2. CASE EndHold
    BY <2>2, <1>2 DEF EndHold
  <2> QED BY <1>4, <2>1, <2>2 DEF PollWaiting
<1>5. CASE PollTimedOut \/ PollWritten
  BY <1>5, <1>2 DEF PollTimedOut, PollWritten, AbandonCopy
<1>6. CASE UpdateOverlayPlacement \/ ClickAway \/ ClickBack \/ TickRatings \/ RequestCapture
            \/ FinishBugReport
  <2>1. CASE UpdateOverlayPlacement \/ ClickBack \/ TickRatings \/ RequestCapture
    BY <2>1, <1>1 DEF UpdateOverlayPlacement, ClickBack, TickRatings, RequestCapture, Keeps
  <2>2. CASE ClickAway \/ FinishBugReport
    BY <2>2, <1>1 DEF ClickAway, FinishBugReport, SetScreen, Keeps
  <2> QED BY <1>6, <2>1, <2>2
<1>7. CASE FocusEvent \/ DataEvent \/ ReportEvent
  BY <1>7, <1>1 DEF FocusEvent, DataEvent, ReportEvent, SetScreen, Keeps
<1>8. CASE EscapeKey \/ BoundKey \/ CloseButton
  BY <1>8, <1>1
     DEF EscapeKey, BoundKey, EndCapture, CloseButton, CloseBugReport, DismissResult, SetScreen,
         Keeps
<1>9. CASE PickPaste \/ OpenPasteSettings
  BY <1>9, <1>1 DEF PickPaste, OpenPasteSettings, SetScreen, Keeps
<1>10. CASE EditFilter \/ ReplanOrClose \/ RateModifier \/ BeginCapture \/ SaveConfig
            \/ OpenBugReport \/ SendBugReport
  BY <1>10, <1>1
     DEF EditFilter, ReplanOrClose, RateModifier, BeginCapture, SaveConfig, OpenBugReport,
         SendBugReport, Keeps
<1>11. CASE World
  BY <1>11, <1>1
     DEF World, Publish, SwitchTo, ServeActivation, GameStartsOrExits, Clock, Keeps
<1>12. CASE UNCHANGED vars
  BY <1>12, <1>1 DEF vars, Keeps
<1> QED
  BY <1>3, <1>4, <1>5, <1>6, <1>7, <1>8, <1>9, <1>10, <1>11, <1>12
     DEF Next, Loop, Event, Button, PollPendingCopy

\* The pixel window a nudge asked for is never forgotten while it exists, and no
\* second one is asked for in the same check (nudge_clipboard_handover).
THEOREM HandoverIsOwned == Spec => []HandoverOwned
<1>1. Init => HandoverOwned
  BY DEF Init, HandoverOwned
<1> QED BY <1>1, HandoverStep, PTL DEF Spec

-----------------------------------------------------------------------------
(* The ratings buffered by the screens that rate.                          *)

LEMMA ShowKeepsRatings ==
  ASSUME RatingsAreSafe, NEW s, NEW focus, Show(s, focus) PROVE RatingsAreSafe'
  BY DEF RatingsAreSafe, Show, Flushes

LEMMA RatingsStep == RatingsAreSafe /\ [Next]_vars => RatingsAreSafe'
<1> SUFFICES ASSUME RatingsAreSafe, [Next]_vars PROVE RatingsAreSafe'
  OBVIOUS
<1>0. screen' = screen /\ mapDirty' = mapDirty => RatingsAreSafe'
  BY DEF RatingsAreSafe
<1> USE DEF winVars, SetScreen
<1>1. CASE Hotkey
  BY <1>0, <1>1, ShowKeepsRatings
     DEF Hotkey, StartCheck, RereadForMapCheck, PasteHotkey, SettingsHotkey
<1>2. CASE PollPendingCopy
  BY <1>0, <1>2, ShowKeepsRatings
     DEF PollPendingCopy, PollWaiting, PollTimedOut, PollWritten, AbandonCopy
<1>3. CASE UpdateOverlayPlacement \/ ClickAway \/ ClickBack \/ RequestCapture \/ FinishBugReport
  BY <1>0, <1>3, ShowKeepsRatings
     DEF UpdateOverlayPlacement, ClickAway, ClickBack, RequestCapture, FinishBugReport
<1>4. CASE TickRatings \/ RateModifier
  BY <1>4 DEF TickRatings, RateModifier, RatingsAreSafe
<1>5. CASE Event
  BY <1>0, <1>5, ShowKeepsRatings
     DEF Event, FocusEvent, DataEvent, ReportEvent, EscapeKey, BoundKey, EndCapture,
         CloseBugReport, DismissResult
<1>6. CASE CloseButton \/ PickPaste \/ OpenPasteSettings
  BY <1>0, <1>6, ShowKeepsRatings
     DEF CloseButton, PickPaste, OpenPasteSettings, CloseBugReport, DismissResult
<1>7. CASE EditFilter \/ ReplanOrClose \/ BeginCapture \/ SaveConfig \/ OpenBugReport
           \/ SendBugReport
  BY <1>0, <1>7
     DEF EditFilter, ReplanOrClose, BeginCapture, SaveConfig, OpenBugReport, SendBugReport
<1>8. CASE World \/ UNCHANGED vars
  BY <1>0, <1>8
     DEF World, Publish, SwitchTo, ServeActivation, GameStartsOrExits, Clock, vars
<1> QED
  BY <1>1, <1>2, <1>3, <1>4, <1>5, <1>6, <1>7, <1>8 DEF Next, Loop, Button

\* No verdict is left unwritten once the screens that can rate are gone
\* (set_screen's flush, on every way out of them).
THEOREM RatingsAreFlushed == Spec => []RatingsAreSafe
<1>1. Init => RatingsAreSafe
  BY DEF Init, RatingsAreSafe
<1> QED BY <1>1, RatingsStep, PTL DEF Spec

-----------------------------------------------------------------------------
(* The item, the bundle it was resolved with and the row being edited.     *)

LEMMA RebuildPins ==
  ASSUME NEW text, NEW d, NEW chosen, RebuildPlan(text, d, chosen),
         clipboard' = text, data' = d
  PROVE  PlanIsPinned'
  BY DEF RebuildPlan, PlanIsPinned

LEMMA PinnedStep == TypeOK /\ PlanIsPinned /\ [Next]_vars => PlanIsPinned'
<1> SUFFICES ASSUME TypeOK, PlanIsPinned, [Next]_vars PROVE PlanIsPinned'
  OBVIOUS
<1> USE DEF itemVars
<1>0. UNCHANGED <<itemVars, data>> => PlanIsPinned'
  BY DEF PlanIsPinned
<1>1. CASE Hotkey
  <2>1. CASE RereadForMapCheck
    BY <2>1, RebuildPins DEF RereadForMapCheck, Accept
  <2> QED BY <1>1, <2>1, <1>0 DEF Hotkey, StartCheck, PasteHotkey, SettingsHotkey
<1>2. CASE PollPendingCopy
  <2>1. CASE PollWritten
    BY <2>1, RebuildPins DEF PollWritten, Accept
  <2> QED BY <1>2, <2>1, <1>0 DEF PollPendingCopy, PollWaiting, PollTimedOut
<1>3. CASE UpdateOverlayPlacement \/ ClickAway \/ ClickBack \/ TickRatings \/ RequestCapture
            \/ FinishBugReport
  BY <1>3, <1>0 DEF UpdateOverlayPlacement, ClickAway, ClickBack, TickRatings, RequestCapture, FinishBugReport
<1>4. CASE DataEvent
  <2>1. CASE plan.item # None
    BY <1>4, <2>1, RebuildPins DEF DataEvent, PlanIsPinned
  <2>2. CASE plan.item = None
    BY <1>4, <2>2 DEF DataEvent, PlanIsPinned
  <2> QED BY <2>1, <2>2
<1>5. CASE FocusEvent \/ ReportEvent \/ BoundKey
  BY <1>5, <1>0 DEF FocusEvent, ReportEvent, BoundKey, EndCapture
<1>6. CASE EscapeKey
  <2>1. CASE UNCHANGED <<clipboard, plan, data>> /\ filterEdit' = None
    BY <2>1 DEF PlanIsPinned
  <2>2. CASE UNCHANGED <<itemVars, data>>
    BY <2>2, <1>0
  <2> QED BY <1>6, <2>1, <2>2 DEF EscapeKey, EndCapture, CloseBugReport, DismissResult
<1>7. CASE CloseButton \/ PickPaste \/ OpenPasteSettings
  BY <1>7, <1>0 DEF CloseButton, PickPaste, OpenPasteSettings, CloseBugReport, DismissResult
<1>8. CASE EditFilter
  BY <1>8 DEF EditFilter, PlanIsPinned
<1>9. CASE ReplanOrClose
  <2>1. plan'.item = plan.item /\ plan'.data = plan.data
    BY <1>9 DEF ReplanOrClose, TypeOK, ItemType, Plans
  <2> QED BY <1>9, <2>1 DEF ReplanOrClose, PlanIsPinned
<1>10. CASE RateModifier \/ BeginCapture \/ SaveConfig \/ OpenBugReport \/ SendBugReport
  BY <1>10, <1>0 DEF RateModifier, BeginCapture, SaveConfig, OpenBugReport, SendBugReport
<1>11. CASE World \/ UNCHANGED vars
  BY <1>11, <1>0
     DEF World, Publish, SwitchTo, ServeActivation, GameStartsOrExits, Clock, vars
<1> QED
  BY <1>1, <1>2, <1>3, <1>4, <1>5, <1>6, <1>7, <1>8, <1>9, <1>10, <1>11
     DEF Next, Loop, Event, Button

\* Whatever arrives in whatever order, the plan on screen is of the text accepted
\* last, resolved with the bundle that is current, and the row being edited is one
\* of its own (rebuild_plan on data_event_, accept_clipboard, edit_filter).
THEOREM PlanStaysPinned == Spec => []PlanIsPinned
<1>1. Init => PlanIsPinned
  BY DEF Init, PlanIsPinned
<1> QED BY <1>1, TypeCorrect, PinnedStep, PTL DEF Spec

-----------------------------------------------------------------------------
(* The keyboard.                                                           *)

LEMMA HidingGivesItBack ==
  ASSUME NEW focus, Show("Hidden", focus), GameInFront, present, tookKeyboard
  PROVE  input' = "game"
  BY DEF Show, Typing, GiveKeyboardBack, FocusGame

LEMMA KeyboardStep ==
  [Next]_vars => [screen # "Hidden" /\ screen' = "Hidden" /\ GameInFront /\ present
                    /\ tookKeyboard => input' = "game"]_vars
<1> SUFFICES ASSUME [Next]_vars, screen # "Hidden", screen' = "Hidden", GameInFront, present,
                    tookKeyboard
             PROVE  input' = "game"
  OBVIOUS
<1> USE DEF winVars
<1>0. \A s, focus : Show(s, focus) => input' = "game"
  BY HidingGivesItBack DEF Show
<1>1. CASE Hotkey
  BY <1>0, <1>1 DEF Hotkey, StartCheck, RereadForMapCheck, PasteHotkey, SettingsHotkey, SetScreen
<1>2. CASE PollPendingCopy
  BY <1>0, <1>2 DEF PollPendingCopy, PollWaiting, PollTimedOut, PollWritten, AbandonCopy, SetScreen
<1>3. CASE UpdateOverlayPlacement \/ ClickAway \/ ClickBack \/ TickRatings \/ RequestCapture
            \/ FinishBugReport
  BY <1>0, <1>3
     DEF UpdateOverlayPlacement, ClickAway, ClickBack, TickRatings, RequestCapture, FinishBugReport, SetScreen
<1>4. CASE Event
  BY <1>0, <1>4
     DEF Event, FocusEvent, DataEvent, ReportEvent, EscapeKey, BoundKey, EndCapture,
         CloseBugReport, DismissResult, SetScreen
<1>5. CASE CloseButton \/ PickPaste \/ OpenPasteSettings
  BY <1>0, <1>5
     DEF CloseButton, PickPaste, OpenPasteSettings, CloseBugReport, DismissResult, SetScreen
<1>6. CASE EditFilter \/ ReplanOrClose \/ RateModifier \/ BeginCapture \/ SaveConfig
           \/ OpenBugReport \/ SendBugReport
  BY <1>6
     DEF EditFilter, ReplanOrClose, RateModifier, BeginCapture, SaveConfig, OpenBugReport,
         SendBugReport
<1>7. CASE World \/ UNCHANGED vars
  BY <1>7 DEF World, Publish, SwitchTo, ServeActivation, GameStartsOrExits, Clock, vars
<1> QED
  BY <1>1, <1>2, <1>3, <1>4, <1>5, <1>6, <1>7 DEF Next, Loop, Button

\* Every way a screen that took the keyboard has of closing hands it to the game
\* when the game is in front, whatever SDL believes about the focus by then.
THEOREM KeyboardIsReturned == Spec => KeyboardReturned
  BY KeyboardStep, PTL DEF Spec, KeyboardReturned
-----------------------------------------------------------------------------
(* The report and the panel.                                               *)

LEMMA ReportStep == TypeOK /\ ReportIsThere /\ [Next]_vars => ReportIsThere'
<1> SUFFICES ASSUME TypeOK, ReportIsThere, [Next]_vars PROVE ReportIsThere'
  OBVIOUS
<1> USE DEF winVars, reportVars
<1>1. ASSUME UNCHANGED <<screen, draft, report>> PROVE ReportIsThere'
  BY <1>1 DEF ReportIsThere
<1>2. ASSUME screen' \notin {"BugReport", "ReportSent"} PROVE ReportIsThere'
  BY <1>2 DEF ReportIsThere
<1>3. CASE Hotkey
  BY <1>1, <1>2, <1>3
     DEF Hotkey, StartCheck, RereadForMapCheck, PasteHotkey, SettingsHotkey, SetScreen, Show
<1>4. CASE PollPendingCopy
  <2>1. CASE PollWaiting \/ PollTimedOut
    BY <1>1, <2>1 DEF PollWaiting, PollTimedOut, AbandonCopy
  <2>2. CASE PollWritten
    <3>1. UNCHANGED reportVars /\ copyTarget \in {"PriceCheck", "MapCheck"}
      BY <2>2 DEF PollWritten, TypeOK, CopyType
    <3>2. PICK text \in Readings :
            IF Rateable(text, copyTarget) THEN SetScreen(copyTarget, FALSE) ELSE AbandonCopy
      BY <2>2 DEF PollWritten
    <3>3. CASE SetScreen(copyTarget, FALSE)
      BY <1>2, <3>1, <3>3 DEF SetScreen, Show
    <3>4. CASE AbandonCopy
      BY <1>1, <3>1, <3>4 DEF AbandonCopy
    <3> QED BY <3>2, <3>3, <3>4
  <2> QED BY <1>4, <2>1, <2>2 DEF PollPendingCopy
<1>5. CASE UpdateOverlayPlacement \/ ClickAway \/ ClickBack \/ TickRatings
  BY <1>1, <1>2, <1>5 DEF UpdateOverlayPlacement, ClickAway, ClickBack, TickRatings, SetScreen, Show
<1>34. CASE RequestCapture
  BY <1>1, <1>34 DEF RequestCapture
<1>6. CASE FinishBugReport
  <2>1. screen' = "BugReport" /\ draft' = [shot |-> screen, item |-> clipboard, posted |-> FALSE]
    BY <1>6 DEF FinishBugReport, SetScreen, Show
  <2>2. draft' \in Drafts
    BY <1>6, <2>1 DEF TypeOK, WindowType, ItemType, Drafts
  <2> QED BY <2>1, <2>2, DraftAssumption DEF ReportIsThere
<1>7. CASE FocusEvent \/ DataEvent
  BY <1>1, <1>2, <1>7 DEF FocusEvent, DataEvent, Show
<1>8. CASE ReportEvent
  BY <1>8 DEF ReportEvent, ClosesDialog, SetScreen, Show, ReportIsThere
<1>9. ASSUME CloseBugReport PROVE ReportIsThere'
  BY <1>2, <1>9 DEF CloseBugReport, SetScreen, Show
<1>10. ASSUME DismissResult PROVE ReportIsThere'
  BY <1>10 DEF DismissResult, SetScreen, Show, ReportIsThere
<1>11. CASE EscapeKey \/ BoundKey
  BY <1>1, <1>2, <1>9, <1>10, <1>11 DEF EscapeKey, BoundKey, EndCapture, SetScreen, Show
<1>12. CASE CloseButton
  BY <1>2, <1>9, <1>10, <1>12 DEF CloseButton, SetScreen, Show
<1>13. CASE PickPaste \/ OpenPasteSettings
  BY <1>2, <1>13 DEF PickPaste, OpenPasteSettings, SetScreen, Show
<1>14. CASE EditFilter \/ ReplanOrClose \/ RateModifier \/ BeginCapture \/ SaveConfig
            \/ OpenBugReport
  BY <1>1, <1>14
     DEF EditFilter, ReplanOrClose, RateModifier, BeginCapture, SaveConfig, OpenBugReport
<1>15. CASE SendBugReport
  <2>1. screen' = "BugReport" /\ draft' = [draft EXCEPT !.posted = TRUE]
    BY <1>15 DEF SendBugReport
  <2>2. draft' \in Drafts
    BY <1>15, <2>1 DEF SendBugReport, TypeOK, ReportType, Drafts
  <2> QED BY <2>1, <2>2, DraftAssumption DEF ReportIsThere
<1>16. CASE World \/ UNCHANGED vars
  BY <1>1, <1>16
     DEF World, Publish, SwitchTo, ServeActivation, GameStartsOrExits, Clock, vars
<1> QED
  BY <1>3, <1>4, <1>5, <1>6, <1>7, <1>8, <1>11, <1>12, <1>13, <1>14, <1>15, <1>16, <1>34
     DEF Next, Loop, Event, Button

\* The dialog has the report it shows and the confirmation the answer it quotes, whatever was
\* closed, sent, answered or opened since (draw_report_screen).
THEOREM ReportIsAlwaysThere == Spec => []ReportIsThere
<1>1. Init => ReportIsThere
  BY DEF Init, ReportIsThere
<1> QED BY <1>1, ReportStep, TypeCorrect, PTL DEF Spec

\* Nobody touches the report button, so its dialog never opens; the one that does close goes
\* back to the panel whatever copy is on its way.
NoReport == reportOpening = "No" /\ screen # "BugReport"
NoDialog == NoReport /\ NoStalePanel

LEMMA PanelStep == "report" \notin Controls /\ TypeOK /\ NoDialog /\ [Next]_vars => NoDialog'
<1> SUFFICES ASSUME "report" \notin Controls, TypeOK, NoDialog, [Next]_vars PROVE NoDialog'
  OBVIOUS
<1> USE DEF winVars, reportVars, copyVars
<1>1. ASSUME UNCHANGED <<screen, reportOpening>>, copyPending' => copyPending PROVE NoDialog'
  BY <1>1 DEF NoDialog, NoReport, NoStalePanel
<1>2. ASSUME reportOpening' = reportOpening, NEW s \in {"Hidden", "Settings", "QuickPaste", "ReportSent"},
             screen' = s
      PROVE  NoDialog'
  BY <1>2 DEF NoDialog, NoReport, NoStalePanel
<1>3. ASSUME reportOpening' = reportOpening, screen' # "BugReport", ~copyPending' PROVE NoDialog'
  BY <1>3 DEF NoDialog, NoReport, NoStalePanel
<1>4. CASE StartCheck("PriceCheck") \/ StartCheck("MapCheck")
  BY <1>4 DEF StartCheck, ShowsItem, Show, NoDialog, NoReport, NoStalePanel
<1>5. CASE RereadForMapCheck
  BY <1>5
     DEF RereadForMapCheck, ClosesOwnScreen, SetScreen, Show, NoDialog, NoReport, NoStalePanel
<1>6. CASE PasteHotkey \/ SettingsHotkey
  BY <1>2, <1>6 DEF PasteHotkey, SettingsHotkey, SetScreen, Show
<1>7. CASE PollPendingCopy
  <2>1. CASE PollWaiting \/ PollTimedOut
    BY <1>1, <2>1 DEF PollWaiting, PollTimedOut, AbandonCopy
  <2>2. CASE PollWritten
    <3>1. PICK text \in Readings :
            IF Rateable(text, copyTarget) THEN SetScreen(copyTarget, FALSE) ELSE AbandonCopy
      BY <2>2 DEF PollWritten
    <3>2. copyTarget # "BugReport" /\ reportOpening' = reportOpening
      BY <2>2 DEF TypeOK, CopyType, PollWritten
    <3>3. CASE SetScreen(copyTarget, FALSE)
      BY <1>3, <3>2, <3>3 DEF SetScreen, Show
    <3>4. CASE AbandonCopy
      BY <1>1, <3>2, <3>4 DEF AbandonCopy
    <3> QED BY <3>1, <3>3, <3>4
  <2> QED BY <1>7, <2>1, <2>2 DEF PollPendingCopy
<1>8. CASE UpdateOverlayPlacement \/ ClickAway \/ ClickBack \/ TickRatings
  BY <1>1, <1>2, <1>8 DEF UpdateOverlayPlacement, ClickAway, ClickBack, TickRatings, SetScreen, Show
<1>34. CASE RequestCapture
  BY <1>34 DEF RequestCapture, NoDialog, NoReport
<1>9. CASE FinishBugReport
  BY <1>9 DEF FinishBugReport, NoDialog, NoReport
<1>10. CASE FocusEvent \/ DataEvent
  BY <1>1, <1>2, <1>10 DEF FocusEvent, DataEvent, Show
<1>11. CASE ReportEvent
  BY <1>1, <1>11 DEF ReportEvent, ClosesDialog, NoDialog, NoReport
<1>12. ASSUME DismissResult PROVE NoDialog'
  BY <1>1, <1>2, <1>12 DEF DismissResult, SetScreen, Show
<1>13. CASE EscapeKey \/ BoundKey \/ CloseButton
  <2>1. ~CloseBugReport \/ screen # "BugReport"
    BY DEF NoDialog, NoReport
  <2> QED
    BY <1>1, <1>2, <1>12, <1>13
       DEF EscapeKey, BoundKey, EndCapture, CloseButton, SetScreen, Show, NoDialog, NoReport
<1>14. CASE PickPaste \/ OpenPasteSettings
  BY <1>2, <1>14 DEF PickPaste, OpenPasteSettings, SetScreen, Show
<1>15. CASE EditFilter \/ ReplanOrClose \/ RateModifier \/ BeginCapture \/ SaveConfig
            \/ SendBugReport
  BY <1>1, <1>15
     DEF EditFilter, ReplanOrClose, RateModifier, BeginCapture, SaveConfig, SendBugReport
<1>16. CASE OpenBugReport
  BY <1>16 DEF OpenBugReport
<1>17. CASE World \/ UNCHANGED vars
  BY <1>1, <1>17
     DEF World, Publish, SwitchTo, ServeActivation, GameStartsOrExits, Clock, vars
<1> QED
  BY <1>4, <1>5, <1>6, <1>7, <1>8, <1>9, <1>10, <1>11, <1>13, <1>14, <1>15, <1>16, <1>17, <1>34
     DEF Next, Hotkey, Loop, Event, Button

\* No panel about the previous item is up while a new copy is in flight (handle_action), as long
\* as no bug report is opened: closing one brings the panel back.
THEOREM NoPanelMeanwhile == "report" \notin Controls => (Spec => []NoStalePanel)
<1> SUFFICES ASSUME "report" \notin Controls PROVE Spec => []NoStalePanel
  OBVIOUS
<1>1. Init => NoDialog
  BY DEF Init, NoDialog, NoReport, NoStalePanel
<1>2. NoDialog => NoStalePanel
  BY DEF NoDialog
<1>3. TypeOK /\ NoDialog /\ [Next]_vars => NoDialog'
  BY PanelStep
<1> QED BY <1>1, <1>2, <1>3, TypeCorrect, PTL DEF Spec
-----------------------------------------------------------------------------
(* The game given back.                                                    *)

\* The input focus is ours only with a record of it while the game is in front, and not at all
\* once the screen is down, so no key of the user's ends a check behind our back.
FrontIsThere == GameInFront => present
FocusIsKnown == GameInFront /\ input = "overlay" => tookKeyboard \/ hasFocus
HiddenIsQuiet == screen = "Hidden" /\ (GameInFront \/ copyPending) => input # "overlay"
Quiet == FrontIsThere /\ FocusIsKnown /\ HiddenIsQuiet

LEMMA ShowIsQuiet ==
  ASSUME Quiet, NEW s \in Screens, NEW focus \in BOOLEAN, Show(s, focus), UNCHANGED gameVars,
         hasFocus => focus \/ input # "overlay",
         s = "Hidden" => GameInFront \/ ~copyPending'
  PROVE  Quiet'
<1> USE DEF Quiet, FrontIsThere, FocusIsKnown, HiddenIsQuiet, GameInFront, gameVars
<1>1. hasFocus' = focus /\ screen' = s
  BY DEF Show
<1>2. CASE s \in Typing
  BY <1>1, <1>2 DEF Show, Typing, TakeKeyboard
<1>3. CASE s = "Hidden"
  <2>1. GiveKeyboardBack(focus)
    BY <1>3 DEF Show, Typing
  <2>2. ~GameInFront \/ input' # "overlay"
    BY <2>1 DEF GiveKeyboardBack, FocusGame, Unmapped
  <2> QED BY <1>1, <1>3, <2>2
<1>4. CASE s \in {"PriceCheck", "ReportSent"}
  BY <1>1, <1>4 DEF Show, Typing
<1> QED BY <1>2, <1>3, <1>4 DEF Screens, Typing

LEMMA SetScreenIsQuiet ==
  ASSUME TypeOK, Quiet, NEW s \in Screens, NEW pending \in BOOLEAN, SetScreen(s, pending),
         UNCHANGED gameVars
  PROVE  Quiet'
  BY ShowIsQuiet DEF TypeOK, FocusType, SetScreen

LEMMA QuietStep == TypeOK /\ Quiet /\ [Next]_vars => Quiet'
<1> SUFFICES ASSUME TypeOK, Quiet, [Next]_vars PROVE Quiet'
  OBVIOUS
<1> USE DEF winVars, focusVars, gameVars, copyVars
<1>1. ASSUME UNCHANGED <<screen, input, tookKeyboard, hasFocus, present, active>>, copyPending' => copyPending
      PROVE  Quiet'
  BY <1>1 DEF Quiet, FrontIsThere, FocusIsKnown, HiddenIsQuiet, GameInFront
<1>2. ASSUME UNCHANGED gameVars, NEW s \in Screens, SetScreen(s, copyPending) \/ SetScreen(s, FALSE) PROVE Quiet'
  BY <1>2, SetScreenIsQuiet DEF TypeOK, CopyType
<1>3. ASSUME UNCHANGED gameVars, UNCHANGED <<screen, hasFocus>>, copyPending' => copyPending,
             \/ UNCHANGED <<input, tookKeyboard>>
             \/ TakeKeyboard /\ screen # "Hidden"
             \/ input' # "overlay"
      PROVE  Quiet'
  BY <1>3 DEF Quiet, FrontIsThere, FocusIsKnown, HiddenIsQuiet, GameInFront, TakeKeyboard
<1>4. CASE StartCheck("PriceCheck") \/ StartCheck("MapCheck")
  <2>1. GameInFront /\ UNCHANGED gameVars
    BY <1>4 DEF StartCheck
  <2>2. CASE ShowsItem
    BY <1>4, <2>1, <2>2, ShowIsQuiet DEF StartCheck, TypeOK, FocusType, Screens
  <2>3. CASE ~ShowsItem
    <3>1. UNCHANGED <<winVars, focusVars, gameVars>>
      BY <1>4, <2>3 DEF StartCheck
    <3> QED
      BY <2>1, <3>1 DEF Quiet, FrontIsThere, FocusIsKnown, HiddenIsQuiet, GameInFront
  <2> QED BY <2>2, <2>3
<1>5. CASE RereadForMapCheck
  <2>1. UNCHANGED gameVars
    BY <1>5 DEF RereadForMapCheck
  <2>2. CASE SetScreen("MapCheck", copyPending)
    BY <1>2, <2>1, <2>2 DEF Screens
  <2>3. CASE UNCHANGED <<winVars, focusVars, copyPending>>
    BY <1>1, <2>1, <2>3
  <2> QED BY <1>5, <2>2, <2>3 DEF RereadForMapCheck
<1>6. CASE PasteHotkey \/ SettingsHotkey
  BY <1>2, <1>6 DEF PasteHotkey, SettingsHotkey, Screens
<1>7. ASSUME AbandonCopy, UNCHANGED gameVars PROVE Quiet'
  <2>1. input' = input \/ input' = "game"
    BY <1>7 DEF AbandonCopy, FocusGame
  <2> QED
    BY <1>3, <1>7, <2>1 DEF AbandonCopy
<1>8. CASE PollPendingCopy
  <2>1. CASE PollWaiting
    BY <1>1, <2>1 DEF PollWaiting
  <2>2. CASE PollTimedOut
    BY <1>7, <2>2 DEF PollTimedOut
  <2>3. CASE PollWritten
    <3>1. PICK text \in Readings :
            IF Rateable(text, copyTarget) THEN SetScreen(copyTarget, FALSE) ELSE AbandonCopy
      BY <2>3 DEF PollWritten
    <3>2. copyTarget \in Screens /\ UNCHANGED gameVars
      BY <2>3 DEF PollWritten, TypeOK, CopyType, Screens
    <3> QED BY <1>2, <1>7, <3>1, <3>2
  <2> QED BY <1>8, <2>1, <2>2, <2>3 DEF PollPendingCopy
<1>9. CASE UpdateOverlayPlacement
  <2>1. UNCHANGED <<screen, hasFocus, gameVars, copyPending>>
    BY <1>9 DEF UpdateOverlayPlacement
  <2>2. CASE input' = Unmapped
    BY <1>3, <2>1, <2>2 DEF Unmapped
  <2>3. CASE Reclaim
    BY <1>3, <2>1, <2>3 DEF Reclaim, Typing
  <2> QED BY <1>9, <2>2, <2>3 DEF UpdateOverlayPlacement, HideElsewhere, ShowOverGame
<1>10. CASE ClickAway \/ FinishBugReport
  BY <1>2, <1>10 DEF ClickAway, FinishBugReport, Screens
<1>34. CASE RequestCapture
  BY <1>1, <1>34 DEF RequestCapture
<1>11. CASE ClickBack
  BY <1>3, <1>11 DEF ClickBack, Reclaim, Typing
<1>12. CASE FocusEvent
  <2>1. hasFocus # (input = "overlay") /\ UNCHANGED gameVars /\ hasFocus \in BOOLEAN
    BY <1>12 DEF FocusEvent, TypeOK, FocusType
  <2>2. CASE hasFocus /\ Show("Hidden", FALSE) /\ copyPending' = FALSE
    BY <2>1, <2>2, ShowIsQuiet DEF Screens
  <2>3. CASE hasFocus' = ~hasFocus /\ UNCHANGED <<screen, copyPending, input, tookKeyboard>>
    BY <2>1, <2>3 DEF Quiet, FrontIsThere, FocusIsKnown, HiddenIsQuiet, GameInFront
  <2> QED BY <1>12, <2>2, <2>3 DEF FocusEvent
<1>13. CASE DataEvent \/ TickRatings
  BY <1>1, <1>13 DEF DataEvent, TickRatings
<1>14. CASE ReportEvent
  BY <1>1, <1>2, <1>14 DEF ReportEvent, Screens
<1>15. ASSUME CloseBugReport \/ DismissResult \/ EndCapture, UNCHANGED gameVars PROVE Quiet'
  BY <1>1, <1>2, <1>15 DEF CloseBugReport, DismissResult, EndCapture, Screens
<1>16. CASE EscapeKey \/ BoundKey \/ CloseButton
  BY <1>1, <1>2, <1>15, <1>16 DEF EscapeKey, BoundKey, CloseButton, Screens
<1>17. CASE PickPaste \/ OpenPasteSettings
  BY <1>2, <1>17 DEF PickPaste, OpenPasteSettings, Screens
<1>18. CASE EditFilter
  BY <1>1, <1>3, <1>18 DEF EditFilter
<1>19. CASE ReplanOrClose \/ RateModifier \/ BeginCapture \/ SaveConfig \/ OpenBugReport
            \/ SendBugReport
  BY <1>1, <1>19
     DEF ReplanOrClose, RateModifier, BeginCapture, SaveConfig, OpenBugReport, SendBugReport
<1>20. CASE Publish \/ Clock \/ UNCHANGED vars
  BY <1>1, <1>20 DEF Publish, Clock, vars
<1>21. ASSUME active' = "game" => present' /\ (input' # "overlay" \/ (active = "game" /\ input' = input)),
              copyPending' /\ input' = "overlay" => input = "overlay",
              UNCHANGED <<screen, hasFocus, tookKeyboard, copyPending>>
       PROVE  Quiet'
  BY <1>21 DEF Quiet, FrontIsThere, FocusIsKnown, HiddenIsQuiet, GameInFront
<1>22. CASE SwitchTo("game") \/ SwitchTo("other")
  BY <1>21, <1>22 DEF SwitchTo
<1>23. CASE ServeActivation
  <2>1. UNCHANGED <<present, screen, hasFocus, tookKeyboard, copyPending>>
    BY <1>23 DEF ServeActivation
  <2>2. active' = "game" => present
    BY <1>23 DEF ServeActivation, Quiet, FrontIsThere, GameInFront
  <2>3. active' = "game" => input' = "game" \/ UNCHANGED <<active, input>>
    BY <1>23 DEF ServeActivation
  <2>4. input' = "overlay" => input = "overlay"
    BY <1>23 DEF ServeActivation
  <2> QED BY <1>21, <2>1, <2>2, <2>3, <2>4
<1>24. CASE GameStartsOrExits
  <2>1. present \in BOOLEAN
    BY DEF TypeOK, GameType
  <2>2. active' = "game" => present' /\ input' = "game"
    BY <1>24, <2>1 DEF GameStartsOrExits
  <2>3. input' = "overlay" => input = "overlay"
    BY <1>24 DEF GameStartsOrExits
  <2> QED BY <1>21, <1>24, <2>2, <2>3 DEF GameStartsOrExits
<1> QED
  BY <1>4, <1>5, <1>6, <1>8, <1>9, <1>10, <1>11, <1>12, <1>13, <1>14, <1>16, <1>17, <1>18, <1>19,
     <1>20, <1>22, <1>23, <1>24, <1>34
     DEF Next, Hotkey, Loop, Event, Button, World

GivesBack == copyPending /\ copyDeactivated /\ ~copyPending'
  => ~copyDeactivated' \/ (screen # "Hidden" /\ screen' = "Hidden")

LEMMA GivenBackStep == TypeOK /\ Quiet /\ [Next]_vars => GivesBack
<1> SUFFICES ASSUME TypeOK, Quiet, Next \/ UNCHANGED vars,
                    copyPending, copyDeactivated, ~copyPending', copyDeactivated'
             PROVE  screen # "Hidden" /\ screen' = "Hidden"
  BY DEF GivesBack
<1> USE DEF copyVars
<1>1. ~RestoreActivation
  BY DEF RestoreActivation
<1>2. ASSUME NEW s, SetScreen(s, copyPending) PROVE s = "Hidden" /\ screen' = "Hidden"
  BY <1>2 DEF SetScreen, Show
<1>3. CASE Hotkey
  BY <1>1, <1>2, <1>3
     DEF Hotkey, StartCheck, RereadForMapCheck, PasteHotkey, SettingsHotkey
<1>4. CASE Loop
  <2>1. ~PollPendingCopy
    BY <1>1 DEF PollPendingCopy, PollWaiting, PollTimedOut, PollWritten, AbandonCopy
  <2> QED
    BY <1>2, <1>4, <2>1
       DEF Loop, UpdateOverlayPlacement, ClickAway, ClickBack, TickRatings, RequestCapture,
           FinishBugReport
<1>5. CASE FocusEvent \/ DataEvent \/ ReportEvent \/ BoundKey
  BY <1>2, <1>5 DEF FocusEvent, DataEvent, ReportEvent, BoundKey, EndCapture, Show
<1>6. CASE EscapeKey
  <2>1. screen # "Hidden"
    BY <1>6 DEF EscapeKey, Quiet, HiddenIsQuiet
  <2> QED
    BY <1>2, <1>6, <2>1 DEF EscapeKey, EndCapture, CloseBugReport, DismissResult
<1>7. CASE CloseButton
  BY <1>2, <1>7 DEF CloseButton, CloseBugReport, DismissResult
<1>8. CASE PickPaste \/ OpenPasteSettings
  BY <1>2, <1>8 DEF PickPaste, OpenPasteSettings
<1>9. CASE EditFilter \/ ReplanOrClose \/ RateModifier \/ BeginCapture \/ SaveConfig
            \/ OpenBugReport \/ SendBugReport
  BY <1>9
     DEF EditFilter, ReplanOrClose, RateModifier, BeginCapture, SaveConfig, OpenBugReport,
         SendBugReport
<1>10. CASE World \/ UNCHANGED vars
  BY <1>10 DEF World, Publish, SwitchTo, ServeActivation, GameStartsOrExits, Clock, vars
<1> QED
  BY <1>3, <1>4, <1>5, <1>6, <1>7, <1>8, <1>9, <1>10 DEF Next, Event, Button

\* However a check ends, but for a screen that is hidden under it, a game taken out of the
\* foreground is given back with it (poll_pending_copy, abandon_copy), for every clip and
\* configuration, and however late the focus is heard of.
THEOREM GameIsGivenBack == Spec => GameGivenBack
<1>1. Init => Quiet
  BY DEF Init, Quiet, FrontIsThere, FocusIsKnown, HiddenIsQuiet, GameInFront
<1>2. TypeOK /\ Quiet /\ [Next]_vars => [GivesBack]_vars
  BY GivenBackStep
<1> QED BY <1>1, <1>2, QuietStep, TypeCorrect, PTL DEF Spec, GameGivenBack, GivesBack
===========================================================================
