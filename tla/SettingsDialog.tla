--------------------------- MODULE SettingsDialog ---------------------------
(***************************************************************************)
(* The settings of a drawing: the dialogs of an object and of a position,  *)
(* the floating toolbar beside a selected drawing, the colour picker and   *)
(* the templates.  Every control writes through to the drawing at once;    *)
(* the dialog keeps a snapshot to take the changes back with, or makes one *)
(* command of them.  A drawing is the partial function of its fields.      *)
(***************************************************************************)
EXTENDS Partial, SequencesExt

CONSTANTS
  Styled,            \* drawings with a settings dialog of the common kind
  PositionDrawn,     \* position drawings: <<entry, target, stop>> in half ticks
  Tint,              \* values of a style field
  TemplateName,      \* names of templates
  CustomColorLimit,  \* CUSTOM_COLOR_LIMIT
  MaxSettingSteps    \* bound: inputs

ASSUME SettingsConstants ==
  Nothing \notin Styled \union PositionDrawn \union Seq(Nat)

VARIABLES
  canvas,     \* [drawing -> its fields]
  dialog,     \* id (editingDrawingIdAtom), snapshot, opened (its fields when it opened), pop, naming
  edits,      \* the shared command manager: undo, redo
  palette,    \* mixed colours: custom (newest first), draft (of the picker's own view)
  tintPresets,    \* templates: local, server, saving, deleting, nextId
  toolDefaults, settingSteps

settingVars == <<canvas, dialog, edits, palette, tintPresets, toolDefaults, settingSteps>>
SettingStep == settingSteps < MaxSettingSteps /\ settingSteps' = settingSteps + 1
Closed == [id |-> Nothing, snapshot |-> Nothing, opened |-> Nothing, pop |-> FALSE, naming |-> FALSE]
Tools == [d \in Styled \union PositionDrawn |-> IF d \in PositionDrawn THEN "position" ELSE "object"]
StyleField == {"color", "fillColor", "lineWidth"}
Style(fields) == [f \in (DOMAIN fields) \intersect StyleField |-> fields[f]]

(***************************************************************************)
(* Patches: a field that is patched with Nothing is undefined              *)
(***************************************************************************)
Patched(fields, patch) ==
  LET all == [f \in DOMAIN fields \union DOMAIN patch |-> IF f \in DOMAIN patch THEN patch[f] ELSE fields[f]]
  IN  Drop(all, {f \in DOMAIN all : all[f] = Nothing})
FieldOf(fields, f) == IF f \in DOMAIN fields THEN fields[f] ELSE Nothing
SnapshotKeys(current, snapshot) == DOMAIN snapshot
KeysOf(current, snapshot) == DOMAIN current \union DOMAIN snapshot
BuildRevert(current, snapshot) == [f \in KeysOf(current, snapshot) |-> FieldOf(snapshot, f)]
SettingChanged(current, snapshot) == {f \in KeysOf(current, snapshot) : FieldOf(current, f) # FieldOf(snapshot, f)}
BuildCommit(current, snapshot) ==
  [before |-> [f \in SettingChanged(current, snapshot) |-> FieldOf(snapshot, f)],
   after  |-> [f \in SettingChanged(current, snapshot) |-> FieldOf(current, f)]]
Executed(e, command) == [undo |-> Append(e.undo, command), redo |-> <<>>]
Command(d, change, was) == [id |-> d, before |-> change.before, after |-> change.after, was |-> was]

SettingsInit ==
  /\ canvas = [d \in Styled \union PositionDrawn |->
                 IF d \in PositionDrawn THEN [color |-> 1, points |-> <<4, 8, 2>>] ELSE [color |-> 1, points |-> <<2>>]]
  /\ dialog = Closed /\ edits = [undo |-> <<>>, redo |-> <<>>] /\ palette = [custom |-> <<>>, draft |-> Nothing]
  /\ tintPresets = [local |-> None, server |-> None, saving |-> {}, deleting |-> {}, nextId |-> 1]
  /\ toolDefaults = None /\ settingSteps = 0

(***************************************************************************)
(* The dialogs                                                             *)
(***************************************************************************)
OpenDialog(d) ==
  /\ SettingStep /\ d \in DOMAIN canvas /\ dialog.id # d
  /\ dialog' = [Closed EXCEPT !.id = d, !.snapshot = canvas[d], !.opened = canvas[d]]
  /\ palette' = [palette EXCEPT !.draft = Nothing] /\ UNCHANGED <<canvas, edits, tintPresets, toolDefaults>>
Edit(patch) ==
  /\ SettingStep /\ dialog.id \in DOMAIN canvas /\ canvas' = [canvas EXCEPT ![dialog.id] = Patched(@, patch)]
  /\ UNCHANGED <<edits, tintPresets, toolDefaults>>
PatchStyle(f, v) == Edit(Put(None, f, v)) /\ UNCHANGED <<dialog, palette>>
(* The switch of a background: the colour, or no field at all. *)
ToggleFill(v) ==
  Edit(Put(None, "fillColor", IF "fillColor" \in DOMAIN canvas[dialog.id] THEN Nothing ELSE v)) /\ UNCHANGED <<dialog, palette>>
PatchText(v) == dialog.id \in Styled /\ Edit(Put(None, "text", v)) /\ UNCHANGED <<dialog, palette>>
ToggleVisible == /\ dialog.id \in Styled
                 /\ Edit(Put(None, "visible", "visible" \in DOMAIN canvas[dialog.id] /\ ~ canvas[dialog.id].visible))
                 /\ UNCHANGED <<dialog, palette>>
(* One colour for every level also switches the use of one colour on. *)
PatchFib(v) == dialog.id \in Styled /\ Edit([f \in {"fibUseOneColor", "color"} |-> IF f = "color" THEN v ELSE TRUE])
                 /\ UNCHANGED <<dialog, palette>>
(* Numbers of the inputs tab are brought into their range. *)
Clamped(v) == IF v > 1 THEN 1 ELSE v
PatchInput(v) == dialog.id \in Styled /\ Edit(Put(None, "rows", Clamped(v))) /\ UNCHANGED <<dialog, palette>>
(* Levels are written as a whole list, the defaults where there was none. *)
DefaultLevels == <<TRUE>>
NormalizedLevels(fields) == IF "levels" \in DOMAIN fields /\ fields.levels # <<>> THEN fields.levels ELSE DefaultLevels
EditLevels(Change(_)) ==
  dialog.id \in Styled /\ Edit(Put(None, "levels", Change(NormalizedLevels(canvas[dialog.id])))) /\ UNCHANGED <<dialog, palette>>
PatchLevel == EditLevels(LAMBDA levels : [levels EXCEPT ![1] = ~ @])
AddLevel == EditLevels(LAMBDA levels : Append(levels, TRUE))
RemoveLevel == EditLevels(LAMBDA levels : Tail(levels))
ChoosePreset == EditLevels(LAMBDA levels : DefaultLevels)
EditCoordinates(p) ==
  /\ dialog.id \in Styled /\ Edit(Put(None, "points", <<p>>)) /\ UNCHANGED <<dialog, palette>>
(* Popovers of a control; the colour picker keeps what the user mixed. *)
TogglePopover ==
  /\ SettingStep /\ dialog.id # Nothing /\ ~ dialog.naming /\ dialog' = [dialog EXCEPT !.pop = ~ @]
  /\ palette' = [palette EXCEPT !.draft = Nothing] /\ UNCHANGED <<canvas, edits, tintPresets, toolDefaults>>
Remembered(colors, v) ==
  LET next == <<v>> \o SelectSeq(colors, LAMBDA c : c # v) IN SubSeq(next, 1, IF Len(next) > CustomColorLimit THEN CustomColorLimit ELSE Len(next))
ClosePopover == dialog' = [dialog EXCEPT !.pop = FALSE]
PickColor(v) == dialog.pop /\ palette.draft = Nothing /\ Edit(Put(None, "color", v)) /\ ClosePopover /\ UNCHANGED palette
(* The view that mixes a colour touches the drawing only when it is added. *)
MixColor(v) ==
  /\ SettingStep /\ dialog.pop /\ palette' = [palette EXCEPT !.draft = v]
  /\ UNCHANGED <<canvas, dialog, edits, tintPresets, toolDefaults>>
AddCustomColor ==
  /\ dialog.pop /\ palette.draft # Nothing /\ Edit(Put(None, "color", palette.draft)) /\ ClosePopover
  /\ palette' = [custom |-> Remembered(palette.custom, palette.draft), draft |-> Nothing]

(* A position keeps its levels at their distance and on their side. *)
RoundToTick(p) == ((p + 1) \div 2) * 2
TicksBetween(entry, level) == (IF level < entry THEN entry - level ELSE level - entry) \div 2
LevelFromTicks(entry, ticks, side) == IF side = "profit" THEN entry + 2 * ticks ELSE entry - 2 * ticks
SetEntryPrice(p) ==
  /\ dialog.id \in PositionDrawn
  /\ LET points == canvas[dialog.id].points
         entry == RoundToTick(p)
     IN  Edit(Put(None, "points", <<entry, LevelFromTicks(entry, TicksBetween(points[1], points[2]), "profit"),
                                    LevelFromTicks(entry, TicksBetween(points[1], points[3]), "stop")>>))
  /\ UNCHANGED <<dialog, palette>>
SetLevelPrice(i, p) ==
  /\ dialog.id \in PositionDrawn
  /\ LET points == canvas[dialog.id].points
         level == LevelFromTicks(points[1], TicksBetween(points[1], RoundToTick(p)), IF i = 2 THEN "profit" ELSE "stop")
     IN  Edit(Put(None, "points", [points EXCEPT ![i] = level]))
  /\ UNCHANGED <<dialog, palette>>

PatchRisk(v) ==
  /\ dialog.id \in PositionDrawn
  /\ Edit([f \in {"riskValue", "riskValueDefaulted"} |-> IF f = "riskValue" THEN v ELSE FALSE]) /\ UNCHANGED <<dialog, palette>>
(* The statistics shown are never none. *)
ToggleStat(name) ==
  /\ dialog.id \in PositionDrawn
  /\ LET shown == IF "stats" \in DOMAIN canvas[dialog.id] THEN canvas[dialog.id].stats ELSE {"percent"}
         next == IF name \in shown THEN shown \ {name} ELSE shown \union {name}
     IN  Edit(Put(None, "stats", IF next = {} THEN {"percent"} ELSE next))
  /\ UNCHANGED <<dialog, palette>>

DialogCancel ==
  /\ dialog.id \in DOMAIN canvas
  /\ canvas' = [canvas EXCEPT ![dialog.id] = Patched(@, BuildRevert(@, dialog.snapshot))]
  /\ dialog' = Closed /\ palette' = [palette EXCEPT !.draft = Nothing] /\ UNCHANGED <<edits, tintPresets, toolDefaults>>
CancelDialog == SettingStep /\ ~ dialog.naming /\ DialogCancel
(* The key reaches the dialog too when a popover is what it closes. *)
PressEscape ==
  /\ SettingStep
  /\ \/ ~ dialog.naming /\ DialogCancel
     \/ dialog.naming /\ dialog' = [dialog EXCEPT !.naming = FALSE] /\ UNCHANGED <<canvas, edits, palette, tintPresets, toolDefaults>>
Ok ==
  LET d == dialog.id
      change == BuildCommit(canvas[d], dialog.snapshot)
  IN  /\ SettingStep /\ d \in DOMAIN canvas /\ ~ dialog.naming
      /\ edits' = IF change.after = None THEN edits ELSE Executed(edits, Command(d, change, dialog.opened))
      /\ toolDefaults' = Put(toolDefaults, Tools[d], Style(canvas[d]))
      /\ dialog' = Closed /\ palette' = [palette EXCEPT !.draft = Nothing] /\ UNCHANGED <<canvas, tintPresets>>

(***************************************************************************)
(* The toolbar of the selection, and the history                           *)
(***************************************************************************)
ApplyPatch(d, patch) ==
  LET change == BuildCommit(Patched(canvas[d], patch), canvas[d])
  IN  /\ SettingStep /\ dialog.id = Nothing /\ d \in DOMAIN canvas /\ change.after # None
      /\ canvas' = [canvas EXCEPT ![d] = Patched(@, patch)]
      /\ edits' = Executed(edits, Command(d, change, canvas[d])) /\ UNCHANGED <<dialog, palette, tintPresets, toolDefaults>>
ToolbarColor(d, v) == ApplyPatch(d, Put(None, "color", v))
ToolbarFill(d, v) == ApplyPatch(d, Put(None, "fillColor", v))
(* Width, line style and font size are written without a command. *)
ToolbarWidth(d, v) ==
  /\ SettingStep /\ dialog.id = Nothing /\ canvas' = [canvas EXCEPT ![d] = Patched(@, Put(None, "lineWidth", v))]
  /\ UNCHANGED <<dialog, edits, palette, tintPresets, toolDefaults>>
UndoSettings ==
  /\ SettingStep /\ edits.undo # <<>>
  /\ LET c == Last(edits.undo)
     IN  /\ edits' = [undo |-> Front(edits.undo), redo |-> Append(edits.redo, c)]
         /\ canvas' = [canvas EXCEPT ![c.id] = Patched(@, c.before)]
  /\ UNCHANGED <<dialog, palette, tintPresets, toolDefaults>>
RedoSettings ==
  /\ SettingStep /\ edits.redo # <<>>
  /\ LET c == Last(edits.redo)
     IN  /\ edits' = [undo |-> Append(edits.undo, c), redo |-> Front(edits.redo)]
         /\ canvas' = [canvas EXCEPT ![c.id] = Patched(@, c.after)]
  /\ UNCHANGED <<dialog, palette, tintPresets, toolDefaults>>

(***************************************************************************)
(* Templates                                                               *)
(***************************************************************************)
AskName ==
  /\ SettingStep /\ dialog.id \in Styled /\ ~ dialog.naming
  /\ dialog' = [dialog EXCEPT !.naming = TRUE, !.pop = FALSE]
  /\ palette' = [palette EXCEPT !.draft = Nothing] /\ UNCHANGED <<canvas, edits, tintPresets, toolDefaults>>
SaveTemplate(n) ==
  LET style == Style(canvas[dialog.id])
  IN  /\ SettingStep /\ dialog.naming /\ dialog.id \in DOMAIN canvas
      /\ tintPresets' = [tintPresets EXCEPT !.local = Put(@, n, [id |-> 0, style |-> style]),
                                    !.saving = @ \union {[seq |-> settingSteps, name |-> n, style |-> style]}]
      /\ dialog' = [dialog EXCEPT !.naming = FALSE] /\ UNCHANGED <<canvas, edits, palette, toolDefaults>>
UNCHANGEDButPresets == UNCHANGED <<canvas, dialog, edits, palette, toolDefaults, settingSteps>>
TemplateSaved(call) ==
  LET id == IF call.name \in DOMAIN tintPresets.server THEN tintPresets.server[call.name].id ELSE tintPresets.nextId
      row == [id |-> id, style |-> call.style]
  IN  /\ call \in tintPresets.saving
      /\ tintPresets' = [tintPresets EXCEPT !.saving = @ \ {call}, !.server = Put(@, call.name, row),
                                    !.local = Put(@, call.name, row), !.nextId = IF id = @ THEN @ + 1 ELSE @]
      /\ UNCHANGEDButPresets
TemplateNotSaved(call) == call \in tintPresets.saving /\ tintPresets' = [tintPresets EXCEPT !.saving = @ \ {call}] /\ UNCHANGEDButPresets
ApplyTemplate(n) == /\ n \in DOMAIN tintPresets.local /\ dialog.id \in Styled
                    /\ Edit(tintPresets.local[n].style) /\ UNCHANGED <<dialog, palette>>
DeleteTemplate(n) ==
  LET id == tintPresets.local[n].id
  IN  /\ SettingStep /\ n \in DOMAIN tintPresets.local
      /\ tintPresets' = [tintPresets EXCEPT !.local = Drop(@, {n}), !.deleting = IF id = 0 THEN @ ELSE @ \union {id}]
      /\ UNCHANGED <<canvas, dialog, edits, palette, toolDefaults>>
TemplateDeleted(id, done) ==
  /\ id \in tintPresets.deleting
  /\ tintPresets' = [tintPresets EXCEPT !.deleting = @ \ {id},
                   !.server = IF done THEN Drop(@, {n \in DOMAIN @ : @[n].id = id}) ELSE @]
  /\ UNCHANGEDButPresets

SettingsNext ==
  \/ \E d \in Styled \union PositionDrawn : OpenDialog(d) \/ \E v \in Tint : ToolbarColor(d, v) \/ ToolbarFill(d, v) \/ ToolbarWidth(d, v)
  \/ PatchLevel \/ AddLevel \/ RemoveLevel \/ ChoosePreset \/ ToggleVisible
  \/ \E v \in Tint : ToggleFill(v) \/ EditCoordinates(v) \/ PatchText(v) \/ (\E f \in StyleField : PatchStyle(f, v))
                     \/ PickColor(v) \/ MixColor(v) \/ PatchFib(v) \/ PatchInput(v) \/ PatchRisk(v)
  \/ TogglePopover \/ AddCustomColor \/ ToggleStat("percent") \/ CancelDialog \/ PressEscape \/ Ok \/ UndoSettings \/ RedoSettings \/ AskName
  \/ \E p \in {3, 6} : SetEntryPrice(p) \/ \E i \in 2..3 : SetLevelPrice(i, p)
  \/ \E n \in TemplateName : SaveTemplate(n) \/ ApplyTemplate(n) \/ DeleteTemplate(n)
  \/ (\E call \in tintPresets.saving : TemplateSaved(call) \/ TemplateNotSaved(call))
  \/ \E id \in tintPresets.deleting, done \in BOOLEAN : TemplateDeleted(id, done)

SettingsSpec == SettingsInit /\ [][SettingsNext]_settingVars

(* What a dialog did can be taken back whole: while it is open, Cancel           *)
(* gives the drawing as it was when it opened, whatever was patched, added *)
(* or removed, by its controls, a template or an undo meanwhile; and after *)
(* OK, undoing the newest command gives it as it was before, unless it has *)
(* been changed since (buildDrawingSettingsRevert, ...Commit).             *)
SettingsCanBeTakenBack ==
  /\ dialog.id \in DOMAIN canvas =>
       Patched(canvas[dialog.id], BuildRevert(canvas[dialog.id], dialog.snapshot)) = dialog.opened
  /\ edits.undo # <<>> =>
       LET c == Last(edits.undo)
       IN  (dialog.id = Nothing /\ canvas[c.id] = Patched(c.was, c.after)) => Patched(canvas[c.id], c.before) = c.was
==============================================================================
