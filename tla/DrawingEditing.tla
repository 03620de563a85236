---------------------------- MODULE DrawingEditing ---------------------------
(***************************************************************************)
(* Editing drawings on the chart: the pointer gestures that create, select *)
(* and transform them (DrawingInteractionManager with its sessions), the   *)
(* inline text editor, the keyboard and menu commands, and the undo        *)
(* history they share.  A pointer is a mouse or a finger in contact with   *)
(* the screen; a drawing's points are one place, its looks one flag.       *)
(*                                                                         *)
(* React runs an effect after the event that changed what it depends on;   *)
(* the resets on a changed tool or symbol are part of that event here.     *)
(***************************************************************************)
EXTENDS Partial

CONSTANTS
  Chart,          \* the symbols a chart can show
  Drawn,          \* drawing identifiers (uid)
  Contact,        \* pointer identifiers
  CreationTool,   \* creation modes offered: SUBSET {"one", "two", "freeform", "brush", "text"}
  Places,         \* bound: distinguishable positions of a drawing
  MaxHistory,     \* CommandManager.maxSize
  MaxEdits        \* bound: commands, clones and switches of a behaviour

ASSUME EditingAssumption == {Places, MaxHistory} \subseteq Nat \ {0} /\ MaxEdits \in Nat

VARIABLES
  lists,     \* chart -> its drawings
  chart,     \* the chart shown
  tool,      \* activeToolAtom
  keep,      \* the Keep Drawing preference
  gesture,   \* machineRef and the refs of the gesture in progress
  guard,     \* creationReleaseGuardRef
  selected,  \* selectedDrawingIdsAtom
  editor,    \* textEditSession: the drawing edited, or Nothing
  fingers,   \* the pointers of this device: a mouse, or several fingers
  down,      \* the pointers in contact
  left,      \* the edits left of the bound
  done, undone,   \* CommandManager.undoStack, redoStack
  base, straight  \* ghosts: the drawings before the oldest command kept; whether every
                  \* command was recorded between gestures and on the chart it changed

editingVars == <<lists, chart, tool, keep, gesture, guard, selected, editor, fingers, down, left,
                 done, undone, base, straight>>
fixed == <<keep, fingers>>

Place == 0 .. Places - 1
DrawingOf == [at : Place, locked : BOOLEAN, text : {"none", "blank", "note"}]
Shown == lists[chart]
Named(c) == CASE c.kind = "duplicate" -> {c.copy}
              [] c.kind = "change" -> DOMAIN c.new
              [] OTHER -> DOMAIN c.set
InHistory(stack) == UNION {Named(stack[k]) : k \in DOMAIN stack}
(* uid: an identifier no list and no command names. *)
FreshDrawing == Drawn \ (InHistory(done) \union InHistory(undone) \union DOMAIN base
                            \union UNION {DOMAIN lists[c] : c \in Chart})
Show(list) == lists' = [lists EXCEPT ![chart] = list]
Changed(d, patch) == [f \in DOMAIN d |-> IF f \in DOMAIN patch THEN patch[f] ELSE d[f]]
Update(list, patches) ==
  [i \in DOMAIN list |-> IF i \in DOMAIN patches THEN Changed(list[i], patches[i]) ELSE list[i]]

-----------------------------------------------------------------------------
(* The history. *)

Create(i, d) == [kind |-> "create", set |-> Put(None, i, d)]
DeleteMany(ids) == [kind |-> "delete", set |-> [i \in ids |-> Shown[i]]]
ChangeForgetsOld(new) == [kind |-> "change", new |-> new, old |-> new]
Change(new) ==
  [kind |-> "change", new |-> new,
   old |-> [i \in DOMAIN new |-> [f \in DOMAIN new[i] |-> Shown[i][f]]]]
Duplicate(d, copy) == [kind |-> "duplicate", of |-> d, copy |-> copy]

Forward(c, list) ==
  CASE c.kind = "create" -> [i \in DOMAIN list \union DOMAIN c.set |->
                               IF i \in DOMAIN c.set THEN c.set[i] ELSE list[i]]
    [] c.kind = "delete" -> Drop(list, DOMAIN c.set)
    [] c.kind = "change" -> Update(list, c.new)
    [] c.kind = "duplicate" -> Put(list, c.copy, c.of)
Backward(c, list) ==
  CASE c.kind = "create" -> Drop(list, DOMAIN c.set)
    [] c.kind = "delete" -> [i \in DOMAIN list \union DOMAIN c.set |->
                               IF i \in DOMAIN c.set THEN c.set[i] ELSE list[i]]
    [] c.kind = "change" -> Update(list, c.old)
    [] c.kind = "duplicate" -> Drop(list, {c.copy})

Unwound(stack, list) ==
  LET back[k \in 0 .. Len(stack)] ==
        IF k = 0 THEN list ELSE Backward(stack[Len(stack) - k + 1], back[k - 1])
  IN back[Len(stack)]

Record(stack, c) ==
  IF Len(stack) < MaxHistory THEN Append(stack, c) ELSE Append(Tail(stack), c)

Adds(c, forth) == IF forth THEN c.kind \in {"create", "duplicate"} ELSE c.kind = "delete"
AfterAdd(t) == IF keep THEN t ELSE "cursor"

Idle == [state |-> "Idle", session |-> Nothing, points |-> 0, pointer |-> Nothing,
         drag |-> Nothing, blocked |-> FALSE, frozen |-> FALSE,
         orig |-> None, live |-> None, frame |-> Nothing]

(* execute of the manager: the store is changed, the command kept, redo forgotten. *)
Recorded(c, list) ==
  /\ Show(list) /\ left > 0 /\ left' = left - 1
  /\ done' = Record(done, c) /\ undone' = <<>>
  /\ base' = IF Len(done) < MaxHistory THEN base ELSE Unwound(done', list)
Execute(c) == Recorded(c, Forward(c, Shown))

(* The layout effect on activeTool, and the reset at the end of a gesture. *)
SetTool(t, g) == tool' = t /\ gesture' = IF t # tool /\ g.state # "Idle" THEN Idle ELSE g

Unrecorded == UNCHANGED <<left, done, undone, base>>
SameDrawings == UNCHANGED <<lists, left, done, undone, base>>
-----------------------------------------------------------------------------
(* CreationSession: what a press, a drag and a release make of the anchors. *)

MinPoints(t) == IF t \in {"freeform", "brush"} THEN 2 ELSE 1

(* The outcome of pointerDown with the anchors already confirmed. *)
Pressed(t, points, doubleClick) ==
  CASE t = "one" -> [kind |-> "commit", points |-> 1]
    [] t = "brush" -> [kind |-> "preview", points |-> AtLeast(points, 1)]
    [] t = "freeform" /\ doubleClick ->
         [kind |-> IF points >= MinPoints(t) THEN "commit" ELSE "cancel", points |-> points]
    [] t = "two" /\ points = 1 -> [kind |-> "commit", points |-> 2]
    [] OTHER -> [kind |-> "preview", points |-> AtMost(points + 1, 2)]

Released(t, points, accepted) ==
  LET n == AtMost(points + (IF accepted THEN 1 ELSE 0), 2)
  IN [kind |-> IF n >= MinPoints(t) THEN "commit" ELSE "cancel", points |-> n]

Finished(t, points) == t = "freeform" /\ points >= MinPoints(t)

(* applyCreationOutcome: a commit adds the drawing through the history. *)
Commit(at, g) ==
  \E i \in FreshDrawing :
    /\ Execute(Create(i, [at |-> at, locked |-> FALSE, text |-> "none"]))
    /\ selected' = {i}
    /\ tool' = AfterAdd(tool)
    /\ gesture' = Idle
    /\ straight' = straight
Outcome(o, at, g) ==
  \/ o.kind = "preview" /\ gesture' = [g EXCEPT !.state = "Drawing", !.points = o.points]
       /\ SameDrawings /\ UNCHANGED <<selected, tool, straight>>
  \/ o.kind = "commit" /\ Commit(at, g)
  \/ o.kind = "cancel" /\ gesture' = Idle /\ SameDrawings /\ UNCHANGED <<selected, tool, straight>>

-----------------------------------------------------------------------------
(* Pressing a pointer on the chart. *)

MayCreate == tool \in CreationTool /\ guard = Nothing /\ gesture.state \in {"Idle", "Drawing"}

PressCreates(p, at, doubleClick) ==
  LET session == IF gesture.session = tool THEN gesture.points ELSE 0
      o == Pressed(tool, session, doubleClick)
      drags == tool = "brush" \/ (tool = "two" /\ session = 0)
      g == [gesture EXCEPT !.session = tool, !.pointer = p, !.points = session,
              !.blocked = @ \/ drags, !.frozen = @ \/ drags,
              !.drag = IF drags /\ tool = "two" THEN [pointer |-> p, dragged |-> FALSE] ELSE @]
  IN /\ editor = Nothing /\ MayCreate /\ tool # "text"
     /\ Outcome(o, at, g)
     /\ guard' = IF o.kind = "commit" THEN p ELSE guard
     /\ UNCHANGED <<chart, fixed, editor>>

(* onTextPlace: an empty drawing is added beside the history and edited inline. *)
PressPlacesText(p, at) ==
  /\ editor = Nothing /\ MayCreate /\ tool = "text"
  /\ \E i \in FreshDrawing :
       /\ Show(Put(Shown, i, [at |-> at, locked |-> FALSE, text |-> "blank"]))
       /\ selected' = {i}
       /\ editor' = [id |-> i, was |-> "blank", draft |-> "blank"]
  /\ gesture' = Idle /\ tool' = AfterAdd(tool)
  /\ Unrecorded /\ UNCHANGED <<chart, fixed, guard, straight>>

MaySelect == gesture.state = "Idle" /\ gesture.pointer = Nothing

PressErases(p, i) ==
  /\ editor = Nothing /\ tool = "eraser" /\ MaySelect
  /\ i \in DOMAIN Shown /\ ~Shown[i].locked
  /\ Execute(DeleteMany({i})) /\ selected' = {}
  /\ UNCHANGED <<chart, tool, fixed, gesture, guard, editor, straight>>

(* SelectionSession.pointerDown on a drawing: Ctrl toggles; a locked one is only selected;  *)
(* the second press of a double click opens its settings; else a transform begins.          *)
PressToggles(p, i) ==
  /\ editor = Nothing /\ tool = "cursor" /\ MaySelect
  /\ selected' = IF i \in selected THEN selected \ {i} ELSE selected \union {i}
  /\ SameDrawings /\ UNCHANGED <<chart, tool, fixed, gesture, guard, editor, straight>>

Selection(i) == IF i \in selected THEN selected ELSE {i}
PressSelects(p, i) ==
  /\ editor = Nothing /\ tool = "cursor" /\ MaySelect
  /\ selected' = IF i = Nothing THEN {} ELSE Selection(i)
  /\ SameDrawings /\ UNCHANGED <<chart, tool, fixed, gesture, guard, editor, straight>>

PressTransforms(p, i) ==
  /\ editor = Nothing /\ tool = "cursor" /\ MaySelect
  /\ ~Shown[i].locked
  /\ LET targets == IF i \in selected /\ Cardinality(selected) > 1
                      THEN selected \intersect DOMAIN Shown ELSE {i}
     IN gesture' = [Idle EXCEPT !.state = "Transforming", !.pointer = p, !.blocked = TRUE,
                      !.frozen = TRUE, !.orig = [j \in targets |-> Shown[j].at]]
  /\ selected' = Selection(i)
  /\ SameDrawings /\ UNCHANGED <<chart, tool, fixed, guard, editor, straight>>

-----------------------------------------------------------------------------
(* The inline text editor. *)

CloseEditor(text) ==
  LET i == editor.id IN
  /\ editor' = Nothing
  /\ \/ /\ editor.was = "blank" /\ text # "blank"
        /\ LET c == Create(i, [at |-> IF i \in DOMAIN Shown THEN Shown[i].at ELSE 0,
                               locked |-> FALSE, text |-> text])
           IN Recorded(c, Forward(c, Drop(Shown, {i})))
        /\ selected' = {i} /\ tool' = AfterAdd(tool)
        /\ gesture' = IF tool' # tool THEN Idle ELSE gesture
     \/ /\ editor.was = "blank" /\ text = "blank"
        /\ Show(Drop(Shown, {i})) /\ selected' = selected \ {i}
        /\ Unrecorded /\ UNCHANGED <<tool, gesture>>
     \/ /\ editor.was # "blank" /\ text \notin {"blank", editor.was}
        /\ LET c == [kind |-> "change", new |-> Put(None, i, [text |-> text]),
                     old |-> Put(None, i, [text |-> editor.was])]
           IN Execute(c)
        /\ UNCHANGED <<selected, tool, gesture>>
     \/ /\ editor.was # "blank" /\ text \in {"blank", editor.was}
        /\ SameDrawings /\ UNCHANGED <<selected, tool, gesture>>

EditText(i) ==
  /\ editor = Nothing /\ i \in selected \intersect DOMAIN Shown /\ Shown[i].text # "blank"
  /\ gesture.state = "Idle"
  /\ editor' = [id |-> i, was |-> Shown[i].text, draft |-> Shown[i].text]
  /\ SameDrawings /\ UNCHANGED <<chart, tool, fixed, gesture, guard, selected, down, straight>>
Type == /\ editor # Nothing /\ editor.draft # "note"
        /\ editor' = [editor EXCEPT !.draft = "note"]
        /\ SameDrawings /\ UNCHANGED <<chart, tool, fixed, gesture, guard, selected, down, straight>>

(* A press outside the editor ends it and does nothing else: the capture listener of the     *)
(* layer is registered before those of the gestures.                                         *)
PressEndsEditor(p) ==
  /\ editor # Nothing /\ CloseEditor(editor.draft)
  /\ UNCHANGED <<chart, fixed, guard, straight>>
(* Enter or blur commits, Escape cancels. *)
FinishText ==
  /\ editor # Nothing
  /\ CloseEditor(editor.draft) \/ CloseEditor(editor.was)
  /\ UNCHANGED <<chart, fixed, guard, down, straight>>

PressElsewhere(p) ==
  /\ editor = Nothing
  /\ SameDrawings /\ UNCHANGED <<chart, tool, fixed, gesture, guard, selected, editor, straight>>

Press(p) ==
  /\ p \in fingers \ down /\ down' = down \union {p}
  /\ \/ \E at \in Place, twice \in BOOLEAN : PressCreates(p, at, twice)
     \/ \E at \in Place : PressPlacesText(p, at)
     \/ \E i \in DOMAIN Shown : PressErases(p, i)
     \/ \E i \in DOMAIN Shown : PressToggles(p, i)
     \/ \E i \in DOMAIN Shown : PressTransforms(p, i)
     \/ \E i \in DOMAIN Shown \union {Nothing} : PressSelects(p, i)
     \/ PressEndsEditor(p)
     \/ PressElsewhere(p)

-----------------------------------------------------------------------------
(* Moving a pointer.  A coalescer applies the first sample of a frame and keeps the latest   *)
(* of the others for the next frame.                                                         *)

Same == SameDrawings /\ UNCHANGED <<chart, tool, fixed, guard, selected, editor, down, straight>>
Dragging(p) == gesture.state = "Transforming" /\ gesture.pointer \in {p, Nothing}
Moved(by) == [i \in DOMAIN gesture.orig |-> (gesture.orig[i] + by) % Places]

MoveTransforms(p, by) ==
  /\ p \in down /\ Dragging(p)
  /\ gesture' = IF gesture.frame = Nothing
                  THEN [gesture EXCEPT !.frame = Places, !.live = Moved(by)]
                  ELSE [gesture EXCEPT !.frame = by]
  /\ Same
MoveCreates(p, accepted) ==
  /\ guard = Nothing /\ gesture.state = "Drawing"
  /\ LET dragging == gesture.drag # Nothing /\ gesture.drag.pointer = p
         g == IF dragging
                THEN [gesture EXCEPT !.drag.dragged = TRUE, !.blocked = TRUE, !.frozen = TRUE]
                ELSE gesture
     IN gesture' = CASE gesture.session = "brush" ->
                          [g EXCEPT !.points = AtMost(@ + (IF accepted THEN 1 ELSE 0), 2)]
                     [] OTHER -> [g EXCEPT !.frame = IF @ = Nothing THEN Places ELSE 0]
  /\ Same
AnimationFrame ==
  /\ gesture.frame # Nothing
  /\ gesture' = IF gesture.state = "Transforming" /\ gesture.frame # Places
                  THEN [gesture EXCEPT !.frame = Nothing, !.live = Moved(gesture.frame)]
                  ELSE [gesture EXCEPT !.frame = Nothing]
  /\ Same

-----------------------------------------------------------------------------
(* Releasing a pointer: the creation listener, then the selection listener. *)

SamePointer(p) ==
  \/ gesture.drag # Nothing /\ gesture.drag.pointer = p
  \/ gesture.pointer \in {p, Nothing}
Unblocked == [gesture EXCEPT !.blocked = FALSE]

LiftGuard(p) ==
  /\ guard = p /\ guard' = Nothing
  /\ gesture' = IF gesture.state = "Transforming" THEN gesture ELSE Unblocked
  /\ SameDrawings /\ UNCHANGED <<tool, selected, straight>>
LiftCreates(p, at, accepted) ==
  /\ guard # p /\ gesture.state = "Drawing"
  /\ CASE gesture.session = "two" /\ gesture.drag # Nothing /\ gesture.drag.dragged /\ SamePointer(p) ->
            Outcome([kind |-> "commit", points |-> 2], at, gesture)
       [] gesture.session = "brush" -> Outcome(Released("brush", gesture.points, accepted), at, gesture)
       [] OTHER ->
            /\ gesture' = IF SamePointer(p)
                            THEN [gesture EXCEPT !.pointer = Nothing, !.drag = Nothing,
                                    !.blocked = FALSE, !.frozen = FALSE]
                            ELSE Unblocked
            /\ SameDrawings /\ UNCHANGED <<tool, selected, straight>>
  /\ UNCHANGED guard
(* handleUp of the cursor mode: the release position is applied, what changed is one command. *)
LiftTransforms(p, by) ==
  /\ guard # p /\ Dragging(p)
  /\ gesture' = Idle
  /\ \/ /\ by # 0
        /\ LET moved == [i \in DOMAIN gesture.orig |-> [at |-> Moved(by)[i]]]
               c == [kind |-> "change", new |-> moved,
                     old |-> [i \in DOMAIN moved |-> [at |-> gesture.orig[i]]]]
           IN Execute(c)
     \/ by = 0 /\ SameDrawings
  /\ UNCHANGED <<tool, selected, guard, straight>>
LiftIgnored(p) ==
  /\ guard # p /\ (gesture.state = "Idle" \/ (gesture.state = "Transforming" /\ ~Dragging(p)))
  /\ SameDrawings /\ UNCHANGED <<tool, selected, gesture, guard, straight>>

Lift(p) ==
  /\ p \in down /\ down' = down \ {p}
  /\ \/ LiftGuard(p)
     \/ \E at \in Place, accepted \in BOOLEAN : LiftCreates(p, at, accepted)
     \/ \E by \in Place : LiftTransforms(p, by)
     \/ LiftIgnored(p)
  /\ UNCHANGED <<chart, fixed, editor>>

(* pointercancel: any pointer's ends a creation, only the owner's ends a transform. *)
Cancel(p) ==
  /\ p \in down /\ down' = down \ {p}
  /\ guard' = Nothing
  /\ gesture' = IF gesture.state = "Drawing" \/ Dragging(p) THEN Idle ELSE gesture
  /\ SameDrawings /\ UNCHANGED <<chart, tool, fixed, selected, editor, straight>>

ContextMenu(at) ==
  /\ gesture.state = "Drawing"
  /\ Outcome([kind |-> IF Finished(gesture.session, gesture.points) THEN "commit" ELSE "cancel",
              points |-> gesture.points], at, gesture)
  /\ UNCHANGED <<chart, fixed, guard, editor, down>>

-----------------------------------------------------------------------------
(* Keyboard, menus and panels.  The keyboard is the editor's while it is open. *)

Honestly == straight' = (straight /\ gesture.state = "Idle")
Escape == /\ editor = Nothing /\ (tool # "cursor" \/ gesture # Idle)
          /\ gesture' = Idle /\ tool' = "cursor"
          /\ SameDrawings /\ UNCHANGED <<chart, fixed, guard, selected, editor, down, straight>>

Step(c, forth) ==
  IF Adds(c, forth)
    THEN /\ \E last \in Named(c) : selected' = {last}
         /\ SetTool(AfterAdd(tool), gesture)
    ELSE /\ selected' = selected \ (IF c.kind = "change" THEN {} ELSE Named(c))
         /\ UNCHANGED <<tool, gesture>>
Undo ==
  /\ editor = Nothing /\ done # <<>>
  /\ LET c == done[Len(done)] IN
       /\ Show(Backward(c, Shown)) /\ Step(c, FALSE)
       /\ done' = SubSeq(done, 1, Len(done) - 1) /\ undone' = Append(undone, c)
  /\ Honestly /\ UNCHANGED <<chart, fixed, guard, editor, down, left, base>>
(* A redone duplicate has a new identifier. *)
Redo ==
  /\ editor = Nothing /\ undone # <<>>
  /\ LET last == undone[Len(undone)] IN
     \E copy \in IF last.kind = "duplicate" THEN FreshDrawing ELSE {Nothing} :
       LET c == IF last.kind = "duplicate" THEN [last EXCEPT !.copy = copy] ELSE last IN
       /\ Show(Forward(c, Shown)) /\ Step(c, TRUE)
       /\ undone' = SubSeq(undone, 1, Len(undone) - 1) /\ done' = Append(done, c)
  /\ Honestly /\ UNCHANGED <<chart, fixed, guard, editor, down, left, base>>

PasteOrDuplicate ==
  /\ editor = Nothing /\ Cardinality(selected \intersect DOMAIN Shown) = 1
  /\ \E i \in selected \intersect DOMAIN Shown, copy \in FreshDrawing :
       Execute(Duplicate(Shown[i], copy)) /\ selected' = {copy}
  /\ SetTool(AfterAdd(tool), gesture)
  /\ Honestly /\ UNCHANGED <<chart, fixed, guard, editor, down>>
Delete ==
  /\ editor = Nothing /\ selected \intersect DOMAIN Shown # {}
  /\ Execute(DeleteMany(selected \intersect DOMAIN Shown)) /\ selected' = {}
  /\ Honestly /\ UNCHANGED <<chart, tool, fixed, gesture, guard, editor, down>>
Nudge(by) ==
  LET movable == {i \in selected \intersect DOMAIN Shown : ~Shown[i].locked} IN
  /\ editor = Nothing /\ gesture.state = "Idle" /\ movable # {} /\ by % Places # 0
  /\ Execute(Change([i \in movable |-> [at |-> (Shown[i].at + by) % Places]]))
  /\ UNCHANGED <<chart, tool, fixed, gesture, guard, selected, editor, down, straight>>
SelectAll == /\ editor = Nothing /\ selected # DOMAIN Shown /\ selected' = DOMAIN Shown
             /\ SameDrawings
             /\ UNCHANGED <<chart, tool, fixed, gesture, guard, editor, down, straight>>
(* The bulk actions of the menu and the object tree: one command for all targets. *)
ToggleLock(targets) ==
  /\ editor = Nothing /\ targets # {} /\ targets \subseteq DOMAIN Shown
  /\ Execute(Change([i \in targets |-> [locked |-> ~\A j \in targets : Shown[j].locked]]))
  /\ Honestly /\ UNCHANGED <<chart, tool, fixed, gesture, guard, selected, editor, down>>
(* Clone of the menu adds a copy that is not in the history. *)
Clone(i) ==
  /\ editor = Nothing /\ i \in DOMAIN Shown
  /\ \E copy \in FreshDrawing :
       /\ Show(Put(Shown, copy, Shown[i])) /\ base' = Put(base, copy, Shown[i])
       /\ selected' = {copy}
  /\ left > 0 /\ left' = left - 1
  /\ Honestly /\ UNCHANGED <<chart, tool, fixed, gesture, guard, editor, down, done, undone>>

ChooseTool(t) ==
  /\ editor = Nothing /\ t # tool
  /\ SetTool(t, gesture)
  /\ SameDrawings /\ UNCHANGED <<chart, fixed, guard, selected, editor, down, straight>>
(* A switch of the symbol cancels the gesture and the editor; the placeholder is looked for  *)
(* on the chart that is shown by then.                                                       *)
ShowChart(c) ==
  /\ c # chart /\ chart' = c /\ left > 0 /\ left' = left - 1
  /\ gesture' = Idle /\ tool' = "cursor" /\ selected' = {} /\ editor' = Nothing
  /\ straight' = (straight /\ done = <<>> /\ undone = <<>>)
  /\ base' = IF done = <<>> /\ undone = <<>> THEN lists[c] ELSE base
  /\ UNCHANGED <<lists, fixed, guard, down, done, undone>>

EditingInit ==
  /\ chart \in Chart /\ keep \in BOOLEAN /\ left \in 0 .. MaxEdits
  /\ fingers \in (SUBSET Contact) \ {{}}
  /\ LET i == CHOOSE i \in Drawn : TRUE IN lists = [c \in Chart |->
       IF c = chart THEN Put(None, i, [at |-> 0, locked |-> FALSE, text |-> "none"]) ELSE None]
  /\ tool = "cursor" /\ gesture = Idle /\ guard = Nothing
  /\ selected = {} /\ editor = Nothing /\ down = {}
  /\ done = <<>> /\ undone = <<>> /\ base = lists[chart] /\ straight = TRUE

EditingNext ==
  \/ \E p \in Contact : Press(p) \/ Lift(p) \/ Cancel(p)
  \/ \E p \in Contact, by \in Place : MoveTransforms(p, by)
  \/ \E p \in Contact, accepted \in BOOLEAN : MoveCreates(p, accepted)
  \/ AnimationFrame \/ \E at \in Place : ContextMenu(at)
  \/ Escape \/ Undo \/ Redo \/ PasteOrDuplicate \/ Delete \/ SelectAll
  \/ \E by \in Place : Nudge(by)
  \/ \E targets \in SUBSET Drawn : ToggleLock(targets)
  \/ \E i \in Drawn : Clone(i) \/ EditText(i)
  \/ Type \/ FinishText
  \/ \E t \in CreationTool \union {"cursor", "eraser"} : ChooseTool(t)
  \/ \E c \in Chart : ShowChart(c)

EditingSpec == EditingInit /\ [][EditingNext]_editingVars

-----------------------------------------------------------------------------
GestureOf == [state : {"Idle", "Drawing", "Transforming"}, session : CreationTool \union {Nothing},
              points : 0..2, pointer : Contact \union {Nothing},
              drag : [pointer : Contact, dragged : BOOLEAN] \union {Nothing},
              blocked : BOOLEAN, frozen : BOOLEAN,
              orig : Partially(Drawn, Place), live : Partially(Drawn, Place),
              frame : (0 .. Places) \union {Nothing}]

(* Types, and: what is selected is shown, through deletes, undo, redo and symbol switches.   *)
EditingTypeOK ==
  /\ chart \in Chart /\ keep \in BOOLEAN /\ straight \in BOOLEAN
  /\ \A c \in Chart : lists[c] \in Partially(Drawn, DrawingOf)
  /\ tool \in CreationTool \union {"cursor", "eraser"}
  /\ gesture \in GestureOf /\ guard \in Contact \union {Nothing}
  /\ selected \subseteq DOMAIN Shown /\ down \subseteq Contact
  /\ editor = Nothing \/ (editor.id \in Drawn /\ {editor.was, editor.draft} \subseteq {"none", "blank", "note"})
  /\ Len(done) <= MaxHistory /\ Len(undone) <= MaxHistory

(* The chart is frozen, a transform is in progress and the presses of a new creation are     *)
(* refused only while a pointer that is responsible for it is still in contact: no order of  *)
(* presses, releases, cancellations, tool and symbol changes leaves the chart stuck.         *)
HeldByAContact ==
  /\ gesture.frozen => down # {}
  /\ gesture.state = "Transforming" => gesture.pointer \in down
  /\ guard # Nothing => guard \in down

(* Without a gesture nothing of one remains: no capture, no blocked chart events, no queued  *)
(* preview that could resurrect the rubber band, no live points.                             *)
IdleIsClean == gesture.state = "Idle" => gesture = Idle

(* The history holds the exact inverse of every edit: unwinding it from the drawings now     *)
(* shown gives the drawings before its oldest command.  The placeholder of an open text      *)
(* editor is beside the history; an undo, redo or delete in the middle of a drag, and a      *)
(* switch of the symbol, void the claim (CommandManager is not told of either).              *)
HistoryUnwinds ==
  straight => Unwound(done, IF editor # Nothing /\ editor.was = "blank"
                              THEN Drop(Shown, {editor.id}) ELSE Shown) = base

==============================================================================
