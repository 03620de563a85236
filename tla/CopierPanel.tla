----------------------------- MODULE CopierPanel -----------------------------
(***************************************************************************)
(* ContinuousCopierPanel: the editor of a continuous copier group, with    *)
(* its polls, its confirmations, its saves and its actions, against the    *)
(* gateway's revisions.  The panel is about one group; accounts come and   *)
(* go in the registry while it is open.                                    *)
(*                                                                         *)
(* The settings of a group are one value: "a", "b", or "bad" when they do  *)
(* not pass the validation.  Followers map accounts to being enabled.      *)
(***************************************************************************)
EXTENDS Partial

CONSTANTS
  Copied,        \* the accounts that can be source or follower
  MaxCopySteps   \* bound: edits, requests, registry changes, foreign saves

VARIABLES
  copyGroup,     \* the server: Nothing, or the group with its revision
  copyPanel,     \* list (the group in it), selected, draft, baseline, status,
                 \*   asking (confirmation), registered (accounts), armed,
                 \*   loads, polls, request; seen: revisions shown (history)
  copySteps

copyVars == <<copyGroup, copyPanel, copySteps>>

CopyStep == copySteps < MaxCopySteps /\ copySteps' = copySteps + 1

(* createContinuousCopyGroupDraft, continuousCopyGroupViewToDraft and      *)
(* ensureContinuousCopyTargets; resourced is set by a change of source.    *)
SourceOf(accounts) == CHOOSE a \in accounts : TRUE
Ensured(d, accounts) ==
  [d EXCEPT !.followers =
     [a \in (accounts \union DOMAIN @) \ {d.source} |-> IF a \in DOMAIN @ THEN @[a] ELSE FALSE]]
NewDraft(accounts) ==
  Ensured([rev |-> 0, source |-> IF accounts = {} THEN Nothing ELSE SourceOf(accounts),
           settings |-> "a", enabled |-> FALSE, followers |-> None, resourced |-> FALSE],
          accounts)
DraftOf(view, accounts) ==
  Ensured([rev |-> view.rev, source |-> view.source, settings |-> view.settings,
           enabled |-> view.enabled, followers |-> view.followers, resourced |-> FALSE], accounts)
DraftOrNew(view, accounts) ==
  IF view = Nothing THEN NewDraft(accounts) ELSE DraftOf(view, accounts)

(* validateContinuousCopyGroupDraft *)
ValidDraft(d) ==
  /\ d.settings # "bad"
  /\ d.source # Nothing
  /\ DOMAIN d.followers # {}
  /\ d.enabled => \E a \in DOMAIN d.followers : d.followers[a]

CopyInit ==
  /\ \E on \in BOOLEAN : copyGroup = [rev |-> 1, source |-> SourceOf(Copied), settings |-> "a",
       enabled |-> on, followers |-> [a \in Copied \ {SourceOf(Copied)} |-> on]]
  /\ copyPanel = [list |-> Nothing, selected |-> FALSE, draft |-> Nothing, baseline |-> Nothing,
       status |-> "loading", asking |-> Nothing, registered |-> Copied, armed |-> FALSE,
       loads |-> {}, polls |-> {}, request |-> Nothing, seen |-> {}]
  /\ copySteps = 0

(***************************************************************************)
(* Elsewhere: the registry, and other devices.                             *)
(***************************************************************************)
Unchanged == copyPanel.draft = copyPanel.baseline
(* The effect that follows the registry while the draft is clean. *)
Followed(p) ==
  IF p.draft = Nothing \/ p.draft # p.baseline \/ p.registered = {} THEN p
  ELSE LET next == IF p.draft.source = Nothing THEN NewDraft(p.registered)
                   ELSE Ensured(p.draft, p.registered)
       IN  [p EXCEPT !.draft = next, !.baseline = next]
RegistryChanges ==
  /\ CopyStep
  /\ \E s \in (SUBSET Copied) \ {copyPanel.registered} :
       copyPanel' = Followed([copyPanel EXCEPT !.registered = s])
  /\ UNCHANGED copyGroup
ChangedElsewhere ==
  /\ CopyStep
  /\ copyGroup # Nothing
  /\ copyGroup' = [copyGroup EXCEPT !.rev = @ + 1,
                                    !.settings = IF @ = "a" THEN "b" ELSE "a"]
  /\ UNCHANGED copyPanel

(***************************************************************************)
(* Loading and polling.                                                    *)
(***************************************************************************)
Install(p, view) ==
  LET d == DraftOrNew(view, p.registered)
  IN  [p EXCEPT !.list = IF view = Nothing THEN @ ELSE view, !.selected = view # Nothing,
                !.draft = d, !.baseline = d, !.armed = FALSE,
                !.seen = IF view = Nothing THEN @ ELSE @ \union {view.rev}]
Shown == IF copyPanel.selected THEN copyPanel.list ELSE Nothing   \* selectedView
GroupEditable == copyPanel.status \notin {"loading", "saving", "acting"}

(* refresh(true), at mount and after a confirmation *)
LoadGroups ==
  /\ copyPanel.status = "loading" /\ copyPanel.loads = {}
  /\ copyPanel' = [copyPanel EXCEPT !.loads = {copyGroup}]
  /\ UNCHANGED <<copyGroup, copySteps>>
GroupsLoaded ==
  /\ \E v \in copyPanel.loads :
       copyPanel' = [Install(copyPanel, v) EXCEPT !.list = v, !.loads = {}, !.status = "idle"]
  /\ UNCHANGED <<copyGroup, copySteps>>
LoadFailed ==
  /\ CopyStep
  /\ copyPanel.loads # {}
  /\ copyPanel' = [copyPanel EXCEPT !.loads = {}, !.status = "error"]
  /\ UNCHANGED copyGroup

(* refresh(false), every ten seconds unless a mutation is under way *)
PollGroups ==
  /\ copyPanel.request = Nothing /\ copyPanel.polls = {}
  /\ copyPanel' = [copyPanel EXCEPT !.polls = {copyGroup}]
  /\ UNCHANGED <<copyGroup, copySteps>>
PollLands(v) == [copyPanel EXCEPT !.list = v, !.status = "idle"]
PollReturns(v) ==
  /\ copyPanel' = [IF copyPanel.request # Nothing THEN copyPanel ELSE PollLands(v)
                   EXCEPT !.polls = @ \ {v}]
  /\ UNCHANGED <<copyGroup, copySteps>>

(***************************************************************************)
(* The editor.                                                             *)
(***************************************************************************)
(* setGroup, setConfig, setTarget; only a running group's source is locked. *)
SettingsEdited(d) == {[d EXCEPT !.settings = s] : s \in {"a", "b", "bad"} \ {d.settings}}
FollowersEdited(d) == {[d EXCEPT !.followers[a] = ~ @] : a \in DOMAIN d.followers}
EditDraft ==
  /\ CopyStep
  /\ copyPanel.draft # Nothing
  /\ \E d \in SettingsEdited(copyPanel.draft) \union FollowersEdited(copyPanel.draft)
               \union {[copyPanel.draft EXCEPT !.enabled = ~ @]} :
       copyPanel' = [copyPanel EXCEPT !.draft = d]
  /\ UNCHANGED copyGroup
EditSource ==
  /\ CopyStep
  /\ copyPanel.draft # Nothing /\ GroupEditable
  /\ \E a \in copyPanel.registered \ {copyPanel.draft.source} :
       copyPanel' = [copyPanel EXCEPT !.draft =
         Ensured([@ EXCEPT !.source = a, !.resourced = TRUE], copyPanel.registered)]
  /\ UNCHANGED copyGroup

(* confirmDiscard: what follows the confirmation was fixed when asking.    *)
AfterAsking(p, what) ==
  CASE what.op = "select" -> Install(p, what.view)
    [] what.op = "create" -> Install(p, Nothing)
    [] what.op = "reload" -> [p EXCEPT !.status = "loading"]
Ask(what) ==
  /\ copyPanel.asking = Nothing
  /\ copyPanel' = IF Unchanged THEN AfterAsking(copyPanel, what)
                  ELSE [copyPanel EXCEPT !.asking = what]
  /\ UNCHANGED copyGroup
SelectView ==
  CopyStep /\ copyPanel.list # Nothing /\ Ask([op |-> "select", view |-> copyPanel.list])
CreateGroup == CopyStep /\ copyPanel.draft # Nothing /\ Ask([op |-> "create", view |-> Nothing])
RefreshFromServer ==
  CopyStep /\ GroupEditable /\ Ask([op |-> "reload", view |-> Nothing])
Confirmed ==
  /\ copyPanel.asking # Nothing
  /\ copyPanel' \in {[copyPanel EXCEPT !.asking = Nothing],
                     [AfterAsking(copyPanel, copyPanel.asking) EXCEPT !.asking = Nothing]}
  /\ UNCHANGED <<copyGroup, copySteps>>
Discard ==
  /\ CopyStep
  /\ copyPanel.draft # Nothing /\ GroupEditable /\ ~ Unchanged
  /\ IF Shown = Nothing THEN Ask([op |-> "create", view |-> Nothing])
     ELSE copyPanel' = Install(copyPanel, Shown) /\ UNCHANGED copyGroup

(***************************************************************************)
(* Mutations: save and the actions of the group, after a trade approval    *)
(* when the group is to run (whose refusal fails the request).             *)
(***************************************************************************)
RequestOfShown(d) ==
  [op |-> "save", draft |-> [d EXCEPT !.rev = IF Shown = Nothing THEN 0 ELSE Shown.rev]]
RequestOf(d) == [op |-> "save", draft |-> d]
SaveGroup ==
  /\ CopyStep
  /\ copyPanel.draft # Nothing /\ GroupEditable /\ ~ Unchanged /\ ValidDraft(copyPanel.draft)
  /\ copyPanel' = [copyPanel EXCEPT !.request = RequestOf(copyPanel.draft), !.status = "saving"]
  /\ UNCHANGED copyGroup
ArmArchive ==
  /\ GroupEditable /\ Unchanged /\ Shown # Nothing /\ copyPanel.draft # Nothing
  /\ copyPanel' = [copyPanel EXCEPT !.armed = ~ @]
  /\ UNCHANGED <<copyGroup, copySteps>>
RunAction(op) ==
  /\ CopyStep
  /\ Shown # Nothing /\ copyPanel.draft # Nothing /\ GroupEditable /\ Unchanged
  /\ op = "archive" => copyPanel.armed
  /\ copyPanel' = [copyPanel EXCEPT !.status = "acting",
       !.request = [op |-> op, draft |-> [copyPanel.draft EXCEPT !.rev = Shown.rev]]]
  /\ UNCHANGED copyGroup

(* The gateway takes a request of the revision it has. *)
Stored(r) ==
  CASE r.op = "save" ->
         [rev |-> r.draft.rev + 1, source |-> r.draft.source, settings |-> r.draft.settings,
          enabled |-> r.draft.enabled, followers |-> r.draft.followers]
    [] r.op \in {"pause", "resume"} ->
         [copyGroup EXCEPT !.rev = @ + 1, !.enabled = r.op = "resume"]
    [] r.op = "reconcile" -> copyGroup
    [] r.op = "archive" -> [copyGroup EXCEPT !.rev = @ + 1]
Accepts(r) ==
  (r.op # "save" => copyGroup # Nothing) /\ r.draft.rev = (IF copyGroup = Nothing THEN 0 ELSE copyGroup.rev)
RequestSucceeds ==
  /\ copyPanel.request # Nothing
  /\ Accepts(copyPanel.request)
  /\ LET view == Stored(copyPanel.request) IN
       /\ copyGroup' = IF copyPanel.request.op = "archive" THEN Nothing ELSE view
       /\ copyPanel' = [Install(copyPanel, view) EXCEPT !.request = Nothing, !.status = "idle"]
  /\ UNCHANGED copySteps
RequestFails ==
  /\ copyPanel.request # Nothing
  /\ copyPanel' = [copyPanel EXCEPT !.request = Nothing, !.status = "error"]
  /\ UNCHANGED <<copyGroup, copySteps>>

CopyNext ==
  \/ RegistryChanges \/ ChangedElsewhere \/ LoadGroups \/ GroupsLoaded \/ LoadFailed
  \/ PollGroups \/ \E v \in copyPanel.polls : PollReturns(v)
  \/ EditDraft \/ EditSource \/ SelectView \/ CreateGroup \/ RefreshFromServer \/ Confirmed
  \/ Discard \/ SaveGroup \/ ArmArchive
  \/ \E op \in {"pause", "resume", "reconcile", "archive"} : RunAction(op)
  \/ RequestSucceeds \/ RequestFails

CopySpec == CopyInit /\ [][CopyNext]_copyVars

(***************************************************************************)
(* Properties.                                                             *)
(***************************************************************************)
Saves == copyPanel.request # Nothing /\ copyPanel'.request = Nothing
           /\ copyPanel.request.op = "save" /\ copyGroup' # copyGroup

(* A save replaces a version of the group that the editor was filled from, *)
(* never a change that a poll brought to the list only                     *)
(* (ContinuousCopierPanel.tsx:225, continuousCopier.ts:161).               *)
SavesReplaceWhatWasSeen ==
  [][Saves /\ copyGroup # Nothing => copyGroup.rev \in copyPanel.seen]_copyVars

(* A follower that is missing from the registry for a while is not left    *)
(* out of the next save (continuousCopier.ts:147).                         *)
FollowersAreKept ==
  [][Saves /\ copyGroup # Nothing /\ ~ copyPanel.request.draft.resourced
       => DOMAIN copyGroup.followers \subseteq DOMAIN copyGroup'.followers]_copyVars

(* A poll that started before a mutation never replaces the newer view.    *)
PollKeepsNewer ==
  [][copyPanel.polls # copyPanel'.polls /\ copyPanel.list # Nothing /\ copyPanel'.list # Nothing
       => copyPanel'.list.rev >= copyPanel.list.rev]_copyVars
==============================================================================
