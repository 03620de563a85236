------------------------------ MODULE RiskGuard ------------------------------
(***************************************************************************)
(* The prop risk guard of one account on screen: PropRiskGuardCard (load,  *)
(* poll, draft, save) and the PropRiskCompactStatus badge, against the     *)
(* assignment and the profile catalog of the gateway.                      *)
(*                                                                         *)
(* Rules are the objectives, named by the catalog version they come from,  *)
(* and the local policy, one of two values.                                *)
(***************************************************************************)
EXTENDS Partial

CONSTANTS
  Profile,       \* catalog profiles
  LockedRules,   \* the profiles whose objectives are locked
  MaxGuardSteps  \* bound: catalog versions, saves, openings and user edits

VARIABLES
  guardStore,    \* assignment and catalog in the gateway, with a revision
  card,          \* open, loading, guard, draft, saving, polls (snapshots under
                 \*   way), orphans (saves whose card was closed); wanted (history: the draft the
                 \*   user made), confirmed (history: revision of the last
                 \*   save reported to this card)
  badge,         \* the snapshots under way and the assignment on the badge
  guardSteps

guardVars == <<guardStore, card, badge, guardSteps>>

NoDraft == [enabled |-> FALSE, profile |-> Nothing, capital |-> FALSE,
            rules |-> [objective |-> 0, local |-> 0]]
CardClosed ==
  [open |-> FALSE, loading |-> {}, guard |-> Nothing, draft |-> NoDraft, saving |-> Nothing,
   polls |-> {}, orphans |-> {}, wanted |-> NoDraft, confirmed |-> 0]

GuardInit ==
  /\ guardStore = [assignment |-> Nothing, catalog |-> [p \in Profile |-> 1], rev |-> 0,
                   verdict |-> "none"]
  /\ card = CardClosed
  /\ badge = [asked |-> {}, shown |-> Nothing]
  /\ guardSteps = 0

GuardStep == guardSteps < MaxGuardSteps /\ guardSteps' = guardSteps + 1

(***************************************************************************)
(* The gateway.                                                            *)
(***************************************************************************)
NewCatalog(p) ==
  /\ GuardStep
  /\ guardStore' = [guardStore EXCEPT !.catalog[p] = @ + 1]
  /\ UNCHANGED <<card, badge>>
(* An evaluation of the account at a heartbeat. *)
Evaluate ==
  /\ guardStore.assignment # Nothing
  /\ guardStore.verdict = "none"
  /\ \E v \in {"healthy", "locked"} : guardStore' = [guardStore EXCEPT !.verdict = v]
  /\ UNCHANGED <<card, badge, guardSteps>>

Assigned(d) ==
  [guardStore EXCEPT !.rev = @ + 1, !.verdict = "none",
     !.assignment = [enabled |-> d.enabled, profile |-> d.profile,
       version |-> guardStore.catalog[d.profile],
       rules |-> IF d.profile \in LockedRules
                 THEN [d.rules EXCEPT !.objective = guardStore.catalog[d.profile]]
                 ELSE d.rules]]

(***************************************************************************)
(* The card: load, poll, edit, save.                                       *)
(***************************************************************************)
(* findExactPropRiskProfile: the assignment still is a catalog version.    *)
Exact(g) ==
  g.assignment # Nothing /\ g.catalog[g.assignment.profile] = g.assignment.version

(* draftFromGuard: an assignment outside the catalog starts off and unset. *)
DraftFromGuard(g) ==
  IF g.assignment = Nothing THEN NoDraft
  ELSE [enabled |-> Exact(g) /\ g.assignment.enabled, capital |-> TRUE,
        profile |-> IF Exact(g) THEN g.assignment.profile ELSE Nothing,
        rules |-> g.assignment.rules]

OpenCard ==
  /\ GuardStep
  /\ ~ card.open
  /\ card' = [CardClosed EXCEPT !.open = TRUE, !.loading = {guardStore},
                                  !.orphans = card.orphans]
  /\ UNCHANGED <<guardStore, badge>>
CardLoaded ==
  /\ \E g \in card.loading :
       card' = [card EXCEPT !.loading = {}, !.guard = g, !.draft = DraftFromGuard(g),
                            !.wanted = DraftFromGuard(g)]
  /\ UNCHANGED <<guardStore, badge, guardSteps>>
CardLoadFails ==
  /\ card.loading # {}
  /\ card' = [card EXCEPT !.loading = {}]
  /\ UNCHANGED <<guardStore, badge, guardSteps>>
(* The dialog unmounts its card; a save under way goes on. *)
CloseCard ==
  /\ card.open
  /\ card' = [CardClosed EXCEPT !.orphans = card.orphans \union
                (IF card.saving # Nothing /\ card.saving.reply = Nothing
                 THEN {card.saving.draft} ELSE {})]
  /\ UNCHANGED <<guardStore, badge, guardSteps>>

Loaded == card.open /\ card.guard # Nothing

(* The refresh effect runs while nothing is saved; its cleanup drops what  *)
(* it has under way.                                                       *)
StartPoll ==
  /\ Loaded /\ card.saving = Nothing
  /\ card.polls = {} /\ guardStore # card.guard
  /\ card' = [card EXCEPT !.polls = {guardStore}]
  /\ UNCHANGED <<guardStore, badge, guardSteps>>
RefreshedDraft(g) == [card EXCEPT !.polls = {}, !.guard = g, !.draft = DraftFromGuard(g)]
Refreshed(g) == [card EXCEPT !.polls = {}, !.guard = g]
PollArrives ==
  /\ \E g \in card.polls : card' \in {Refreshed(g), [card EXCEPT !.polls = {}]}
  /\ UNCHANGED <<guardStore, badge, guardSteps>>

(* selectedProfile: found by its id, whatever its version. *)
Selectable == Loaded /\ card.draft.profile # Nothing
Edited(d) == card' = [card EXCEPT !.draft = d, !.wanted = d]

(* chooseProfile: locked objectives replace the draft's, the local policy  *)
(* of the draft stays.                                                     *)
ChooseProfile(p) ==
  /\ GuardStep
  /\ Loaded
  /\ \E capital \in {TRUE, card.draft.capital} :
       Edited([card.draft EXCEPT !.profile = p, !.capital = capital,
                 !.rules = [objective |-> card.guard.catalog[p],
                            local |-> IF p \in LockedRules THEN @.local ELSE 0]])
  /\ UNCHANGED <<guardStore, badge>>
ToggleGuard ==
  /\ GuardStep
  /\ Selectable
  /\ Edited([card.draft EXCEPT !.enabled = ~ @])
  /\ UNCHANGED <<guardStore, badge>>
(* The editors of the local policy, of the actions and of a custom profile. *)
EditPolicy ==
  /\ GuardStep
  /\ Selectable
  /\ \/ Edited([card.draft EXCEPT !.rules.local = 1 - @])
     \/ /\ card.draft.profile \notin LockedRules
        /\ Edited([card.draft EXCEPT !.rules.objective = 0])
  /\ UNCHANGED <<guardStore, badge>>
EditCapital ==
  /\ GuardStep
  /\ Selectable
  /\ Edited([card.draft EXCEPT !.capital = ~ @])
  /\ UNCHANGED <<guardStore, badge>>

SavingLeavesPoll == [card EXCEPT !.saving = [draft |-> card.draft, reply |-> Nothing]]
SavingCard == [SavingLeavesPoll EXCEPT !.polls = {}]
SaveGuard ==
  /\ GuardStep
  /\ Selectable /\ card.saving = Nothing
  /\ card.draft.capital
  /\ card' = SavingCard
  /\ UNCHANGED <<guardStore, badge>>
(* The gateway applies the save; the reply carries the guard after it. *)
StoreGuard ==
  /\ card.saving # Nothing /\ card.saving.reply = Nothing
  /\ guardStore' = Assigned(card.saving.draft)
  /\ card' = [card EXCEPT !.saving.reply = guardStore']
  /\ UNCHANGED <<badge, guardSteps>>
StoreOrphan ==
  /\ \E d \in card.orphans :
       guardStore' = Assigned(d) /\ card' = [card EXCEPT !.orphans = @ \ {d}]
  /\ UNCHANGED <<badge, guardSteps>>
(* Success replaces guard and draft; after a loss both stay. *)
SaveReplied ==
  /\ card.saving # Nothing /\ card.saving.reply # Nothing
  /\ LET g == card.saving.reply IN
     card' \in {[card EXCEPT !.saving = Nothing],
                [card EXCEPT !.saving = Nothing, !.guard = g, !.draft = DraftFromGuard(g),
                   !.wanted = DraftFromGuard(g), !.confirmed = g.rev]}
  /\ UNCHANGED <<guardStore, badge, guardSteps>>
SaveFails ==
  /\ card.saving # Nothing /\ card.saving.reply = Nothing
  /\ card' = [card EXCEPT !.saving = Nothing]
  /\ UNCHANGED <<guardStore, badge, guardSteps>>

(***************************************************************************)
(* The badge of the rail polls without waiting for its previous request.   *)
(***************************************************************************)
Badge(g) ==
  IF g.assignment = Nothing \/ ~ g.assignment.enabled THEN Nothing
  ELSE CASE g.verdict = "locked" -> "Risk locked"
         [] g.verdict = "none" -> "Risk syncing"
         [] OTHER -> "Risk guard"
AskBadge ==
  /\ Cardinality(badge.asked) < 2
  /\ badge' = [badge EXCEPT !.asked = @ \union {Badge(guardStore)}]
  /\ UNCHANGED <<guardStore, card, guardSteps>>
BadgeArrives ==
  /\ \E b \in badge.asked :
       badge' \in {[asked |-> badge.asked \ {b}, shown |-> s] : s \in {b, Nothing}}
  /\ UNCHANGED <<guardStore, card, guardSteps>>

GuardNext ==
  \/ \E p \in Profile : NewCatalog(p) \/ ChooseProfile(p)
  \/ Evaluate \/ OpenCard \/ CardLoaded \/ CardLoadFails \/ CloseCard \/ StartPoll \/ PollArrives
  \/ ToggleGuard \/ EditPolicy \/ EditCapital \/ SaveGuard \/ StoreGuard \/ StoreOrphan \/ SaveReplied \/ SaveFails
  \/ AskBadge \/ BadgeArrives

GuardSpec == GuardInit /\ [][GuardNext]_guardVars

(***************************************************************************)
(* Properties.                                                             *)
(***************************************************************************)
(* Once a save was confirmed, no poll that was under way when it started   *)
(* puts an older guard back (PropRiskGuardCard.tsx:230).                   *)
GuardNeverRegresses == Loaded => card.guard.rev >= card.confirmed

(* Polls refresh what the account is under, never what the user is         *)
(* editing: the draft changes by an edit or by a confirmed save only       *)
(* (PropRiskGuardCard.tsx:239).                                            *)
EditsSurvivePolls == card.draft = card.wanted

(* What the card shows and edits through polls and saves. *)
CardKeepsUp == EditsSurvivePolls /\ GuardNeverRegresses
==============================================================================
