-------------------------- MODULE DeskAndDrawingProofs -------------------------
(***************************************************************************)
(* Theorems about the trading side of the front end and about its          *)
(* drawings, with their proofs: the password prompts, the risk guard card, *)
(* the copier panel and the order ticket; then the outbox of the drawing   *)
(* queue, which loses nothing, and the screen, which shows what local      *)
(* storage holds, for any number of drawings, symbols, layouts and charts  *)
(* and any number of moves, failed sends and reloads.                      *)
(***************************************************************************)
EXTENDS TradeSecurity, RiskGuard, CopierPanel, OrderEntry, DrawingSync, TLAPS

(***************************************************************************)
(* TradeSecurity: one question at a time in the whole browser.             *)
(***************************************************************************)
Phases == {"idle", "asking", "queued", "rechecking", "prompted", "verifying"}
ApprovalTyped ==
  approval \in [phase : [Tab -> Phases], lock : Tab \union {Nothing}, prompt : SUBSET Tab,
                typed : SUBSET Tab, mounted : SUBSET Tab]
PromptInv == ApprovalTyped /\ OnePromptPerBrowser /\ approval.typed \subseteq approval.prompt

(* A concluded approval has no dialog and not the lock; the approvals of   *)
(* the other tabs are as they were.                                        *)
LEMMA ConcludedKeepsPrompts ==
  ASSUME PromptInv, NEW t \in Tab, approval' = Concluded(t)
  PROVE  PromptInv'
<1> USE NothingIsNoTab DEF PromptInv
<1>1. ApprovalTyped'
  BY DEF ApprovalTyped, Concluded, Phases
<1>2. \A u \in Tab : approval'.phase[u] = IF u = t THEN "idle" ELSE approval.phase[u]
  BY DEF ApprovalTyped, Concluded
<1>3. /\ approval'.lock = IF approval.lock = t THEN Nothing ELSE approval.lock
      /\ approval'.prompt = approval.prompt \ {t}
      /\ approval'.typed = approval.typed \ {t}
  BY DEF ApprovalTyped, Concluded
<1> QED  BY <1>1, <1>2, <1>3 DEF OnePromptPerBrowser

(* A dialog that opens belongs to the holder of the lock.                  *)
LEMMA AskedKeepsPrompts ==
  ASSUME PromptInv, NEW t \in Tab, approval.phase[t] \in {"rechecking", "verifying"},
         approval' = Asked(t)
  PROVE  PromptInv'
  BY NothingIsNoTab DEF PromptInv, ApprovalTyped, OnePromptPerBrowser, Asked, Phases

LEMMA PromptStep ==
  ASSUME PromptInv, NEW t \in Tab,
         \/ AuthorizeTrade(t) \/ Approve(t) \/ TypePrompt(t) \/ SubmitPrompt(t)
         \/ UnmountPrompt(t) \/ MountPrompt(t)
  PROVE  PromptInv'
<1> USE NothingIsNoTab
<1>1. CASE AuthorizeTrade(t)
  BY <1>1 DEF AuthorizeTrade, PromptInv, ApprovalTyped, OnePromptPerBrowser, Phases
<1>2. CASE FirstReply(t)
 <2>1. CASE approval' = Concluded(t)
   BY <2>1, ConcludedKeepsPrompts
 <2>2. CASE approval' = [approval EXCEPT !.phase[t] = "queued"]
   BY <1>2, <2>2 DEF FirstReply, PromptInv, ApprovalTyped, OnePromptPerBrowser, Phases
 <2> QED  BY <1>2, <2>1, <2>2 DEF FirstReply
<1>3. CASE AcquireLock(t)
  BY <1>3 DEF AcquireLock, PromptInv, ApprovalTyped, OnePromptPerBrowser, Phases
<1>4. CASE Recheck(t)
  BY <1>4, ConcludedKeepsPrompts, AskedKeepsPrompts DEF Recheck
<1>5. CASE CancelPrompt(t)
  BY <1>5, ConcludedKeepsPrompts DEF CancelPrompt
<1>6. CASE VerifyReply(t)
  BY <1>6, ConcludedKeepsPrompts, AskedKeepsPrompts DEF VerifyReply
<1>7. CASE TypePrompt(t)
  BY <1>7 DEF TypePrompt, PromptInv, ApprovalTyped, OnePromptPerBrowser, Phases
<1>8. CASE SubmitPrompt(t)
  BY <1>8 DEF SubmitPrompt, PromptInv, ApprovalTyped, OnePromptPerBrowser, Phases
<1>9. CASE UnmountPrompt(t)
  BY <1>9 DEF UnmountPrompt, Unmounted, Concluded, PromptInv, ApprovalTyped,
              OnePromptPerBrowser, Phases
<1>10. CASE MountPrompt(t)
  BY <1>10 DEF MountPrompt, PromptInv, ApprovalTyped, OnePromptPerBrowser, Phases
<1> QED  BY <1>1, <1>2, <1>3, <1>4, <1>5, <1>6, <1>7, <1>8, <1>9, <1>10 DEF Approve

(* The settings dialog and the idle timer leave the approvals alone.       *)
LEMMA PanelLeavesApprovals ==
  ASSUME \/ OpenSettings \/ DismissSettings \/ OpenRecovery \/ ToggleConfirmation
         \/ \E i \in DOMAIN panel.loads : ReadStatus(i) \/ StatusArrives(i)
         \/ \E f \in SecretFields : TypeSecret(f)
         \/ SubmitPanel \/ SettingsSaved \/ SettingsNotSaved \/ UnlockExpires
  PROVE  approval' = approval
  BY DEF OpenSettings, DismissSettings, OpenRecovery, ToggleConfirmation, ReadStatus,
         StatusArrives, TypeSecret, SubmitPanel, SettingsSaved, SettingsNotSaved, UnlockExpires

(* In every number of tabs, at most one asks for the trade password, and   *)
(* it holds the Web Lock (services/security/tradePassword).                *)
THEOREM OnePrompt == SecuritySpec => []OnePromptPerBrowser
<1>1. SecurityInit => PromptInv
  BY NothingIsNoTab DEF SecurityInit, PromptInv, ApprovalTyped, OnePromptPerBrowser, Phases
<1>2. PromptInv /\ [SecurityNext]_securityVars => PromptInv'
 <2> SUFFICES ASSUME PromptInv, [SecurityNext]_securityVars PROVE PromptInv'
   OBVIOUS
 <2>1. CASE approval' = approval
   BY <2>1 DEF PromptInv, ApprovalTyped, OnePromptPerBrowser
 <2>2. CASE \E t \in Tab : \/ AuthorizeTrade(t) \/ Approve(t) \/ TypePrompt(t) \/ SubmitPrompt(t)
                           \/ UnmountPrompt(t) \/ MountPrompt(t)
   BY <2>2, PromptStep
 <2> QED  BY <2>1, <2>2, PanelLeavesApprovals DEF SecurityNext, securityVars
<1>3. PromptInv => OnePromptPerBrowser
  BY DEF PromptInv
<1> QED  BY <1>1, <1>2, <1>3, PTL DEF SecuritySpec

(***************************************************************************)
(* RiskGuard: what the card shows and what the user edits.                 *)
(***************************************************************************)
CardShaped ==
  card = [open |-> card.open, loading |-> card.loading, guard |-> card.guard,
          draft |-> card.draft, saving |-> card.saving, polls |-> card.polls,
          orphans |-> card.orphans, wanted |-> card.wanted, confirmed |-> card.confirmed]
Revised(g) == g.rev \in Nat /\ g.rev <= guardStore.rev
(* A snapshot under way is no older than the last confirmed save, unless   *)
(* a save is under way, which has dropped it.                              *)
CardInv ==
  /\ CardShaped
  /\ guardStore = [assignment |-> guardStore.assignment, catalog |-> guardStore.catalog,
                   rev |-> guardStore.rev, verdict |-> guardStore.verdict]
  /\ guardStore.rev \in Nat /\ card.confirmed \in Nat
  /\ card.confirmed <= guardStore.rev
  /\ \A g \in card.loading : Revised(g)
  /\ card.loading # {} => card.confirmed = 0
  /\ \A g \in card.polls : Revised(g) /\ g.rev >= card.confirmed
  /\ card.polls # {} => card.loading = {}
  /\ card.guard # Nothing => Revised(card.guard) /\ card.guard.rev >= card.confirmed
  /\ card.saving # Nothing =>
       /\ card.polls = {} /\ card.loading = {}
       /\ card.saving = [draft |-> card.saving.draft, reply |-> card.saving.reply]
       /\ card.saving.reply # Nothing => Revised(card.saving.reply)
  /\ card.guard # Nothing => card.loading = {}
  /\ EditsSurvivePolls

(* The store moves on; what the card has seen of it stays seen.            *)
LEMMA CardFollowsStore ==
  ASSUME CardInv, CardShaped', EditsSurvivePolls',
         guardStore' = [assignment |-> guardStore'.assignment, catalog |-> guardStore'.catalog,
                        rev |-> guardStore.rev + 1, verdict |-> guardStore'.verdict],
         card'.confirmed = card.confirmed, card'.loading = card.loading,
         card'.polls = card.polls, card'.guard = card.guard,
         \/ card'.saving = card.saving
         \/ /\ card.saving # Nothing
            /\ card'.saving = [draft |-> card.saving.draft, reply |-> guardStore']
  PROVE  CardInv'
<1>1. /\ guardStore'.rev \in Nat
      /\ \A g : Revised(g) => g.rev \in Nat /\ g.rev <= guardStore'.rev
      /\ card.confirmed <= guardStore'.rev
  BY DEF CardInv, Revised
<1>2. card'.saving # Nothing =>
       /\ card'.polls = {} /\ card'.loading = {}
       /\ card'.saving = [draft |-> card'.saving.draft, reply |-> card'.saving.reply]
       /\ card'.saving.reply # Nothing => Revised(card.saving.reply)'
  BY <1>1 DEF CardInv, Revised
<1>3. /\ \A g \in card'.loading : Revised(g)'
      /\ \A g \in card'.polls : Revised(g)' /\ g.rev >= card'.confirmed
      /\ card'.guard # Nothing => Revised(card.guard)' /\ card'.guard.rev >= card'.confirmed
  BY <1>1 DEF CardInv, Revised
<1>4. /\ card'.loading # {} => card'.confirmed = 0
      /\ card'.polls # {} => card'.loading = {}
      /\ card'.guard # Nothing => card'.loading = {}
      /\ card'.confirmed \in Nat /\ card'.confirmed <= guardStore'.rev
  BY <1>1 DEF CardInv
<1> QED  BY <1>1, <1>2, <1>3, <1>4 DEF CardInv, Revised

LEMMA CardStep == CardInv /\ [GuardNext]_guardVars => CardInv'
<1> SUFFICES ASSUME CardInv, [GuardNext]_guardVars PROVE CardInv'
  OBVIOUS
<1> USE DEF CardInv, CardShaped, Revised, EditsSurvivePolls
<1>1. ASSUME NEW p \in Profile, NewCatalog(p) PROVE CardInv'
  BY <1>1 DEF NewCatalog
<1>2. ASSUME NEW p \in Profile, ChooseProfile(p) PROVE CardInv'
  BY <1>2 DEF ChooseProfile, Edited
<1>3. CASE Evaluate
  BY <1>3 DEF Evaluate
<1>4. CASE OpenCard
 <2>1. /\ card' = [open |-> TRUE, loading |-> {guardStore}, guard |-> Nothing,
                   draft |-> NoDraft, saving |-> Nothing, polls |-> {},
                   orphans |-> card.orphans, wanted |-> NoDraft, confirmed |-> 0]
       /\ guardStore' = guardStore
   BY <1>4 DEF OpenCard, CardClosed
 <2> QED  BY <2>1
<1>5. CASE CardLoaded
 <2> PICK g \in card.loading :
       /\ card' = [open |-> card.open, loading |-> {}, guard |-> g,
                   draft |-> DraftFromGuard(g), saving |-> card.saving, polls |-> card.polls,
                   orphans |-> card.orphans, wanted |-> DraftFromGuard(g),
                   confirmed |-> card.confirmed]
       /\ guardStore' = guardStore
   BY <1>5 DEF CardLoaded
 <2> QED  OBVIOUS
<1>6. CASE CardLoadFails
  BY <1>6 DEF CardLoadFails
<1>7. CASE CloseCard
 <2>1. /\ card' = [open |-> FALSE, loading |-> {}, guard |-> Nothing,
                   draft |-> NoDraft, saving |-> Nothing, polls |-> {},
                   orphans |-> card'.orphans, wanted |-> NoDraft, confirmed |-> 0]
       /\ guardStore' = guardStore
   BY <1>7 DEF CloseCard, CardClosed
 <2> QED  BY <2>1
<1>8. CASE StartPoll
 <2>1. /\ card' = [open |-> card.open, loading |-> card.loading, guard |-> card.guard,
                   draft |-> card.draft, saving |-> Nothing, polls |-> {guardStore},
                   orphans |-> card.orphans, wanted |-> card.wanted,
                   confirmed |-> card.confirmed]
       /\ guardStore' = guardStore
       /\ card.guard # Nothing
   BY <1>8 DEF StartPoll, Loaded
 <2> QED  BY <2>1
<1>9. CASE PollArrives
 <2> PICK g \in card.polls :
       /\ \/ card' = [card EXCEPT !.polls = {}, !.guard = g]
          \/ card' = [card EXCEPT !.polls = {}]
       /\ guardStore' = guardStore
   BY <1>9 DEF PollArrives, Refreshed
 <2>1. /\ card' = [open |-> card.open, loading |-> card.loading, guard |-> card'.guard,
                   draft |-> card.draft, saving |-> card.saving, polls |-> {},
                   orphans |-> card.orphans, wanted |-> card.wanted,
                   confirmed |-> card.confirmed]
       /\ card'.guard \in {card.guard, g}
   OBVIOUS
 <2>2. card.loading = {}
   OBVIOUS
 <2> QED  BY <2>1, <2>2
<1>10. CASE ToggleGuard
  BY <1>10 DEF ToggleGuard, Edited
<1>11. CASE EditPolicy
  BY <1>11 DEF EditPolicy, Edited
<1>12. CASE EditCapital
  BY <1>12 DEF EditCapital, Edited
<1>13. CASE SaveGuard
  BY <1>13 DEF SaveGuard, SavingCard, SavingLeavesPoll, Selectable, Loaded
<1>14. CASE StoreGuard
 <2>1. /\ guardStore' = [assignment |-> guardStore'.assignment, verdict |-> "none",
                         catalog |-> guardStore.catalog, rev |-> guardStore.rev + 1]
       /\ card' = [open |-> card.open, loading |-> card.loading, guard |-> card.guard,
                   draft |-> card.draft, polls |-> card.polls, orphans |-> card.orphans,
                   saving |-> [draft |-> card.saving.draft, reply |-> guardStore'],
                   wanted |-> card.wanted, confirmed |-> card.confirmed]
       /\ card.saving # Nothing
   BY <1>14 DEF StoreGuard, Assigned
 <2> QED  BY <2>1, CardFollowsStore
<1>15. CASE StoreOrphan
 <2>1. /\ guardStore' = [assignment |-> guardStore'.assignment, verdict |-> "none",
                         catalog |-> guardStore.catalog, rev |-> guardStore.rev + 1]
       /\ card' = [open |-> card.open, loading |-> card.loading, guard |-> card.guard,
                   draft |-> card.draft, polls |-> card.polls, orphans |-> card'.orphans,
                   saving |-> card.saving, wanted |-> card.wanted,
                   confirmed |-> card.confirmed]
   BY <1>15 DEF StoreOrphan, Assigned
 <2> QED  BY <2>1, CardFollowsStore
<1>16. CASE SaveReplied
 <2> DEFINE g == card.saving.reply
 <2>1. /\ card.saving # Nothing /\ g # Nothing
       /\ \/ card' = [card EXCEPT !.saving = Nothing]
          \/ card' = [card EXCEPT !.saving = Nothing, !.guard = g, !.draft = DraftFromGuard(g),
                                  !.wanted = DraftFromGuard(g), !.confirmed = g.rev]
       /\ guardStore' = guardStore
   BY <1>16 DEF SaveReplied
 <2>2. Revised(g) /\ card.polls = {} /\ card.loading = {}
   BY <2>1
 <2>3. CASE card' = [card EXCEPT !.saving = Nothing]
  <3>1. card' = [open |-> card.open, loading |-> {}, guard |-> card.guard,
                 draft |-> card.draft, saving |-> Nothing, polls |-> {},
                 orphans |-> card.orphans, wanted |-> card.wanted,
                 confirmed |-> card.confirmed]
    BY <2>2, <2>3
  <3> QED  BY <2>1, <3>1
 <2>4. CASE card' = [open |-> card.open, loading |-> {}, guard |-> g,
                     draft |-> DraftFromGuard(g), saving |-> Nothing, polls |-> {},
                     orphans |-> card.orphans, wanted |-> DraftFromGuard(g),
                     confirmed |-> g.rev]
  <3> HIDE DEF g
  <3> QED  BY <2>1, <2>2, <2>4
 <2> QED  BY <2>1, <2>2, <2>3, <2>4
<1>17. CASE SaveFails
  BY <1>17 DEF SaveFails
<1>18. CASE AskBadge \/ BadgeArrives \/ UNCHANGED guardVars
  BY <1>18 DEF AskBadge, BadgeArrives, guardVars
<1> QED
  BY <1>1, <1>2, <1>3, <1>4, <1>5, <1>6, <1>7, <1>8, <1>9, <1>10, <1>11, <1>12, <1>13,
     <1>14, <1>15, <1>16, <1>17, <1>18 DEF GuardNext

(* Whatever profiles there are: no poll touches what the user edits, and   *)
(* after a confirmed save no older guard comes back (PropRiskGuardCard).   *)
THEOREM CardKeepsUpAlways == GuardSpec => []CardKeepsUp
<1>1. GuardInit => CardInv
  BY DEF GuardInit, CardInv, CardShaped, CardClosed, EditsSurvivePolls
<1>2. CardInv => CardKeepsUp
  BY DEF CardInv, CardKeepsUp, GuardNeverRegresses, Loaded
<1> QED  BY <1>1, <1>2, CardStep, PTL DEF GuardSpec

(***************************************************************************)
(* CopierPanel: what a save replaces.                                      *)
(***************************************************************************)
DraftShaped(d) ==
  d = [rev |-> d.rev, source |-> d.source, settings |-> d.settings, enabled |-> d.enabled,
       followers |-> d.followers, resourced |-> d.resourced]
GroupShaped(g) ==
  g = [rev |-> g.rev, source |-> g.source, settings |-> g.settings, enabled |-> g.enabled,
       followers |-> g.followers]
PanelShaped(p) ==
  p = [list |-> p.list, selected |-> p.selected, draft |-> p.draft, baseline |-> p.baseline,
       status |-> p.status, asking |-> p.asking, registered |-> p.registered,
       armed |-> p.armed, loads |-> p.loads, polls |-> p.polls, request |-> p.request,
       seen |-> p.seen]
(* A revision the gateway has given to the group.                          *)
IsView(v) == v # Nothing => v.rev \in Nat \ {0}
IsRequest(r, seen) ==
  /\ r.op \in {"save", "pause", "resume", "reconcile", "archive"}
  /\ r.op = "save" => r.draft.rev \in seen \union {0}
(* The editor is filled from views of the group: of what was loaded,       *)
(* polled, or held by a question to the user.                              *)
PanelInv(p) ==
  /\ PanelShaped(p)
  /\ IsView(p.list)
  /\ \A v \in p.loads \union p.polls : IsView(v)
  /\ p.asking # Nothing =>
       p.asking.op \in {"select", "create", "reload"} /\ IsView(p.asking.view)
  /\ p.seen \subseteq Nat
  /\ p.draft # Nothing => DraftShaped(p.draft) /\ p.draft.rev \in p.seen \union {0}
  /\ p.request # Nothing => IsRequest(p.request, p.seen)
SeenInv ==
  /\ copyGroup # Nothing => GroupShaped(copyGroup)
  /\ IsView(copyGroup)
  /\ PanelInv(copyPanel)

(* Listing the registered accounts leaves the revision of a draft alone.   *)
LEMMA EnsuredKeepsRevision ==
  ASSUME NEW d, DraftShaped(d), NEW accounts
  PROVE  DraftShaped(Ensured(d, accounts)) /\ Ensured(d, accounts).rev = d.rev
<1> DEFINE f == [a \in (accounts \union DOMAIN d.followers) \ {d.source} |->
                   IF a \in DOMAIN d.followers THEN d.followers[a] ELSE FALSE]
<1>1. Ensured(d, accounts) = [d EXCEPT !.followers = f]
  BY DEF Ensured
<1> HIDE DEF f
<1> QED  BY <1>1 DEF DraftShaped

LEMMA ResourcedKeepsRevision ==
  ASSUME NEW d, DraftShaped(d), NEW a
  PROVE  LET e == [d EXCEPT !.source = a, !.resourced = TRUE]
         IN  DraftShaped(e) /\ e.rev = d.rev
<1>1. PICK e : e = [d EXCEPT !.source = a]
  OBVIOUS
<1>2. DraftShaped(e) /\ e.rev = d.rev
  BY <1>1 DEF DraftShaped
<1>3. PICK f : f = [e EXCEPT !.resourced = TRUE]
  OBVIOUS
<1>4. DraftShaped(f) /\ f.rev = d.rev
  BY <1>2, <1>3 DEF DraftShaped
<1>5. f = [d EXCEPT !.source = a, !.resourced = TRUE]
  BY <1>1, <1>3
<1> QED  BY <1>4, <1>5

LEMMA NewDraftUnseen ==
  ASSUME NEW accounts
  PROVE  DraftShaped(NewDraft(accounts)) /\ NewDraft(accounts).rev = 0
<1> DEFINE d == [rev |-> 0, source |-> IF accounts = {} THEN Nothing ELSE SourceOf(accounts),
                 settings |-> "a", enabled |-> FALSE, followers |-> None, resourced |-> FALSE]
<1>1. DraftShaped(d) /\ d.rev = 0
  BY DEF DraftShaped
<1> QED  BY <1>1, EnsuredKeepsRevision DEF NewDraft

LEMMA DraftOfView ==
  ASSUME NEW group, NEW accounts
  PROVE  DraftShaped(DraftOf(group, accounts)) /\ DraftOf(group, accounts).rev = group.rev
<1> DEFINE d == [rev |-> group.rev, source |-> group.source, settings |-> group.settings,
                 enabled |-> group.enabled, followers |-> group.followers, resourced |-> FALSE]
<1>1. DraftShaped(d) /\ d.rev = group.rev
  BY DEF DraftShaped
<1> QED  BY <1>1, EnsuredKeepsRevision DEF DraftOf

(* An editor filled from a view has seen its revision.                     *)
LEMMA Installed ==
  ASSUME NEW p, PanelInv(p), NEW group, IsView(group)
  PROVE  PanelInv(Install(p, group))
<1> DEFINE d == DraftOrNew(group, p.registered)
           q == Install(p, group)
           s == IF group = Nothing THEN p.seen ELSE p.seen \union {group.rev}
<1>1. DraftShaped(d) /\ d.rev = IF group = Nothing THEN 0 ELSE group.rev
  BY NewDraftUnseen, DraftOfView DEF DraftOrNew
<1>2. q = [list |-> IF group = Nothing THEN p.list ELSE group, selected |-> group # Nothing,
           draft |-> d, baseline |-> d, status |-> p.status, asking |-> p.asking,
           registered |-> p.registered, armed |-> FALSE, loads |-> p.loads,
           polls |-> p.polls, request |-> p.request, seen |-> s]
 <2>1. q = [p EXCEPT !.list = IF group = Nothing THEN p.list ELSE group,
                     !.selected = group # Nothing, !.draft = d, !.baseline = d,
                     !.armed = FALSE, !.seen = s]
   BY DEF Install
 <2> HIDE DEF d, q, s
 <2> QED  BY <2>1 DEF PanelInv, PanelShaped
<1>3. /\ s \subseteq Nat /\ p.seen \subseteq s
      /\ d.rev \in s \union {0}
  BY <1>1 DEF PanelInv, IsView
<1> HIDE DEF d, q, s
<1>4. PanelShaped(q) /\ IsView(q.list)
  BY <1>2 DEF PanelInv, PanelShaped
<1>5. q.request # Nothing => IsRequest(q.request, q.seen)
  BY <1>2, <1>3 DEF PanelInv, IsRequest
<1> QED  BY <1>1, <1>2, <1>3, <1>4, <1>5 DEF PanelInv, q

LEMMA FollowedKeepsInv ==
  ASSUME NEW p, PanelInv(p)
  PROVE  PanelInv(Followed(p))
<1> DEFINE next == IF p.draft.source = Nothing THEN NewDraft(p.registered)
                   ELSE Ensured(p.draft, p.registered)
<1>1. CASE p.draft # Nothing /\ Followed(p) = [p EXCEPT !.draft = next, !.baseline = next]
 <2>1. DraftShaped(next) /\ next.rev \in p.seen \union {0}
   BY <1>1, NewDraftUnseen, EnsuredKeepsRevision DEF PanelInv
 <2> HIDE DEF next
 <2>2. Followed(p) =
         [list |-> p.list, selected |-> p.selected, draft |-> next, baseline |-> next,
          status |-> p.status, asking |-> p.asking, registered |-> p.registered,
          armed |-> p.armed, loads |-> p.loads, polls |-> p.polls, request |-> p.request,
          seen |-> p.seen]
   BY <1>1 DEF PanelInv, PanelShaped
 <2> QED  BY <2>1, <2>2 DEF PanelInv, PanelShaped
<1> QED  BY <1>1 DEF Followed

LEMMA SeenStep == SeenInv /\ [CopyNext]_copyVars => SeenInv'
<1> SUFFICES ASSUME SeenInv, [CopyNext]_copyVars PROVE SeenInv'
  OBVIOUS
<1> DEFINE p == copyPanel
<1>0. PanelInv(copyPanel)
  BY DEF SeenInv
<1>1. CASE RegistryChanges
 <2> PICK s : copyPanel' = Followed([copyPanel EXCEPT !.registered = s]) /\ copyGroup' = copyGroup
   BY <1>1 DEF RegistryChanges
 <2>1. PanelInv([copyPanel EXCEPT !.registered = s])
   BY <1>0 DEF PanelInv, PanelShaped
 <2> QED  BY <2>1, FollowedKeepsInv DEF SeenInv
<1>2. CASE ChangedElsewhere
 <2>1. /\ copyGroup' = [rev |-> copyGroup.rev + 1, source |-> copyGroup.source,
                        settings |-> IF copyGroup.settings = "a" THEN "b" ELSE "a",
                        enabled |-> copyGroup.enabled, followers |-> copyGroup.followers]
       /\ copyGroup.rev \in Nat \ {0} /\ copyPanel' = copyPanel
   BY <1>2 DEF ChangedElsewhere, SeenInv, GroupShaped, IsView
 <2> QED  BY <1>0, <2>1 DEF SeenInv, GroupShaped, IsView
<1>3. CASE LoadGroups \/ LoadFailed \/ PollGroups
 <2>1. /\ copyGroup' = copyGroup
       /\ copyPanel' = [list |-> p.list, selected |-> p.selected, draft |-> p.draft,
            baseline |-> p.baseline, status |-> copyPanel'.status, asking |-> p.asking,
            registered |-> p.registered, armed |-> p.armed, loads |-> copyPanel'.loads,
            polls |-> copyPanel'.polls, request |-> p.request, seen |-> p.seen]
       /\ copyPanel'.loads \union copyPanel'.polls \subseteq p.loads \union p.polls \union {copyGroup}
   BY <1>0, <1>3 DEF LoadGroups, LoadFailed, PollGroups, PanelInv, PanelShaped
 <2>2. \A v \in copyPanel'.loads \union copyPanel'.polls : IsView(v)
   BY <1>0, <2>1 DEF SeenInv, PanelInv
 <2> QED  BY <1>0, <2>1, <2>2 DEF SeenInv, PanelInv, PanelShaped
<1>4. CASE GroupsLoaded
 <2> PICK v \in copyPanel.loads :
       /\ copyPanel' = [Install(copyPanel, v) EXCEPT !.list = v, !.loads = {}, !.status = "idle"]
       /\ copyGroup' = copyGroup
   BY <1>4 DEF GroupsLoaded
 <2>1. PanelInv(Install(copyPanel, v)) /\ IsView(v)
   BY <1>0, Installed DEF PanelInv
 <2> QED  BY <2>1 DEF SeenInv, PanelInv, PanelShaped
<1>5. ASSUME NEW v \in copyPanel.polls, PollReturns(v) PROVE SeenInv'
  BY <1>5 DEF PollReturns, PollLands, SeenInv, PanelInv, PanelShaped
<1>6. CASE EditDraft
 <2>1. PICK d : /\ copyPanel' = [copyPanel EXCEPT !.draft = d]
                /\ copyGroup' = copyGroup /\ copyPanel.draft # Nothing
                /\ d \in SettingsEdited(copyPanel.draft) \union FollowersEdited(copyPanel.draft)
                          \union {[copyPanel.draft EXCEPT !.enabled = ~ @]}
   BY <1>6 DEF EditDraft
 <2>2. DraftShaped(d) /\ d.rev = copyPanel.draft.rev
  <3>1. DraftShaped(copyPanel.draft)
    BY <2>1, <1>0 DEF PanelInv
  <3>2. \/ \E s : d = [copyPanel.draft EXCEPT !.settings = s]
        \/ \E a : d = [copyPanel.draft EXCEPT !.followers[a] = ~ @]
        \/ d = [copyPanel.draft EXCEPT !.enabled = ~ @]
    BY <2>1 DEF SettingsEdited, FollowersEdited
  <3> QED  BY <3>1, <3>2 DEF DraftShaped
 <2> QED  BY <2>1, <2>2 DEF SeenInv, PanelInv, PanelShaped
<1>7. CASE EditSource
 <2>1. PICK a : /\ copyPanel' = [copyPanel EXCEPT !.draft =
                     Ensured([@ EXCEPT !.source = a, !.resourced = TRUE], copyPanel.registered)]
                /\ copyGroup' = copyGroup /\ copyPanel.draft # Nothing
   BY <1>7 DEF EditSource
 <2> DEFINE d == [copyPanel.draft EXCEPT !.source = a, !.resourced = TRUE]
            e == Ensured(d, copyPanel.registered)
 <2>2. DraftShaped(d) /\ d.rev = copyPanel.draft.rev
  <3>1. DraftShaped(copyPanel.draft)
    BY <2>1, <1>0 DEF PanelInv
  <3> QED  BY <3>1, ResourcedKeepsRevision
 <2>3. DraftShaped(e) /\ e.rev = copyPanel.draft.rev
   BY <2>2, EnsuredKeepsRevision
 <2>4. copyPanel' = [copyPanel EXCEPT !.draft = e]
   BY <2>1
 <2> HIDE DEF e
 <2> QED  BY <2>1, <2>3, <2>4 DEF SeenInv, PanelInv, PanelShaped
<1>8. ASSUME NEW what, PanelInv(AfterAsking(copyPanel, what)), IsView(what.view),
             what.op \in {"select", "create", "reload"}, Ask(what)
      PROVE  SeenInv'
  BY <1>8 DEF Ask, SeenInv, PanelInv, PanelShaped
<1>9. ASSUME NEW what, what.op \in {"select", "create", "reload"}, IsView(what.view)
      PROVE  PanelInv(AfterAsking(copyPanel, what))
 <2>1. CASE what.op = "reload"
   BY <1>0, <2>1 DEF AfterAsking, PanelInv, PanelShaped
 <2>2. IsView(Nothing)
   BY DEF IsView
 <2> QED  BY <1>0, <1>9, <2>1, <2>2, Installed DEF AfterAsking
<1>10. CASE SelectView \/ CreateGroup \/ RefreshFromServer
 <2>1. IsView(Nothing) /\ IsView(copyPanel.list)
   BY <1>0 DEF IsView, PanelInv
 <2> QED  BY <1>8, <1>9, <1>10, <2>1 DEF SelectView, CreateGroup, RefreshFromServer
<1>11. CASE Confirmed
 <2>1. CASE copyPanel' = [copyPanel EXCEPT !.asking = Nothing]
   BY <1>11, <2>1 DEF Confirmed, SeenInv, PanelInv, PanelShaped
 <2>2. CASE copyPanel' = [AfterAsking(copyPanel, copyPanel.asking) EXCEPT !.asking = Nothing]
  <3>1. PanelInv(AfterAsking(copyPanel, copyPanel.asking))
    BY <1>0, <1>9, <1>11 DEF Confirmed, PanelInv
  <3> QED  BY <1>11, <2>2, <3>1 DEF Confirmed, SeenInv, PanelInv, PanelShaped
 <2> QED  BY <1>11, <2>1, <2>2 DEF Confirmed
<1>12. CASE Discard
 <2>1. IsView(Nothing) /\ IsView(Shown)
   BY <1>0 DEF IsView, PanelInv, Shown
 <2>2. CASE Shown = Nothing
   BY <1>8, <1>9, <1>12, <2>1, <2>2 DEF Discard
 <2>3. CASE copyPanel' = Install(copyPanel, Shown) /\ copyGroup' = copyGroup
   BY <1>0, <2>1, <2>3, Installed DEF SeenInv
 <2> QED  BY <1>12, <2>2, <2>3 DEF Discard
<1>13. CASE SaveGroup
  BY <1>13 DEF SaveGroup, RequestOf, SeenInv, PanelInv, PanelShaped, IsRequest
<1>14. CASE ArmArchive
  BY <1>14 DEF ArmArchive, SeenInv, PanelInv, PanelShaped
<1>15. ASSUME NEW op \in {"pause", "resume", "reconcile", "archive"}, RunAction(op) PROVE SeenInv'
  BY <1>15 DEF RunAction, SeenInv, PanelInv, PanelShaped, IsRequest
<1>16. CASE RequestSucceeds
 <2> DEFINE group == Stored(copyPanel.request)
 <2>1. /\ copyPanel.request # Nothing /\ Accepts(copyPanel.request)
       /\ copyGroup' = IF copyPanel.request.op = "archive" THEN Nothing ELSE group
       /\ copyPanel' = [Install(copyPanel, group) EXCEPT !.request = Nothing, !.status = "idle"]
   BY <1>16 DEF RequestSucceeds
 <2>2. IsRequest(copyPanel.request, copyPanel.seen) /\ copyPanel.seen \subseteq Nat
   BY <1>0, <2>1 DEF PanelInv
 <2>3. IsView(group) /\ (group # Nothing => GroupShaped(group))
  <3>1. CASE copyPanel.request.op = "save"
    BY <2>2, <3>1 DEF Stored, IsView, GroupShaped, IsRequest
  <3>2. CASE copyPanel.request.op # "save"
   <4>1. copyGroup # Nothing /\ GroupShaped(copyGroup) /\ copyGroup.rev \in Nat \ {0}
     BY <2>1, <3>2 DEF Accepts, SeenInv, IsView
   <4>2. \/ group = copyGroup
         \/ group = [copyGroup EXCEPT !.rev = @ + 1,
                                     !.enabled = copyPanel.request.op = "resume"]
         \/ group = [copyGroup EXCEPT !.rev = @ + 1]
     BY <2>2, <3>2 DEF Stored, IsRequest
   <4>3. group.rev \in Nat \ {0} /\ GroupShaped(group)
    <5> HIDE DEF group
    <5>1. group = [rev |-> group.rev, source |-> copyGroup.source,
                  settings |-> copyGroup.settings, enabled |-> group.enabled,
                  followers |-> copyGroup.followers]
      BY <4>1, <4>2 DEF GroupShaped
    <5>2. group.rev \in {copyGroup.rev, copyGroup.rev + 1}
      BY <4>1, <4>2 DEF GroupShaped
    <5> QED  BY <4>1, <5>1, <5>2 DEF GroupShaped
   <4> QED  BY <4>3 DEF IsView
  <3> QED  BY <3>1, <3>2
 <2>4. PanelInv(Install(copyPanel, group))
   BY <1>0, <2>3, Installed
 <2>5. PanelInv(copyPanel')
   BY <2>1, <2>4 DEF PanelInv, PanelShaped
 <2>6. IsView(copyGroup') /\ (copyGroup' # Nothing => GroupShaped(copyGroup'))
   BY <2>1, <2>3 DEF IsView
 <2> QED  BY <2>5, <2>6 DEF SeenInv
<1>17. CASE RequestFails
  BY <1>17 DEF RequestFails, SeenInv, PanelInv, PanelShaped
<1>18. CASE UNCHANGED copyVars
  BY <1>18 DEF copyVars, SeenInv
<1> QED
  BY <1>1, <1>2, <1>3, <1>4, <1>5, <1>6, <1>7, <1>10, <1>11, <1>12, <1>13, <1>14, <1>15,
     <1>16, <1>17, <1>18 DEF CopyNext

(* A request of the editor ends by a reply, and only a reply that grants it *)
(* changes the group.                                                      *)
LEMMA SaveIsOfWhatWasSeen ==
  ASSUME SeenInv, [CopyNext]_copyVars
  PROVE  Saves /\ copyGroup # Nothing => copyGroup.rev \in copyPanel.seen
<1> SUFFICES ASSUME Saves, copyGroup # Nothing PROVE copyGroup.rev \in copyPanel.seen
  OBVIOUS
<1>1. CASE RequestSucceeds
  BY <1>1 DEF RequestSucceeds, Accepts, SeenInv, PanelInv, IsRequest, IsView, Saves
<1>2. CASE ~ RequestSucceeds
 <2>1. copyGroup' = copyGroup \/ copyPanel' = copyPanel
   BY <1>2 DEF CopyNext, copyVars, RegistryChanges, ChangedElsewhere, LoadGroups, GroupsLoaded,
        LoadFailed, PollGroups, PollReturns, EditDraft, EditSource, SelectView, CreateGroup,
        RefreshFromServer, Ask, Confirmed, Discard, SaveGroup, ArmArchive, RunAction, RequestFails
 <2> QED  BY <2>1 DEF Saves
<1> QED  BY <1>1, <1>2

(* With any accounts and any number of devices that change the group, a    *)
(* save never replaces a revision that the editor was not filled from      *)
(* (ContinuousCopierPanel, continuousCopier).                              *)
THEOREM SavesReplaceSeen == CopySpec => SavesReplaceWhatWasSeen
<1>1. CopyInit => SeenInv
  BY DEF CopyInit, SeenInv, GroupShaped, IsView, PanelInv, PanelShaped
<1>2. SeenInv /\ [CopyNext]_copyVars
        => [Saves /\ copyGroup # Nothing => copyGroup.rev \in copyPanel.seen]_copyVars
  BY SaveIsOfWhatWasSeen
<1> QED  BY <1>1, <1>2, SeenStep, PTL DEF CopySpec, SavesReplaceWhatWasSeen

(***************************************************************************)
(* OrderEntry: the arithmetic of the volumes.                              *)
(***************************************************************************)
LEMMA QuotientBounds ==
  ASSUME NEW a \in Nat, NEW b \in Nat \ {0}
  PROVE  /\ a \div b \in Nat
         /\ (a \div b) * b <= a
         /\ a < (a \div b + 1) * b
  BY SMT

LEMMA TimesMonotone ==
  ASSUME NEW a \in Nat, NEW c \in Nat, NEW b \in Nat, a <= c
  PROVE  a * b <= c * b
  BY SMT

LEMMA FloorBounds ==
  ASSUME NEW a \in Nat, NEW c \in Nat, NEW step \in Nat \ {0}, a <= c
  PROVE  /\ FloorToStep(a, step) \in Nat
         /\ FloorToStep(a, step) <= a
         /\ FloorToStep(a, step) <= FloorToStep(c, step)
<1>1. (a \div step) * step <= (c \div step) * step
  BY SMT
<1>2. (a \div step) * step \in Nat /\ (a \div step) * step <= a
  BY SMT
<1> QED  BY <1>1, <1>2 DEF FloorToStep

(* Rounding to the broker's limits, once for the size and once more when   *)
(* the order is built, never goes above the risk, except up to the         *)
(* smallest volume, and that is what the warning compares with.            *)
LEMMA SizedVolumeKeepsRisk ==
  ASSUME NEW min \in Nat \ {0}, NEW max \in Nat, NEW step \in Nat \ {0},
         NEW i, i.min = min, i.max = max, i.step = step,
         NEW money \in Nat, NEW loss \in Nat \ {0}, NEW cap \in Nat,
         NEW volume,
         volume = NormalizedVolume(SizedByRisk(i, money, loss, cap), min, max, step)
  PROVE  /\ volume \in Nat
         /\ \/ volume * loss <= money
            \/ /\ volume <= min /\ money > 0
               /\ AtMost(money, cap * loss) < min * loss
<1> DEFINE q == money \div loss
           u == IF money < loss THEN min ELSE AtMost(q, cap)
           v == AtMost(AtLeast(u, min), cap)
           size == SizedByRisk(i, money, loss, cap)
           w == AtMost(AtLeast(size, min), max)
<1>1. q \in Nat /\ q * loss <= money /\ money < (q + 1) * loss
  BY QuotientBounds
<1>2. u \in Nat /\ v \in Nat
  BY <1>1 DEF AtMost, AtLeast
<1>3. size = 0 \/ size = FloorToStep(v, step)
  BY DEF SizedByRisk, NormalizedVolume
<1>4. money = 0 => size = 0
  BY DEF SizedByRisk
<1>5. size \in Nat /\ size <= v
 <2> HIDE DEF v, size
 <2> QED  BY <1>2, <1>3, FloorBounds
<1>6. w \in Nat /\ (size # 0 => volume = FloorToStep(w, step)) /\ (size = 0 => volume = 0)
  BY <1>5 DEF NormalizedVolume, AtMost, AtLeast
<1>7. (volume \in Nat /\ volume <= w) \/ volume = 0
 <2> HIDE DEF w, size
 <2> QED  BY <1>6, FloorBounds
<1>8. \A a \in Nat : a < min => a * loss < min * loss
 <2> TAKE a \in Nat
 <2>1. a < min => (a + 1) * loss <= min * loss
   BY TimesMonotone
 <2>2. (a + 1) * loss = a * loss + loss /\ a * loss \in Nat
   OBVIOUS
 <2> QED  BY <2>1, <2>2
<1>9. cap * loss \in Nat /\ min * loss \in Nat
  OBVIOUS
<1>10. CASE size = 0
  BY <1>6, <1>10
<1>11. CASE size # 0 /\ money < loss
 <2>1. money < min * loss
   BY <1>8, <1>11, TimesMonotone
 <2>2. size <= min
   BY <1>5, <1>11 DEF AtMost, AtLeast
 <2>3. volume <= min
   BY <2>2, <1>5, <1>7 DEF AtMost, AtLeast
 <2> QED  BY <1>4, <1>7, <1>9, <1>11, <2>1, <2>3 DEF AtMost
<1>12. CASE size # 0 /\ money >= loss /\ v < min
 <2>1. cap < min
   BY <1>1, <1>12 DEF AtMost, AtLeast
 <2>2. cap * loss < min * loss
   BY <1>8, <2>1
 <2>3. volume <= min
   BY <1>5, <1>7, <1>12 DEF AtMost, AtLeast
 <2> QED  BY <1>7, <1>9, <1>12, <2>2, <2>3 DEF AtMost
<1>13. CASE size # 0 /\ money >= loss /\ v >= min /\ u < min
 <2>1. v = min /\ q < min
   BY <1>1, <1>13 DEF AtMost, AtLeast
 <2>2. (q + 1) * loss <= min * loss
   BY <1>1, <2>1, TimesMonotone
 <2>3. volume <= min
   BY <1>5, <1>7, <2>1 DEF AtMost, AtLeast
 <2>4. money < min * loss
  <3> HIDE DEF q
  <3>1. (q + 1) * loss \in Nat
    BY <1>1
  <3> QED  BY <1>1, <1>9, <2>2, <3>1
 <2> QED  BY <1>7, <1>9, <1>13, <2>3, <2>4 DEF AtMost
<1>14. CASE size # 0 /\ money >= loss /\ v >= min /\ u >= min
 <2>1. u <= q /\ v = u /\ size = FloorToStep(v, step)
   BY <1>1, <1>3, <1>14 DEF AtMost, AtLeast
 <2>2. volume <= v
  <3>1. CASE size >= min
    BY <1>5, <1>7, <3>1 DEF AtMost, AtLeast
  <3>2. CASE size < min
   <4>1. w <= v
     BY <1>5, <1>14, <3>2 DEF AtMost, AtLeast
   <4> HIDE DEF w, v, size
   <4> QED  BY <1>2, <1>6, <1>7, <4>1
  <3> QED  BY <1>5, <3>1, <3>2
 <2>3. volume <= q
  <3> HIDE DEF v, q, u
  <3> QED  BY <1>1, <1>2, <1>7, <2>1, <2>2
 <2>4. volume * loss <= q * loss
  <3> HIDE DEF q
  <3> QED  BY <1>1, <1>7, <2>3, TimesMonotone
 <2>5. volume * loss \in Nat /\ q * loss \in Nat
  <3> HIDE DEF q
  <3> QED  BY <1>1, <1>7
 <2> HIDE DEF q
 <2> QED  BY <1>1, <1>7, <2>4, <2>5
<1> HIDE DEF u, v, size, w, q
<1> QED  BY <1>2, <1>5, <1>7, <1>10, <1>11, <1>12, <1>13, <1>14

(***************************************************************************)
(* OrderEntry: the ticket.                                                 *)
(***************************************************************************)
(* The pending order is judged by GoodOrder.                               *)
Tickets(order) ==
  [epoch : Nat, type : {"market", "limit", "stop"}, entry : Nat, sl : Nat,
   risk : Nat \union {Nothing}, unit : {"%", "amount"}, source : {"default", "explicit"}, default : Nat,
   lotMode : {"auto", "manual"}, lot : Nat, side : Sides,
   drawing : Sketched \union {Nothing}, hot : Sketched \union {Nothing}, pending : {order}]
TicketTyped(t) == t \in Tickets(t.pending)
KeepsRisk(o) ==
  o.kind = "order" /\ o.auto /\ o.loss > 0
    => \/ o.volume * o.loss <= o.money
       \/ o.volume <= o.min /\ "MIN_VOLUME_INCREASED_RISK" \in o.warnings
IsOrder(o) ==
  \/ o = [kind |-> "order", volume |-> o.volume, shown |-> o.shown, loss |-> o.loss,
          warnings |-> o.warnings, money |-> o.money, min |-> o.min, drawing |-> o.drawing,
          account |-> o.account, risk |-> o.risk, unit |-> o.unit, source |-> o.source,
          told |-> o.told, auto |-> o.auto]
  \/ o = [kind |-> "closeAll", account |-> o.account]
KeptDefault(o) ==
  o.kind = "order" /\ o.source = "default" => o.unit = "%" /\ o.risk \in {PropDefault, o.told}
GoodOrder(o) == IsOrder(o) /\ KeepsRisk(o) /\ KeptDefault(o)
Earned(t, mode, told) ==
  mode = "mt5" =>
    /\ t.default \in {PropDefault, told}
    /\ t.source = "default" => t.unit = "%" /\ t.risk \in {PropDefault, told}
EntryTyped ==
  /\ TicketTyped(ticket)
  /\ entryDesk = [selected |-> entryDesk.selected, mode |-> entryDesk.mode,
                  equity |-> entryDesk.equity, instrument |-> entryDesk.instrument,
                  guarded |-> entryDesk.guarded, connected |-> entryDesk.connected,
                  askFirst |-> entryDesk.askFirst, asked |-> entryDesk.asked,
                  told |-> entryDesk.told]
  /\ entryDesk.equity \in Nat /\ entryDesk.instrument \in Instruments
  /\ sentOrders = [order |-> sentOrders.order, modified |-> sentOrders.modified,
                   closed |-> sentOrders.closed]
EntryInv ==
  /\ EntryTyped
  /\ Earned(ticket, entryDesk.mode, entryDesk.told)
  /\ ticket.pending # Nothing => GoodOrder(ticket.pending)
  /\ sentOrders.order # Nothing => GoodOrder(sentOrders.order)

LEMMA RenderedOnlyRebinds ==
  ASSUME NEW t, TicketTyped(t), TicketTyped(ticket)
  PROVE  LET f == FormRendered(t)
         IN  /\ TicketTyped(f)
             /\ f.pending = t.pending /\ f.source = t.source /\ f.unit = t.unit
             /\ f.risk = t.risk /\ f.default = t.default
<1> DEFINE hot == IF HotKeysNeed(t) = HotKeysNeed(ticket) THEN ticket.hot ELSE t.drawing
<1>1. FormRendered(t) = [t EXCEPT !.hot = hot]
  BY DEF FormRendered
<1>2. hot \in Sketched \union {Nothing}
  BY DEF TicketTyped, Tickets
<1> HIDE DEF hot
<1> QED  BY <1>1, <1>2 DEF TicketTyped, Tickets

(* Whatever the ticket, the desk and the side, the order that is built     *)
(* keeps to its risk, and to the default its ticket held.                  *)
LEMMA BuiltOrderIsGood ==
  ASSUME EntryTyped, Earned(ticket, "mt5", entryDesk.told), NEW side, NEW drawing
  PROVE  GoodOrder(BuiltOrder(side, drawing))
<1> DEFINE i == entryDesk.instrument
           money == RiskMoney(entryDesk.equity, ReadRisk, ticket.unit)
           x == MetricsOf(i, ticket, EntryPrice, money, entryDesk.equity, side)
           o == BuiltOrder(side, drawing)
           stop == PriceDistance(EntryPrice, ticket.sl)
           loss == LossPerVolume(i, EntryPrice, ticket.sl)
           cap == MarginCap(i, entryDesk.equity)
<1>1. /\ i.min \in Nat \ {0} /\ i.max \in Nat /\ i.step \in Nat \ {0} /\ i.tick \in Nat
      /\ i.contract \in Nat /\ i.commission \in Nat /\ i.margin \in Nat
  BY EntryAssumption DEF EntryTyped
<1>2. entryDesk.equity \in Nat /\ ReadRisk \in Nat /\ ticket.sl \in Nat /\ ticket.entry \in Nat
  BY DEF EntryTyped, TicketTyped, Tickets, ReadRisk, StandardDefault
<1>3. money \in Nat
 <2>1. entryDesk.equity * ReadRisk \in Nat
   BY <1>2
 <2> QED  BY <1>2, <2>1, QuotientBounds DEF RiskMoney
<1>4. stop \in Nat
  BY <1>2 DEF PriceDistance, EntryPrice, Quote
<1>5. loss \in Nat
 <2>1. LossPerTick(i) \in Nat /\ RoundTrip(i) \in Nat
   BY <1>1 DEF LossPerTick, RoundTrip
 <2> HIDE DEF i, stop
 <2> QED  BY <1>4, <2>1 DEF LossPerVolume, stop
<1>6. cap \in Nat
  BY <1>1, <1>2, QuotientBounds DEF MarginCap, AtMost
<1>7. /\ o = [kind |-> "order", volume |-> NormalizedVolume(x.size, i.min, i.max, i.step),
              shown |-> x.size, loss |-> x.loss, warnings |-> x.warnings, money |-> money,
              min |-> i.min, drawing |-> drawing, account |-> entryDesk.selected,
              risk |-> ticket.risk, unit |-> ticket.unit, source |-> ticket.source,
              told |-> entryDesk.told, auto |-> ticket.lotMode = "auto"]
  BY DEF BuiltOrder
<1>8. /\ x.loss = IF stop = 0 THEN 0 ELSE loss
      /\ ticket.lotMode = "auto" /\ stop # 0 =>
           /\ x.size = IF LossPerTick(i) = 0 THEN 0 ELSE SizedByRisk(i, money, loss, cap)
           /\ AtMost(money, cap * loss) < i.min * loss /\ money > 0
                => "MIN_VOLUME_INCREASED_RISK" \in x.warnings
  BY DEF MetricsOf
<1> HIDE DEF i, money, x, o, stop, loss, cap
<1>9. IsOrder(o)
  BY <1>7 DEF IsOrder
<1>10. ASSUME ticket.lotMode = "auto", x.loss > 0
       PROVE  \/ o.volume * o.loss <= o.money
              \/ o.volume <= o.min /\ "MIN_VOLUME_INCREASED_RISK" \in o.warnings
 <2>1. stop # 0 /\ x.loss = loss /\ loss \in Nat \ {0}
   BY <1>4, <1>5, <1>8, <1>10
 <2>2. CASE LossPerTick(i) = 0
   BY <1>3, <1>7, <1>8, <1>10, <2>1, <2>2 DEF NormalizedVolume
 <2>3. CASE LossPerTick(i) # 0
  <3>1. o.volume = NormalizedVolume(SizedByRisk(i, money, loss, cap), i.min, i.max, i.step)
    BY <1>7, <1>8, <1>10, <2>1, <2>3
  <3>2. \/ o.volume * loss <= money
        \/ /\ o.volume <= i.min /\ money > 0
           /\ AtMost(money, cap * loss) < i.min * loss
    BY <1>1, <1>3, <1>6, <2>1, <3>1, SizedVolumeKeepsRisk
  <3>3. o.loss = loss /\ o.money = money /\ o.min = i.min /\ o.warnings = x.warnings
    BY <1>7, <2>1
  <3> QED  BY <1>8, <1>10, <2>1, <3>2, <3>3
 <2> QED  BY <2>2, <2>3
<1>11. o.loss = x.loss /\ (o.auto <=> ticket.lotMode = "auto")
  BY <1>7
<1>12. KeepsRisk(o)
  BY <1>10, <1>11 DEF KeepsRisk
<1>13. KeptDefault(o)
  BY <1>7 DEF KeptDefault, Earned
<1> QED  BY <1>9, <1>12, <1>13 DEF GoodOrder, o

(* The orders and the earned default under a new ticket.                   *)
LEMMA TicketMoves ==
  ASSUME EntryInv, NEW t, TicketTyped(t), ticket' = FormRendered(t), t.pending = ticket.pending,
         entryDesk' = [selected |-> entryDesk'.selected, mode |-> entryDesk'.mode,
                       equity |-> entryDesk.equity, instrument |-> entryDesk.instrument,
                       guarded |-> entryDesk'.guarded, connected |-> entryDesk'.connected,
                       askFirst |-> entryDesk'.askFirst, asked |-> entryDesk'.asked,
                       told |-> entryDesk'.told],
         Earned(t, entryDesk'.mode, entryDesk'.told), sentOrders' = sentOrders
  PROVE  EntryInv'
<1>1. /\ TicketTyped(ticket') /\ ticket'.pending = t.pending /\ ticket'.source = t.source
      /\ ticket'.unit = t.unit /\ ticket'.risk = t.risk /\ ticket'.default = t.default
  BY RenderedOnlyRebinds DEF EntryInv, EntryTyped
<1>2. TicketTyped(ticket')
  BY <1>1
<1>3. Earned(ticket', entryDesk'.mode, entryDesk'.told) /\ ticket'.pending = ticket.pending
  BY <1>1 DEF Earned
<1>4. EntryTyped'
  BY <1>2 DEF EntryInv, EntryTyped
<1> QED  BY <1>3, <1>4 DEF EntryInv

LEMMA DeskMoves ==
  ASSUME EntryInv, ticket' = ticket,
         entryDesk' = [selected |-> entryDesk.selected, mode |-> entryDesk.mode,
                       equity |-> entryDesk'.equity, instrument |-> entryDesk.instrument,
                       guarded |-> entryDesk'.guarded, connected |-> entryDesk'.connected,
                       askFirst |-> entryDesk.askFirst, asked |-> entryDesk'.asked,
                       told |-> entryDesk.told],
         entryDesk'.equity \in Nat, sentOrders' = sentOrders
  PROVE  EntryInv'
  BY DEF EntryInv, EntryTyped

(* Sending names the account that is selected by then, and changes nothing *)
(* else of the order.                                                      *)
LEMMA SentOrderIsGood ==
  ASSUME NEW o, GoodOrder(o), NEW a
  PROVE  GoodOrder([o EXCEPT !.account = a])
<1>1. PICK p : p = [o EXCEPT !.account = a]
  OBVIOUS
<1>2. CASE o = [kind |-> "closeAll", account |-> o.account]
  BY <1>1, <1>2 DEF GoodOrder, IsOrder, KeepsRisk, KeptDefault
<1>3. CASE o # [kind |-> "closeAll", account |-> o.account]
 <2>1. o = [kind |-> "order", volume |-> o.volume, shown |-> o.shown, loss |-> o.loss,
            warnings |-> o.warnings, money |-> o.money, min |-> o.min,
            drawing |-> o.drawing, account |-> o.account, risk |-> o.risk,
            unit |-> o.unit, source |-> o.source, told |-> o.told, auto |-> o.auto]
   BY <1>3 DEF GoodOrder, IsOrder
 <2>2. p = [kind |-> "order", volume |-> o.volume, shown |-> o.shown, loss |-> o.loss,
            warnings |-> o.warnings, money |-> o.money, min |-> o.min,
            drawing |-> o.drawing, account |-> a, risk |-> o.risk,
            unit |-> o.unit, source |-> o.source, told |-> o.told, auto |-> o.auto]
   BY <1>1, <2>1
 <2> QED  BY <1>1, <2>1, <2>2 DEF GoodOrder, IsOrder, KeepsRisk, KeptDefault
<1> QED  BY <1>1, <1>2, <1>3

LEMMA OrdersMove ==
  ASSUME EntryInv, NEW o, GoodOrder(o), NEW order,
         \/ /\ ticket' = [ticket EXCEPT !.pending = order]
            /\ order # Nothing => GoodOrder(order)
         \/ ticket' = ticket,
         sentOrders' \in {OrderSent(o), sentOrders}, entryDesk' = entryDesk
  PROVE  EntryInv'
<1> DEFINE sent == [o EXCEPT !.account = entryDesk.selected]
<1>1. GoodOrder(sent)
  BY SentOrderIsGood
<1>2. sentOrders' \in {[sentOrders EXCEPT !.order = sent], sentOrders}
  BY DEF OrderSent
<1> HIDE DEF sent
<1>3. /\ sentOrders' = [order |-> sentOrders'.order, modified |-> sentOrders'.modified,
                        closed |-> sentOrders'.closed]
      /\ sentOrders'.order \in {sent, sentOrders.order}
  BY <1>2 DEF EntryInv, EntryTyped
<1>4. /\ TicketTyped(ticket') /\ Earned(ticket', entryDesk.mode, entryDesk.told)
      /\ ticket'.pending # Nothing => GoodOrder(ticket'.pending)
  BY DEF EntryInv, EntryTyped, TicketTyped, Tickets, Earned
<1>5. EntryTyped'
  BY <1>3, <1>4 DEF EntryInv, EntryTyped
<1> QED  BY <1>1, <1>3, <1>4, <1>5 DEF EntryInv

(* What an edit of a ticket leaves of its risk.                            *)
KeepsDefault(t, e) ==
  /\ e.default = t.default
  /\ \/ e.source = "explicit"
     \/ e.unit = "%" /\ e.risk = t.default
     \/ e.source = t.source /\ e.unit = t.unit /\ e.risk = t.risk

LEMMA TicketReset ==
  ASSUME ticket \in Tickets(ticket.pending), NEW risk \in Nat
  PROVE  LET e == ByDefault(risk)
         IN  /\ e \in Tickets(ticket.pending)
             /\ e.unit = "%" /\ e.default = risk /\ e.risk = risk
<1> DEFINE e == ByDefault(risk)
           n == ticket.epoch + 1
<1>1. n \in Nat
  BY DEF Tickets
<1>2. e = [ticket EXCEPT !.epoch = n, !.source = "default", !.unit = "%", !.default = risk,
                         !.risk = risk]
  BY DEF ByDefault
<1> HIDE DEF n, e
<1>3. [ticket EXCEPT !.epoch = n, !.source = "default", !.unit = "%", !.default = risk,
                     !.risk = risk] \in Tickets(ticket.pending)
  BY <1>1 DEF Tickets
<1>4. ByDefault(risk).unit = "%" /\ ByDefault(risk).default = risk /\ ByDefault(risk).risk = risk
  BY DEF Tickets, ByDefault
<1>5. ByDefault(risk) \in Tickets(ticket.pending)
  BY <1>2, <1>3 DEF e
<1> QED  BY <1>4, <1>5

LEMMA TypeEdited ==
  ASSUME NEW order, NEW t \in Tickets(order), NEW x \in {"market", "limit", "stop"}
  PROVE  LET e == [t EXCEPT !.type = x]
         IN  e \in Tickets(order) /\ KeepsDefault(t, e)
<1> DEFINE e == [t EXCEPT !.type = x]
<1>1. e \in Tickets(order)
  BY DEF Tickets
<1>2. KeepsDefault(t, e)
  BY DEF Tickets, KeepsDefault
<1> QED  BY <1>1, <1>2

LEMMA EntryEdited ==
  ASSUME NEW order, NEW t \in Tickets(order), NEW x \in Nat
  PROVE  LET e == [t EXCEPT !.entry = x]
         IN  e \in Tickets(order) /\ KeepsDefault(t, e)
<1> DEFINE e == [t EXCEPT !.entry = x]
<1>1. e \in Tickets(order)
  BY DEF Tickets
<1>2. KeepsDefault(t, e)
  BY DEF Tickets, KeepsDefault
<1> QED  BY <1>1, <1>2

LEMMA StopEdited ==
  ASSUME NEW order, NEW t \in Tickets(order), NEW x \in Nat
  PROVE  LET e == [t EXCEPT !.sl = x]
         IN  e \in Tickets(order) /\ KeepsDefault(t, e)
<1> DEFINE e == [t EXCEPT !.sl = x]
<1>1. e \in Tickets(order)
  BY DEF Tickets
<1>2. KeepsDefault(t, e)
  BY DEF Tickets, KeepsDefault
<1> QED  BY <1>1, <1>2

LEMMA RiskEdited ==
  ASSUME NEW order, NEW t \in Tickets(order), NEW x \in Nat \union {Nothing}
  PROVE  LET e == [t EXCEPT !.risk = x, !.source = "explicit"]
         IN  e \in Tickets(order) /\ KeepsDefault(t, e)
<1> DEFINE e == [t EXCEPT !.risk = x, !.source = "explicit"]
<1>1. e \in Tickets(order)
  BY DEF Tickets
<1>2. KeepsDefault(t, e)
  BY DEF Tickets, KeepsDefault
<1> QED  BY <1>1, <1>2

LEMMA UnitEdited ==
  ASSUME NEW order, NEW t \in Tickets(order), NEW x \in {"%", "amount"}
  PROVE  LET e == [t EXCEPT !.unit = x, !.source = "explicit"]
         IN  e \in Tickets(order) /\ KeepsDefault(t, e)
<1> DEFINE e == [t EXCEPT !.unit = x, !.source = "explicit"]
<1>1. e \in Tickets(order)
  BY DEF Tickets
<1>2. KeepsDefault(t, e)
  BY DEF Tickets, KeepsDefault
<1> QED  BY <1>1, <1>2

LEMMA LotEdited ==
  ASSUME NEW order, NEW t \in Tickets(order), NEW mode \in {"auto", "manual"}, NEW lot \in Nat
  PROVE  LET e == [t EXCEPT !.lotMode = mode, !.lot = lot]
         IN  e \in Tickets(order) /\ KeepsDefault(t, e)
<1> DEFINE e == [t EXCEPT !.lotMode = mode, !.lot = lot]
<1>1. e \in Tickets(order)
  BY DEF Tickets
<1>2. KeepsDefault(t, e)
  BY DEF Tickets, KeepsDefault
<1> QED  BY <1>1, <1>2

LEMMA PrefilledFromDrawing ==
  ASSUME ticket \in Tickets(ticket.pending), NEW s \in Sides, NEW d \in Sketched,
         NEW p \in Nat, NEW r \in BOOLEAN
  PROVE  /\ FromDrawing(d, s, p, r) \in Tickets(ticket.pending)
         /\ KeepsDefault(ticket, FromDrawing(d, s, p, r))
<1>1. FromDrawing(d, s, p, r) \in Tickets(ticket.pending)
  BY DEF Tickets, FromDrawing
<1>2. KeepsDefault(ticket, FromDrawing(d, s, p, r))
  BY DEF Tickets, KeepsDefault, FromDrawing
<1> QED  BY <1>1, <1>2

LEMMA PrefilledFromChart ==
  ASSUME ticket \in Tickets(ticket.pending), NEW s \in Sides
  PROVE  FromChart(s) \in Tickets(ticket.pending) /\ KeepsDefault(ticket, FromChart(s))
<1>1. FromChart(s) \in Tickets(ticket.pending)
  BY DEF Tickets, FromChart
<1>2. KeepsDefault(ticket, FromChart(s))
  BY DEF Tickets, KeepsDefault, FromChart
<1> QED  BY <1>1, <1>2

LEMMA EntryStepKeepsInv == EntryInv /\ [EntryNext]_entryVars => EntryInv'
<1> SUFFICES ASSUME EntryInv, [EntryNext]_entryVars PROVE EntryInv'
  OBVIOUS
<1>0. TicketTyped(ticket)
  BY DEF EntryInv, EntryTyped
<1>1. ASSUME NEW a, NEW mode, RiskReset(a, mode), UNCHANGED sentOrders PROVE EntryInv'
 <2> DEFINE t == ByDefault(FailSafe(mode))
 <2>1. FailSafe(mode) \in Nat /\ (mode = "mt5" => FailSafe(mode) = PropDefault)
   BY DEF FailSafe, PropDefault, StandardDefault
 <2>2. ticket' = FormRendered(t)
   BY <1>1 DEF RiskReset
 <2>3. /\ TicketTyped(t) /\ t.pending = ticket.pending
       /\ t.unit = "%" /\ t.default = FailSafe(mode) /\ t.risk = FailSafe(mode)
  <3>1. ticket \in Tickets(ticket.pending)
    BY <1>0 DEF TicketTyped
  <3>2. /\ t \in Tickets(ticket.pending)
        /\ t.unit = "%" /\ t.default = FailSafe(mode) /\ t.risk = FailSafe(mode)
    BY <2>1, <3>1, TicketReset
  <3>3. t.pending = ticket.pending
    BY <3>2 DEF Tickets
  <3> QED  BY <3>2, <3>3 DEF TicketTyped
 <2> HIDE DEF t
 <2>4. Earned(t, mode, Nothing)
   BY <2>1, <2>3 DEF Earned
 <2>5. entryDesk' = [selected |-> a, mode |-> mode,
                     equity |-> entryDesk.equity, instrument |-> entryDesk.instrument,
                     guarded |-> entryDesk.guarded, connected |-> entryDesk.connected,
                     askFirst |-> entryDesk.askFirst, asked |-> entryDesk'.asked,
                     told |-> Nothing]
   BY <1>1 DEF RiskReset, EntryInv, EntryTyped
 <2> QED  BY <1>1, <2>2, <2>3, <2>4, <2>5, TicketMoves
<1>2. CASE SelectEntryAccount \/ SetEntryMode
  BY <1>1, <1>2 DEF SelectEntryAccount, SetEntryMode
<1>3. CASE AskDefault
  BY <1>3, DeskMoves DEF AskDefault, EntryInv, EntryTyped
<1>4. CASE DeskChanges
  BY <1>4, DeskMoves, EntryAssumption DEF DeskChanges, EntryInv, EntryTyped
<1>5. ASSUME NEW q, DefaultFails(q) PROVE EntryInv'
  BY <1>5, DeskMoves DEF DefaultFails, EntryInv, EntryTyped
<1>6. ASSUME NEW q, DefaultArrives(q) PROVE EntryInv'
 <2> DEFINE default == DefaultRisk(q.account \in entryDesk.guarded)
            t == [ticket EXCEPT !.default = default,
                                !.risk = IF ticket.source = "default" THEN default ELSE @]
 <2>1. /\ sentOrders' = sentOrders
       /\ entryDesk' = [selected |-> entryDesk.selected, mode |-> entryDesk.mode,
                 equity |-> entryDesk.equity, instrument |-> entryDesk.instrument,
                 guarded |-> entryDesk.guarded, connected |-> entryDesk.connected,
                 askFirst |-> entryDesk.askFirst, asked |-> entryDesk'.asked,
                 told |-> IF q.epoch = ticket.epoch THEN default ELSE entryDesk.told]
       /\ ticket' = IF q.epoch = ticket.epoch THEN FormRendered(t) ELSE ticket
   BY <1>6 DEF DefaultArrives, StillActive, EntryInv, EntryTyped
 <2>2. default \in Nat
   BY DEF DefaultRisk, PropDefault, StandardDefault
 <2>3. CASE q.epoch = ticket.epoch
  <3>1. /\ TicketTyped(t) /\ t.pending = ticket.pending /\ t.default = default
        /\ t.source = ticket.source /\ t.unit = ticket.unit
        /\ t.risk = IF ticket.source = "default" THEN default ELSE ticket.risk
   <4> HIDE DEF default
   <4> QED  BY <1>0, <2>2 DEF TicketTyped, Tickets
  <3> HIDE DEF t, default
  <3>2. Earned(t, entryDesk.mode, default)
    BY <3>1 DEF Earned, EntryInv
  <3> QED  BY <2>1, <2>3, <3>1, <3>2, TicketMoves
 <2>4. CASE q.epoch # ticket.epoch
  <3> HIDE DEF t, default
  <3> QED  BY <2>1, <2>4, DeskMoves DEF EntryInv, EntryTyped
 <2> QED  BY <2>3, <2>4
<1>7. ASSUME NEW t, t \in TicketEdits \union RiskEdits \union LotEdits \union Prefills,
             ticket' = FormRendered(t), UNCHANGED <<entryDesk, sentOrders>>
      PROVE  EntryInv'
 <2>0. ticket \in Tickets(ticket.pending)
   BY <1>0 DEF TicketTyped
 <2>1. ASSUME t \in Tickets(ticket.pending), KeepsDefault(ticket, t)
       PROVE  EntryInv'
  <3>1. Earned(t, entryDesk.mode, entryDesk.told) /\ TicketTyped(t)
        /\ t.pending = ticket.pending
    BY <2>1 DEF Earned, KeepsDefault, EntryInv, TicketTyped, Tickets
  <3>2. entryDesk' = [selected |-> entryDesk'.selected, mode |-> entryDesk'.mode,
                     equity |-> entryDesk.equity, instrument |-> entryDesk.instrument,
                     guarded |-> entryDesk'.guarded, connected |-> entryDesk'.connected,
                     askFirst |-> entryDesk'.askFirst, asked |-> entryDesk'.asked,
                     told |-> entryDesk'.told]
    BY <1>7 DEF EntryInv, EntryTyped
  <3> QED  BY <1>7, <2>1, <3>1, <3>2, TicketMoves
 <2>2. CASE t \in TicketEdits
  <3>1. ASSUME NEW x \in {"market", "limit", "stop"}, t = [ticket EXCEPT !.type = x]
        PROVE  t \in Tickets(ticket.pending) /\ KeepsDefault(ticket, t)
    BY <2>0, <3>1, TypeEdited
  <3>2. ASSUME NEW x \in Nat, t = [ticket EXCEPT !.entry = x]
        PROVE  t \in Tickets(ticket.pending) /\ KeepsDefault(ticket, t)
    BY <2>0, <3>2, EntryEdited
  <3>3. ASSUME NEW x \in Nat, t = [ticket EXCEPT !.sl = x]
        PROVE  t \in Tickets(ticket.pending) /\ KeepsDefault(ticket, t)
    BY <2>0, <3>3, StopEdited
  <3> QED  BY <2>1, <2>2, <3>1, <3>2, <3>3 DEF TicketEdits
 <2>3. CASE t \in RiskEdits
  <3>1. ASSUME NEW x \in {Nothing, 30}, t = [ticket EXCEPT !.risk = x, !.source = "explicit"]
        PROVE  t \in Tickets(ticket.pending) /\ KeepsDefault(ticket, t)
   <4>1. x \in Nat \union {Nothing}
     BY <3>1
   <4> QED  BY <2>0, <3>1, <4>1, RiskEdited
  <3>2. ASSUME NEW x \in {"%", "amount"}, t = [ticket EXCEPT !.unit = x, !.source = "explicit"]
        PROVE  t \in Tickets(ticket.pending) /\ KeepsDefault(ticket, t)
    BY <2>0, <3>2, UnitEdited
  <3> QED  BY <2>1, <2>3, <3>1, <3>2 DEF RiskEdits
 <2>4. CASE t \in LotEdits
  <3>1. PICK mode \in {"auto", "manual"} :
          t = [ticket EXCEPT !.lotMode = mode, !.lot = IF mode = "manual" THEN 4 ELSE @]
    BY <2>4 DEF LotEdits
  <3> DEFINE lot == IF mode = "manual" THEN 4 ELSE ticket.lot
  <3>2. lot \in Nat
    BY <2>0 DEF Tickets
  <3>3. t = [ticket EXCEPT !.lotMode = mode, !.lot = lot]
    BY <3>1
  <3> HIDE DEF lot
  <3>4. t \in Tickets(ticket.pending) /\ KeepsDefault(ticket, t)
    BY <2>0, <3>2, <3>3, LotEdited
  <3> QED  BY <2>1, <3>4
 <2>5. CASE t \in Prefills
  <3>1. t \in Tickets(ticket.pending) /\ KeepsDefault(ticket, t)
   <4>1. CASE \E d \in Sketched, s \in Sides, p \in {1, 3}, r \in BOOLEAN :
                t = FromDrawing(d, s, p, r)
     BY <2>0, <4>1, {1, 3} \subseteq Nat, PrefilledFromDrawing
   <4>2. CASE \E s \in Sides : t = FromChart(s)
     BY <2>0, <4>2, PrefilledFromChart
   <4> QED  BY <2>5, <4>1, <4>2 DEF Prefills
  <3> QED  BY <2>1, <3>1
 <2> QED  BY <1>7, <2>2, <2>3, <2>4, <2>5
<1>8. CASE EditTicket \/ Prefill
  BY <1>7, <1>8 DEF EditTicket, Prefill
<1>9. ASSUME NEW o, GoodOrder(o), SendOrAsk(o), UNCHANGED entryDesk PROVE EntryInv'
  BY <1>9, OrdersMove DEF SendOrAsk
<1>10. CASE Submit
 <2>1. EntryTyped /\ Earned(ticket, "mt5", entryDesk.told)
   BY <1>10 DEF Submit, EntryInv
 <2> QED  BY <1>9, <1>10, <2>1, BuiltOrderIsGood DEF Submit
<1>11. CASE RequestCloseAll
 <2>1. GoodOrder([kind |-> "closeAll", account |-> entryDesk.selected])
   BY DEF GoodOrder, IsOrder, KeepsRisk, KeptDefault
 <2> QED  BY <1>9, <1>11, <2>1 DEF RequestCloseAll
<1>12. CASE ConfirmLive
  BY <1>12, OrdersMove DEF ConfirmLive, EntryInv
<1>13. CASE CancelLive
 <2>1. GoodOrder([kind |-> "closeAll", account |-> entryDesk.selected])
   BY DEF GoodOrder, IsOrder, KeepsRisk, KeptDefault
 <2> QED  BY <1>13, <2>1, OrdersMove DEF CancelLive
<1>14. CASE /\ UNCHANGED <<ticket, entryDesk>>
            /\ sentOrders' \in {sentOrders} \union {[sentOrders EXCEPT !.modified = m] :
                                m \in {rowDialogs.editor}}
                 \union {[sentOrders EXCEPT !.closed = c] : c \in {sentOrders'.closed}}
  BY <1>14 DEF EntryInv, EntryTyped
<1>15. CASE OpenRow \/ CloseRow \/ EditProtection \/ ReviewProtection \/ SendProtection
            \/ SelectTargets \/ SubmitCopy \/ CopyAnswered \/ UNCHANGED entryVars
  BY <1>14, <1>15 DEF OpenRow, CloseRow, EditProtection, ReviewProtection, SendProtection,
       SelectTargets, SubmitCopy, CopyAnswered, entryVars
<1>16. CASE ConfirmRow
  BY <1>14, <1>16 DEF ConfirmRow, EntryInv, EntryTyped
<1> QED
  BY <1>2, <1>3, <1>4, <1>5, <1>6, <1>8, <1>10, <1>11, <1>12, <1>13, <1>15, <1>16 DEF EntryNext

(* For all instruments and equities: an order nobody gave a risk has the    *)
(* default of the account it was built for, and no order loses more at its  *)
(* stop than the risk read from the field (OrderTicket, positionSizing).    *)
THEOREM OrdersRiskMeant == EntrySpec => []OrdersRiskWhatWasMeant
<1>1. EntryInit => EntryInv
 <2> SUFFICES ASSUME EntryInit PROVE EntryInv
   OBVIOUS
 <2>1. TicketTyped(ticket) /\ ticket.pending = Nothing
       /\ ticket.default = PropDefault /\ ticket.unit = "%" /\ ticket.risk = PropDefault
   BY DEF EntryInit, TicketTyped, Tickets, Sides, PropDefault
 <2>2. /\ entryDesk = [selected |-> entryDesk.selected, mode |-> entryDesk.mode,
                 equity |-> entryDesk.equity, instrument |-> entryDesk.instrument,
                 guarded |-> entryDesk.guarded, connected |-> entryDesk.connected,
                 askFirst |-> entryDesk.askFirst, asked |-> entryDesk.asked,
                 told |-> entryDesk.told]
       /\ entryDesk.equity \in Nat /\ entryDesk.instrument \in Instruments
   BY EntryAssumption DEF EntryInit
 <2> QED  BY <2>1, <2>2 DEF EntryInit, EntryInv, EntryTyped, Earned
<1>2. EntryInv => OrdersRiskWhatWasMeant
  BY DEF EntryInv, Earned, GoodOrder, KeepsRisk, KeptDefault, OrdersRiskWhatWasMeant,
         DefaultsAreEarned, OrdersKeepDefaults, OrdersKeepToTheirRisk
<1> QED  BY <1>1, <1>2, EntryStepKeepsInv, PTL DEF EntrySpec

-----------------------------------------------------------------------------
(* DrawingSync                                                             *)

QueueInv == QueueTypeOK /\ NothingDropped /\ WireCarriesFlight /\ RepliesAreSettled
ChartInv == ChartTypeOK /\ ViewMatchesRegistry
DrawingInv == QueueInv /\ ChartInv /\ RowsTypeOK

-----------------------------------------------------------------------------
(* The queue                                                               *)

LEMMA SnapshotTyped ==
  ASSUME NEW p \in Ops, NEW f \in Ops \cup {Nothing}
  PROVE  Snapshot(p, f) \in Ops
BY DEF Snapshot, Ops

LEMMA QueueKept ==
  ASSUME QueueInv, UNCHANGED <<queueVars, net, late>>
  PROVE  QueueInv'
BY DEF QueueInv, QueueTypeOK, NothingDropped, WireCarriesFlight, RepliesAreSettled,
       queueVars, Snapshot, Same

(* Whatever is queued replaces what was queued for the same drawing, in     *)
(* memory and in local storage together.                                    *)
LEMMA EnqueueKeeps ==
  ASSUME QueueInv, NEW ops \in Ops,
         pending' = Enqueued(ops),
         Persist(pending', inFlight, retrying),
         timer' \in BOOLEAN,
         last' = [i \in Id |-> IF ops[i] # Nothing THEN ops[i] ELSE last[i]],
         settled' = [i \in Id |-> settled[i] /\ ops[i] = Nothing],
         UNCHANGED <<inFlight, retrying, net, late>>
  PROVE  QueueInv'
<1> USE DEF QueueInv
<1>1. QueueTypeOK'
 <2>1. pending' \in Ops /\ last' \in Ops
   BY DEF QueueTypeOK, Enqueued, Ops
 <2>2. settled' \in [Id -> BOOLEAN]
   BY DEF QueueTypeOK
 <2> QED BY <2>1, <2>2 DEF QueueTypeOK, Persist
<1>2. NothingDropped'
 <2>1. SUFFICES ASSUME NEW i \in Id, last'[i] # Nothing, ~settled'[i]
                PROVE  Same(outbox'.ops[i], last'[i])
   BY DEF NothingDropped
 <2>2. outbox'.ops[i] = IF pending'[i] # Nothing THEN pending'[i]
                        ELSE IF inFlight = Nothing THEN Nothing ELSE inFlight[i]
   BY DEF Persist, Snapshot
 <2>3. pending'[i] = IF ops[i] # Nothing THEN ops[i] ELSE pending[i]
   BY DEF Enqueued
 <2>4. CASE ops[i] # Nothing
   BY <2>2, <2>3, <2>4 DEF Same
 <2>5. CASE ops[i] = Nothing
  <3>1. last'[i] = last[i] /\ ~settled[i]
    BY <2>1, <2>5
  <3>2. outbox'.ops[i] = outbox.ops[i]
    BY <2>2, <2>3, <2>5 DEF QueueTypeOK, Snapshot
  <3> QED BY <2>1, <3>1, <3>2 DEF NothingDropped
 <2> QED BY <2>4, <2>5
<1>3. WireCarriesFlight'
  BY DEF WireCarriesFlight, Same
<1>4. RepliesAreSettled'
  BY DEF RepliesAreSettled, Enqueued, Same
<1> QED BY <1>1, <1>2, <1>3, <1>4

LEMMA FlushKeeps ==
  ASSUME QueueInv, FlushNow
  PROVE  QueueInv'
<1> USE DEF QueueInv
<1>1. CASE inFlight = Nothing /\ Session /\ Ids(pending) # {}
 <2>1. /\ inFlight' = pending /\ pending' = Empty
       /\ outbox' = [ops |-> Snapshot(pending', inFlight'), retrying |-> retrying]
       /\ net' = [stage |-> "sent", attempt |-> 1, req |-> pending, revs |-> Nothing]
       /\ timer' = FALSE
       /\ UNCHANGED <<retrying, last, settled, late>>
   BY <1>1 DEF FlushNow, Persist
 <2>2. pending \in Ops /\ pending # Nothing /\ Empty \in Ops
   BY DrawingConstants DEF QueueTypeOK, Ops, Empty
 <2>3. net' \in Wire
   BY <2>1, <2>2 DEF Wire
 <2>4. QueueTypeOK'
   BY <2>1, <2>2, <2>3 DEF QueueTypeOK
 <2>5. NothingDropped'
  <3>1. SUFFICES ASSUME NEW i \in Id, last[i] # Nothing, ~settled[i]
                 PROVE  Same(outbox'.ops[i], last[i])
    BY <2>1 DEF NothingDropped
  <3>2. outbox'.ops[i] = outbox.ops[i]
    BY <1>1, <2>1, <2>2 DEF QueueTypeOK, Snapshot, Empty
  <3> QED BY <3>1, <3>2 DEF NothingDropped
 <2>6. WireCarriesFlight'
   BY <2>1, <2>2 DEF WireCarriesFlight, Same
 <2>7. RepliesAreSettled'
   BY <2>1 DEF RepliesAreSettled
 <2> QED BY <2>4, <2>5, <2>6, <2>7
<1>2. CASE ~(inFlight = Nothing /\ Session /\ Ids(pending) # {})
 <2>1. timer' = FALSE /\ UNCHANGED <<retrying, last, settled, late, inFlight, pending, outbox, net>>
   BY <1>2 DEF FlushNow
 <2> QED BY <2>1 DEF QueueTypeOK, NothingDropped, WireCarriesFlight, RepliesAreSettled,
            Same, Snapshot
<1> QED BY <1>1, <1>2

(* The backend's answer, and what it makes of the last operations.          *)
LEMMA SettleMore ==
  ASSUME QueueInv, NEW req \in Ops, Settle(req)
  PROVE  /\ settled' \in [Id -> BOOLEAN]
         /\ \A i \in Id : settled[i] => settled'[i]
         /\ \A i \in Id : last[i] # Nothing /\ Same(req[i], last[i]) => settled'[i]
<1>1. settled \in [Id -> BOOLEAN]
  BY DEF QueueInv, QueueTypeOK
<1>2. settled' = [i \in Id |-> settled[i] \/ (last[i] # Nothing /\ Same(req[i], last[i]))]
  BY DEF Settle
<1>3. \A i \in Id : (last[i] # Nothing /\ Same(req[i], last[i])) \in BOOLEAN
  BY DEF Same
<1> QED BY <1>1, <1>2, <1>3

LEMMA ServerBatchKeeps ==
  ASSUME QueueInv, RowsTypeOK, ServerBatch
  PROVE  QueueInv'
<1> USE DEF QueueInv
<1>1. /\ net # Nothing /\ net \in Wire /\ net.stage = "sent"
      /\ UNCHANGED <<late, pending, inFlight, retrying, timer, outbox, last>>
  BY DEF ServerBatch, QueueTypeOK
<1>2. CASE net' = [net EXCEPT !.stage = "conflict"] /\ UNCHANGED settled
 <2>1. net' \in Wire /\ net'.req = net.req /\ net'.stage = "conflict"
   BY <1>1, <1>2 DEF Wire
 <2> QED BY <1>1, <1>2, <2>1 DEF QueueTypeOK, NothingDropped, WireCarriesFlight,
            RepliesAreSettled, Same, Snapshot
<1>3. ASSUME NEW revs, revs = [i \in Id |-> IF net.req[i] # Nothing /\ net.req[i].kind = "upsert"
                                            THEN server'[i].rev ELSE 0],
             net' = [net EXCEPT !.stage = "ok", !.revs = revs],
             server' = Batch(net.req),
             Settle(net.req)
      PROVE  QueueInv'
 <2>1. revs \in [Id -> Nat]
  <3>1. SUFFICES ASSUME NEW i \in Id, net.req[i] # Nothing, net.req[i].kind = "upsert"
                 PROVE  server'[i].rev \in Nat
    BY <1>3
  <3>2. server'[i] = Applied(server[i], net.req[i])
    BY <1>3, <3>1 DEF Batch
  <3>3. server'[i].rev = IF server[i] = Nothing THEN 1 ELSE server[i].rev + 1
    BY <3>1, <3>2 DEF Applied
  <3>4. server[i] # Nothing => server[i].rev \in Nat
    BY DEF RowsTypeOK, Row
  <3> QED BY <3>3, <3>4
 <2>2. /\ net' \in Wire /\ net'.req = net.req /\ net'.stage = "ok" /\ net'.revs = revs
       /\ net.req \in Ops
   BY <1>1, <1>3, <2>1 DEF Wire
 <2>4. /\ settled' \in [Id -> BOOLEAN]
       /\ \A i \in Id : settled[i] => settled'[i]
       /\ \A i \in Id : last[i] # Nothing /\ Same(net.req[i], last[i]) => settled'[i]
   BY <1>3, <2>2, SettleMore
 <2>5. QueueTypeOK'
   BY <1>1, <2>2, <2>4 DEF QueueTypeOK
 <2>6. NothingDropped'
   BY <1>1, <2>4 DEF NothingDropped, Same
 <2>7. WireCarriesFlight'
   BY <1>1, <2>2 DEF WireCarriesFlight, Same
 <2>8. RepliesAreSettled'
   BY <1>1, <2>1, <2>2, <2>4 DEF RepliesAreSettled, WireCarriesFlight, Same
 <2> QED BY <2>5, <2>6, <2>7, <2>8
<1>4. CASE \E i \in Ids(net.req) : Refused(server[i], net.req[i])
  BY <1>2, <1>4 DEF ServerBatch
<1>5. CASE ~ \E i \in Ids(net.req) : Refused(server[i], net.req[i])
  BY <1>3, <1>5 DEF ServerBatch
<1> QED BY <1>4, <1>5

LEMMA ResolveKeeps ==
  ASSUME QueueInv, RowsTypeOK, ResolveConflict
  PROVE  QueueInv'
<1> USE DEF QueueInv
<1> DEFINE r == Rebased(net.req)
<1>1. /\ net # Nothing /\ net \in Wire /\ net.req \in Ops
      /\ net' = [net EXCEPT !.stage = "sent", !.attempt = 2, !.req = r]
      /\ UNCHANGED <<late, server, queueVars>>
  BY DEF ResolveConflict, QueueTypeOK, Wire
<1>2. /\ r \in Ops
      /\ \A i \in Id : net.req[i] # Nothing =>
           /\ r[i] # Nothing
           /\ r[i].kind = net.req[i].kind /\ r[i].val = net.req[i].val
           /\ r[i].crev = net.req[i].crev
 <2> DEFINE e(i) == IF /\ server[i] # Nothing /\ server[i].live
                       /\ \E j \in Ids(net.req) : server[i].sym = net.req[j].sym
                    THEN server[i].rev ELSE 0
 <2>1. r = [i \in Id |-> IF net.req[i] = Nothing THEN Nothing
                         ELSE [net.req[i] EXCEPT !.exp = e(i)]]
   BY DEF Rebased
 <2>2. \A i \in Id : e(i) \in Nat
   BY DEF RowsTypeOK, Row
 <2> HIDE DEF e, r
 <2>3. \A i \in Id : net.req[i] \in Op \cup {Nothing}
   BY <1>1 DEF Ops
 <2>4. \A i \in Id : net.req[i] # Nothing =>
         /\ r[i] \in Op
         /\ r[i].kind = net.req[i].kind /\ r[i].val = net.req[i].val
         /\ r[i].crev = net.req[i].crev
   BY <2>1, <2>2, <2>3 DEF Op
 <2>5. r \in Ops
   BY <2>1, <2>4 DEF Ops
 <2> QED BY <2>4, <2>5, DrawingConstants
<1> HIDE DEF r
<1>3. net' \in Wire /\ net'.req = r /\ net'.stage = "sent"
  BY <1>1, <1>2 DEF Wire
<1>4. QueueTypeOK' /\ NothingDropped'
  BY <1>1, <1>3 DEF QueueTypeOK, NothingDropped, queueVars, Same, Snapshot
<1>5. WireCarriesFlight'
  BY <1>1, <1>2, <1>3 DEF WireCarriesFlight, queueVars, Same
<1>6. RepliesAreSettled'
  BY <1>3 DEF RepliesAreSettled
<1> QED BY <1>4, <1>5, <1>6

LEMMA SendSucceedsKeeps ==
  ASSUME QueueInv, SendSucceeds
  PROVE  QueueInv'
<1> USE DEF QueueInv
<1> DEFINE p == RebasePending(net.revs)
<1>1. /\ net # Nothing /\ net.stage = "ok" /\ net.revs \in [Id -> Nat]
      /\ pending \in Ops
      /\ net' = Nothing /\ inFlight' = Nothing /\ retrying' = FALSE
      /\ pending' = p
      /\ outbox' = [ops |-> Snapshot(p, Nothing), retrying |-> FALSE]
      /\ timer' \in BOOLEAN
      /\ UNCHANGED <<late, last, settled>>
  BY DEF SendSucceeds, Persist, Scheduled, QueueTypeOK, RepliesAreSettled
<1>2. \A i \in Id : pending[i] \in Op \cup {Nothing}
  BY <1>1 DEF Ops
<1>3. p = [i \in Id |-> IF pending[i] = Nothing \/ net.revs[i] = 0 THEN pending[i]
                        ELSE [pending[i] EXCEPT !.exp = net.revs[i]]]
  BY DEF RebasePending
<1> HIDE DEF p
<1>4. \A i \in Id : pending[i] # Nothing =>
        /\ p[i] \in Op
        /\ p[i].kind = pending[i].kind /\ p[i].val = pending[i].val
        /\ p[i].crev = pending[i].crev
  BY <1>1, <1>2, <1>3 DEF Op
<1>5. \A i \in Id : pending[i] = Nothing => p[i] = Nothing
  BY <1>3
<1>6. p \in Ops
  BY <1>3, <1>4, <1>5 DEF Ops
<1>7. QueueTypeOK'
  BY <1>1, <1>6 DEF QueueTypeOK
<1>8. NothingDropped'
 <2>1. SUFFICES ASSUME NEW i \in Id, last[i] # Nothing, ~settled[i]
                PROVE  Same(outbox'.ops[i], last[i])
   BY <1>1 DEF NothingDropped
 <2>2. Same(outbox.ops[i], last[i])
   BY <2>1 DEF NothingDropped
 <2>3. outbox.ops[i] = IF pending[i] # Nothing THEN pending[i]
                       ELSE IF inFlight = Nothing THEN Nothing ELSE inFlight[i]
   BY DEF QueueTypeOK, Snapshot
 <2>4. pending[i] # Nothing
   BY <1>1, <2>1, <2>2, <2>3 DEF RepliesAreSettled, Same
 <2>5. p[i] # Nothing
   BY <1>4, <2>4, DrawingConstants
 <2>6. outbox'.ops[i] = p[i]
   BY <1>1, <2>5 DEF Snapshot
 <2> QED BY <1>4, <2>2, <2>3, <2>4, <2>5, <2>6 DEF Same
<1> QED BY <1>1, <1>7, <1>8 DEF WireCarriesFlight, RepliesAreSettled

LEMMA SendFailsKeeps ==
  ASSUME QueueInv, SendFails
  PROVE  QueueInv'
<1> USE DEF QueueInv
<1>1. /\ net # Nothing /\ net.req \in Ops
      /\ net' = Nothing /\ inFlight' = Nothing /\ retrying' = TRUE
      /\ pending' = Snapshot(pending, inFlight)
      /\ outbox' = [ops |-> Snapshot(pending', Nothing), retrying |-> TRUE]
      /\ timer' \in BOOLEAN
      /\ late' \in {late, late \cup {net.req}}
      /\ UNCHANGED <<last, settled>>
  BY DEF SendFails, PutBack, Persist, Scheduled, QueueTypeOK, Wire
<1>2. pending' \in Ops
  BY <1>1, SnapshotTyped DEF QueueTypeOK
<1>3. QueueTypeOK'
  BY <1>1, <1>2 DEF QueueTypeOK
<1>4. \A i \in Id : outbox'.ops[i] = outbox.ops[i]
  BY <1>1 DEF QueueTypeOK, Snapshot
<1>5. NothingDropped'
  BY <1>1, <1>4 DEF NothingDropped
<1> QED BY <1>1, <1>3, <1>5 DEF WireCarriesFlight, RepliesAreSettled

LEMMA LateBatchKeeps ==
  ASSUME QueueInv, LateBatch
  PROVE  QueueInv'
<1> USE DEF QueueInv
<1>1. PICK req \in late :
        /\ late' = late \ {req}
        /\ UNCHANGED settled \/ Settle(req)
        /\ UNCHANGED <<net, pending, inFlight, retrying, timer, outbox, last>>
  BY DEF LateBatch
<1>2. req \in Ops
  BY DEF QueueTypeOK
<1>3. settled' \in [Id -> BOOLEAN] /\ \A i \in Id : settled[i] => settled'[i]
  BY <1>1, <1>2, SettleMore DEF QueueTypeOK
<1> QED BY <1>1, <1>3 DEF QueueTypeOK, NothingDropped, WireCarriesFlight,
           RepliesAreSettled, Same, Snapshot

(* A page that is loaded again takes its queue from local storage.          *)
LEMMA ReloadKeeps ==
  ASSUME QueueInv, ReloadPage
  PROVE  QueueInv'
<1> USE DEF QueueInv
<1>1. /\ pending' = Snapshot(pending, inFlight) /\ retrying' = retrying
      /\ inFlight' = Nothing /\ timer' = FALSE /\ net' = Nothing
      /\ late' = late \/ (net # Nothing /\ late' = late \cup {net.req})
      /\ UNCHANGED <<outbox, last, settled>>
  BY DEF ReloadPage, QueueTypeOK
<1>2. pending' \in Ops
  BY <1>1, SnapshotTyped DEF QueueTypeOK
<1>3. Snapshot(pending', inFlight') = pending'
  BY <1>1 DEF Snapshot
<1>4. QueueTypeOK'
  BY <1>1, <1>2, <1>3 DEF QueueTypeOK, Wire
<1> QED BY <1>1, <1>4 DEF NothingDropped, WireCarriesFlight, RepliesAreSettled

(* Queueing with the timer's rule, and a mutation that leaves the wire be.  *)
LEMMA EnqueueStep ==
  ASSUME QueueInv, NEW ops \in Ops, Enqueue(ops), UNCHANGED netVars
  PROVE  QueueInv'
<1>1. timer' \in BOOLEAN
  BY DEF Enqueue, Scheduled, QueueInv, QueueTypeOK
<1>2. /\ pending' = Enqueued(ops)
      /\ Persist(pending', inFlight, retrying)
      /\ last' = [i \in Id |-> IF ops[i] # Nothing THEN ops[i] ELSE last[i]]
      /\ settled' = [i \in Id |-> settled[i] /\ ops[i] = Nothing]
      /\ UNCHANGED <<inFlight, retrying, net, late>>
  BY DEF Enqueue, netVars
<1> QED BY <1>1, <1>2, EnqueueKeeps

LEMMA OperationTyped ==
  ASSUME NEW s \in Symbol, NEW d \in Drawing
  PROVE  /\ Upsert(s, d) \in Op
         /\ Delete(s, d, "user") \in Op /\ Delete(s, d, "reset") \in Op
BY DEF Upsert, Delete, Operation, Op, Drawing

LEMMA ResetKeeps ==
  ASSUME QueueInv, ChartTypeOK, QueueReset, UNCHANGED netVars
  PROVE  QueueInv'
<1> DEFINE ops == [i \in Id |-> IF view[i] # Nothing THEN Delete(symbol, view[i], "reset")
                                ELSE Nothing]
<1>1. ops \in Ops
 <2>1. \A i \in Id : view[i] # Nothing => Delete(symbol, view[i], "reset") \in Op
   BY OperationTyped DEF ChartTypeOK, Drawings
 <2> QED BY <2>1 DEF Ops
<1>2. /\ pending' = Enqueued(ops)
      /\ Persist(pending', inFlight, retrying)
      /\ timer' = FALSE
      /\ last' = [i \in Id |-> IF ops[i] # Nothing THEN ops[i] ELSE last[i]]
      /\ settled' = [i \in Id |-> settled[i] /\ ops[i] = Nothing]
      /\ UNCHANGED <<inFlight, retrying, net, late>>
  BY DEF QueueReset, netVars
<1> HIDE DEF ops
<1> QED BY <1>1, <1>2, EnqueueKeeps

-----------------------------------------------------------------------------
(* The screen and local storage                                            *)

\* The drawings shown are stored, and what is stored for place p is shown.
ShownFrom(reg, shown, p) ==
  /\ \A i \in Ids(shown) : reg[i] = shown[i]
  /\ Ids(Select(reg, p)) \subseteq Ids(shown)

LEMMA ScreenIs ==
  ViewMatchesRegistry <=> ShownFrom(registry[symbol], view, <<symbol, ctx>>)
BY DEF ViewMatchesRegistry, ShownFrom

LEMMA SelectShows ==
  ASSUME NEW reg \in Drawings, NEW p
  PROVE  Select(reg, p) \in Drawings /\ ShownFrom(reg, Select(reg, p), p)
BY DEF Select, Drawings, ShownFrom, Ids

LEMMA PersistShows ==
  ASSUME NEW s \in Symbol, NEW c, NEW active \in Drawings,
         registry \in [Symbol -> Drawings], PersistLocal(s, c, active)
  PROVE  /\ registry' \in [Symbol -> Drawings]
         /\ ShownFrom(registry'[s], active, <<s, c>>)
<1> DEFINE m == Merge(registry[s], active, <<s, c>>)
<1>1. m \in Drawings
  BY DEF Merge, Drawings
<1>2. ShownFrom(m, active, <<s, c>>)
  BY DEF Merge, ShownFrom, Ids, Select
<1>3. registry' = [registry EXCEPT ![s] = m]
  BY DEF PersistLocal
<1> HIDE DEF m
<1> QED BY <1>1, <1>2, <1>3

(* A view written back to the registry, whatever it holds.                  *)
LEMMA ViewPersisted ==
  ASSUME ChartInv, view' \in Drawings, symbol' \in Symbol, ctx' \in Context,
         PersistLocal(symbol', ctx', view'),
         trash' \in Drawings, UNCHANGED <<saved, auth>>
  PROVE  ChartInv'
<1>1. registry' \in [Symbol -> Drawings] /\ ShownFrom(registry'[symbol'], view', <<symbol', ctx'>>)
  BY PersistShows DEF ChartInv, ChartTypeOK
<1>2. ViewMatchesRegistry'
  BY <1>1 DEF ViewMatchesRegistry, ShownFrom
<1> QED BY <1>1, <1>2 DEF ChartInv, ChartTypeOK

(* A view read from the registry.                                           *)
LEMMA ViewSelected ==
  ASSUME ChartInv, symbol' \in Symbol, ctx' \in Context,
         view' = Select(registry'[symbol'], <<symbol', ctx'>>),
         registry' \in [Symbol -> Drawings], trash' \in Drawings,
         auth' \in {"loading", "anonymous", "authed"}, saved' = saved
  PROVE  ChartInv'
<1>1. view' \in Drawings /\ ShownFrom(registry'[symbol'], view', <<symbol', ctx'>>)
  BY SelectShows
<1>2. ViewMatchesRegistry'
  BY <1>1 DEF ViewMatchesRegistry, ShownFrom
<1> QED BY <1>1, <1>2 DEF ChartInv, ChartTypeOK

LEMMA ChartKept ==
  ASSUME ChartInv, UNCHANGED chartVars
  PROVE  ChartInv'
BY DEF ChartInv, ChartTypeOK, ViewMatchesRegistry, chartVars, Ids, Select

LEMMA BindingTyped ==
  ASSUME NEW mode, NEW s \in Symbol, NEW c \in Context
  PROVE  Binding(mode, s, c) \in SUBSET Place
BY DEF Binding, Place

LEMMA ShowKeeps ==
  ASSUME DrawingInv, NEW i \in Id, NEW d \in Drawing, Show(i, d),
         trash' \in Drawings, UNCHANGED <<symbol, ctx, saved, auth, netVars>>
  PROVE  QueueInv' /\ ChartInv'
<1> USE DEF DrawingInv
<1>1. view' = [view EXCEPT ![i] = d] /\ view' \in Drawings
  BY DEF Show, ChartInv, ChartTypeOK, Drawings
<1>2. PersistLocal(symbol', ctx', view') /\ symbol' \in Symbol /\ ctx' \in Context
  BY <1>1 DEF Show, ChartInv, ChartTypeOK, PersistLocal
<1>3. ChartInv'
  BY <1>1, <1>2, ViewPersisted
<1>4. [Empty EXCEPT ![i] = Upsert(symbol, d)] \in Ops
  BY OperationTyped DEF ChartInv, ChartTypeOK, Empty, Ops
<1>5. Enqueue([Empty EXCEPT ![i] = Upsert(symbol, d)])
  BY DEF Show
<1>6. QueueInv'
  BY <1>4, <1>5, EnqueueStep
<1> QED BY <1>3, <1>6

-----------------------------------------------------------------------------
(* The user's edits                                                        *)

LEMMA EditBounded ==
  ASSUME RowsTypeOK, edits < MaxEdits
  PROVE  edits + 1 \in 1..MaxEdits /\ edits + 1 \in 0..MaxEdits
BY DrawingConstants DEF RowsTypeOK

LEMMA PatchTyped ==
  ASSUME NEW d \in Drawing, NEW v \in 1..MaxEdits
  PROVE  [d EXCEPT !.val = v, !.crev = @ + 1] \in Drawing
<1> DEFINE c == d.crev + 1
<1>1. c \in Nat
  BY DEF Drawing
<1> HIDE DEF c
<1>2. [d EXCEPT !.val = v, !.crev = c] \in Drawing
  BY <1>1 DEF Drawing
<1> QED BY <1>2 DEF c

LEMMA RowsKept ==
  ASSUME RowsTypeOK, UNCHANGED <<gen, loads, server>>, edits' \in 0..MaxEdits
  PROVE  RowsTypeOK'
BY DEF RowsTypeOK

LEMMA AddKeeps ==
  ASSUME DrawingInv, NEW i \in Id, NEW scope \in NewScopes, AddDrawing(i, scope)
  PROVE  DrawingInv'
<1> USE DEF DrawingInv
<1> DEFINE d == [val |-> edits + 1, crev |-> 1, srv |-> 0, scope |-> scope]
<1>1. scope \in SUBSET Place
  BY BindingTyped DEF NewScopes, Ids, ChartInv, ChartTypeOK, Drawings, Drawing
<1>2. edits + 1 \in 1..MaxEdits
  BY EditBounded DEF AddDrawing
<1>3. d \in Drawing
  BY <1>1, <1>2 DEF Drawing
<1>4. Show(i, d) /\ edits' = edits + 1 /\ UNCHANGED <<symbol, ctx, trash, saved, auth, loadVars, netVars>>
  BY DEF AddDrawing
<1> HIDE DEF d
<1>5. QueueInv' /\ ChartInv'
  BY <1>3, <1>4, ShowKeeps DEF ChartInv, ChartTypeOK
<1>6. RowsTypeOK'
  BY <1>2, <1>4, RowsKept, DrawingConstants DEF loadVars, netVars
<1> QED BY <1>5, <1>6

LEMMA UpdateKeeps ==
  ASSUME DrawingInv, NEW S \in SUBSET Id, UpdateDrawings(S)
  PROVE  DrawingInv'
<1> USE DEF DrawingInv
<1> DEFINE next == [i \in Id |-> IF i \in S THEN [view[i] EXCEPT !.val = edits + 1, !.crev = @ + 1]
                                 ELSE view[i]]
           ops == [i \in Id |-> IF i \in S THEN Upsert(symbol, next[i]) ELSE Nothing]
<1>1. edits + 1 \in 1..MaxEdits
  BY EditBounded DEF UpdateDrawings
<1>2. \A i \in S : view[i] \in Drawing
  BY DEF UpdateDrawings, Ids, ChartInv, ChartTypeOK, Drawings
<1>3. \A i \in S : [view[i] EXCEPT !.val = edits + 1, !.crev = @ + 1] \in Drawing
  BY <1>1, <1>2, PatchTyped
<1>4. next \in Drawings /\ \A i \in S : next[i] \in Drawing
  BY <1>3 DEF ChartInv, ChartTypeOK, Drawings
<1>5. /\ view' = next /\ PersistLocal(symbol, ctx, next) /\ Enqueue(ops)
      /\ edits' = edits + 1
      /\ UNCHANGED <<symbol, ctx, trash, saved, auth, loadVars, netVars>>
  BY DEF UpdateDrawings
<1> HIDE DEF next
<1>6. ops \in Ops
  BY <1>4, OperationTyped DEF ChartInv, ChartTypeOK, Ops
<1> HIDE DEF ops
<1>7. QueueInv'
  BY <1>5, <1>6, EnqueueStep
<1>8. PersistLocal(symbol', ctx', view')
  BY <1>5 DEF PersistLocal
<1>9. ChartInv'
  BY <1>4, <1>5, <1>8, ViewPersisted DEF ChartInv, ChartTypeOK
<1>10. RowsTypeOK'
  BY <1>1, <1>5, RowsKept, DrawingConstants DEF loadVars, netVars
<1> QED BY <1>7, <1>9, <1>10

LEMMA RemoveKeeps ==
  ASSUME DrawingInv, NEW i \in Id, RemoveDrawing(i)
  PROVE  DrawingInv'
<1> USE DEF DrawingInv
<1> DEFINE next == [view EXCEPT ![i] = Nothing]
           ops == [Empty EXCEPT ![i] = Delete(symbol, view[i], "user")]
<1>1. view[i] \in Drawing /\ next \in Drawings /\ [trash EXCEPT ![i] = view[i]] \in Drawings
  BY DEF RemoveDrawing, ChartInv, ChartTypeOK, Drawings
<1>2. ops \in Ops
  BY <1>1, OperationTyped DEF ChartInv, ChartTypeOK, Ops, Empty
<1>3. /\ view' = next /\ PersistLocal(symbol, ctx, next) /\ Enqueue(ops)
      /\ trash' = [trash EXCEPT ![i] = view[i]]
      /\ UNCHANGED <<symbol, ctx, saved, auth, loadVars, netVars, boundVars>>
  BY DEF RemoveDrawing
<1> HIDE DEF next, ops
<1>4. QueueInv'
  BY <1>2, <1>3, EnqueueStep
<1>5. PersistLocal(symbol', ctx', view')
  BY <1>3 DEF PersistLocal
<1>6. ChartInv'
  BY <1>1, <1>3, <1>5, ViewPersisted DEF ChartInv, ChartTypeOK
<1>7. RowsTypeOK'
  BY <1>3 DEF RowsTypeOK, loadVars, netVars, boundVars
<1> QED BY <1>4, <1>6, <1>7

LEMMA RestoreKeeps ==
  ASSUME DrawingInv, NEW i \in Id, RestoreDrawing(i)
  PROVE  DrawingInv'
<1> USE DEF DrawingInv
<1> DEFINE d == [trash[i] EXCEPT !.val = edits + 1, !.crev = @ + 1]
<1>1. edits + 1 \in 1..MaxEdits
  BY EditBounded DEF RestoreDrawing
<1>2. trash[i] \in Drawing /\ [trash EXCEPT ![i] = Nothing] \in Drawings
  BY DEF RestoreDrawing, ChartInv, ChartTypeOK, Drawings
<1>3. d \in Drawing
  BY <1>1, <1>2, PatchTyped
<1>4. /\ Show(i, d) /\ trash' = [trash EXCEPT ![i] = Nothing] /\ edits' = edits + 1
      /\ UNCHANGED <<symbol, ctx, saved, auth, loadVars, netVars>>
  BY DEF RestoreDrawing
<1> HIDE DEF d
<1>5. QueueInv' /\ ChartInv'
  BY <1>2, <1>3, <1>4, ShowKeeps
<1>6. RowsTypeOK'
  BY <1>1, <1>4, RowsKept, DrawingConstants DEF loadVars, netVars
<1> QED BY <1>5, <1>6

LEMMA RemoteKeeps ==
  ASSUME DrawingInv, NEW i \in Id, RemoteEdit(i)
  PROVE  DrawingInv'
<1> USE DEF DrawingInv
<1>1. edits + 1 \in 1..MaxEdits /\ edits' = edits + 1
  BY EditBounded DEF RemoteEdit
<1>2. server[i] \in Row
  BY DEF RemoteEdit, RowsTypeOK
<1> DEFINE v == edits + 1
           r == server[i].rev + 1
           c == server[i].crev + 1
           written == [server[i] EXCEPT !.rev = r, !.crev = c, !.val = v]
           gone == [server[i] EXCEPT !.rev = r, !.live = FALSE, !.crev = 0, !.val = 0]
<1>3. /\ v \in 0..MaxEdits /\ v > 0 /\ 0 \in 0..MaxEdits
      /\ r \in Nat /\ c \in Nat
  BY <1>1, <1>2, DrawingConstants DEF Row
<1>4. \/ server' = [server EXCEPT ![i] = written]
      \/ server' = [server EXCEPT ![i] = gone]
  BY <1>2 DEF RemoteEdit, Row
<1> HIDE DEF v, r, c
<1>5. written \in Row /\ written.val > 0 /\ gone \in Row /\ ~gone.live
  BY <1>2, <1>3 DEF Row
<1>6. UNCHANGED <<net, late, queueVars, chartVars, loadVars>>
  BY DEF RemoteEdit
<1> HIDE DEF written, gone
<1>7. RowsTypeOK'
  BY <1>1, <1>4, <1>5, <1>6, DrawingConstants DEF RowsTypeOK, loadVars
<1>8. QueueInv' /\ ChartInv'
  BY <1>6, QueueKept, ChartKept
<1> QED BY <1>7, <1>8

-----------------------------------------------------------------------------
(* Navigation, sign-in, sign-out and reload                                *)

LEMMA StartTyped ==
  ASSUME ChartTypeOK, NEW s \in Symbol, NEW g \in Nat
  PROVE  Load(s, g, registry[s]) \in Started
BY DEF Load, Started, ChartTypeOK

\* Loads begin with a registry that has its type, at most MaxGen of them.
LEMMA StartsKeep ==
  ASSUME RowsTypeOK, ChartTypeOK, NEW s \in Symbol, gen' \in 0..MaxGen,
         NEW G \in SUBSET Nat,
         loads' = loads \cup {Load(s, g, registry[s]) : g \in G},
         UNCHANGED <<server, edits>>
  PROVE  RowsTypeOK'
<1>1. \A g \in G : Load(s, g, registry[s]) \in Started
  BY StartTyped
<1>2. loads' \in SUBSET Started
  BY <1>1 DEF RowsTypeOK
<1> QED BY <1>2 DEF RowsTypeOK

LEMMA BeginLoadKeeps ==
  ASSUME RowsTypeOK, ChartTypeOK, NEW s \in Symbol, BeginLoad(s), UNCHANGED <<server, edits>>
  PROVE  RowsTypeOK'
<1>1. CASE Session
 <2>1. gen + 1 \in 0..MaxGen /\ {gen + 1} \in SUBSET Nat
   BY <1>1, DrawingConstants DEF BeginLoad, RowsTypeOK
 <2>2. gen' = gen + 1 /\ loads' = loads \cup {Load(s, g, registry[s]) : g \in {gen + 1}}
   BY <1>1 DEF BeginLoad
 <2> QED BY <2>1, <2>2, StartsKeep, gen' \in 0..MaxGen
<1>2. CASE ~Session
  BY <1>2 DEF BeginLoad, loadVars, RowsTypeOK
<1> QED BY <1>1, <1>2

LEMMA SetSymbolKeeps ==
  ASSUME DrawingInv, NEW s \in Symbol, SetSymbol(s)
  PROVE  DrawingInv'
<1> USE DEF DrawingInv
<1>1. /\ symbol' = s /\ view' = Select(registry[s], <<s, ctx>>)
      /\ UNCHANGED <<ctx, registry, trash, saved, auth, queueVars, netVars, edits>>
  BY DEF SetSymbol
<1>2. ChartInv'
  BY <1>1, ViewSelected DEF ChartInv, ChartTypeOK
<1>3. QueueInv'
  BY <1>1, QueueKept DEF netVars
<1>4. RowsTypeOK'
 <2>1. CASE Session
  <3>1. gen + 2 \in 0..MaxGen /\ {gen + 2} \in SUBSET Nat
    BY <2>1, DrawingConstants DEF SetSymbol, RowsTypeOK
  <3>2. gen' = gen + 2 /\ loads' = loads \cup {Load(s, g, registry[s]) : g \in {gen + 2}}
    BY <2>1 DEF SetSymbol
  <3> QED BY <1>1, <3>1, <3>2, StartsKeep DEF ChartInv, netVars
 <2>2. CASE ~Session
  <3>1. gen < MaxGen /\ gen' = gen + 1 /\ UNCHANGED loads
    BY <2>2 DEF SetSymbol
  <3> QED BY <1>1, <3>1, DrawingConstants DEF RowsTypeOK, netVars
 <2> QED BY <2>1, <2>2
<1> QED BY <1>2, <1>3, <1>4

LEMMA SetContextKeeps ==
  ASSUME DrawingInv, NEW c \in Context, SetDrawingLayoutContext(c)
  PROVE  DrawingInv'
<1> USE DEF DrawingInv
<1> DEFINE m == Merge(registry[symbol], view, <<symbol, ctx>>)
<1>1. /\ ctx' = c /\ view' = Select(m, <<symbol, c>>) /\ BeginLoad(symbol)
      /\ UNCHANGED <<symbol, registry, trash, saved, auth, queueVars, netVars, edits>>
  BY DEF SetDrawingLayoutContext
<1>2. m = registry[symbol]
 <2>1. SUFFICES ASSUME NEW i \in Id PROVE m[i] = registry[symbol][i]
   BY DEF Merge, ChartInv, ChartTypeOK, Drawings
 <2>2. CASE view[i] # Nothing
   BY <2>2 DEF Merge, ChartInv, ViewMatchesRegistry, Ids
 <2>3. CASE view[i] = Nothing
   BY <2>3 DEF Merge, ChartInv, ViewMatchesRegistry, Ids, Select
 <2> QED BY <2>2, <2>3
<1>3. ChartInv'
  BY <1>1, <1>2, ViewSelected DEF ChartInv, ChartTypeOK
<1>4. QueueInv'
  BY <1>1, QueueKept DEF netVars
<1>5. RowsTypeOK'
  BY <1>1, BeginLoadKeeps DEF ChartInv, ChartTypeOK, netVars
<1> QED BY <1>3, <1>4, <1>5

LEMMA AdoptKeeps ==
  ASSUME DrawingInv, NEW c \in Context, AdoptDrawingLayoutContext(c)
  PROVE  DrawingInv'
<1> USE DEF DrawingInv
<1> DEFINE moved == {i \in Ids(view) : ~IsGlobal(view[i])}
           next == [i \in Id |-> IF i \in moved THEN Rebind(view[i], c) ELSE view[i]]
           ops == [i \in Id |-> IF i \in moved THEN Upsert(symbol, next[i]) ELSE Nothing]
<1>1. /\ ctx' = c /\ view' = next /\ PersistLocal(symbol, c, next) /\ Enqueue(ops)
      /\ UNCHANGED <<symbol, trash, saved, auth, loadVars, netVars, edits>>
  BY DEF AdoptDrawingLayoutContext
<1>2. \A i \in moved : i \in Id /\ view[i] \in Drawing
  BY DEF Ids, ChartInv, ChartTypeOK, Drawings
<1>3. ASSUME NEW d \in Drawing PROVE Rebind(d, c) \in Drawing
 <2> DEFINE scope == Binding(IF Cardinality(d.scope) > 1 THEN "layout-symbol" ELSE "chart-only",
                             symbol, c)
            crev == d.crev + 1
 <2>1. scope \in SUBSET Place
   BY BindingTyped DEF ChartInv, ChartTypeOK
 <2>2. crev \in Nat
   BY <1>3 DEF Drawing
 <2>3. Rebind(d, c) = [d EXCEPT !.crev = crev, !.scope = scope]
   BY DEF Rebind
 <2> HIDE DEF scope, crev
 <2> QED BY <1>3, <2>1, <2>2, <2>3 DEF Drawing
<1> HIDE DEF moved
<1>4. next \in Drawings /\ \A i \in moved : next[i] \in Drawing
  BY <1>2, <1>3 DEF ChartInv, ChartTypeOK, Drawings
<1> HIDE DEF next
<1>5. ops \in Ops
  BY <1>4, OperationTyped DEF ChartInv, ChartTypeOK, Ops
<1> HIDE DEF ops
<1>6. QueueInv'
  BY <1>1, <1>5, EnqueueStep
<1>7. PersistLocal(symbol', ctx', view')
  BY <1>1 DEF PersistLocal
<1>8. ChartInv'
  BY <1>1, <1>4, <1>7, ViewPersisted DEF ChartInv, ChartTypeOK
<1>9. RowsTypeOK'
  BY <1>1 DEF RowsTypeOK, loadVars, netVars
<1> QED BY <1>6, <1>8, <1>9

LEMMA SaveLayoutKeeps ==
  ASSUME DrawingInv, SaveLayout
  PROVE  DrawingInv'
<1> USE DEF DrawingInv
<1>1. /\ saved' = [sym |-> symbol, ctx |-> ctx, drawings |-> view]
      /\ UNCHANGED <<symbol, ctx, view, registry, trash, auth>>
      /\ UNCHANGED <<queueVars, loadVars, netVars, edits>>
  BY DEF SaveLayout
<1>2. saved' \in Slice
  BY <1>1 DEF Slice, ChartInv, ChartTypeOK
<1>3. ChartInv'
  BY <1>1, <1>2 DEF ChartInv, ChartTypeOK, ViewMatchesRegistry, Ids, Select
<1>4. QueueInv'
  BY <1>1, QueueKept DEF netVars
<1>5. RowsTypeOK'
  BY <1>1 DEF RowsTypeOK, loadVars, netVars
<1> QED BY <1>3, <1>4, <1>5

LEMMA LoadLayoutKeeps ==
  ASSUME DrawingInv, LoadLayout
  PROVE  DrawingInv'
<1> USE DEF DrawingInv
<1> DEFINE stored == registry[saved.sym]
           byId == [i \in Id |-> IF stored[i] # Nothing /\ IsGlobal(stored[i])
                                 THEN stored[i] ELSE saved.drawings[i]]
<1>1. /\ symbol' = saved.sym /\ ctx' = saved.ctx /\ BeginLoad(symbol)
      /\ view' = Select(byId, <<saved.sym, ctx'>>)
      /\ PersistLocal(saved.sym, ctx', view')
      /\ UNCHANGED <<trash, saved, auth, queueVars, netVars, edits>>
  BY DEF LoadLayout
<1>2. saved.sym \in Symbol /\ saved.ctx \in Context /\ saved.drawings \in Drawings
  BY DEF LoadLayout, ChartInv, ChartTypeOK, Slice
<1>3. byId \in Drawings
  BY <1>2 DEF ChartInv, ChartTypeOK, Drawings
<1> HIDE DEF byId
<1>4. view' \in Drawings
  BY <1>1, <1>3, SelectShows
<1>5. PersistLocal(symbol', ctx', view')
  BY <1>1
<1>6. ChartInv'
  BY <1>1, <1>2, <1>4, <1>5, ViewPersisted DEF ChartInv, ChartTypeOK
<1>7. QueueInv'
  BY <1>1, QueueKept DEF netVars
<1>8. RowsTypeOK'
  BY <1>1, BeginLoadKeeps DEF ChartInv, ChartTypeOK, netVars
<1> QED BY <1>6, <1>7, <1>8

LEMMA SignInKeeps ==
  ASSUME DrawingInv, NEW s \in Symbol, SignIn(s)
  PROVE  DrawingInv'
<1> USE DEF DrawingInv
<1>1. /\ auth' = "authed" /\ symbol' = s
      /\ UNCHANGED <<ctx, registry, trash, saved, queueVars, netVars, edits>>
  BY DEF SignIn
<1>2. CASE s = symbol
 <2>1. /\ gen < MaxGen /\ gen' = gen + 1 /\ UNCHANGED view
       /\ loads' = loads \cup {Load(s, g, registry[s]) : g \in {gen + 1}}
   BY <1>2 DEF SignIn
 <2>2. gen' \in 0..MaxGen /\ {gen + 1} \in SUBSET Nat
   BY <2>1, DrawingConstants DEF RowsTypeOK
 <2>3. RowsTypeOK'
   BY <1>1, <2>1, <2>2, StartsKeep DEF ChartInv, netVars
 <2>4. ChartInv'
   BY <1>1, <1>2, <2>1 DEF ChartInv, ChartTypeOK, ViewMatchesRegistry, Ids, Select
 <2> QED BY <1>1, <2>3, <2>4, QueueKept DEF netVars
<1>3. CASE s # symbol
 <2>1. /\ gen + 3 <= MaxGen /\ gen' = gen + 3 /\ view' = Select(registry[s], <<s, ctx>>)
       /\ loads' = loads \cup {Load(s, g, registry[s]) : g \in {gen + 2, gen + 3}}
   BY <1>3 DEF SignIn
 <2>2. gen' \in 0..MaxGen /\ {gen + 2, gen + 3} \in SUBSET Nat
   BY <2>1, DrawingConstants DEF RowsTypeOK
 <2>3. RowsTypeOK'
   BY <1>1, <2>1, <2>2, StartsKeep DEF ChartInv, netVars
 <2>4. ChartInv'
   BY <1>1, <2>1, ViewSelected DEF ChartInv, ChartTypeOK
 <2> QED BY <1>1, <2>3, <2>4, QueueKept DEF netVars
<1> QED BY <1>2, <1>3

LEMMA EmptyTyped == Empty \in Drawings /\ Empty \in Ops
BY DEF Empty, Drawings, Ops

LEMMA SignOutKeeps ==
  ASSUME DrawingInv, SignOut
  PROVE  DrawingInv'
<1> USE DEF DrawingInv
<1>1. /\ auth' = "anonymous" /\ QueueReset /\ view' = Empty
      /\ registry' = [s \in Symbol |-> Empty]
      /\ UNCHANGED <<symbol, ctx, trash, saved, loadVars, netVars, edits>>
  BY DEF SignOut
<1>2. view' = Select(registry'[symbol'], <<symbol', ctx'>>)
  BY <1>1 DEF ChartInv, ChartTypeOK, Select, Empty
<1>3. ChartInv'
  BY <1>1, <1>2, ViewSelected, EmptyTyped DEF ChartInv, ChartTypeOK
<1>4. QueueInv'
  BY <1>1, ResetKeeps DEF ChartInv
<1>5. RowsTypeOK'
  BY <1>1 DEF RowsTypeOK, loadVars, netVars
<1> QED BY <1>3, <1>4, <1>5

LEMMA AnonymousKeeps ==
  ASSUME DrawingInv, AnonymousStart
  PROVE  DrawingInv'
<1> USE DEF DrawingInv
<1>1. /\ auth' = "anonymous" /\ QueueReset
      /\ view' = Select(registry[symbol], <<symbol, ctx>>)
      /\ UNCHANGED <<symbol, ctx, registry, trash, saved, loadVars, netVars, edits>>
  BY DEF AnonymousStart
<1>2. ChartInv'
  BY <1>1, ViewSelected DEF ChartInv, ChartTypeOK
<1>3. QueueInv'
  BY <1>1, ResetKeeps DEF ChartInv
<1>4. RowsTypeOK'
  BY <1>1 DEF RowsTypeOK, loadVars, netVars
<1> QED BY <1>2, <1>3, <1>4

LEMMA ReloadPageKeeps ==
  ASSUME DrawingInv, ReloadPage
  PROVE  DrawingInv'
<1> USE DEF DrawingInv
<1>1. /\ auth' = "loading" /\ view' = Select(registry[symbol], <<symbol, ctx>>)
      /\ trash' = Empty /\ gen' = 0 /\ loads' = {}
      /\ UNCHANGED <<symbol, ctx, registry, saved, server, edits>>
  BY DEF ReloadPage
<1>2. ChartInv'
  BY <1>1, ViewSelected, EmptyTyped DEF ChartInv, ChartTypeOK
<1>3. RowsTypeOK'
  BY <1>1, DrawingConstants DEF RowsTypeOK
<1> QED BY <1>2, <1>3, ReloadKeeps

-----------------------------------------------------------------------------
(* The backend and the loads                                               *)

LEMMA AppliedTyped ==
  ASSUME NEW kept \in Row \cup {Nothing}, NEW op \in Op,
         kept # Nothing /\ kept.live => kept.val > 0
  PROVE  /\ Applied(kept, op) \in Row \cup {Nothing}
         /\ Applied(kept, op) # Nothing /\ Applied(kept, op).live => Applied(kept, op).val > 0
<1>1. CASE op.kind = "upsert"
 <2> DEFINE n == IF kept = Nothing THEN 1 ELSE kept.rev + 1
            r == [rev |-> n, live |-> TRUE, val |-> op.val, crev |-> op.crev,
                  sym |-> op.sym, scope |-> op.scope]
 <2>1. Applied(kept, op) = r
   BY <1>1 DEF Applied
 <2>2. n \in Nat /\ op.val \in 0..MaxEdits /\ op.val > 0
   BY DrawingConstants DEF Op, Row
 <2> HIDE DEF n
 <2>3. r \in Row /\ r.val > 0
   BY <2>2 DEF Op, Row
 <2> HIDE DEF r
 <2> QED BY <2>1, <2>3
<1>2. CASE op.kind = "delete" /\ kept # Nothing /\ kept.live
 <2> DEFINE n == kept.rev + 1
            r == [kept EXCEPT !.rev = n, !.live = FALSE, !.val = 0, !.crev = 0]
 <2>1. Applied(kept, op) = r
   BY <1>2 DEF Applied
 <2>2. n \in Nat /\ 0 \in 0..MaxEdits
   BY <1>2, DrawingConstants DEF Row
 <2> HIDE DEF n
 <2>3. r \in Row /\ ~r.live
   BY <1>2, <2>2 DEF Row
 <2> HIDE DEF r
 <2> QED BY <2>1, <2>3
<1>3. CASE op.kind = "delete" /\ ~(kept # Nothing /\ kept.live)
  BY <1>3 DEF Applied
<1> QED BY <1>1, <1>2, <1>3 DEF Op

LEMMA BatchTyped ==
  ASSUME RowsTypeOK, NEW req \in Ops, server' = Batch(req), UNCHANGED <<gen, loads, edits>>
  PROVE  RowsTypeOK'
<1>1. SUFFICES ASSUME NEW i \in Id
               PROVE  /\ server'[i] \in Row \cup {Nothing}
                      /\ server'[i] # Nothing /\ server'[i].live => server'[i].val > 0
  BY DEF RowsTypeOK, Batch
<1>2. CASE req[i] = Nothing
  BY <1>2 DEF RowsTypeOK, Batch
<1>3. CASE req[i] # Nothing
 <2>1. server'[i] = Applied(server[i], req[i]) /\ req[i] \in Op
   BY <1>3 DEF Batch, Ops
 <2>2. server[i] \in Row \cup {Nothing} /\ (server[i] # Nothing /\ server[i].live => server[i].val > 0)
   BY DEF RowsTypeOK
 <2> QED BY <2>1, <2>2, AppliedTyped
<1> QED BY <1>2, <1>3

LEMMA SyncRowsKeep ==
  ASSUME DrawingInv, ServerBatch \/ LateBatch
  PROVE  RowsTypeOK'
<1> USE DEF DrawingInv
<1>1. UNCHANGED <<gen, loads, edits>>
  BY DEF ServerBatch, LateBatch, loadVars, boundVars
<1>2. server' = server \/ \E req \in Ops : server' = Batch(req)
 <2>1. CASE ServerBatch
   BY <2>1 DEF ServerBatch, QueueInv, QueueTypeOK, Wire
 <2>2. CASE LateBatch
   BY <2>2 DEF LateBatch, QueueInv, QueueTypeOK
 <2> QED BY <2>1, <2>2
<1> QED BY <1>1, <1>2, BatchTyped DEF RowsTypeOK

LEMMA ListKeeps ==
  ASSUME DrawingInv, ServerList
  PROVE  DrawingInv'
<1> USE DEF DrawingInv
<1>1. PICK l \in loads :
        /\ loads' = (loads \ {l}) \cup {[l EXCEPT !.rows =
             [i \in Id |-> IF server[i] # Nothing /\ server[i].live /\ server[i].sym = l.sym
                           THEN server[i] ELSE Nothing]]}
        /\ UNCHANGED <<gen, netVars, queueVars, chartVars, boundVars>>
  BY DEF ServerList
<1> DEFINE rows == [i \in Id |-> IF server[i] # Nothing /\ server[i].live /\ server[i].sym = l.sym
                                 THEN server[i] ELSE Nothing]
<1>2. rows \in Listed
  BY DEF Listed, RowsTypeOK
<1>3. loads' = (loads \ {l}) \cup {[l EXCEPT !.rows = rows]}
  BY <1>1
<1> HIDE DEF rows
<1>4. [l EXCEPT !.rows = rows] \in Started
  BY <1>2 DEF RowsTypeOK, Started
<1>5. RowsTypeOK'
  BY <1>1, <1>3, <1>4 DEF RowsTypeOK, netVars, boundVars
<1> QED BY <1>1, <1>5, QueueKept, ChartKept DEF netVars

LEMMA MergedTyped ==
  ASSUME NEW l \in Started, l.rows # Nothing
  PROVE  /\ Merged(l) \in Drawings
         /\ [i \in Id |-> IF LocalWins(l, i) THEN Upsert(l.sym, l.local[i]) ELSE Nothing] \in Ops
<1>1. l.sym \in Symbol /\ l.local \in Drawings /\ l.rows \in Listed
  BY DEF Started
<1>2. \A i \in Id : LocalWins(l, i) => l.local[i] \in Drawing
  BY <1>1 DEF LocalWins, Drawings
<1>3. \A i \in Id : l.rows[i] # Nothing => LocalDrawing(l.rows[i]) \in Drawing
 <2>1. SUFFICES ASSUME NEW r \in Row, r.val > 0 PROVE LocalDrawing(r) \in Drawing
   BY <1>1 DEF Listed
 <2>2. r.val \in 1..MaxEdits
   BY <2>1, DrawingConstants DEF Row
 <2> QED BY <2>1, <2>2 DEF LocalDrawing, Drawing, Row
<1>4. Merged(l) \in Drawings
  BY <1>2, <1>3 DEF Merged, Drawings
<1>5. \A i \in Id : LocalWins(l, i) => Upsert(l.sym, l.local[i]) \in Op
  BY <1>1, <1>2, OperationTyped
<1> QED BY <1>4, <1>5 DEF Ops

LEMMA ReturnKeeps ==
  ASSUME DrawingInv, LoadReturns
  PROVE  DrawingInv'
<1> USE DEF DrawingInv
<1> DEFINE ops(l) == [i \in Id |-> IF LocalWins(l, i) THEN Upsert(l.sym, l.local[i]) ELSE Nothing]
<1>1. PICK l \in loads :
        /\ l.rows # Nothing
        /\ loads' = loads \ {l}
        /\ IF IsCurrent(l)
           THEN /\ view' = Select(Merged(l), <<symbol, ctx>>)
                /\ registry' = [registry EXCEPT ![l.sym] = Merged(l)]
                /\ pending' = Enqueued(ops(l))
                /\ Persist(pending', inFlight, retrying)
                /\ last' = [i \in Id |-> IF ops(l)[i] # Nothing THEN ops(l)[i] ELSE last[i]]
                /\ settled' = [i \in Id |-> settled[i] /\ ops(l)[i] = Nothing]
           ELSE UNCHANGED <<view, registry, pending, outbox, last, settled>>
        /\ timer' = Resumed(pending')
        /\ UNCHANGED <<gen, symbol, ctx, trash, saved, auth, inFlight, retrying,
                       netVars, boundVars>>
  BY DEF LoadReturns
<1>2. Merged(l) \in Drawings /\ ops(l) \in Ops
  BY <1>1, MergedTyped DEF RowsTypeOK
<1>3. timer' \in BOOLEAN
  BY <1>1 DEF Resumed, Scheduled, QueueInv, QueueTypeOK
<1>4. RowsTypeOK'
  BY <1>1 DEF RowsTypeOK, netVars, boundVars
<1>5. CASE IsCurrent(l)
 <2> DEFINE o == ops(l)
            m == Merged(l)
 <2>1. /\ pending' = Enqueued(o)
       /\ Persist(pending', inFlight, retrying)
       /\ last' = [i \in Id |-> IF o[i] # Nothing THEN o[i] ELSE last[i]]
       /\ settled' = [i \in Id |-> settled[i] /\ o[i] = Nothing]
       /\ UNCHANGED <<inFlight, retrying, net, late>>
   BY <1>1, <1>5 DEF netVars
 <2>2. /\ l.sym = symbol
       /\ registry' = [registry EXCEPT ![symbol] = m]
       /\ view' = Select(m, <<symbol, ctx>>)
   BY <1>1, <1>5 DEF IsCurrent
 <2>3. o \in Ops /\ m \in Drawings
   BY <1>2
 <2> HIDE DEF o, m, ops
 <2>4. QueueInv'
   BY <1>3, <2>1, <2>3, EnqueueKeeps
 <2>5. registry' \in [Symbol -> Drawings] /\ registry'[symbol] = m
   BY <2>2, <2>3 DEF ChartInv, ChartTypeOK
 <2>6. ChartInv'
   BY <1>1, <2>2, <2>5, ViewSelected DEF ChartInv, ChartTypeOK
 <2> QED BY <1>4, <2>4, <2>6
<1>6. CASE ~IsCurrent(l)
 <2>1. UNCHANGED <<view, registry, pending, outbox, last, settled, net, late, inFlight, retrying,
                   symbol, ctx, trash, saved, auth>>
   BY <1>1, <1>6 DEF netVars
 <2>2. QueueInv'
   BY <1>3, <2>1 DEF QueueInv, QueueTypeOK, NothingDropped, WireCarriesFlight,
                     RepliesAreSettled, Snapshot, Same
 <2>3. ChartInv'
   BY <2>1, ChartKept DEF chartVars
 <2> QED BY <1>4, <2>2, <2>3
<1> QED BY <1>5, <1>6

LEMMA LoadFailsKeeps ==
  ASSUME DrawingInv, LoadFails
  PROVE  DrawingInv'
<1> USE DEF DrawingInv
<1>1. PICK l \in loads :
        /\ loads' = loads \ {l}
        /\ timer' = Resumed(pending)
        /\ UNCHANGED <<gen, pending, inFlight, retrying, outbox, last, settled,
                       netVars, chartVars, edits>>
  BY DEF LoadFails
<1>2. timer' \in BOOLEAN
  BY <1>1 DEF Resumed, Scheduled, QueueInv, QueueTypeOK
<1>3. QueueInv'
  BY <1>1, <1>2 DEF QueueInv, QueueTypeOK, NothingDropped, WireCarriesFlight,
                    RepliesAreSettled, Snapshot, Same, netVars
<1>4. RowsTypeOK'
  BY <1>1 DEF RowsTypeOK, netVars
<1> QED BY <1>1, <1>3, <1>4, ChartKept

LEMMA AcknowledgeKeeps ==
  ASSUME DrawingInv, SendSucceeds
  PROVE  ChartInv'
<1> USE DEF DrawingInv
<1> DEFINE next == [i \in Id |-> Acknowledged(view[i], net.revs[i])]
<1>1. /\ view' = next
      /\ IF next # view THEN PersistLocal(symbol, ctx, next) ELSE UNCHANGED registry
      /\ net.revs \in [Id -> Nat]
      /\ UNCHANGED <<symbol, ctx, trash, saved, auth>>
  BY DEF SendSucceeds, Acknowledge, QueueInv, RepliesAreSettled
<1>2. next \in Drawings
 <2>1. ASSUME NEW d \in Drawing \cup {Nothing}, NEW n \in Nat
       PROVE  Acknowledged(d, n) \in Drawing \cup {Nothing}
   BY <2>1 DEF Acknowledged, Drawing
 <2> QED BY <1>1, <2>1 DEF ChartInv, ChartTypeOK, Drawings
<1> HIDE DEF next
<1>3. CASE next # view
 <2>1. PersistLocal(symbol', ctx', view')
   BY <1>1, <1>3 DEF PersistLocal
 <2> QED BY <1>1, <1>2, <2>1, ViewPersisted DEF ChartInv, ChartTypeOK
<1>4. CASE next = view
  BY <1>1, <1>4, ChartKept DEF chartVars
<1> QED BY <1>3, <1>4

-----------------------------------------------------------------------------
LEMMA DrawingInit == Init => DrawingInv
<1> SUFFICES ASSUME Init PROVE DrawingInv
  OBVIOUS
<1> USE DEF Init
<1>1. QueueInv
 <2>1. Snapshot(Empty, Nothing) = Empty
   BY DEF Snapshot, Empty
 <2>2. [i \in Id |-> FALSE] \in [Id -> BOOLEAN]
   OBVIOUS
 <2>3. \A i \in Id : Empty[i] = Nothing
   BY DEF Empty
 <2> QED BY <2>1, <2>2, <2>3, EmptyTyped
         DEF QueueInv, QueueTypeOK, NothingDropped, WireCarriesFlight, RepliesAreSettled
<1>2. ChartInv
 <2>1. <<DefaultLayout, DefaultChart>> \in Context
   BY DrawingConstants DEF Context
 <2>2. view \in Drawings /\ trash \in Drawings /\ registry \in [Symbol -> Drawings]
   BY EmptyTyped
 <2>3. registry[symbol] = Empty /\ \A i \in Id : Empty[i] = Nothing
   BY DrawingConstants DEF Empty
 <2>4. ViewMatchesRegistry
   BY <2>3 DEF ViewMatchesRegistry, Ids, Select
 <2> QED BY <2>1, <2>2, <2>4, DrawingConstants DEF ChartInv, ChartTypeOK
<1>3. RowsTypeOK
  BY DrawingConstants DEF RowsTypeOK, Empty
<1> QED BY <1>1, <1>2, <1>3 DEF DrawingInv

LEMMA SyncKeeps ==
  ASSUME DrawingInv, Sync
  PROVE  DrawingInv'
<1>1. CASE FlushNow
 <2>1. UNCHANGED <<chartVars, loadVars, server, edits>>
   BY <1>1 DEF FlushNow, boundVars
 <2> QED BY <1>1, <2>1, FlushKeeps, ChartKept DEF DrawingInv, RowsTypeOK, loadVars
<1>2. CASE ServerBatch
 <2>1. UNCHANGED chartVars
   BY <1>2 DEF ServerBatch
 <2> QED BY <1>2, <2>1, ServerBatchKeeps, ChartKept, SyncRowsKeep DEF DrawingInv
<1>3. CASE ResolveConflict
 <2>1. UNCHANGED <<chartVars, loadVars, server, edits>>
   BY <1>3 DEF ResolveConflict, boundVars
 <2> QED BY <1>3, <2>1, ResolveKeeps, ChartKept DEF DrawingInv, RowsTypeOK, loadVars
<1>4. CASE SendSucceeds
 <2>1. UNCHANGED <<loadVars, server, edits>>
   BY <1>4 DEF SendSucceeds, boundVars
 <2> QED BY <1>4, <2>1, SendSucceedsKeeps, AcknowledgeKeeps DEF DrawingInv, RowsTypeOK, loadVars
<1>5. CASE SendFails
 <2>1. UNCHANGED <<chartVars, loadVars, server, edits>>
   BY <1>5 DEF SendFails
 <2> QED BY <1>5, <2>1, SendFailsKeeps, ChartKept DEF DrawingInv, RowsTypeOK, loadVars
<1>6. CASE LateBatch
 <2>1. UNCHANGED chartVars
   BY <1>6 DEF LateBatch
 <2> QED BY <1>6, <2>1, LateBatchKeeps, ChartKept, SyncRowsKeep DEF DrawingInv
<1> QED BY <1>1, <1>2, <1>3, <1>4, <1>5, <1>6, ListKeeps, ReturnKeeps, LoadFailsKeeps DEF Sync

LEMMA DrawingStep ==
  ASSUME DrawingInv, [Next]_vars
  PROVE  DrawingInv'
<1>1. CASE UNCHANGED vars
 <2>1. UNCHANGED <<queueVars, net, late>> /\ UNCHANGED chartVars
       /\ UNCHANGED <<gen, loads, server, edits>>
   BY <1>1 DEF vars, netVars, loadVars, boundVars
 <2> QED BY <2>1, QueueKept, ChartKept DEF DrawingInv, RowsTypeOK
<1>2. CASE UserEdit
  BY <1>2, AddKeeps, UpdateKeeps, RemoveKeeps, RestoreKeeps DEF UserEdit
<1>3. CASE \E i \in Id : RemoteEdit(i)
  BY <1>3, RemoteKeeps
<1>4. CASE Navigate
  BY <1>4, SetSymbolKeeps, SignInKeeps, SetContextKeeps, AdoptKeeps, SaveLayoutKeeps,
     LoadLayoutKeeps, SignOutKeeps, AnonymousKeeps, ReloadPageKeeps DEF Navigate
<1>5. CASE Sync
  BY <1>5, SyncKeeps
<1> QED BY <1>1, <1>2, <1>3, <1>4, <1>5 DEF Next

LEMMA DrawingsHold == Spec => []DrawingInv
<1> QED BY DrawingInit, DrawingStep, PTL DEF Spec

(* The last mutation of every drawing is in local storage until the backend *)
(* has applied it: no failed or late request, conflict, operation queued    *)
(* during a send, load, sign-in, sign-out or reload loses one.              *)
THEOREM NoMutationLost == Spec => []NothingDropped
<1>1. DrawingInv => NothingDropped
  BY DEF DrawingInv, QueueInv
<1> QED BY <1>1, DrawingsHold, PTL

(* What is on screen is what local storage holds for the symbol, and every  *)
(* drawing stored for the symbol, layout and chart shown is on screen.      *)
THEOREM ScreenIsStored == Spec => []ViewMatchesRegistry
<1>1. DrawingInv => ViewMatchesRegistry
  BY DEF DrawingInv, ChartInv
<1> QED BY <1>1, DrawingsHold, PTL
=============================================================================
