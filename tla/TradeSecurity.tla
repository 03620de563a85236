---------------------------- MODULE TradeSecurity ----------------------------
(***************************************************************************)
(* The trade password in the browser: the approval of a trade across the   *)
(* tabs of one browser (services/security/tradePassword with the Web Lock) *)
(* and the settings and approval dialogs of TradeSecurityDialog, against   *)
(* the trade security row and the unlock session of the backend.           *)
(*                                                                         *)
(* A password is right or wrong, a field is blank or filled; the settings  *)
(* dialog of one tab is modelled, the approval prompt of every tab.        *)
(***************************************************************************)
EXTENDS Partial

CONSTANTS
  Tab,
  MaxApprovals, \* bound: approvals asked for, dialogs opened or unmounted, saves
  MaxRefusals   \* bound: wrong passwords and failed requests

ASSUME NothingIsNoTab == Nothing \notin Tab

VARIABLES
  row,          \* trade_security_settings and the unlock session, with a revision
  approval,     \* authorizeTradeTransaction of every tab, and the Web Lock:
                \*   phase, lock (its holder), prompt (dialogs on screen),
                \*   typed (promptPassword not blank), mounted (registered)
  panel,        \* the settings dialog: open, disable, recovery, challenge,
                \*   filled (fields not blank), shown (status), loading, loads,
                \*   overlapped (history: two loads at once), saving
  spent         \* approvals and refusals so far

securityVars == <<row, approval, panel, spent>>

RecoverySecrets == {"code", "recovery", "recoveryConfirm"}
SecretFields == {"new", "confirm", "current", "disable"} \union RecoverySecrets
PanelClosed ==
  [open |-> FALSE, disable |-> FALSE, recovery |-> FALSE, challenge |-> FALSE,
   filled |-> {}, shown |-> Nothing, loading |-> FALSE, loads |-> <<>>,
   overlapped |-> FALSE, saving |-> Nothing]

Spend == spent.approvals < MaxApprovals /\ spent' = [spent EXCEPT !.approvals = @ + 1]
Refuse == spent.refusals < MaxRefusals /\ spent' = [spent EXCEPT !.refusals = @ + 1]

SecurityInit ==
  /\ row \in {r \in [enabled : BOOLEAN, configured : BOOLEAN, unlocked : BOOLEAN, rev : {0}] :
                (r.enabled => r.configured) /\ (r.unlocked => r.enabled)}
  /\ approval = [phase |-> [t \in Tab |-> "idle"], lock |-> Nothing, prompt |-> {},
                 typed |-> {}, mounted |-> Tab]
  /\ panel = PanelClosed
  /\ spent = [approvals |-> 0, refusals |-> 0]

(***************************************************************************)
(* The backend: Authorize, Configure, Lock, recovery.                      *)
(***************************************************************************)
TradeUnlocked == ~ row.enabled \/ row.unlocked
RowUnlocked == [row EXCEPT !.unlocked = row.enabled]
RowLocked == [row EXCEPT !.unlocked = FALSE, !.rev = @ + 1]
RowConfigured(r) ==
  IF row.enabled = r.enabled /\ ~ r.password THEN row
  ELSE [enabled |-> r.enabled, configured |-> row.configured \/ r.password,
        unlocked |-> FALSE, rev |-> row.rev + 1]
RowAccepts(r) ==
  CASE r.op = "lock" -> TRUE
    [] r.op \in {"send", "recover"} -> row.configured
    [] r.op = "configure" -> /\ row.enabled /\ (r.enabled => r.password) => r.current
                             /\ r.enabled => row.configured \/ r.password
RowAfter(r) ==
  CASE r.op \in {"lock", "recover"} -> RowLocked
    [] r.op = "send" -> row
    [] r.op = "configure" -> RowConfigured(r)

(***************************************************************************)
(* authorizeTradeTransaction: one approval per tab; without a password the *)
(* request is refused with 428 and the tab queues for the Web Lock.        *)
(***************************************************************************)
AuthorizeTrade(t) ==
  /\ Spend
  /\ approval.phase[t] = "idle"
  /\ approval' = [approval EXCEPT !.phase[t] = "asking"]
  /\ UNCHANGED <<row, panel>>

Concluded(t) ==
  [approval EXCEPT !.phase[t] = "idle", !.lock = IF @ = t THEN Nothing ELSE @,
                   !.prompt = @ \ {t}, !.typed = @ \ {t}]

FirstReply(t) ==
  /\ approval.phase[t] = "asking"
  /\ \/ /\ ~ TradeUnlocked
        /\ approval' = [approval EXCEPT !.phase[t] = "queued"]
        /\ UNCHANGED spent
     \/ /\ (TradeUnlocked /\ UNCHANGED spent) \/ Refuse
        /\ approval' = Concluded(t)
  /\ UNCHANGED <<row, panel>>

AcquireLock(t) ==
  /\ approval.phase[t] = "queued"
  /\ approval.lock = Nothing
  /\ approval' = [approval EXCEPT !.lock = t, !.phase[t] = "rechecking"]
  /\ UNCHANGED <<row, panel, spent>>

(* requestPassword: the dialog opens blank. *)
Asked(t) ==
  [approval EXCEPT !.phase[t] = "prompted", !.prompt = @ \union {t}, !.typed = @ \ {t}]

(* unlockAndAuthorize asks again before it prompts; without a registered   *)
(* prompt it gives up.                                                     *)
Recheck(t) ==
  /\ approval.phase[t] = "rechecking"
  /\ \/ /\ ~ TradeUnlocked /\ t \in approval.mounted
        /\ approval' = Asked(t)
        /\ UNCHANGED spent
     \/ /\ \/ (TradeUnlocked \/ t \notin approval.mounted) /\ UNCHANGED spent
           \/ Refuse
        /\ approval' = Concluded(t)
  /\ UNCHANGED <<row, panel>>

TypePrompt(t) ==
  /\ t \in approval.prompt
  /\ approval' = [approval EXCEPT !.typed = @ \union {t}]
  /\ UNCHANGED <<row, panel, spent>>

(* settlePrompt: cancelled, or with the password that was typed. *)
CancelPrompt(t) ==
  /\ t \in approval.prompt
  /\ approval' = Concluded(t)
  /\ UNCHANGED <<row, panel, spent>>
SubmitPrompt(t) ==
  /\ t \in approval.prompt \intersect approval.typed
  /\ approval' = [approval EXCEPT !.phase[t] = "verifying", !.prompt = @ \ {t},
                                  !.typed = @ \ {t}]
  /\ UNCHANGED <<row, panel, spent>>

(* The reply to a password: granted, 403 and another prompt, or an error.  *)
(* Prompting again without a registered dialog is such an error.           *)
VerifyReply(t) ==
  /\ approval.phase[t] = "verifying"
  /\ \/ row' = RowUnlocked /\ approval' = Concluded(t) /\ UNCHANGED spent
     \/ /\ Refuse /\ ~ TradeUnlocked /\ t \in approval.mounted
        /\ approval' = Asked(t)
        /\ UNCHANGED row
     \/ Refuse /\ row' \in {row, RowUnlocked} /\ approval' = Concluded(t)
  /\ UNCHANGED panel

(* The registration effect; its cleanup answers an open prompt with null.  *)
UnmountedUnresolved(t) ==
  [approval EXCEPT !.mounted = @ \ {t}, !.prompt = @ \ {t}, !.typed = @ \ {t}]
Unmounted(t) ==
  [IF t \in approval.prompt THEN Concluded(t) ELSE approval EXCEPT !.mounted = @ \ {t}]
UnmountPrompt(t) ==
  /\ Spend
  /\ t \in approval.mounted
  /\ approval' = Unmounted(t)
  /\ UNCHANGED <<row, panel>>
MountPrompt(t) ==
  /\ t \notin approval.mounted
  /\ approval' = [approval EXCEPT !.mounted = @ \union {t}]
  /\ UNCHANGED <<row, panel, spent>>

(***************************************************************************)
(* The settings dialog.  Opening it blanks every field and loads the       *)
(* status; the forms are on screen when no load is awaited.                *)
(***************************************************************************)
OpenSettings ==
  /\ Spend
  /\ ~ panel.open
  /\ panel' = [PanelClosed EXCEPT !.open = TRUE, !.loading = TRUE, !.shown = panel.shown,
                 !.loads = Append(panel.loads, Nothing),
                 !.overlapped = panel.overlapped \/ panel.loads # <<>>]
  /\ UNCHANGED <<row, approval>>

(* GET execution/trade-security: read at the backend, applied on arrival.  *)
ReadStatus(i) ==
  /\ panel.loads[i] = Nothing
  /\ panel' = [panel EXCEPT !.loads[i] = row]
  /\ UNCHANGED <<row, approval, spent>>
StatusArrives(i) ==
  LET rest == SubSeq(panel.loads, 1, i - 1) \o SubSeq(panel.loads, i + 1, Len(panel.loads))
      Arrived(status) == [panel EXCEPT !.loads = rest, !.loading = FALSE, !.shown = status]
  IN
  /\ \/ /\ panel.loads[i] # Nothing
        /\ panel' = Arrived(panel.loads[i])
        /\ UNCHANGED spent
     \/ Refuse /\ panel' = Arrived(panel.shown)
  /\ UNCHANGED <<row, approval>>

FormsShown == panel.open /\ ~ panel.loading
Editable == FormsShown /\ panel.saving = Nothing
Protected == panel.shown # Nothing /\ panel.shown.enabled
MainForm == ~ panel.recovery /\ ~ panel.disable
CurrentAsked == Protected /\ panel.shown.configured

(* The fields of the form on screen. *)
FieldOnScreen(f) ==
  CASE f \in RecoverySecrets -> panel.recovery /\ panel.challenge
    [] f = "disable" -> panel.disable
    [] f = "current" -> MainForm /\ CurrentAsked
    [] f \in {"new", "confirm"} -> MainForm
TypeSecret(f) ==
  /\ FormsShown
  /\ FieldOnScreen(f)
  /\ panel' = [panel EXCEPT !.filled = @ \union {f}]
  /\ UNCHANGED <<row, approval, spent>>

(* dismissSettings leaves the innermost step first: cancelRecovery,        *)
(* cancelDisableConfirmation, closeSettings.                               *)
RecoveryLeft == [panel EXCEPT !.recovery = FALSE, !.challenge = FALSE,
                              !.filled = @ \ RecoverySecrets]
DisableLeft == [panel EXCEPT !.disable = FALSE, !.filled = @ \ {"disable"}]
PanelLeft == [PanelClosed EXCEPT !.shown = panel.shown, !.loading = panel.loading,
                !.loads = panel.loads, !.overlapped = panel.overlapped]
DismissSettings ==
  /\ panel.open /\ panel.saving = Nothing
  /\ panel' = IF panel.recovery THEN RecoveryLeft
              ELSE IF panel.disable THEN DisableLeft ELSE PanelLeft
  /\ UNCHANGED <<row, approval, spent>>

OpenRecovery ==
  /\ Editable
  /\ ~ panel.recovery
  /\ panel.disable \/ CurrentAsked
  /\ panel' = [panel EXCEPT !.disable = FALSE, !.recovery = TRUE, !.challenge = FALSE,
                            !.filled = @ \ ({"current", "disable"} \union RecoverySecrets)]
  /\ UNCHANGED <<row, approval, spent>>

(* toggleProtection while protected: the confirmation form opens or closes. *)
ToggleConfirmation ==
  /\ Editable
  /\ Protected /\ ~ panel.recovery
  /\ panel' = IF panel.disable THEN DisableLeft
              ELSE [panel EXCEPT !.disable = TRUE, !.filled = @ \ {"current", "disable"}]
  /\ UNCHANGED <<row, approval, spent>>

(***************************************************************************)
(* The requests a form may start, with what it has to hold.                *)
(***************************************************************************)
Configure(step, enabled, password, current) ==
  [op |-> "configure", step |-> step, enabled |-> enabled, password |-> password,
   current |-> current]
Plain(op) == [Configure(op, FALSE, FALSE, FALSE) EXCEPT !.op = op]
NewPasswordFilled == {"new", "confirm"} \subseteq panel.filled

PanelRequests ==
  {r \in {Configure("toggle", TRUE, ~ panel.shown.configured, FALSE)} :
     ~ panel.shown.enabled /\ ~ panel.recovery /\ (panel.shown.configured \/ NewPasswordFilled)}
  \union
  {r \in {Configure("change", panel.shown.configured => panel.shown.enabled, TRUE,
                    "current" \in panel.filled)} :
     MainForm /\ NewPasswordFilled /\ (CurrentAsked => "current" \in panel.filled)}
  \union {r \in {Plain("lock")} : MainForm /\ Protected /\ panel.shown.unlocked}
StepRequests ==
  {r \in {Configure("disable", FALSE, FALSE, TRUE)} : panel.disable /\ "disable" \in panel.filled}
  \union {r \in {Plain("send")} : panel.recovery}
  \union {r \in {Plain("recover")} :
            panel.recovery /\ panel.challenge /\ RecoverySecrets \subseteq panel.filled}

SubmitPanel ==
  /\ Spend
  /\ Editable
  /\ \E r \in StepRequests \union (IF panel.shown = Nothing THEN {} ELSE PanelRequests) :
       panel' = [panel EXCEPT !.saving = r,
                   !.filled = IF r.op = "send" THEN @ \ RecoverySecrets ELSE @]
  /\ UNCHANGED <<row, approval>>

(* saveConfiguration, lockSession, sendRecoveryCode, submitRecovery and    *)
(* submitDisableProtection after a reply.                                  *)
ShownAfter(r, next) ==
  CASE r.op = "lock" -> [panel.shown EXCEPT !.unlocked = FALSE, !.rev = next.rev]
    [] r.op = "send" -> panel.shown
    [] OTHER -> [next EXCEPT !.unlocked = FALSE]
PanelSaved(r) ==
  CASE r.op = "configure" ->
         [panel EXCEPT !.filled = @ \ {"new", "confirm", "current", "disable"},
                       !.disable = @ /\ r.step # "disable"]
    [] r.op = "send" -> [panel EXCEPT !.challenge = TRUE]
    [] r.op = "recover" -> RecoveryLeft
    [] OTHER -> panel
PanelNotSaved(r) ==
  CASE r.step = "change" /\ CurrentAsked -> {[panel EXCEPT !.filled = @ \ {"current"}]}
    [] r.step = "disable" -> {[panel EXCEPT !.filled = @ \ {"disable"}]}
    [] r.op = "recover" ->
         {[panel EXCEPT !.filled = @ \ {"code"}],
          [panel EXCEPT !.filled = @ \ RecoverySecrets, !.challenge = FALSE]}
    [] OTHER -> {panel}

SettingsSaved ==
  /\ panel.saving # Nothing
  /\ RowAccepts(panel.saving)
  /\ row' = RowAfter(panel.saving)
  /\ panel' = [PanelSaved(panel.saving) EXCEPT !.saving = Nothing,
                                               !.shown = ShownAfter(panel.saving, row')]
  /\ UNCHANGED <<approval, spent>>

(* 403, 428 or an error, with or without an effect at the backend. *)
SettingsNotSaved ==
  /\ panel.saving # Nothing
  /\ \/ ~ RowAccepts(panel.saving) /\ UNCHANGED <<row, spent>>
     \/ Refuse /\ row' \in {row} \union {x \in {RowAfter(panel.saving)} : RowAccepts(panel.saving)}
  /\ \E p \in PanelNotSaved(panel.saving) : panel' = [p EXCEPT !.saving = Nothing]
  /\ UNCHANGED approval

(* trade_unlock_sessions: the unlock idles out. *)
UnlockExpires ==
  /\ Spend
  /\ row.unlocked
  /\ row' = [row EXCEPT !.unlocked = FALSE]
  /\ UNCHANGED <<approval, panel>>

Approve(t) ==
  \/ FirstReply(t) \/ AcquireLock(t) \/ Recheck(t) \/ CancelPrompt(t) \/ VerifyReply(t)
SecurityNext ==
  \/ \E t \in Tab : \/ AuthorizeTrade(t) \/ Approve(t) \/ TypePrompt(t) \/ SubmitPrompt(t)
                    \/ UnmountPrompt(t) \/ MountPrompt(t)
  \/ OpenSettings \/ DismissSettings \/ OpenRecovery \/ ToggleConfirmation
  \/ \E i \in DOMAIN panel.loads : ReadStatus(i) \/ StatusArrives(i)
  \/ \E f \in SecretFields : TypeSecret(f)
  \/ SubmitPanel \/ SettingsSaved \/ SettingsNotSaved \/ UnlockExpires

SecuritySpec == SecurityInit /\ [][SecurityNext]_securityVars

(***************************************************************************)
(* Properties.                                                             *)
(***************************************************************************)

(* One question at a time in the whole browser: a tab asks for the trade   *)
(* password exactly while its approval waits for the answer and holds the  *)
(* Web Lock, also when the dialog is unmounted or the tab prompts again    *)
(* (requestPassword, settlePrompt, the registration effect).               *)
OnePromptPerBrowser ==
  \A t \in Tab :
    /\ t \in approval.prompt <=> approval.phase[t] = "prompted"
    /\ approval.phase[t] \in {"rechecking", "prompted", "verifying"} <=> approval.lock = t

(* No password or code outlives the form it was typed into: once a step of *)
(* the dialog is left, by success, failure, Back or Close, its secrets are *)
(* blank, and no step is open behind a closed dialog.                      *)
SecretsDieWithTheirForm ==
  /\ ~ panel.open => panel.filled = {} /\ MainForm /\ panel.saving = Nothing
  /\ ~ panel.disable => "disable" \notin panel.filled
  /\ ~ panel.recovery => panel.filled \intersect RecoverySecrets = {} /\ ~ panel.challenge
  /\ ~ (panel.recovery /\ panel.disable)
  /\ approval.typed \subseteq approval.prompt

(* The protection status on screen is never replaced by an older one: the  *)
(* forms wait for the load of the dialog (the loading branch), so that no  *)
(* save overtakes it; reopening the dialog while a load is under way is    *)
(* the exception, whose first reply ends the wait for the second.          *)
StatusNeverRegresses ==
  [][~ panel'.overlapped /\ panel.shown # Nothing => panel'.shown.rev >= panel.shown.rev]_securityVars

(* Every approval comes to an end, in every tab, once the user answers the *)
(* prompts: the Web Lock is handed on through cancellations, wrong         *)
(* passwords, failed requests and unmounted dialogs.                       *)
ApprovalsSettle == \A t \in Tab : approval.phase[t] # "idle" ~> approval.phase[t] = "idle"
==============================================================================
