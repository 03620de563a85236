------------------------------- MODULE MCAlerts ------------------------------
(***************************************************************************)
(* The alerts of the front end on small instances: the open browser with   *)
(* its store, trigger queue and backend (Alerts), and the closed-browser   *)
(* evaluator (PushEvaluator).  A behaviour is about one of the two: of the *)
(* first either several alerts over two ticks, or one alert that meets no  *)
(* fault over MaxTick, for a reconciliation to undo the time of a notice   *)
(* before the re-arm gap is over.                                          *)
(***************************************************************************)
EXTENDS Alerts, PushEvaluator

VARIABLE focus

MCKind == {[condition |-> "crossUp", target |-> 2, recurring |-> FALSE, technical |-> TRUE],
           [condition |-> "above", target |-> 2, recurring |-> TRUE, technical |-> FALSE]}

Single == CHOOSE id \in AlertId : TRUE
InScope ==
  \/ focus = "alerts" /\ tick <= 2
  \/ focus = "gap" /\ Lists \subseteq {Single} /\ faults = 0

MCInit ==
  /\ AlertsInit /\ PushInit
  /\ focus \in {"alerts", "gap", "push"}
  /\ focus # "push" => local.recurring
  /\ focus \in {"gap", "push"} => signedIn
MCNext ==
  /\ UNCHANGED focus
  /\ \/ focus # "push" /\ AlertsNext /\ InScope' /\ UNCHANGED pushVars
     \/ focus = "push" /\ PushNext /\ UNCHANGED alertsVars
mcVars == <<alertsVars, pushVars, focus>>
MCAlertsSync == focus # "push" /\ AlertsSync /\ UNCHANGED <<pushVars, focus>>
MCPass(w) == focus = "push" /\ Pass(w) /\ UNCHANGED <<alertsVars, focus>>
MCSpec == MCInit /\ [][MCNext]_mcVars
            /\ WF_mcVars(MCAlertsSync) /\ \A w \in Worker : WF_mcVars(MCPass(w))
==============================================================================
