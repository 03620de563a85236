-------------------------------- MODULE MCDesk -------------------------------
(***************************************************************************)
(* The trading side of the front end on small instances.  A behaviour is   *)
(* about one component, named by focus; the others stay as they start.     *)
(***************************************************************************)
EXTENDS TradeSecurity, TradeDesk, RiskGuard, AccountRail, CopierPanel, OrderEntry

CONSTANT Focus   \* the components a run is about
VARIABLE focus

\* Priced by ticks; by contract size with a coarse step, commission and margin.
SampleInstruments ==
  {[min |-> 1, max |-> 9, step |-> 1, tick |-> 2, contract |-> 0, commission |-> 0, margin |-> 0],
   [min |-> 3, max |-> 9, step |-> 2, tick |-> 0, contract |-> 3, commission |-> 1, margin |-> 300]}

MCInit ==
  /\ SecurityInit /\ DeskInit /\ GuardInit /\ RailInit /\ CopyInit /\ EntryInit
  /\ focus \in Focus
  /\ focus # "security" => ~ row.configured
  /\ focus # "desk" => gateway.positions[CHOOSE a \in Account : TRUE] = Ticket
  /\ focus # "copier" => copyGroup.enabled
  /\ entryDesk.askFirst <=> entryDesk.instrument.min = 1
  /\ focus # "entry" => entryDesk.instrument.min = 1 /\ entryDesk.guarded = {}
  /\ focus \notin {"rail", "routes"} => registry.order = CHOOSE s \in Orders : TRUE

Only(part) == focus = part /\ UNCHANGED focus
Security(A) == Only("security") /\ A /\ UNCHANGED <<deskVars, guardVars, railVars, copyVars, entryVars>>
Desk(A) == Only("desk") /\ A /\ UNCHANGED <<securityVars, guardVars, railVars, copyVars, entryVars>>
Risk(A) == Only("risk") /\ A /\ UNCHANGED <<securityVars, deskVars, railVars, copyVars, entryVars>>
Rail(part, A) == Only(part) /\ A /\ UNCHANGED <<securityVars, deskVars, guardVars, copyVars, entryVars>>
Copy(A) == Only("copier") /\ A /\ UNCHANGED <<securityVars, deskVars, guardVars, railVars, entryVars>>
Entry(A) == Only("entry") /\ A /\ UNCHANGED <<securityVars, deskVars, guardVars, railVars, copyVars>>

MCNext ==
  \/ Security(SecurityNext)
  \/ Desk(DeskNext)
  \/ Risk(GuardNext)
  \/ Rail("rail", LayoutNext)
  \/ Rail("routes", RoutesNext)
  \/ Rail("manage", ManageNext)
  \/ Copy(CopyNext)
  \/ Entry(EntryNext)

mcVars == <<securityVars, deskVars, guardVars, railVars, copyVars, entryVars, focus>>
MCSpec ==
  /\ MCInit /\ [][MCNext]_mcVars
  /\ WF_mcVars(Desk(ReadState)) /\ WF_mcVars(Desk(StateReply)) /\ WF_mcVars(Desk(OrderReply))
  /\ WF_mcVars(Rail("rail", SaveSettles))
  /\ WF_mcVars(Rail("rail", PollLayout)) /\ WF_mcVars(Rail("rail", LayoutArrives))

(* A behaviour about the account rail ends up in the server's order        *)
(* whatever fails (TradeWorkspace.tsx:317).                                *)
RailEndsAsServer == focus = "rail" => RailFollowsServer
==============================================================================
