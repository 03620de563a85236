---------------------------- MODULE ReplaySession ----------------------------
(***************************************************************************)
(* replaySocket and replayClientStore: the replay that the browser shows.  *)
(* The server owns a session and its log of events; the browser keeps a    *)
(* projection of it, a socket for each session it ever activated, and two  *)
(* queues of commands.                                                     *)
(*                                                                         *)
(* An event is "bar" (a bar was revealed), "reset" (a track was rebuilt by *)
(* a seek or a restart), "trade", "speed", "playing" or "paused".  A bar   *)
(* is known by the event that revealed it; the speed shown is not kept.    *)
(* Versions are not modelled: a conflict is answered by a retry, after the *)
(* refresh when it has to be.                                              *)
(***************************************************************************)
EXTENDS Partial

CONSTANTS
  MaxSessions,     \* bound: sessions ever created
  MaxEvents,       \* bound: events of a session
  MaxReplaySteps   \* bound: acts of the user, of the clock and of the network
ASSUME SessionConstants == MaxEvents \in Nat

VARIABLES
  replayDb,        \* the server: created sessions -> open, log
  replay,          \* lifecycleVersion, snapshot with its bars, override, connection,
                   \*   activeSocket; overtaken (history: a response was published)
  replaySockets,         \* session -> stopped, line (how far it has delivered), chain, timer
  replayTasks,     \* requests under way
  controls,        \* trailing commands and the queues
  replaySteps

replayVars == <<replayDb, replay, replaySockets, replayTasks, controls, replaySteps>>
ReplayStep == replaySteps < MaxReplaySteps /\ replaySteps' = replaySteps + 1

ReplayInit ==
  /\ replayDb = None
  /\ replay = [life |-> 0, view |-> Nothing, override |-> Nothing, connection |-> "idle",
               active |-> Nothing, overtaken |-> FALSE, unclosed |-> {}]
  /\ replaySockets = None
  /\ replayTasks = {}
  /\ controls = [play |-> Nothing, step |-> Nothing, restart |-> Nothing, speed |-> Nothing,
                 control |-> <<>>, trading |-> <<>>]
  /\ replaySteps = 0

(***************************************************************************)
(* The server.                                                             *)
(***************************************************************************)
LogOf(s) == replayDb[s].log
LastSeq(s) == Len(LogOf(s))
BarsAt(log, n) ==
  {i \in 1..n : log[i] \in {"bar", "reset"} /\ \A j \in i+1..n : log[j] # "reset"}
StatusAt(log, n) ==
  LET said == {i \in 1..n : log[i] \in {"playing", "paused"}}
  IN  IF said = {} THEN "paused" ELSE log[CHOOSE i \in said : \A j \in said : j <= i]
SnapshotOf(s) == [id |-> s, seq |-> LastSeq(s), status |-> StatusAt(LogOf(s), LastSeq(s))]
Emits(s, kind) == [replayDb EXCEPT ![s].log = Append(@, kind)]
HasRoom(s) == LastSeq(s) < MaxEvents

(* What a command does to the session: nothing when refused, or in vain. *)
Commanded(s, type) ==
  LET status == SnapshotOf(s).status
  IN  CASE replayDb[s].open /\ type = "play" /\ status = "paused" -> Emits(s, "playing")
        [] replayDb[s].open /\ type = "pause" /\ status = "playing" -> Emits(s, "paused")
        [] replayDb[s].open /\ type = "step" /\ status = "paused" -> Emits(s, "bar")
        [] replayDb[s].open /\ type \in {"seek", "restart"} -> Emits(s, "reset")
        [] replayDb[s].open /\ type = "order" -> Emits(s, "trade")
        [] replayDb[s].open /\ type = "speed" -> Emits(s, "speed")
        [] OTHER -> replayDb
Refused(s, type) == ~ replayDb[s].open \/ (type = "step" /\ SnapshotOf(s).status = "playing")
ClockTicks(s) ==
  /\ ReplayStep
  /\ replayDb[s].open /\ HasRoom(s) /\ SnapshotOf(s).status = "playing"
  /\ replayDb' = Emits(s, "bar")
  /\ UNCHANGED <<replay, replaySockets, replayTasks, controls>>
Close(s) == {[why |-> "close", id |-> s]}

(***************************************************************************)
(* replayClientStore.  Each takes and returns the state of the client.     *)
(***************************************************************************)
Showing(r, s) == r.view # Nothing /\ r.view.id = s
Stale(r, snap) == Showing(r, snap.id) /\ snap.seq < r.view.seq
(* applyControlOverrides: an override ends when the server says the same. *)
Overridden(r, view) ==
  IF r.override \in {Nothing, view.status} THEN [r EXCEPT !.view = view, !.override = Nothing]
  ELSE [r EXCEPT !.view = [view EXCEPT !.status = r.override]]
ReplaceSnapshot(r, snap) ==
  IF Stale(r, snap) THEN r
  ELSE LET bars == IF Showing(r, snap.id) THEN r.view.bars ELSE {}
           own == IF Showing(r, snap.id) THEN r ELSE [r EXCEPT !.override = Nothing]
       IN  [Overridden(own, [id |-> snap.id, seq |-> snap.seq, status |-> snap.status, bars |-> bars])
              EXCEPT !.overtaken = TRUE]
ReplaceSession(r, snap, bars) ==
  IF Stale(r, snap) THEN r
  ELSE [r EXCEPT !.override = Nothing, !.overtaken = FALSE,
                 !.view = [id |-> snap.id, seq |-> snap.seq, status |-> snap.status, bars |-> bars]]
ReplaceBars(r, s, bars) == IF Showing(r, s) THEN [r EXCEPT !.view.bars = bars] ELSE r
SetOptimisticStatus(r, status) ==
  IF r.view = Nothing THEN r ELSE [r EXCEPT !.override = status, !.view.status = status]
ClearedStore(r) ==
  [r EXCEPT !.view = Nothing, !.override = Nothing, !.connection = "idle", !.overtaken = FALSE]

(* applyEvent: what it says of an event, and what it does with the next one. *)
AnyEventFits(r, s, n) == IF ~ Showing(r, s) THEN "invalid"
                         ELSE IF n <= r.view.seq THEN "duplicate" ELSE "applied"
EventResult(r, s, n) ==
  CASE ~ Showing(r, s) -> "invalid"
    [] Showing(r, s) /\ n <= r.view.seq -> "duplicate"
    [] Showing(r, s) /\ n = r.view.seq + 1 -> "applied"
    [] Showing(r, s) /\ n > r.view.seq + 1 -> "gap"
EventApplied(r, s, n) ==
  IF EventResult(r, s, n) # "applied" THEN r
  ELSE LET kind == LogOf(s)[n]
           next == [r EXCEPT !.view.seq = n, !.view.bars = IF kind = "bar" THEN @ \union {n} ELSE @]
       IN  IF kind \in {"playing", "paused"} THEN Overridden(next, [next.view EXCEPT !.status = kind]) ELSE next

(***************************************************************************)
(* Requests.  A projection is prepared in two: the snapshot, and the bars  *)
(* of its tracks, which a newer state of the session may have.             *)
(***************************************************************************)
Asks(why, s, life) ==
  [why |-> why, id |-> s, life |-> life, at |-> "asks", seq |-> 0, status |-> "paused", bars |-> {}, parent |-> Nothing]
Prepares(why, s, life) == [Asks(why, s, life) EXCEPT !.at = "bars", !.seq = LastSeq(s), !.status = SnapshotOf(s).status]
HydratesTrack(s) == [Prepares("hydrate", s, 0) EXCEPT !.seq = 0]
IsPrepared(t) == t.why \in {"reconnect", "refresh", "hydrate", "answer"}
Swap(t, next) == (replayTasks \ {t}) \union next
SnapshotArrives(t) ==
  /\ IsPrepared(t) /\ t.at = "asks"
  /\ replayTasks' = Swap(t, {Prepares(t.why, t.id, t.life)})
  /\ UNCHANGED <<replayDb, replay, replaySockets, controls, replaySteps>>
BarsArrive(t) ==
  /\ IsPrepared(t) /\ t.at = "bars"
  /\ replayTasks' = Swap(t, {[t EXCEPT !.at = "ready", !.bars = BarsAt(LogOf(t.id), LastSeq(t.id))]})
  /\ UNCHANGED <<replayDb, replay, replaySockets, controls, replaySteps>>

(***************************************************************************)
(* Sockets.  stop() marks a socket and closes its line; it does not stop   *)
(* the handler that is running.                                            *)
(***************************************************************************)
NewSocket == [stopped |-> FALSE, line |-> "closed", heard |-> 0, chain |-> FALSE, timer |-> FALSE]
Stopped(S, s) ==
  IF s = Nothing THEN S ELSE [S EXCEPT ![s].stopped = TRUE, ![s].line = "closed", ![s].timer = FALSE]
Opened(S, s) == IF S[s].stopped THEN S ELSE [S EXCEPT ![s].line = "opening"]
(* The first message of a line is a snapshot; its bars are asked for. *)
SnapshotMessage(s) ==
  /\ replaySockets[s].line = "opening" /\ ~ replaySockets[s].chain
  /\ replay' = [replay EXCEPT !.connection = "connected"]
  /\ replaySockets' = [replaySockets EXCEPT ![s].line = "open", ![s].heard = LastSeq(s), ![s].chain = TRUE]
  /\ replayTasks' = replayTasks \union {Prepares("refresh", s, 0)}
  /\ UNCHANGED <<replayDb, controls, replaySteps>>
(* A message of the line: the next event, or a later one when some were lost. *)
EventArrives(s, n) ==
  /\ replaySockets[s].line = "open" /\ ~ replaySockets[s].chain
  /\ n > replaySockets[s].heard /\ n <= LastSeq(s)
  /\ IF n = replaySockets[s].heard + 1 THEN UNCHANGED replaySteps ELSE ReplayStep
  /\ LET result == EventResult(replay, s, n)
         kind == LogOf(s)[n]
         next == CASE result = "gap" -> {[Asks("recover", s, 0) EXCEPT !.seq = replay.view.seq]}
                   [] result = "applied" /\ kind = "reset" -> {HydratesTrack(s)}
                   [] result = "applied" /\ kind = "trade" -> {Asks("refresh", s, 0)}
                   [] OTHER -> {}
     IN  /\ replay' = [EventApplied(replay, s, n) EXCEPT
                         !.connection = IF result = "gap" THEN "recovering" ELSE "connected"]
         /\ replaySockets' = [replaySockets EXCEPT ![s].heard = n, ![s].chain = next # {}]
         /\ replayTasks' = replayTasks \union next
  /\ UNCHANGED <<replayDb, controls>>
(* getReplayEvents after the position shown at the gap: every event not    *)
(* applied since is, and so is the one that came; a reset among them is    *)
(* hydrated last.  An override ends with the first event that agrees.      *)
EventsApplied(r, s, missing) ==
  LET log == LogOf(s)
      said == {i \in missing : log[i] \in {"playing", "paused"}}
      agreed == r.override = Nothing \/ \E i \in said : log[i] = r.override
      next == [r EXCEPT !.view.seq = LastSeq(s), !.view.bars = @ \union {i \in missing : log[i] = "bar"}]
  IN  IF missing = {} THEN r
      ELSE IF said = {} THEN next
      ELSE IF agreed THEN [next EXCEPT !.override = Nothing, !.view.status = StatusAt(log, LastSeq(s))]
      ELSE [next EXCEPT !.view.status = r.override]
EventsArrive(t) ==
  /\ t.why = "recover"
  /\ LET fits == Showing(replay, t.id) /\ t.seq <= replay.view.seq
         missing == IF fits THEN replay.view.seq + 1..LastSeq(t.id) ELSE {}
         next == CASE ~ fits -> {Asks("refresh", t.id, 0)}
                   [] fits -> IF \E i \in missing : LogOf(t.id)[i] = "reset" THEN {HydratesTrack(t.id)} ELSE {}
     IN  /\ replay' = [IF fits THEN EventsApplied(replay, t.id, missing) ELSE replay
                         EXCEPT !.connection = "connected"]
         /\ replaySockets' = [replaySockets EXCEPT ![t.id].chain = next # {}]
         /\ replayTasks' = Swap(t, next)
  /\ UNCHANGED <<replayDb, controls, replaySteps>>
(* A refresh or hydration of the handler lands, whatever was stopped. *)
HandlerDone(t) ==
  /\ t.why \in {"refresh", "hydrate"} /\ t.at = "ready"
  /\ replay' = IF t.why = "refresh" THEN ReplaceSession(replay, t, t.bars) ELSE ReplaceBars(replay, t.id, t.bars)
  /\ replaySockets' = [replaySockets EXCEPT ![t.id].chain = FALSE]
  /\ replayTasks' = replayTasks \ {t}
  /\ UNCHANGED <<replayDb, controls, replaySteps>>
(* The catch of the chain closes the line. *)
HandlerFails(t) ==
  /\ ReplayStep /\ t.why \in {"refresh", "hydrate", "recover"}
  /\ replay' = [replay EXCEPT !.connection = "error"]
  /\ replaySockets' = [replaySockets EXCEPT ![t.id].chain = FALSE, ![t.id].line = "closed",
                                ![t.id].timer = ~ replaySockets[t.id].stopped]
  /\ replayTasks' = replayTasks \ {t}
  /\ UNCHANGED <<replayDb, controls>>
LineCloses(s) ==
  /\ ReplayStep /\ replaySockets[s].line # "closed"
  /\ replay' = [replay EXCEPT !.connection = "disconnected"]
  /\ replaySockets' = [replaySockets EXCEPT ![s].line = "closed", ![s].timer = TRUE]
  /\ UNCHANGED <<replayDb, replayTasks, controls>>
Reconnect(s) ==
  /\ replaySockets[s].timer
  /\ replaySockets' = [replaySockets EXCEPT ![s].timer = FALSE]
  /\ replayTasks' = IF replaySockets[s].stopped THEN replayTasks ELSE replayTasks \union {Asks("reconnect", s, 0)}
  /\ UNCHANGED <<replayDb, replay, controls, replaySteps>>
Reconnected(t) ==
  /\ t.why = "reconnect" /\ t.at = "ready"
  /\ LET r == ReplaceSession(replay, t, t.bars)
     IN  replay' = IF replaySockets[t.id].stopped THEN r ELSE [r EXCEPT !.connection = "connected"]
  /\ replaySockets' = Opened(replaySockets, t.id)
  /\ replayTasks' = replayTasks \ {t}
  /\ UNCHANGED <<replayDb, controls, replaySteps>>
ReconnectFails(t) ==
  /\ ReplayStep /\ t.why = "reconnect"
  /\ replay' = [replay EXCEPT !.connection = "error"]
  /\ replaySockets' = [replaySockets EXCEPT ![t.id].timer = TRUE]
  /\ replayTasks' = replayTasks \ {t}
  /\ UNCHANGED <<replayDb, controls>>

(***************************************************************************)
(* The life of a session.                                                  *)
(***************************************************************************)
CancelPendingReplayControls == [controls EXCEPT !.play = Nothing, !.step = Nothing, !.restart = Nothing, !.speed = Nothing]
ShownId == IF replay.view = Nothing THEN Nothing ELSE replay.view.id
Closes(s) == IF s = Nothing THEN {} ELSE Close(s)
StartReplaySession ==
  /\ ReplayStep
  /\ replay' = [replay EXCEPT !.life = @ + 1, !.active = Nothing, !.connection = "connecting"]
  /\ replaySockets' = Stopped(replaySockets, replay.active)
  /\ controls' = CancelPendingReplayControls
  /\ replayTasks' = replayTasks \union Closes(ShownId) \union {Asks("start", Nothing, replay.life + 1)}
  /\ UNCHANGED replayDb
ForkActiveReplay ==
  /\ ReplayStep /\ replay.view # Nothing
  /\ replay' = [replay EXCEPT !.life = @ + 1, !.connection = "connecting"]
  /\ replayTasks' = replayTasks \union {[Asks("fork", Nothing, replay.life + 1) EXCEPT !.parent = replay.view.id]}
  /\ UNCHANGED <<replayDb, replaySockets, controls>>
ExitReplaySession ==
  /\ ReplayStep
  /\ replay' = [ClearedStore(replay) EXCEPT !.life = @ + 1, !.active = Nothing]
  /\ replaySockets' = Stopped(replaySockets, replay.active)
  /\ controls' = CancelPendingReplayControls
  /\ replayTasks' = replayTasks \union Closes(ShownId)
  /\ UNCHANGED replayDb
(* The session exists, and the answer holds its first bars. *)
Created(t) ==
  LET s == Cardinality(DOMAIN replayDb) + 1
  IN  /\ t.why \in {"start", "fork"} /\ t.id = Nothing /\ s <= MaxSessions
      /\ replayDb' = Put(replayDb, s, [open |-> TRUE, log |-> <<>>])
      /\ replayTasks' = Swap(t, {[t EXCEPT !.id = s, !.at = "ready"]})
      /\ UNCHANGED <<replay, replaySockets, controls, replaySteps>>
(* No data of a track that is not required: a start that is current asks again. *)
CreationFails(t, required) ==
  /\ ReplayStep /\ t.why \in {"start", "fork"} /\ t.id = Nothing
  /\ IF t.why = "start" /\ ~ required /\ t.life = replay.life THEN UNCHANGED <<replay, replayTasks>>
     ELSE /\ replayTasks' = replayTasks \ {t}
          /\ replay' = IF t.life # replay.life THEN replay
                       ELSE IF t.why = "fork"
                       THEN [replay EXCEPT !.connection = IF replay.active = Nothing THEN "error" ELSE "connected"]
                       ELSE [ClearedStore(replay) EXCEPT !.connection = "error"]
  /\ UNCHANGED <<replayDb, replaySockets, controls>>
(* activateSnapshot *)
IsCurrent(life) == life = replay.life
Activated(t) ==
  /\ t.why \in {"start", "fork"} /\ t.id # Nothing /\ t.at = "ready"
  /\ LET parent == Closes(t.parent)
     IN  IF ~ IsCurrent(t.life)
         THEN replayTasks' = Swap(t, Close(t.id) \union parent) /\ UNCHANGED <<replay, replaySockets>>
         ELSE /\ replay' = [ReplaceSession(replay, t, t.bars) EXCEPT !.active = t.id, !.connection = "connected"]
              /\ replaySockets' = Opened(Put(Stopped(replaySockets, replay.active), t.id, NewSocket), t.id)
              /\ replayTasks' = Swap(t, parent)
  /\ UNCHANGED <<replayDb, controls, replaySteps>>
CloseAnswers(t, ok) ==
  /\ t.why = "close"
  /\ replayTasks' = replayTasks \ {t}
  /\ IF ok THEN /\ replayDb' = [replayDb EXCEPT ![t.id].open = FALSE]
                /\ UNCHANGED <<replay, replaySteps>>
     ELSE /\ ReplayStep /\ UNCHANGED replayDb
          /\ replay' = [replay EXCEPT !.unclosed = @ \union {t.id}]
  /\ UNCHANGED <<replaySockets, controls>>

(***************************************************************************)
(* Controls: shown at once, sent when the trailing timer fires, and then   *)
(* one at a time, for the session that was shown when they were queued.    *)
(***************************************************************************)
SetActiveReplayPlaying(status) ==
  /\ ReplayStep /\ replay.view # Nothing
  /\ replay' = SetOptimisticStatus(replay, status)
  /\ controls' = [controls EXCEPT !.play = status]
  /\ UNCHANGED <<replayDb, replaySockets, replayTasks>>
StepActiveReplay ==
  /\ ReplayStep /\ replay.view # Nothing
  /\ replay' = SetOptimisticStatus(replay, "paused")
  /\ controls' = [controls EXCEPT !.play = Nothing,
       !.step = IF @ = "pause" \/ replay.view.status = "playing" THEN "pause" ELSE "step"]
  /\ UNCHANGED <<replayDb, replaySockets, replayTasks>>
RestartActiveReplay ==
  /\ ReplayStep /\ replay.view # Nothing
  /\ replay' = SetOptimisticStatus(replay, "paused")
  /\ controls' = [controls EXCEPT !.play = Nothing, !.step = Nothing, !.restart = ShownId]
  /\ UNCHANGED <<replayDb, replaySockets, replayTasks>>
SetActiveReplaySpeed ==
  /\ ReplayStep /\ replay.view # Nothing
  /\ controls' = [controls EXCEPT !.speed = ShownId]
  /\ UNCHANGED <<replayDb, replay, replaySockets, replayTasks>>
Queued(c, q, types) == [c EXCEPT ![q] = @ \o [i \in 1..Len(types) |-> [type |-> types[i], id |-> ShownId, at |-> "waits", seq |-> 0, status |-> "paused"]]]
FlushPlay ==
  /\ controls.play # Nothing
  /\ LET c == [controls EXCEPT !.play = Nothing]
     IN  controls' = IF ShownId = Nothing THEN c
                     ELSE Queued(c, "control", <<IF controls.play = "playing" THEN "play" ELSE "pause">>)
  /\ UNCHANGED <<replayDb, replay, replaySockets, replayTasks, replaySteps>>
(* A pause that has to come first is awaited, then the step is asked for. *)
FlushStep ==
  /\ controls.step # Nothing
  /\ LET c == [controls EXCEPT !.step = Nothing]
     IN  controls' = IF ShownId = Nothing THEN c
                     ELSE Queued(c, "control", IF controls.step = "pause" THEN <<"pause", "step">> ELSE <<"step">>)
  /\ UNCHANGED <<replayDb, replay, replaySockets, replayTasks, replaySteps>>
FlushRestart ==
  /\ controls.restart # Nothing
  /\ LET c == [controls EXCEPT !.restart = Nothing]
     IN  controls' = IF ShownId = controls.restart THEN Queued(c, "control", <<"restart">>) ELSE c
  /\ UNCHANGED <<replayDb, replay, replaySockets, replayTasks, replaySteps>>
FlushSpeed ==
  /\ controls.speed # Nothing
  /\ LET c == [controls EXCEPT !.speed = Nothing]
     IN  controls' = IF ShownId = controls.speed THEN Queued(c, "control", <<"speed">>) ELSE c
  /\ UNCHANGED <<replayDb, replay, replaySockets, replayTasks, replaySteps>>
(* moveActiveReplayTo a later time, and a step back without trades *)
Seek ==
  /\ ReplayStep /\ ShownId # Nothing
  /\ controls' = Queued(controls, "control", <<"seek">>)
  /\ UNCHANGED <<replayDb, replay, replaySockets, replayTasks>>
PlaceOrder ==
  /\ ReplayStep /\ ShownId # Nothing
  /\ controls' = Queued(controls, "trading", <<"order">>)
  /\ UNCHANGED <<replayDb, replay, replaySockets, replayTasks>>

First(q) == controls[q][1]
Dequeued(q) == [controls EXCEPT ![q] = Tail(@)]
RunCommand(q) ==
  /\ controls[q] # <<>> /\ First(q).at = "waits"
  /\ HasRoom(First(q).id)
  /\ LET s == First(q).id
     IN  IF ShownId # s THEN controls' = Dequeued(q) /\ UNCHANGED replayDb
         ELSE /\ replayDb' = Commanded(s, First(q).type)
              /\ controls' = [controls EXCEPT ![q][1] =
                   [@ EXCEPT !.at = IF Refused(s, First(q).type) THEN "refused" ELSE "sent",
                             !.seq = Len(replayDb'[s].log),
                             !.status = StatusAt(replayDb'[s].log, Len(replayDb'[s].log))]]
  /\ UNCHANGED <<replay, replaySockets, replayTasks, replaySteps>>
(* A version conflict without the version: the snapshot is read, and shown. *)
VersionRefreshed(q) ==
  /\ ReplayStep /\ controls[q] # <<>> /\ First(q).at = "waits" /\ ShownId = First(q).id
  /\ replay' = ReplaceSnapshot(replay, SnapshotOf(First(q).id))
  /\ UNCHANGED <<replayDb, replaySockets, replayTasks, controls>>
(* The answer of a control is published when no socket would bring it. *)
IsControlSettled == replay.active # Nothing /\ replay.connection = "connected"
ControlAnswers ==
  /\ controls.control # <<>> /\ First("control").at = "sent"
  /\ controls' = Dequeued("control")
  /\ LET c == First("control")
     IN  IF ShownId # c.id \/ IsControlSettled THEN UNCHANGED <<replay, replayTasks>>
         ELSE /\ replay' = ReplaceSnapshot(replay, c)
              /\ replayTasks' = IF c.type \in {"step", "seek", "restart"}
                                THEN replayTasks \union {[HydratesTrack(c.id) EXCEPT !.why = "answer"]}
                                ELSE replayTasks
  /\ UNCHANGED <<replayDb, replaySockets, replaySteps>>
(* Only play, pause and speed take their override back when refused. *)
ControlRefused ==
  /\ controls.control # <<>> /\ First("control").at = "refused"
  /\ controls' = Dequeued("control")
  /\ LET c == First("control")
         r == [replay EXCEPT !.override = Nothing]
     IN  replay' = IF c.type \notin {"play", "pause"} THEN replay
                   ELSE IF ShownId = c.id THEN ReplaceSnapshot(r, SnapshotOf(c.id)) ELSE r
  /\ UNCHANGED <<replayDb, replaySockets, replayTasks, replaySteps>>
AnswerHydrated(t) ==
  /\ t.why = "answer" /\ t.at = "ready"
  /\ replay' = [ReplaceBars(replay, t.id, t.bars) EXCEPT !.overtaken = TRUE]
  /\ replayTasks' = replayTasks \ {t}
  /\ UNCHANGED <<replayDb, replaySockets, controls, replaySteps>>
TradingAnswers ==
  /\ controls.trading # <<>> /\ First("trading").at # "waits"
  /\ controls' = Dequeued("trading")
  /\ replay' = IF First("trading").at = "sent" THEN ReplaceSnapshot(replay, First("trading")) ELSE replay
  /\ UNCHANGED <<replayDb, replaySockets, replayTasks, replaySteps>>

(***************************************************************************)
(* What the views offer.                                                   *)
(***************************************************************************)
IsPreparing == replay.connection \in {"connecting", "recovering"}
TogglePlaying ==
  \E status \in {"playing", "paused"} : SetActiveReplayPlaying(status) /\ status # replay.view.status
ReplayControls ==
  \/ RestartActiveReplay \/ StepActiveReplay \/ SetActiveReplaySpeed \/ ExitReplaySession
  \/ replay.connection # "connecting" /\ TogglePlaying
ReplayFloatingToolbar ==
  RestartActiveReplay \/ TogglePlaying \/ StepActiveReplay \/ SetActiveReplaySpeed \/ ExitReplaySession
MobileReplayDock == ~ IsPreparing /\ (TogglePlaying \/ StepActiveReplay \/ SetActiveReplaySpeed)
MobileReplayWorkspace ==
  \/ ~ IsPreparing /\ (StepActiveReplay \/ TogglePlaying \/ SetActiveReplaySpeed \/ RestartActiveReplay)
  \/ ExitReplaySession
(* A time, a bar or a random one: a session that is shown is moved there. *)
MoveActiveReplayTo == Seek \/ ForkActiveReplay
ReplayTimingMenu == IF ShownId = Nothing THEN StartReplaySession ELSE MoveActiveReplayTo

ReplayNext ==
  \/ \E s \in DOMAIN replayDb : ClockTicks(s)
  \/ \E s \in DOMAIN replaySockets :
       \/ SnapshotMessage(s) \/ LineCloses(s) \/ Reconnect(s)
       \/ \E n \in 1..MaxEvents : EventArrives(s, n)
  \/ \E t \in replayTasks :
       \/ SnapshotArrives(t) \/ BarsArrive(t) \/ EventsArrive(t) \/ HandlerDone(t) \/ HandlerFails(t)
       \/ Reconnected(t) \/ ReconnectFails(t) \/ Created(t) \/ Activated(t) \/ AnswerHydrated(t)
       \/ \E ok \in BOOLEAN : CreationFails(t, ok) \/ CloseAnswers(t, ok)
  \/ StartReplaySession \/ ReplayTimingMenu
  \/ ReplayControls \/ ReplayFloatingToolbar \/ MobileReplayDock \/ MobileReplayWorkspace
  \/ FlushPlay \/ FlushStep \/ FlushRestart \/ FlushSpeed
  \/ PlaceOrder \/ \E q \in {"control", "trading"} : RunCommand(q) \/ VersionRefreshed(q)
  \/ ControlAnswers \/ ControlRefused \/ TradingAnswers

ReplaySpec == ReplayInit /\ [][ReplayNext]_replayVars

(***************************************************************************)
(* Properties.                                                             *)
(***************************************************************************)
(* What is shown of a session never goes back in its log, whatever the     *)
(* order in which answers, events and recoveries land.                     *)
ProjectionNeverGoesBack ==
  [][replay.view # Nothing /\ Showing(replay', replay.view.id)
       => replay'.view.seq >= replay.view.seq]_replayVars

(* Once the socket has nothing left to hear or to wait for, the bars shown *)
(* are the ones of the log, after gaps, resets and reconnections too,      *)
(* unless the answer of a command was published ahead of its events.       *)
BarsFollowTheirEvents ==
  LET s == ShownId
  IN  /\ s # Nothing /\ ~ replay.overtaken /\ s \in DOMAIN replaySockets
      /\ ~ replaySockets[s].chain /\ replaySockets[s].line = "open" /\ replay.view.seq = LastSeq(s)
      /\ ~ \E t \in replayTasks : t.why = "answer"
      => replay.view.bars = BarsAt(LogOf(s), LastSeq(s))

(* startReplaySession: "Create the only active backend-owned Replay        *)
(* session."  When nothing is under way, every session but the one shown   *)
(* was closed, or its close was refused.                                   *)
OnlyActiveSession ==
  replayTasks = {} => \A s \in DOMAIN replayDb : replayDb[s].open => s = ShownId \/ s \in replay.unclosed
=============================================================================
