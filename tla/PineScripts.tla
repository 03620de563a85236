----------------------------- MODULE PineScripts ----------------------------
(***************************************************************************)
(* The user's Pine scripts: the list chartStore keeps, the one editor that *)
(* shows one of them or a draft, and the save, run, publish, load,         *)
(* favorite and delete operations.  Each is a chain of requests; nothing   *)
(* keeps two of them from running at once, and the editor stays open to    *)
(* typing while they do.                                                   *)
(***************************************************************************)
EXTENDS Partial

CONSTANTS
  MaxScripts,    \* bound: scripts
  MaxTexts,      \* bound: different source texts typed
  MaxPineTasks,  \* bound: operations that run at once
  MaxPineSteps   \* bound: acts of the user

ScriptId == 1..MaxScripts
DefaultSource == 0   \* DEFAULT_PINE_SOURCE; the other texts are 1..MaxTexts

VARIABLES
  scripts,     \* id -> source (Nothing: only its row is known), favorite
  storedScripts,      \* id -> source, favorite at the server
  pine,        \* the editor: id (Nothing: a draft), source
  tasks,       \* operations that run: number -> kind, stage, id, source, favorite
  charted,     \* id -> source its indicators run
  published,   \* id -> source in the public store
  typedFor,    \* text -> the script the editor showed when it was typed
  gone,        \* scripts that have been out of the list since (history)
  backend,     \* backendSession
  pineSteps

pineVars == <<scripts, storedScripts, pine, tasks, charted, published, typedFor, gone, backend, pineSteps>>

PineInit ==
  /\ scripts = None /\ storedScripts = None /\ pine = [id |-> Nothing, source |-> DefaultSource]
  /\ tasks = None /\ charted = None /\ published = None /\ typedFor = <<>> /\ gone = {}
  /\ backend \in BOOLEAN /\ pineSteps = 0

PineStep == pineSteps < MaxPineSteps /\ pineSteps' = pineSteps + 1
Starts(task) ==
  /\ Cardinality(DOMAIN tasks) < MaxPineTasks
  /\ tasks' = Put(tasks, pineSteps + 1, task)
Moves(n, stage) == tasks' = [tasks EXCEPT ![n].stage = stage]
Ends(n) == tasks' = Drop(tasks, {n})
NoTask(stage) == [kind |-> stage, stage |-> stage, id |-> Nothing, source |-> Nothing, favorite |-> FALSE]

(***************************************************************************)
(* The editor                                                              *)
(***************************************************************************)
EditorShows(id, source) == pine' = [id |-> id, source |-> source]
TypeSource ==
  /\ PineStep /\ Len(typedFor) < MaxTexts
  /\ typedFor' = Append(typedFor, pine.id) /\ EditorShows(pine.id, Len(typedFor) + 1)
  /\ UNCHANGED <<scripts, storedScripts, tasks, charted, published, gone, backend>>
NewPineScript ==
  /\ PineStep /\ EditorShows(Nothing, DefaultSource)
  /\ UNCHANGED <<scripts, storedScripts, tasks, charted, published, typedFor, gone, backend>>
(* handleSave, handleRun, handlePublish take what the editor shows now. *)
SavesCurrent(kind) ==
  /\ PineStep
  /\ kind = "publish" => backend /\ \A n \in DOMAIN tasks : tasks[n].kind # "publish"
  /\ Starts([NoTask(IF kind = "run" THEN "compile" ELSE "define") EXCEPT
               !.kind = kind, !.id = pine.id, !.source = pine.source])
  /\ UNCHANGED <<scripts, storedScripts, pine, charted, published, typedFor, gone, backend>>
(* The compiler refuses the script, or the save goes on. *)
Compiled(n) ==
  /\ tasks[n].stage = "compile" /\ (Ends(n) \/ Moves(n, "define"))
  /\ UNCHANGED <<scripts, storedScripts, pine, charted, published, typedFor, gone, backend, pineSteps>>

(***************************************************************************)
(* savePineScriptAtom                                                      *)
(***************************************************************************)
FreshScript == {id \in ScriptId : id \notin DOMAIN scripts \union DOMAIN storedScripts
                  /\ \A n \in DOMAIN tasks : tasks[n].id # id}
(* The script an edit goes to: the one the save was asked for, while it is *)
(* in the list, or a new one.                                              *)
EditorsScript(task) == IF pine.id \in DOMAIN scripts THEN {pine.id} ELSE FreshScript
SavedScript(task) == IF task.id \in DOMAIN scripts THEN {task.id} ELSE FreshScript
FavoriteOf(id) == id \in DOMAIN scripts /\ scripts[id].favorite
(* What a save does when its request is over: the editor shows the script, *)
(* the indicators that run it take its source.                             *)
SaveConcluded(n, id, source) ==
  /\ EditorShows(id, source)
  /\ charted' = IF id \in DOMAIN charted THEN [charted EXCEPT ![id] = source] ELSE charted
  /\ CASE tasks[n].kind = "run" -> tasks' = [tasks EXCEPT ![n].stage = "add", ![n].id = id]
       [] tasks[n].kind = "publish" -> tasks' = [tasks EXCEPT ![n].stage = "publish", ![n].id = id]
       [] OTHER -> Ends(n)
Defined(n) ==
  /\ tasks[n].stage = "define"
  /\ \E id \in SavedScript(tasks[n]) :
       LET row == [source |-> tasks[n].source, favorite |-> FavoriteOf(id)]
       IN  /\ scripts' = Put(scripts, id, row)
           /\ IF backend
              THEN /\ tasks' = [tasks EXCEPT ![n].stage = "put", ![n].id = id, ![n].favorite = row.favorite]
                   /\ UNCHANGED <<pine, charted>>
              ELSE SaveConcluded(n, id, row.source)
  /\ UNCHANGED <<storedScripts, published, typedFor, gone, backend, pineSteps>>
PutReachesServer(n) ==
  /\ tasks[n].stage = "put" /\ Moves(n, "saved")
  /\ storedScripts' = Put(storedScripts, tasks[n].id, [source |-> tasks[n].source, favorite |-> tasks[n].favorite])
  /\ UNCHANGED <<scripts, pine, charted, published, typedFor, gone, backend, pineSteps>>
(* The answer enters the list, also when the script has left it meanwhile. *)
SaveAnswers(n) ==
  /\ tasks[n].stage = "saved"
  /\ scripts' = Put(scripts, tasks[n].id, [source |-> tasks[n].source, favorite |-> tasks[n].favorite])
  /\ SaveConcluded(n, tasks[n].id, tasks[n].source)
  /\ UNCHANGED <<storedScripts, published, typedFor, gone, backend, pineSteps>>
SaveFails(n) ==
  /\ tasks[n].stage = "put" /\ SaveConcluded(n, tasks[n].id, tasks[n].source)
  /\ UNCHANGED <<scripts, storedScripts, published, typedFor, gone, backend, pineSteps>>
AddsSaved(n) ==
  /\ tasks[n].stage = "add" /\ charted' = Put(charted, tasks[n].id, tasks[n].source) /\ Ends(n)
  /\ UNCHANGED <<scripts, storedScripts, pine, published, typedFor, gone, backend, pineSteps>>
(* The server publishes the source it has. *)
Publishes(n) ==
  /\ tasks[n].stage = "publish" /\ Ends(n)
  /\ published' = IF tasks[n].id \in DOMAIN storedScripts
                  THEN Put(published, tasks[n].id, storedScripts[tasks[n].id].source) ELSE published
  /\ UNCHANGED <<scripts, storedScripts, pine, charted, typedFor, gone, backend, pineSteps>>

(***************************************************************************)
(* The list                                                                *)
(***************************************************************************)
(* loadPineScriptAtom: a row without its source is fetched first. *)
LoadPineScript(id) ==
  /\ PineStep /\ id \in DOMAIN scripts
  /\ IF scripts[id].source # Nothing
     THEN EditorShows(id, scripts[id].source) /\ UNCHANGED tasks
     ELSE backend /\ Starts([NoTask("load") EXCEPT !.id = id]) /\ UNCHANGED pine
  /\ UNCHANGED <<scripts, storedScripts, charted, published, typedFor, gone, backend>>
LoadAnswers(n) ==
  /\ tasks[n].stage = "load" /\ Ends(n)
  /\ LET id == tasks[n].id
     IN  IF id \in DOMAIN storedScripts
         THEN EditorShows(id, storedScripts[id].source) /\ scripts' = Put(scripts, id, storedScripts[id])
         ELSE UNCHANGED <<pine, scripts>>
  /\ UNCHANGED <<storedScripts, charted, published, typedFor, gone, backend, pineSteps>>
(* handleAddSaved, the browser's rows: a script that has its source. *)
AddCustomIndicator(id) ==
  /\ PineStep /\ id \in DOMAIN scripts /\ scripts[id].source # Nothing
  /\ charted' = Put(charted, id, scripts[id].source)
  /\ UNCHANGED <<scripts, storedScripts, pine, tasks, published, typedFor, gone, backend>>
DeletePineScript(id) ==
  /\ PineStep /\ id \in DOMAIN scripts /\ scripts' = Drop(scripts, {id}) /\ gone' = gone \union {id}
  /\ IF pine.id = id THEN EditorShows(Nothing, DefaultSource) ELSE UNCHANGED pine
  /\ IF backend THEN Starts([NoTask("delete") EXCEPT !.id = id]) ELSE UNCHANGED tasks
  /\ UNCHANGED <<storedScripts, charted, published, typedFor, backend>>
DeleteReachesServer(n) ==
  /\ tasks[n].stage = "delete" /\ Ends(n) /\ storedScripts' \in {storedScripts, Drop(storedScripts, {tasks[n].id})}
  /\ UNCHANGED <<scripts, pine, charted, published, typedFor, gone, backend, pineSteps>>
TogglePineFavorite(id) ==
  /\ PineStep /\ id \in DOMAIN scripts
  /\ scripts' = [scripts EXCEPT ![id].favorite = ~ @]
  /\ IF backend THEN Starts([NoTask("star") EXCEPT !.id = id, !.favorite = ~ scripts[id].favorite])
     ELSE UNCHANGED tasks
  /\ UNCHANGED <<storedScripts, pine, charted, published, typedFor, gone, backend>>
StarReachesServer(n) ==
  /\ tasks[n].stage = "star"
  /\ IF tasks[n].id \in DOMAIN storedScripts
     THEN /\ storedScripts' = [storedScripts EXCEPT ![tasks[n].id].favorite = tasks[n].favorite]
          /\ tasks' = [tasks EXCEPT ![n].stage = "starred", ![n].source = storedScripts[tasks[n].id].source]
     ELSE Ends(n) /\ UNCHANGED storedScripts
  /\ UNCHANGED <<scripts, pine, charted, published, typedFor, gone, backend, pineSteps>>
StarAnswers(n) ==
  /\ tasks[n].stage = "starred" /\ Ends(n)
  /\ scripts' = Put(scripts, tasks[n].id, [source |-> tasks[n].source, favorite |-> tasks[n].favorite])
  /\ UNCHANGED <<storedScripts, pine, charted, published, typedFor, gone, backend, pineSteps>>
(* applyRemotePineScriptsAtom: the rows of the list carry no source. *)
ApplyRemotePineScripts ==
  /\ PineStep /\ backend /\ scripts' = [id \in DOMAIN storedScripts |-> [storedScripts[id] EXCEPT !.source = Nothing]]
  /\ gone' = gone \union (DOMAIN scripts \ DOMAIN storedScripts)
  /\ UNCHANGED <<storedScripts, pine, tasks, charted, published, typedFor, backend>>
SessionChanges ==
  /\ PineStep /\ backend' = ~ backend
  /\ UNCHANGED <<scripts, storedScripts, pine, tasks, charted, published, typedFor, gone>>

PineNext ==
  \/ TypeSource \/ NewPineScript \/ ApplyRemotePineScripts \/ SessionChanges
  \/ \E kind \in {"save", "run", "publish"} : SavesCurrent(kind)
  \/ \E id \in ScriptId :
       \/ LoadPineScript(id) \/ AddCustomIndicator(id)
       \/ DeletePineScript(id) \/ TogglePineFavorite(id)
  \/ \E n \in DOMAIN tasks :
       \/ Compiled(n) \/ Defined(n) \/ PutReachesServer(n) \/ SaveAnswers(n) \/ SaveFails(n)
       \/ AddsSaved(n) \/ Publishes(n)
       \/ LoadAnswers(n) \/ DeleteReachesServer(n) \/ StarReachesServer(n) \/ StarAnswers(n)

PineSpec == PineInit /\ [][PineNext]_pineVars

(* The source of one script never ends up in another: whatever the         *)
(* requests of a save wait for, and whatever is loaded, typed or deleted   *)
(* while they do, each text in the list, at the server, on a chart or in   *)
(* the public store was typed with that script in the editor, in a draft,  *)
(* or for a script that left the list before its save                      *)
(* (savePineScriptAtom works on the id and source it was called with).     *)
SourceBelongs ==
  LET TypedFor(id, source) == source \in DOMAIN typedFor => typedFor[source] \in {id, Nothing} \union gone
  IN  /\ \A id \in DOMAIN scripts : TypedFor(id, scripts[id].source)
      /\ \A id \in DOMAIN storedScripts : TypedFor(id, storedScripts[id].source)
      /\ \A id \in DOMAIN charted : TypedFor(id, charted[id])
      /\ \A id \in DOMAIN published : TypedFor(id, published[id])
==============================================================================
