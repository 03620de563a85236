----------------------------- MODULE Watchlists ------------------------------
(***************************************************************************)
(* watchlistStore, watchlistLayout, watchlistSyncQueue and Watchlist.tsx:  *)
(* the lists of symbols with their sections, edited and dragged in the     *)
(* browser, and written to the server as whole layouts, one queue a list.  *)
(*                                                                         *)
(* A list has symbols, sections that start at an index of the symbols, a   *)
(* name and a sort key.  A list that the server does not know yet has a    *)
(* local identity.                                                         *)
(***************************************************************************)
EXTENDS Partial, SequencesExt

CONSTANTS
  Listed,         \* symbols
  SectionId,      \* identities of sections, each used once
  MaxWatchSteps   \* bound: edits, drags, catalogs, failures

VARIABLES
  watch,          \* the browser: lists, active, drag, editing, used, next
  watchDb,        \* the server: id -> list
  watchNet,       \* queues (id -> layouts), creating, patches; failed, overtaken (history)
  watchSteps

watchVars == <<watch, watchDb, watchNet, watchSteps>>
WatchStep == watchSteps < MaxWatchSteps /\ watchSteps' = watchSteps + 1

(***************************************************************************)
(* watchlistLayout: a list as one sequence of sections and symbols.        *)
(***************************************************************************)
SymbolToken(s) == [kind |-> "symbol", key |-> s]
SectionToken(id) == [kind |-> "section", key |-> id]
(* toLayoutTokens *)
Tokens(l) ==
  LET headers(i) == SelectSeq(l.sections, LAMBDA s : s.index = i)
      at(i) == [k \in 1..Len(headers(i)) |-> SectionToken(headers(i)[k].id)]
  IN  FlattenSeq([i \in 1..(Len(l.symbols) + 1) |->
        at(i - 1) \o (IF i <= Len(l.symbols) THEN <<SymbolToken(l.symbols[i])>> ELSE <<>>)])
(* fromLayoutTokens: a section starts after the symbols before it. *)
SymbolsIn(ts) ==
  LET only == SelectSeq(ts, LAMBDA t : t.kind = "symbol")
  IN  [i \in 1..Len(only) |-> only[i].key]
SectionsIn(ts) ==
  LET places == SetToSortSeq({i \in 1..Len(ts) : ts[i].kind = "section"}, <)
  IN  [k \in 1..Len(places) |->
         [id |-> ts[places[k]].key, index |-> Len(SymbolsIn(SubSeq(ts, 1, places[k])))]]
FromTokens(l, ts) == [l EXCEPT !.symbols = SymbolsIn(ts), !.sections = SectionsIn(ts)]

Without(ts, token) == SelectSeq(ts, LAMBDA t : t # token)
RowPlace(ts, token) == CHOOSE i \in 1..Len(ts) : ts[i] = token
PutAt(ts, i, token) == SubSeq(ts, 1, i) \o <<token>> \o SubSeq(ts, i + 1, Len(ts))
Knows(l, token) == token \in ToSet(Tokens(l))
(* The target of a drop, when it still is in the list, and what it means. *)
MovedNextTo(l, token, target, after) ==
  IF token = target \/ ~ Knows(l, token) \/ ~ Knows(l, target) THEN l
  ELSE LET rest == Without(Tokens(l), token)
           at == RowPlace(rest, target)
       IN  FromTokens(l, PutAt(rest, IF after THEN at ELSE at - 1, token))
(* moveSymbolToSectionInList: to its start *)
MovedToSection(l, symbol, id) == MovedNextTo(l, SymbolToken(symbol), SectionToken(id), TRUE)
(* moveSymbolToUnsectionedStartInList *)
MovedToUnsectioned(l, symbol) ==
  IF symbol \notin ToSet(l.symbols) THEN l
  ELSE LET rest == Without(Tokens(l), SymbolToken(symbol))
           firsts == {i \in 1..Len(rest) : rest[i].kind = "section"}
           at == IF firsts = {} THEN 0 ELSE (CHOOSE i \in firsts : \A j \in firsts : i <= j) - 1
       IN  FromTokens(l, PutAt(rest, at, SymbolToken(symbol)))
(* moveSectionInList to the start, and to a boundary between symbols *)
MovedToStart(l, id) ==
  IF ~ Knows(l, SectionToken(id)) THEN l
  ELSE FromTokens(l, <<SectionToken(id)>> \o Without(Tokens(l), SectionToken(id)))
BoundaryIn(ts, n) ==
  LET places == {i \in 1..Len(ts) : ts[i].kind = "symbol" /\ Len(SymbolsIn(SubSeq(ts, 1, i))) = n + 1}
  IN  IF places = {} THEN Len(ts) ELSE (CHOOSE i \in places : TRUE) - 1
MovedToBoundary(l, id, n) ==
  IF ~ Knows(l, SectionToken(id)) THEN l
  ELSE LET rest == Without(Tokens(l), SectionToken(id))
       IN  FromTokens(l, PutAt(rest, BoundaryIn(rest, n), SectionToken(id)))

(* removeSymbolFromList and removeSectionFromList *)
WithoutSymbol(l, symbol) ==
  IF symbol \notin ToSet(l.symbols) THEN l
  ELSE LET at == CHOOSE i \in 1..Len(l.symbols) : l.symbols[i] = symbol
       IN  [l EXCEPT !.symbols = Remove(@, symbol),
                     !.sections = [k \in 1..Len(@) |->
                        [@[k] EXCEPT !.index = IF @ > at - 1 THEN @ - 1 ELSE @]]]
WithoutSection(l, id) == [l EXCEPT !.sections = SelectSeq(@, LAMBDA s : s.id # id)]
(* sanitizeListForCatalog *)
Sanitized(l, catalog) ==
  FoldLeft(WithoutSymbol, l, SelectSeq(l.symbols, LAMBDA s : s \notin catalog))

(***************************************************************************)
(* displayRows: sorted within each section; by price in any order.         *)
(***************************************************************************)
SegmentOf(l, i) == Cardinality({k \in 1..Len(l.sections) : l.sections[k].index <= i - 1})
DisplayedOrders(l) ==
  IF l.sort = "manual" THEN {l.symbols}
  ELSE {s \in [1..Len(l.symbols) -> ToSet(l.symbols)] :
          /\ ToSet(s) = ToSet(l.symbols)
          /\ \A i, j \in 1..Len(l.symbols) :
               s[i] = l.symbols[j] => SegmentOf(l, i) = SegmentOf(l, j)}
(* materializeDisplayedSymbolOrder, of the order the drag saw *)
Materialized(l, order) ==
  LET shown == SelectSeq(order, LAMBDA s : s \in ToSet(l.symbols))
  IN  [l EXCEPT !.symbols = shown \o SelectSeq(@, LAMBDA s : s \notin ToSet(shown))]

(***************************************************************************)
(* The lists and the active one; activeList falls back to the first.       *)
(***************************************************************************)
LocalId(n) == [known |-> FALSE, n |-> n]
ServerId(n) == [known |-> TRUE, n |-> n]
EmptyList(id) == [id |-> id, name |-> "a", symbols |-> <<>>, sections |-> <<>>, sort |-> "price"]
IndexOf(id) ==
  IF \E i \in 1..Len(watch.lists) : watch.lists[i].id = id
  THEN CHOOSE i \in 1..Len(watch.lists) : watch.lists[i].id = id ELSE 1
ActiveList == watch.lists[IndexOf(watch.active)]
Layout(l) == [symbols |-> l.symbols, sections |-> l.sections, sort |-> l.sort]

WatchInit ==
  /\ \E symbols \in {<<>>, <<CHOOSE s \in Listed : TRUE>>, SetToSeq(Listed)} :
       watchDb = (ServerId(0) :> [EmptyList(ServerId(0)) EXCEPT !.symbols = symbols])
  /\ watch = [lists |-> <<EmptyList(LocalId(0))>>, active |-> LocalId(0), drag |-> Nothing,
              editing |-> Nothing, used |-> {}, next |-> 1, loaded |-> FALSE]
  /\ watchNet = [queues |-> None, creating |-> {}, patches |-> {},
                 failed |-> FALSE, overtaken |-> {}]
  /\ watchSteps = 0

(***************************************************************************)
(* replaceRemoteLayoutFromLocal: the layout joins the queue of its list.   *)
(***************************************************************************)
QueueOf(id) == IF id \in DOMAIN watchNet.queues THEN watchNet.queues[id] ELSE <<>>
(* The lists that wait for this layout to be stored are sent after it.     *)
EnqueuedBefore(net, l, waiting) ==
  IF ~ watch.loaded \/ ~ l.id.known THEN net
  ELSE [net EXCEPT !.queues =
          Put(@, l.id, Append(IF l.id \in DOMAIN @ THEN @[l.id] ELSE <<>>,
                              [layout |-> Layout(l), waiting |-> waiting]))]
WaitingLists(net) ==
  UNION {UNION {{w.id : w \in ToSet(net.queues[id][k].waiting)} : k \in DOMAIN net.queues[id]} :
           id \in DOMAIN net.queues}
ListQueued(net, l) ==
  [EnqueuedBefore(net, l, <<>>) EXCEPT !.overtaken = @ \union ({l.id} \intersect WaitingLists(net))]
(* syncSanitizedRemoteLayouts: one list after the other *)
EnqueuedInTurn(net, ls) ==
  IF ls = <<>> THEN net ELSE EnqueuedBefore(net, Head(ls), Tail(ls))
(* updateActive, then the remote layout *)
ListEdited(l) ==
  /\ watch' = [watch EXCEPT !.lists[IndexOf(watch.active)] = l]
  /\ watchNet' = ListQueued(watchNet, l)
  /\ UNCHANGED watchDb

(* applyRemoteWatchlists, once when the workspace opens *)
ApplyRemoteLists ==
  /\ ~ watch.loaded
  /\ watch' = [watch EXCEPT !.loaded = TRUE, !.active = ServerId(0),
                            !.lists = <<watchDb[ServerId(0)]>>]
  /\ UNCHANGED <<watchDb, watchNet, watchSteps>>
(* refreshMt5SymbolCatalog: every list loses what the catalog lacks. *)
CatalogArrives ==
  /\ WatchStep
  /\ \E catalog \in (SUBSET Listed) \ {{}} :
       LET after == [i \in DOMAIN watch.lists |-> Sanitized(watch.lists[i], catalog)]
           sent == SelectSeq(after, LAMBDA l : l.id.known /\ l \notin ToSet(watch.lists))
       IN  /\ after # watch.lists
           /\ watch' = [watch EXCEPT !.lists = after]
           /\ watchNet' = EnqueuedInTurn(watchNet, sent)
  /\ UNCHANGED watchDb

(***************************************************************************)
(* Edits of the active list.                                               *)
(***************************************************************************)
(* What the search for a symbol offers *)
Addable == Listed \ ToSet(ActiveList.symbols)
AddSymbol ==
  /\ WatchStep
  /\ \E s \in Addable :
       ListEdited([ActiveList EXCEPT !.symbols = Append(@, s)])
RemoveSymbol ==
  WatchStep /\ \E s \in ToSet(ActiveList.symbols) : ListEdited(WithoutSymbol(ActiveList, s))
ClearList ==
  /\ WatchStep
  /\ ActiveList.symbols # <<>>
  /\ ListEdited([ActiveList EXCEPT !.symbols = <<>>, !.sections = <<>>])
(* A new section goes before the charted symbol, or at the end. *)
AddSection ==
  /\ WatchStep
  /\ \E id \in SectionId \ watch.used, i \in 0..Len(ActiveList.symbols) :
       LET l == [ActiveList EXCEPT !.sections = Append(@, [id |-> id, index |-> i])]
       IN  /\ watch' = [watch EXCEPT !.lists[IndexOf(watch.active)] = l, !.used = @ \union {id}]
           /\ watchNet' = ListQueued(watchNet, l)
  /\ UNCHANGED watchDb
RemoveSection ==
  /\ WatchStep
  /\ \E k \in DOMAIN ActiveList.sections :
       ListEdited(WithoutSection(ActiveList, ActiveList.sections[k].id))
(* The title of a section is edited in place and committed by its blur;    *)
(* what it says is left out.                                               *)
BeginSectionRename ==
  /\ WatchStep
  /\ watch.editing = Nothing
  /\ \E k \in DOMAIN ActiveList.sections :
       watch' = [watch EXCEPT !.editing = ActiveList.sections[k].id]
  /\ UNCHANGED <<watchDb, watchNet>>
EndSectionRename ==
  /\ watch.editing # Nothing
  /\ watch' = [watch EXCEPT !.editing = Nothing]
  /\ watchNet' \in {watchNet, ListQueued(watchNet, ActiveList)}
  /\ UNCHANGED <<watchDb, watchSteps>>

(***************************************************************************)
(* Dragging.  The order that is shown at the drop becomes the order of the *)
(* list, and the list is sorted by hand from then on.                      *)
(***************************************************************************)
(* The rows, every one with a handle *)
Rows == ToSet(Tokens(ActiveList))
StartDrag ==
  /\ WatchStep
  /\ watch.drag = Nothing
  /\ \E row \in Rows : watch' = [watch EXCEPT !.drag = row]
  /\ UNCHANGED <<watchDb, watchNet>>
(* applyPointerDrop *)
SymbolDrops(l, s) ==
  {MovedToUnsectioned(l, s)}
    \union {MovedToSection(l, s, l.sections[k].id) :
              k \in DOMAIN l.sections}
    \union {MovedNextTo(l, SymbolToken(s), SymbolToken(t), after) :
              t \in ToSet(l.symbols), after \in BOOLEAN}
SectionDrops(l, id) ==
  {MovedToStart(l, id)} \union {MovedToBoundary(l, id, n) : n \in 0..Len(l.symbols)}
    \union {MovedNextTo(l, SectionToken(id), SectionToken(l.sections[k].id), after) :
              k \in DOMAIN l.sections, after \in BOOLEAN}
DropsOf(l, token) ==
  IF token.kind = "symbol" THEN SymbolDrops(l, token.key) ELSE SectionDrops(l, token.key)
DropIt ==
  /\ watch.drag # Nothing
  /\ \E order \in DisplayedOrders(ActiveList) :
       \E l \in DropsOf(Materialized(ActiveList, order), watch.drag) :
         LET sorted == [l EXCEPT !.sort = "manual"]
         IN  /\ watch' = [watch EXCEPT !.lists[IndexOf(watch.active)] = sorted, !.drag = Nothing]
             /\ watchNet' = ListQueued(watchNet, sorted)
  /\ UNCHANGED <<watchDb, watchSteps>>
(* Released where nothing takes it, or on a chart pane, which shows it. *)
DropOutside ==
  /\ watch.drag # Nothing
  /\ watch' = [watch EXCEPT !.drag = Nothing]
  /\ UNCHANGED <<watchDb, watchNet, watchSteps>>

(***************************************************************************)
(* Lists.  Names and sort keys are patched outside the queue.              *)
(***************************************************************************)
ListPatched(net, id, field, value) ==
  IF id.known /\ watch.loaded
  THEN [net EXCEPT !.patches = @ \union {[id |-> id, field |-> field, value |-> value]}] ELSE net
RenameList ==
  /\ WatchStep
  /\ watch' = [watch EXCEPT !.lists[IndexOf(watch.active)].name = "b"]
  /\ watchNet' = ListPatched(watchNet, ActiveList.id, "name", "b")
  /\ UNCHANGED watchDb
(* SortMenu; every key but "manual" orders the rows by what is streamed *)
SortKeys == {"manual", "price"}
SetSort ==
  /\ WatchStep
  /\ \E key \in SortKeys \ {ActiveList.sort} :
       /\ watch' = [watch EXCEPT !.lists[IndexOf(watch.active)].sort = key]
       /\ watchNet' = ListPatched(watchNet, ActiveList.id, "sort", key)
  /\ UNCHANGED watchDb
SetActive ==
  /\ WatchStep
  /\ \E i \in DOMAIN watch.lists : watch.lists[i].id # watch.active
       /\ watch' = [watch EXCEPT !.active = watch.lists[i].id]
  /\ UNCHANGED <<watchDb, watchNet>>
(* createWatchlist, and copyWatchlist of the active list *)
NewLists == {EmptyList(LocalId(watch.next)), [ActiveList EXCEPT !.id = LocalId(watch.next)]}
CreateList ==
  /\ WatchStep
  /\ \E from \in NewLists :
       watch' = [watch EXCEPT !.lists = Append(@, from), !.active = from.id, !.next = @ + 1]
  /\ watchNet' = IF watch.loaded
                 THEN [watchNet EXCEPT !.creating = @ \union {LocalId(watch.next)}] ELSE watchNet
  /\ UNCHANGED watchDb
RemoveList ==
  /\ WatchStep
  /\ Len(watch.lists) > 1
  /\ \E i \in DOMAIN watch.lists :
       LET rest == RemoveAt(watch.lists, i)
           id == watch.lists[i].id
       IN  /\ watch' = [watch EXCEPT !.lists = rest,
                          !.active = IF @ = id THEN rest[AtMost(i, Len(rest))].id ELSE @]
           /\ watchNet' = ListPatched(watchNet, id, "deleted", "")
  /\ UNCHANGED watchDb
(* createRemoteListFromLocal: the reply renames the list, and the layout   *)
(* it has by then is sent.                                                 *)
ListCreated(l) ==
  /\ l \in watchNet.creating
  /\ LET id == ServerId(l.n)
         at == IndexOf(l)
         mine == watch.lists[at].id = l
         synced == [watch.lists[at] EXCEPT !.id = id, !.name = "a", !.sort = "price"]
         net == [watchNet EXCEPT !.creating = @ \ {l}]
     IN  /\ watchDb' = Put(watchDb, id, EmptyList(id))
         /\ watch' = IF mine THEN [watch EXCEPT !.lists[at] = synced,
                                                !.active = IF @ = l THEN id ELSE @]
                     ELSE watch
         /\ watchNet' = IF mine THEN ListQueued(net, synced) ELSE net
  /\ UNCHANGED watchSteps

(***************************************************************************)
(* The network.  WatchlistSyncQueue sends one layout of a list at a time;  *)
(* a failed one is reported and dropped.                                   *)
(***************************************************************************)
Replaced(id, layout) ==
  IF id \in DOMAIN watchDb
  THEN [watchDb EXCEPT ![id].symbols = layout.symbols, ![id].sections = layout.sections,
                       ![id].sort = layout.sort]
  ELSE watchDb
InAnyOrder(id) == DOMAIN QueueOf(id)
InOrder(id) == {1} \intersect DOMAIN QueueOf(id)
LayoutLands(id) ==
  /\ \E k \in InOrder(id) :
       /\ watchDb' = Replaced(id, QueueOf(id)[k].layout)
       /\ watchNet' = EnqueuedInTurn([watchNet EXCEPT !.queues[id] = RemoveAt(@, k)],
                                     QueueOf(id)[k].waiting)
  /\ UNCHANGED <<watch, watchSteps>>
LayoutFails(id) ==
  /\ WatchStep
  /\ QueueOf(id) # <<>>
  /\ watchNet' = [watchNet EXCEPT !.queues[id] = Tail(@), !.failed = TRUE]
  /\ UNCHANGED <<watch, watchDb>>
PatchLands(p) ==
  /\ watchNet' = [watchNet EXCEPT !.patches = @ \ {p}]
  /\ watchDb' = IF p.id \notin DOMAIN watchDb THEN watchDb
                ELSE CASE p.field = "deleted" -> Drop(watchDb, {p.id})
                       [] p.field = "name" -> [watchDb EXCEPT ![p.id].name = p.value]
                       [] p.field = "sort" -> [watchDb EXCEPT ![p.id].sort = p.value]
  /\ UNCHANGED <<watch, watchSteps>>

WatchNext ==
  \/ ApplyRemoteLists \/ CatalogArrives
  \/ AddSymbol \/ RemoveSymbol \/ ClearList \/ AddSection \/ RemoveSection
  \/ BeginSectionRename \/ EndSectionRename \/ StartDrag \/ DropIt \/ DropOutside
  \/ RenameList \/ SetSort \/ SetActive \/ CreateList \/ RemoveList
  \/ \E l \in watchNet.creating : ListCreated(l)
  \/ \E id \in DOMAIN watchNet.queues : LayoutLands(id) \/ LayoutFails(id)
  \/ \E p \in watchNet.patches : PatchLands(p)

(***************************************************************************)
(* Properties.                                                             *)
(***************************************************************************)
(* When the writes of a list are sent and none failed, the server has the  *)
(* symbols and sections that are shown, however edits, the creation of the *)
(* list and catalogs interleave (watchlistSyncQueue.ts:16); but for a list *)
(* that is edited while the layout a catalog left it with waits for the    *)
(* layout of another list, and is sent after the edit.                     *)
LayoutsConverge ==
  \A i \in DOMAIN watch.lists :
    LET l == watch.lists[i] IN
      l.id.known /\ QueueOf(l.id) = <<>> /\ ~ watchNet.failed
        /\ l.id \in DOMAIN watchDb \ (WaitingLists(watchNet) \union watchNet.overtaken)
      => watchDb[l.id].symbols = l.symbols /\ watchDb[l.id].sections = l.sections

(* A drop moves what was dragged and nothing else: the other symbols and   *)
(* sections keep the order in which they were shown                        *)
(* (watchlistLayout.ts:256, 321, 364, 391).                                *)
DropsMoveOneThing ==
  [][watch.drag # Nothing /\ watch'.drag = Nothing /\ watch'.lists # watch.lists
       => \E order \in DisplayedOrders(ActiveList) :
            Without(Tokens(Materialized(ActiveList, order)), watch.drag)
              = Without(Tokens(ActiveList'), watch.drag)]_watchVars
==============================================================================
