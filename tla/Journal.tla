------------------------------- MODULE Journal -------------------------------
(***************************************************************************)
(* journalStore: the trade journal in memory, its IndexedDB copy (one for  *)
(* the browser, whoever is signed in) and the journal of each user on the  *)
(* server, which creates by client id or replaces.  An entry is known by   *)
(* its id and a version; a removal elsewhere is not modelled.              *)
(***************************************************************************)
EXTENDS Partial

CONSTANTS
  EntryId,         \* identities of entries, each added once
  Trader,          \* users of the browser
  MaxJournalSteps  \* bound: additions, edits, removals, sign-ins, failures

VARIABLES
  journal,         \* memory: entries, source, loaded, error; user; used,
                   \*   kept (added outside a load, not removed; history)
  journalDisk,     \* journalDB: id -> version
  journalDb,       \* the server: user -> id -> version
  journalRun,      \* load (its stage and what it holds), ops under way
  journalSteps

journalVars == <<journal, journalDisk, journalDb, journalRun, journalSteps>>
JournalStep == journalSteps < MaxJournalSteps /\ journalSteps' = journalSteps + 1

JournalInit ==
  /\ journal = [entries |-> None, source |-> Nothing, error |-> FALSE, user |-> Nothing,
                used |-> {}, kept |-> {}]
  /\ journalDisk = None
  /\ journalDb = [u \in Trader |-> None]
  /\ journalRun = [load |-> Nothing, ops |-> {}]
  /\ journalSteps = 0

SetSession(u) ==
  /\ JournalStep
  /\ u # journal.user
  /\ journal' = [journal EXCEPT !.user = u]
  /\ UNCHANGED <<journalDisk, journalDb, journalRun>>

(***************************************************************************)
(* loadJournal: read the local rows, create each on the server, list, show *)
(* the list and make it the local copy.  Failing at any request falls back *)
(* to the local rows.                                                      *)
(***************************************************************************)
SourceNow == IF journal.user = Nothing THEN "local" ELSE journal.user
LoadJournal ==
  /\ journalRun.load = Nothing
  /\ journal.source # SourceNow
  /\ journal' = [journal EXCEPT !.source = SourceNow, !.error = FALSE]
  /\ journalRun' = [journalRun EXCEPT !.load = [at |-> "reading", rows |-> None]]
  /\ UNCHANGED <<journalDisk, journalDb, journalSteps>>
ReadLocal ==
  /\ journalRun.load # Nothing /\ journalRun.load.at = "reading"
  /\ IF journal.user = Nothing
     THEN /\ journal' = [journal EXCEPT !.entries = journalDisk]
          /\ journalRun' = [journalRun EXCEPT !.load = Nothing]
     ELSE /\ journalRun' = [journalRun EXCEPT !.load = [at |-> "flushing", rows |-> journalDisk]]
          /\ UNCHANGED journal
  /\ UNCHANGED <<journalDisk, journalDb, journalSteps>>
(* createJournalEntry of one local row, for the user signed in by now. *)
FlushNothing ==
  /\ journalRun.load # Nothing /\ journalRun.load.at = "flushing" /\ journalRun.load.rows # None
  /\ journalRun' = [journalRun EXCEPT !.load.rows = None]
  /\ UNCHANGED <<journal, journalDisk, journalDb, journalSteps>>
FlushOne ==
  /\ journalRun.load # Nothing /\ journalRun.load.at = "flushing"
  /\ journal.user # Nothing
  /\ \E i \in DOMAIN journalRun.load.rows :
       /\ journalDb' = [journalDb EXCEPT ![journal.user] = Put(@, i, journalRun.load.rows[i])]
       /\ journalRun' = [journalRun EXCEPT !.load.rows = Drop(@, {i})]
  /\ UNCHANGED <<journal, journalDisk, journalSteps>>
ListRemote ==
  /\ journalRun.load # Nothing /\ journalRun.load.at = "flushing"
  /\ journalRun.load.rows = None /\ journal.user # Nothing
  /\ journalRun' = [journalRun EXCEPT !.load = [at |-> "listed", rows |-> journalDb[journal.user]]]
  /\ UNCHANGED <<journal, journalDisk, journalDb, journalSteps>>
ListShown ==
  /\ journalRun.load # Nothing /\ journalRun.load.at = "listed"
  /\ journal' = [journal EXCEPT !.entries = journalRun.load.rows]
  /\ journalRun' = [journalRun EXCEPT !.load.at = "caching"]
  /\ UNCHANGED <<journalDisk, journalDb, journalSteps>>
(* replaceLocalCache: cleared, then filled. *)
CacheCleared ==
  /\ journalRun.load # Nothing /\ journalRun.load.at = "caching"
  /\ journalDisk' = None
  /\ journalRun' = [journalRun EXCEPT !.load.at = "filling"]
  /\ UNCHANGED <<journal, journalDb, journalSteps>>
CacheFilled ==
  /\ journalRun.load # Nothing /\ journalRun.load.at = "filling"
  /\ journalDisk' = [i \in DOMAIN journalDisk \union DOMAIN journalRun.load.rows |->
                       IF i \in DOMAIN journalRun.load.rows THEN journalRun.load.rows[i]
                       ELSE journalDisk[i]]
  /\ journalRun' = [journalRun EXCEPT !.load = Nothing]
  /\ UNCHANGED <<journal, journalDb, journalSteps>>
LoadFallsBack ==
  /\ JournalStep
  /\ journalRun.load # Nothing /\ journalRun.load.at = "flushing"
  /\ journal' = [journal EXCEPT !.entries = journalDisk, !.error = TRUE]
  /\ journalRun' = [journalRun EXCEPT !.load = Nothing]
  /\ UNCHANGED <<journalDisk, journalDb>>

(***************************************************************************)
(* Changes: memory and the local copy at once (IndexedDB keeps the order   *)
(* of its requests), then the server when there is a session.              *)
(***************************************************************************)
EntrySent(op, i, v) ==
  [journalRun EXCEPT !.ops = IF journal.user = Nothing THEN @
                             ELSE @ \union {[op |-> op, id |-> i, version |-> v]}]
AddEntry ==
  /\ JournalStep
  /\ \E i \in EntryId \ journal.used :
       /\ journal' = [journal EXCEPT !.entries = Put(@, i, 1), !.used = @ \union {i},
                         !.kept = IF journalRun.load = Nothing THEN @ \union {i} ELSE @]
       /\ journalDisk' = Put(journalDisk, i, 1)
       /\ journalRun' = EntrySent("create", i, 1)
  /\ UNCHANGED journalDb
UpdateEntry ==
  /\ JournalStep
  /\ \E i \in DOMAIN journal.entries :
       /\ journal' = [journal EXCEPT !.entries[i] = @ + 1]
       /\ journalDisk' = Put(journalDisk, i, journal.entries[i] + 1)
       /\ journalRun' = EntrySent("update", i, journal.entries[i] + 1)
  /\ UNCHANGED journalDb
(* attachScreenshot: the reference is an edit; the reply of the upload     *)
(* writes the entry as it was then.                                        *)
AttachScreenshot ==
  /\ JournalStep
  /\ \E i \in DOMAIN journal.entries :
       /\ journal' = [journal EXCEPT !.entries[i] = @ + 1]
       /\ journalDisk' = Put(journalDisk, i, journal.entries[i] + 1)
       /\ journalRun' = EntrySent("attach", i, journal.entries[i] + 1)
  /\ UNCHANGED journalDb
(* With a session, the local copy goes after the server's. *)
RemoveEntry ==
  /\ JournalStep
  /\ \E i \in DOMAIN journal.entries :
       /\ journal' = [journal EXCEPT !.entries = Drop(@, {i}), !.kept = @ \ {i}]
       /\ journalDisk' = IF journal.user = Nothing THEN Drop(journalDisk, {i}) ELSE journalDisk
       /\ journalRun' = EntrySent("delete", i, journal.entries[i])
  /\ UNCHANGED journalDb

OpLands(o) ==
  /\ journal.user # Nothing
  /\ journalDb' = [journalDb EXCEPT ![journal.user] =
       CASE o.op = "create" -> Put(@, o.id, o.version)
         [] o.op = "update" -> IF o.id \in DOMAIN @ THEN Put(@, o.id, o.version) ELSE @
         [] o.op = "attach" -> @
         [] o.op = "delete" -> Drop(@, {o.id})]
  /\ journalDisk' = CASE o.op = "delete" -> Drop(journalDisk, {o.id})
                      [] o.op = "attach" -> Put(journalDisk, o.id, o.version)
                      [] OTHER -> journalDisk
  /\ journalRun' = [journalRun EXCEPT !.ops = @ \ {o}]
  /\ journal' = [journal EXCEPT !.kept = IF o.op = "delete" THEN @ \ {o.id} ELSE @,
       !.entries = IF o.op = "attach" /\ o.id \in DOMAIN @ THEN [@ EXCEPT ![o.id] = o.version]
                   ELSE @]
  /\ UNCHANGED journalSteps
OpFails(o) ==
  /\ JournalStep
  /\ journal' = [journal EXCEPT !.error = TRUE,
       !.entries = IF o.op = "delete" THEN Put(@, o.id, o.version) ELSE @]
  /\ journalRun' = [journalRun EXCEPT !.ops = @ \ {o}]
  /\ UNCHANGED <<journalDisk, journalDb>>

JournalNext ==
  \/ \E u \in Trader \union {Nothing} : SetSession(u)
  \/ LoadJournal \/ ReadLocal \/ FlushOne \/ ListRemote \/ ListShown
  \/ CacheCleared \/ CacheFilled \/ LoadFallsBack
  \/ AddEntry \/ UpdateEntry \/ AttachScreenshot \/ RemoveEntry
  \/ \E o \in journalRun.ops : OpLands(o) \/ OpFails(o)

JournalSpec == JournalInit /\ [][JournalNext]_journalVars

(***************************************************************************)
(* Properties.                                                             *)
(***************************************************************************)
(* An entry that was stored while no load was under way, and that nobody   *)
(* removed, is in the local copy or in a journal on the server, whichever  *)
(* request fails (journalStore.ts:55, 62): the local rows are sent before  *)
(* the list replaces them.                                                 *)
OfflineEntriesSurvive ==
  \A i \in journal.kept :
    i \in DOMAIN journalDisk \/ \E u \in Trader : i \in DOMAIN journalDb[u]
==============================================================================
