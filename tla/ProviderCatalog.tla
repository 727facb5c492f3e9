--------------------------- MODULE ProviderCatalog ---------------------------
(***************************************************************************)
(* The provider catalog of one worker process: the loader of               *)
(* src/src/worker/provider_config.py, the refresher of                     *)
(* src/src/worker/services/catalog_refresh.py with its loop in main.py,    *)
(* and PROVIDER_REGISTRY of src/src/worker/services/llm_client.py.         *)
(*                                                                         *)
(* The operator edits providers.json.  Every job thread that makes an      *)
(* LLMClient or asks for a QA default, and the refresher before each run,  *)
(* calls reload_if_changed; nothing locks the loader.  A document is       *)
(* abstracted to the edit of the file it comes from and the state of the   *)
(* providers' live catalogs merged into it; every edit names the same      *)
(* providers, so that filling the registry replaces all of it.             *)
(***************************************************************************)
EXTENDS Integers, FiniteSets

CONSTANTS Job,          \* job threads
          Asks,         \* what a job thread calls for: "client", "qa" or both
          Refresher,    \* the thread of the startup and of the refresh loop
          MaxEdits,     \* bound: edits of providers.json
          MaxCatalogs,  \* bound: states of the live catalogs
          MaxRestarts   \* bound: deaths of the process

ASSUME CatalogAssumption ==
    /\ IsFiniteSet(Job) /\ Refresher \notin Job
    /\ Asks \in [Job -> SUBSET {"client", "qa"}]
    /\ MaxEdits \in Nat /\ MaxCatalogs \in Nat /\ MaxRestarts \in Nat

VARIABLES file,       \* the number of the last edit, which is also the mtime
          broken,     \* the edits that do not parse
          malformed,  \* those that do, and that apply_document raises on
          loader,     \* _loaded_mtime, raw_data and providers
          registry,   \* PROVIDER_REGISTRY: the edit it was built from
          stored,     \* DOCUMENT_KEY in Redis
          pc,         \* what a thread does next
          task,       \* on whose behalf it does it
          seen,       \* the document in its hands
          restarts,
          torn,       \* ghost: an edit fell between a read and its stat
          overlapped  \* ghost: two threads loaded or refreshed at a time

threadVars == <<pc, task, seen>>
vars == <<file, broken, malformed, loader, registry, stored, threadVars, restarts,
          torn, overlapped>>

Thread == Job \cup {Refresher}

NoDoc == [edit |-> -1, fresh |-> 0]   \* raw_data = {}, before the first load
Document == [edit : Nat, fresh : Nat]
NoStore == [mtime |-> -1, doc |-> NoDoc]

BuiltIn == NoDoc.edit   \* the registry of get_provider_registry without providers
Cleared == -2           \* the registry between clear() and update()

(* From the first look at the file, or at raw_data, to the last write that
   rests on it. *)
LoadSteps == {"read", "stamp", "raw", "providers", "fetch", "publish", "store"}
Loading == {t \in Thread : pc[t] \in LoadSteps}
Rebuilding == {t \in Thread : pc[t] \in {"clear", "snapshot", "update"}}
Booting == task[Refresher] = "boot" /\ pc[Refresher] # "restore"
Quiet == Loading = {} /\ Rebuilding = {}

(* What the loader, the registry and Redis hold derives from a file that was
   loaded: nothing is made of an empty raw_data. *)
TypeOK ==
    /\ file \in 0..MaxEdits
    /\ broken \subseteq 0..MaxEdits /\ malformed \subseteq 0..MaxEdits
    /\ loader \in [mtime : Nat \cup {-1}, raw : Document \cup {NoDoc},
                   providers : Document \cup {NoDoc}]
    /\ registry \in Nat \cup {BuiltIn, Cleared}
    /\ stored \in [mtime : Nat, doc : Document] \cup {NoStore}
    /\ pc \in [Thread -> LoadSteps \cup {"idle", "call", "clear", "snapshot", "update",
                                         "look", "register", "restore", "rest", "base"}]
    /\ task \in [Thread -> {"boot", "restore", "rebase", "refresh", "client", "qa"}]
    /\ seen \in [Thread -> Document \cup {NoDoc}]
    /\ restarts \in 0..MaxRestarts
    /\ torn \in BOOLEAN /\ overlapped \in BOOLEAN

(* The process starts by loading the file, whatever is in it. *)
Starting ==
    [loader   |-> [mtime |-> -1, raw |-> NoDoc, providers |-> NoDoc],
     registry |-> Cleared,
     pc       |-> [t \in Thread |-> IF t = Refresher THEN "read" ELSE "idle"],
     task     |-> [t \in Thread |-> IF t = Refresher THEN "boot" ELSE "client"],
     seen     |-> [t \in Thread |-> NoDoc]]

Init ==
    /\ file = 0 /\ broken \in SUBSET {0} /\ malformed \in SUBSET ({0} \ broken)
    /\ loader = Starting.loader /\ registry = Starting.registry
    /\ stored = NoStore
    /\ pc = Starting.pc /\ task = Starting.task /\ seen = Starting.seen
    /\ restarts = 0
    /\ torn = FALSE /\ overlapped = FALSE

-----------------------------------------------------------------------------
(* The operator saves providers.json. *)
Edit ==
    /\ file < MaxEdits
    /\ file' = file + 1
    /\ \/ UNCHANGED <<broken, malformed>>
       \/ broken' = broken \cup {file + 1} /\ UNCHANGED malformed
       \/ malformed' = malformed \cup {file + 1} /\ UNCHANGED broken
    /\ torn' = (torn \/ \E t \in Thread : pc[t] = "stamp")
    /\ UNCHANGED <<loader, registry, stored, threadVars, restarts>>

Goto(t, step) == pc' = [pc EXCEPT ![t] = step]

(* The actions of the threads change none of these. *)
World == <<file, broken, malformed, restarts, torn>>

-----------------------------------------------------------------------------
(* reload_if_changed, load_and_validate and apply_document, one step for each
   access to the file or to a field of the loader. *)

(* Where a thread goes on when its reload, or its apply_document, is done. *)
Onward(t) == CASE task[t] = "boot"    -> "register"
               [] task[t] = "rebase"  -> "base"
               [] task[t] \in {"restore", "refresh"} -> "publish"
               [] task[t] = "client"  -> "clear"
               [] task[t] = "qa"      -> "look"

(* The stat of reload_if_changed. *)
Call(t) ==
    /\ pc[t] = "call"
    /\ Goto(t, IF file # loader.mtime THEN "read"
               ELSE IF task[t] = "rebase" THEN "base" ELSE "look")
    /\ UNCHANGED <<loader, registry, stored, task, seen, World>>

(* json.load: a file that does not parse leaves everything as it is, the
   mtime too, and is tried again by the next caller. *)
Read(t) ==
    /\ pc[t] = "read"
    /\ IF file \in broken
       THEN Goto(t, Onward(t)) /\ UNCHANGED seen
       ELSE Goto(t, "stamp") /\ seen' = [seen EXCEPT ![t] = [edit |-> file, fresh |-> 0]]
    /\ UNCHANGED <<loader, registry, stored, task, World>>

(* _loaded_mtime is taken by a stat of its own, after the read. *)
Stamp(t) ==
    /\ pc[t] = "stamp"
    /\ loader' = [loader EXCEPT !.mtime = file]
    /\ Goto(t, "raw")
    /\ UNCHANGED <<registry, stored, task, seen, World>>

(* A JSON document of another shape (a model without an id, a list for an
   object) makes apply_document raise before it has changed anything, but its
   mtime stands.  The job's call fails, without a registry of its own; run_once
   catches it, and its run ends; a process that starts dies as llm_client is
   imported, and is started again. *)
Chokes(t) ==
    /\ pc[t] = "raw" /\ seen[t].edit \in malformed
    /\ Goto(t, CASE task[t] = "boot"             -> "read"
                 [] task[t] \in {"client", "qa"} -> "idle"
                 [] OTHER                        -> "rest")
    /\ loader' = IF task[t] = "boot" THEN Starting.loader ELSE loader
    /\ task' = [task EXCEPT ![t] = IF @ = "qa" THEN "client" ELSE @]
    /\ seen' = [seen EXCEPT ![t] = NoDoc]
    /\ UNCHANGED <<registry, stored, World>>

(* Otherwise it publishes its fields one by one: raw_data first. *)
PutRaw(t) ==
    /\ pc[t] = "raw" /\ seen[t].edit \notin malformed
    /\ loader' = [loader EXCEPT !.raw = seen[t]]
    /\ Goto(t, "providers")
    /\ UNCHANGED <<registry, stored, task, seen, World>>

(* And the map built off to the side last. *)
PutProviders(t) ==
    /\ pc[t] = "providers"
    /\ loader' = [loader EXCEPT !.providers = seen[t]]
    /\ Goto(t, Onward(t))
    /\ seen' = [seen EXCEPT ![t] = IF task[t] = "refresh" THEN @ ELSE NoDoc]
    /\ UNCHANGED <<registry, stored, task, World>>

Reload(t) ==
    Call(t) \/ Read(t) \/ Stamp(t) \/ Chokes(t) \/ PutRaw(t) \/ PutProviders(t)

-----------------------------------------------------------------------------
(* Job threads, once startup is over. *)

(* LLMClient(...), or _qa_default_model. *)
Begin(j, what) ==
    /\ pc[j] = "idle" /\ ~Booting /\ what \in Asks[j]
    /\ Goto(j, "call")
    /\ task' = [task EXCEPT ![j] = what]
    /\ UNCHANGED <<loader, registry, stored, seen, World>>

(* reload_provider_registry: clear, build from the loader's providers, fill. *)
Clear(j) ==
    /\ pc[j] = "clear"
    /\ registry' = Cleared
    /\ Goto(j, "snapshot")
    /\ UNCHANGED <<loader, stored, task, seen, World>>

Snapshot(j) ==
    /\ pc[j] = "snapshot"
    /\ seen' = [seen EXCEPT ![j] = loader.providers]
    /\ Goto(j, "update")
    /\ UNCHANGED <<loader, registry, stored, task, World>>

Update(j) ==
    /\ pc[j] = "update"
    /\ registry' = seen[j].edit
    /\ seen' = [seen EXCEPT ![j] = NoDoc]
    /\ Goto(j, "look")
    /\ UNCHANGED <<loader, stored, task, World>>

(* The lookup the call was made for: in PROVIDER_REGISTRY, or for a QA default
   in the loader's providers. *)
Look(j) ==
    /\ pc[j] = "look"
    /\ Goto(j, "idle")
    /\ task' = [task EXCEPT ![j] = "client"]
    /\ UNCHANGED <<loader, registry, stored, seen, World>>

JobStep(j) == Reload(j) \/ Clear(j) \/ Snapshot(j) \/ Update(j) \/ Look(j)

-----------------------------------------------------------------------------
(* Startup and the refresh loop. *)

(* PROVIDER_REGISTRY = get_provider_registry() as llm_client is imported. *)
Register(r) ==
    /\ pc[r] = "register"
    /\ registry' = loader.providers.edit
    /\ Goto(r, "publish")
    /\ UNCHANGED <<loader, stored, task, seen, World>>

(* publish_config_to_redis, which never raises: at startup, after restore, and
   after a refresh that changed something.  It reads providers and raw_data;
   what it writes is read by the backend only. *)
Publish(r) ==
    /\ pc[r] = "publish"
    /\ Goto(r, CASE task[r] = "boot"    -> "restore"
                 [] task[r] = "restore" -> "rest"
                 [] task[r] = "refresh" -> "store")
    /\ UNCHANGED <<loader, registry, stored, task, seen, World>>

RestoresAny(doc) == doc # NoStore   \* mistake: sourceMtime is not compared

Restorable(doc) == doc # NoStore /\ doc.mtime = loader.mtime

(* restore: the refreshed document of the last process, when Redis has it and
   it is said to derive from the file now loaded. *)
Restore(r) ==
    /\ pc[r] = "restore"
    /\ task' = [task EXCEPT ![r] = "restore"]
    /\ \/ /\ Restorable(stored)
          /\ seen' = [seen EXCEPT ![r] = stored.doc]
          /\ Goto(r, "raw")
       \/ Goto(r, "rest") /\ UNCHANGED seen
    /\ UNCHANGED <<loader, registry, stored, World>>

(* The sleep is over: run_once begins with reload_if_changed. *)
WakeUp(r) ==
    /\ pc[r] = "rest"
    /\ task' = [task EXCEPT ![r] = "rebase"]
    /\ Goto(r, "call")
    /\ UNCHANGED <<loader, registry, stored, seen, World>>

(* base = self.loader.raw_data; nothing loaded is a RefreshError. *)
TakeBase(r) ==
    /\ pc[r] = "base"
    /\ seen' = [seen EXCEPT ![r] = loader.raw]
    /\ task' = [task EXCEPT ![r] = "refresh"]
    /\ Goto(r, IF loader.raw = NoDoc THEN "rest" ELSE "fetch")
    /\ UNCHANGED <<loader, registry, stored, World>>

FetchStops(r) ==   \* mistake: a failed refresh ends the loop
    /\ pc[r] = "fetch"
    /\ \/ Goto(r, "idle") /\ UNCHANGED seen
       \/ \E c \in 0..MaxCatalogs :
             /\ seen' = [seen EXCEPT ![r].fresh = c]
             /\ Goto(r, IF c # seen[r].fresh THEN "raw" ELSE "store")
    /\ UNCHANGED <<loader, registry, stored, task, World>>

(* fetch_catalogs and refresh_document: a network error, an empty catalog or a
   default that is no longer served ends this run; otherwise the document is
   merged, and applied and published only if that changed it. *)
Fetch(r) ==
    /\ pc[r] = "fetch"
    /\ \/ Goto(r, "rest") /\ seen' = [seen EXCEPT ![r] = NoDoc]
       \/ \E c \in 0..MaxCatalogs :
             /\ seen' = [seen EXCEPT ![r].fresh = c]
             /\ Goto(r, IF c # seen[r].fresh THEN "raw" ELSE "store")
    /\ UNCHANGED <<loader, registry, stored, task, World>>

StoreUnderStat(r) ==   \* mistake: the file's mtime, not the loaded one
    /\ pc[r] = "store"
    /\ stored' = [mtime |-> file, doc |-> seen[r]]
    /\ Goto(r, "rest")
    /\ seen' = [seen EXCEPT ![r] = NoDoc]
    /\ UNCHANGED <<loader, registry, task, World>>

(* _store(DOCUMENT_KEY, ..): under the mtime the loader has by now; Redis may
   refuse. *)
Store(r) ==
    /\ pc[r] = "store"
    /\ \/ stored' = [mtime |-> loader.mtime, doc |-> seen[r]]
       \/ UNCHANGED stored
    /\ Goto(r, "rest")
    /\ seen' = [seen EXCEPT ![r] = NoDoc]
    /\ UNCHANGED <<loader, registry, task, World>>

RefresherStep(r) ==
    \/ Reload(r) \/ Register(r) \/ Publish(r) \/ Restore(r)
    \/ WakeUp(r) \/ TakeBase(r) \/ Fetch(r) \/ Store(r)

(* The process dies and starts again; the file and Redis stay. *)
Restart ==
    /\ restarts < MaxRestarts
    /\ restarts' = restarts + 1
    /\ loader' = Starting.loader /\ registry' = Starting.registry
    /\ pc' = Starting.pc /\ task' = Starting.task /\ seen' = Starting.seen
    /\ UNCHANGED <<file, broken, malformed, stored, torn>>

Step == \/ Edit \/ Restart \/ RefresherStep(Refresher)
        \/ \E j \in Job : JobStep(j) \/ Begin(j, "client") \/ Begin(j, "qa")

(* Every step notes whether two threads are loading after it. *)
Noting(A) == A /\ overlapped' = (overlapped \/ Cardinality(Loading') > 1)

Next == Noting(Step)

Spec == Init /\ [][Next]_vars

(* The threads run, and the refresher's sleeps and requests end (every fetch
   has a time-out).  Nothing makes jobs arrive, catalogs answer or the
   operator save. *)
Fairness == /\ WF_vars(Noting(RefresherStep(Refresher)))
            /\ \A j \in Job : WF_vars(Noting(JobStep(j)))

FairSpec == Spec /\ Fairness

-----------------------------------------------------------------------------
(* A document made from the file as of mtime: from that edit, or from one before
   it if apply_document raised on that edit. *)
Underlies(doc, mtime) == IF mtime \in malformed THEN doc.edit < mtime ELSE doc.edit = mtime

(* What is in force is one whole document, in raw_data and in providers alike,
   and never one that apply_document rejects; and a well-formed file that counts
   as loaded is the one in force, unless an edit fell into a load or two loads
   overlapped.  No parse error, no rejected edit, failed or repeated refresh,
   restore or restart in between leaves an older document in force. *)
LoadedIsTheFile ==
    (Loading = {} /\ ~torn /\ ~overlapped) =>
        /\ loader.providers = loader.raw /\ loader.raw.edit \notin malformed
        /\ loader.mtime = file => Underlies(loader.raw, file)

(* What a restart will restore is never a document that apply_document rejects:
   restore is called outside any try, and would end the refresh loop with it.
   And it derives from the edit it is filed under, or from an earlier one if that
   one was rejected, unless a load was torn or overlapped. *)
StoredIsTrue ==
    stored # NoStore =>
        /\ stored.doc.edit \notin malformed
        /\ ~torn /\ ~overlapped => Underlies(stored.doc, stored.mtime)

(* An edit that is well formed and stays comes into force without a restart, by
   the refresh loop if by no job, however many refreshes fail, and whatever was
   saved before it (unless a load was torn or overlapped). *)
EditIsNoticed ==
    \A n \in 0..MaxEdits :
        (file = n /\ n \notin broken \cup malformed)
            ~> (loader.raw.edit = n \/ file # n \/ torn \/ overlapped)

(* provider_config.py:145-147: the refresh leaves the mtime alone, so that an
   edit to providers.json still wins on the next reload_if_changed(): when that
   call finds nothing to do, the edit is what is loaded. *)
EditWins ==
    (Loading = {} /\ ~torn /\ loader.mtime = file /\ file \notin malformed) =>
        loader.raw.edit = file

(* llm_client.py:207-210: an edited file is picked up by the next LLMClient.
   One that finds nothing to reload, while nobody else loads or rebuilds, goes
   on to a registry that was built from the file. *)
ClientSeesEdit ==
    (Quiet /\ ~torn /\ ~overlapped /\ loader.mtime = file /\ file \notin malformed) =>
        \A j \in Job : pc[j] = "call" /\ task[j] = "client" => registry = file
=============================================================================
