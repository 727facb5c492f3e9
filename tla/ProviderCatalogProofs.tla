----------------------- MODULE ProviderCatalogProofs -----------------------
(* Proofs about ProviderCatalog, for any number of job threads, edits and
   restarts. *)
EXTENDS ProviderCatalog, FiniteSetTheorems, TLAPS

USE DEF threadVars

(* A thread holds a document that is to be applied or stored. *)
InHand(t) ==
    \/ pc[t] \in {"raw", "providers", "fetch", "store"}
    \/ pc[t] = "publish" /\ task[t] = "refresh"

(* Such a document was loaded, and so was one that is in force: their mtime is
   known.  This is what keeps an empty document out of Redis. *)
KnownInv ==
    /\ loader.raw # NoDoc => loader.mtime # -1
    /\ \A t \in Thread : pc[t] = "stamp" => seen[t] # NoDoc
    /\ \A t \in Thread : InHand(t) => seen[t] # NoDoc /\ loader.mtime # -1

(* A file is read on behalf of startup, a job or the rebase before a refresh;
   only startup registers, it, a restore and a refresh publish, and a refresh
   alone fetches and stores. *)
TaskInv ==
    \A t \in Thread :
        /\ pc[t] \in {"call", "read", "stamp"} => task[t] \notin {"restore", "refresh"}
        /\ pc[t] = "register" => task[t] = "boot"
        /\ pc[t] = "publish" => task[t] \in {"boot", "restore", "refresh"}
        /\ pc[t] \in {"fetch", "store"} => task[t] = "refresh"

(* No job runs before startup is over, which is what a process that dies in
   its first load leaves behind as it was. *)
BootInv ==
    /\ \A t \in Thread : task[t] = "boot" =>
          /\ t = Refresher
          /\ pc[t] \in {"read", "stamp", "raw", "providers", "register", "publish", "restore"}
    /\ Booting => \A t \in Thread \ {Refresher} : pc[t] = "idle"

(* The document in the hands of a thread has been applied before, or is one with
   fresh catalogs of what has. *)
Applied(t) ==
    \/ pc[t] \in {"providers", "fetch", "store"}
    \/ pc[t] = "publish" /\ task[t] = "refresh"
    \/ pc[t] = "raw" /\ task[t] \in {"restore", "refresh"}

(* Documents are of the edits so far. *)
Past == /\ loader.mtime <= file /\ loader.raw.edit <= file /\ loader.providers.edit <= file
        /\ stored.mtime <= file /\ stored.doc.edit <= file
        /\ \A t \in Thread : seen[t].edit <= file

(* What has been applied, by this process or the one that stored it, is nothing
   apply_document rejects. *)
SoundInv == /\ Past
            /\ loader.raw.edit \notin malformed /\ stored.doc.edit \notin malformed
            /\ \A t \in Thread : Applied(t) => seen[t].edit \notin malformed

(* No edit has fallen into a load, and no two loads have overlapped. *)
Undisturbed == ~torn /\ ~overlapped

OneLoads == \A t, u \in Loading : t = u
(* No file is between the stat and apply_document. *)
NoneStamped == \A t \in Thread : pc[t] = "raw" => task[t] \in {"restore", "refresh"}

(* What is in force, stored, or in the hands of the thread that loads was made
   from the file as of _loaded_mtime; a file that has been stamped and not yet
   applied is newer than what is in force; and between the two writes of
   apply_document only providers is behind. *)
Derives ==
    /\ stored # NoStore => Underlies(stored.doc, stored.mtime)
    /\ \A t \in Thread : pc[t] \in {"read", "stamp"} => loader.mtime < file
    /\ \A t \in Thread : pc[t] = "stamp" => seen[t].edit = file
    /\ \A t \in Thread : pc[t] = "raw" /\ task[t] \notin {"restore", "refresh"} =>
          seen[t].edit = loader.mtime /\ loader.raw.edit < loader.mtime
    /\ \A t \in Thread : Applied(t) => Underlies(seen[t], loader.mtime)
    /\ \A t \in Thread : pc[t] = "providers" => loader.raw = seen[t]
    /\ (\A t \in Thread : pc[t] # "providers") => loader.providers = loader.raw
    /\ NoneStamped => Underlies(loader.raw, loader.mtime)

DocInv == Undisturbed => OneLoads /\ Derives

CatalogInv == TypeOK /\ TaskInv /\ BootInv /\ KnownInv /\ SoundInv /\ DocInv

-----------------------------------------------------------------------------
(* A reload ends where its caller goes on, which is never inside a load but to
   publish. *)
LEMMA OnwardGoesOn ==
    ASSUME TypeOK, NEW t \in Thread
    PROVE  /\ Onward(t) \in {"register", "base", "publish", "clear", "look"}
           /\ Onward(t) = "publish" <=> task[t] \in {"restore", "refresh"}
BY DEF TypeOK, Onward

(* Every step is an edit, a restart, or an action of one thread. *)
LEMMA StepIsAction ==
    ASSUME Step
    PROVE  \/ Edit \/ Restart
           \/ \E t \in Thread :
                 \/ Call(t) \/ Read(t) \/ Stamp(t) \/ Chokes(t) \/ PutRaw(t) \/ PutProviders(t)
                 \/ Begin(t, "client") \/ Begin(t, "qa")
                 \/ Clear(t) \/ Snapshot(t) \/ Update(t) \/ Look(t)
                 \/ Register(t) \/ Publish(t) \/ Restore(t)
                 \/ WakeUp(t) \/ TakeBase(t) \/ Fetch(t) \/ Store(t)
BY DEF Step, JobStep, RefresherStep, Reload, Thread

(* The invariant holds when a process starts, with whatever is in the file. *)
LEMMA CatalogInit == Init => CatalogInv
<1> SUFFICES ASSUME Init
             PROVE  CatalogInv
  OBVIOUS
<1> USE CatalogAssumption DEF Init, Starting, Thread, NoDoc, NoStore
<1>1. TypeOK
  <2>1. loader \in [mtime : Nat \cup {-1}, raw : Document \cup {NoDoc}, providers : Document \cup {NoDoc}]
    OBVIOUS
  <2>2. pc \in [Thread -> LoadSteps \cup {"idle", "call", "clear", "snapshot", "update",
                                         "look", "register", "restore", "rest", "base"}]
    BY DEF LoadSteps
  <2>3. /\ file \in 0..MaxEdits /\ restarts \in 0..MaxRestarts
        /\ broken \subseteq 0..MaxEdits /\ malformed \subseteq 0..MaxEdits
    OBVIOUS
  <2>4. task \in [Thread -> {"boot", "restore", "rebase", "refresh", "client", "qa"}]
    OBVIOUS
  <2> QED
    BY <2>1, <2>2, <2>3, <2>4 DEF TypeOK, Cleared
<1>2. KnownInv
  BY DEF KnownInv, InHand
<1>4. TaskInv
  BY DEF TaskInv
<1>3. DocInv
  BY DEF DocInv, OneLoads, Derives, NoneStamped, Underlies, Loading, LoadSteps, Applied
<1>5. BootInv
  BY DEF BootInv
<1>6. SoundInv
  BY DEF SoundInv, Past, Applied
<1> QED
  BY <1>1, <1>2, <1>3, <1>4, <1>5, <1>6 DEF CatalogInv

(* No step breaks a type. *)
LEMMA TypeStep ==
    ASSUME TypeOK, TaskInv, KnownInv, Step, overlapped' \in BOOLEAN
    PROVE  TypeOK'
<1> USE CatalogAssumption DEF World, Goto, NoDoc
<1>1. CASE Edit
  <2>1. file + 1 \in 0..MaxEdits /\ broken \subseteq 0..MaxEdits /\ malformed \subseteq 0..MaxEdits
    BY <1>1 DEF Edit, TypeOK
  <2>2. broken' \subseteq 0..MaxEdits /\ malformed' \subseteq 0..MaxEdits
    BY <1>1, <2>1 DEF Edit
  <2>3. torn' \in BOOLEAN /\ file' = file + 1 /\ UNCHANGED <<loader, registry, stored, threadVars, restarts>>
    BY <1>1 DEF Edit
  <2> QED BY <2>1, <2>2, <2>3 DEF TypeOK, threadVars
<1>2. CASE Restart
  BY <1>2 DEF Restart, Starting, TypeOK, Cleared, Thread, LoadSteps
<1>3. ASSUME NEW t \in Thread, Call(t) PROVE TypeOK'
  BY <1>3 DEF Call, TypeOK, LoadSteps
<1>4. ASSUME NEW t \in Thread, Read(t) PROVE TypeOK'
  BY <1>4, OnwardGoesOn DEF Read, TypeOK, LoadSteps, Document
<1>5. ASSUME NEW t \in Thread, Stamp(t) PROVE TypeOK'
  BY <1>5 DEF Stamp, TypeOK, LoadSteps
<1>6. ASSUME NEW t \in Thread, PutRaw(t) PROVE TypeOK'
  BY <1>6 DEF PutRaw, TypeOK, LoadSteps
<1>7. ASSUME NEW t \in Thread, PutProviders(t) PROVE TypeOK'
  BY <1>7, OnwardGoesOn DEF PutProviders, TypeOK, LoadSteps
<1>8. ASSUME NEW t \in Thread, Begin(t, "client") \/ Begin(t, "qa") PROVE TypeOK'
  BY <1>8 DEF Begin, TypeOK
<1>9. ASSUME NEW t \in Thread, Clear(t) \/ Snapshot(t) \/ Look(t) PROVE TypeOK'
  BY <1>9 DEF Clear, Snapshot, Look, TypeOK, Cleared
<1>10. ASSUME NEW t \in Thread, Update(t) PROVE TypeOK'
  BY <1>10 DEF Update, TypeOK, Document, BuiltIn
<1>11. ASSUME NEW t \in Thread, Register(t) PROVE TypeOK'
  BY <1>11 DEF Register, TypeOK, Document, BuiltIn, LoadSteps
<1>12. ASSUME NEW t \in Thread, Publish(t) PROVE TypeOK'
  BY <1>12 DEF Publish, TypeOK, TaskInv, LoadSteps
<1>13. ASSUME NEW t \in Thread, Restore(t) PROVE TypeOK'
  BY <1>13 DEF Restore, Restorable, TypeOK, LoadSteps
<1>14. ASSUME NEW t \in Thread, WakeUp(t) PROVE TypeOK'
  BY <1>14 DEF WakeUp, TypeOK
<1>15. ASSUME NEW t \in Thread, TakeBase(t) PROVE TypeOK'
  BY <1>15 DEF TakeBase, TypeOK, LoadSteps
<1>16. ASSUME NEW t \in Thread, Fetch(t) PROVE TypeOK'
  BY <1>16 DEF Fetch, TypeOK, KnownInv, InHand, LoadSteps, Document
<1>17. ASSUME NEW t \in Thread, Store(t) PROVE TypeOK'
  BY <1>17 DEF Store, TypeOK, KnownInv, InHand
<1>18. ASSUME NEW t \in Thread, Chokes(t) PROVE TypeOK'
  BY <1>18 DEF Chokes, Starting, TypeOK, LoadSteps
<1> QED
  BY StepIsAction, <1>1, <1>2, <1>3, <1>4, <1>5, <1>6, <1>7, <1>8, <1>9, <1>10, <1>11,
     <1>12, <1>13, <1>14, <1>15, <1>16, <1>17, <1>18

-----------------------------------------------------------------------------
(* No step publishes on behalf of somebody else. *)
LEMMA TaskStep ==
    ASSUME TypeOK, TaskInv, Step
    PROVE  TaskInv'
<1> USE DEF TaskInv, World, Goto
<1>1. CASE Edit
  BY <1>1 DEF Edit
<1>2. CASE Restart
  BY <1>2 DEF Restart, Starting
<1>3. ASSUME NEW t \in Thread, Read(t) \/ PutProviders(t) PROVE TaskInv'
  <2>1. Onward(t) # "register" \/ task[t] = "boot"
    BY DEF TypeOK, Onward
  <2> QED
    BY <1>3, <2>1, OnwardGoesOn DEF Read, PutProviders, TypeOK
<1>4. ASSUME NEW t \in Thread,
             \/ Call(t) \/ Stamp(t) \/ PutRaw(t) \/ Clear(t) \/ Snapshot(t) \/ Update(t)
             \/ Register(t) \/ Fetch(t) \/ Store(t)
      PROVE  TaskInv'
  BY <1>4 DEF Call, Stamp, PutRaw, Clear, Snapshot, Update, Register, Fetch, Store, TypeOK
<1>5. ASSUME NEW t \in Thread, Publish(t) PROVE TaskInv'
  BY <1>5 DEF Publish, TypeOK
<1>6. ASSUME NEW t \in Thread,
             \/ Begin(t, "client") \/ Begin(t, "qa") \/ Look(t)
             \/ Restore(t) \/ WakeUp(t) \/ TakeBase(t)
      PROVE  TaskInv'
  BY <1>6 DEF Begin, Look, Restore, WakeUp, TakeBase, TypeOK
<1>7. ASSUME NEW t \in Thread, Chokes(t) PROVE TaskInv'
  <2>1. pc'[t] = "read" => task'[t] = "boot"
    BY <1>7 DEF Chokes, TypeOK
  <2>2. pc'[t] \in {"read", "idle", "rest"} /\ \A u \in Thread \ {t} : pc'[u] = pc[u] /\ task'[u] = task[u]
    BY <1>7 DEF Chokes, TypeOK
  <2> QED
    BY <2>1, <2>2
<1> QED
  BY StepIsAction, <1>1, <1>2, <1>3, <1>4, <1>5, <1>6, <1>7

(* No job begins before startup is over. *)
LEMMA BootStep ==
    ASSUME TypeOK, TaskInv, BootInv, Step
    PROVE  BootInv'
<1> USE DEF BootInv, World, Goto
<1>1. CASE Edit
  BY <1>1 DEF Edit, Booting
<1>2. CASE Restart
  BY <1>2 DEF Restart, Starting, Booting
<1>3. ASSUME NEW t \in Thread, t # Refresher, pc[t] # "idle" \/ ~Booting,
             \A u \in Thread \ {t} : pc'[u] = pc[u] /\ task'[u] = task[u],
             task'[t] \in {task[t], "client", "qa", "restore", "rebase", "refresh"}
      PROVE  BootInv'
  <2>1. ~Booting /\ task[t] # "boot"
    BY <1>3
  <2>2. Refresher \in Thread
    BY DEF Thread
  <2>3. ~Booting'
    BY <1>3, <2>1, <2>2 DEF Booting
  <2> QED
    BY <1>3, <2>1, <2>3
<1>4. ASSUME \A u \in Thread \ {Refresher} : pc'[u] = pc[u] /\ task'[u] = task[u],
             task'[Refresher] = "boot" => /\ task[Refresher] = "boot" /\ pc[Refresher] # "restore"
                                          /\ pc'[Refresher] \in {"read", "stamp", "raw", "providers",
                                                                "register", "publish", "restore"}
      PROVE  BootInv'
  BY <1>4 DEF Booting
<1>5. ASSUME NEW t \in Thread,
             \/ Call(t) \/ Read(t) \/ Stamp(t) \/ Chokes(t) \/ PutRaw(t) \/ PutProviders(t)
             \/ Begin(t, "client") \/ Begin(t, "qa")
             \/ Clear(t) \/ Snapshot(t) \/ Update(t) \/ Look(t)
             \/ Register(t) \/ Publish(t) \/ Restore(t)
             \/ WakeUp(t) \/ TakeBase(t) \/ Fetch(t) \/ Store(t)
      PROVE  BootInv'
  <2>1. /\ \A u \in Thread \ {t} : pc'[u] = pc[u] /\ task'[u] = task[u]
        /\ task'[t] \in {task[t], "client", "qa", "restore", "rebase", "refresh"}
        /\ pc[t] # "idle" \/ ~Booting
    <3>1. CASE \/ Call(t) \/ Read(t) \/ Stamp(t) \/ Chokes(t) \/ PutRaw(t) \/ PutProviders(t)
      BY <3>1 DEF Call, Read, Stamp, Chokes, PutRaw, PutProviders, TypeOK
    <3>2. CASE \/ Begin(t, "client") \/ Begin(t, "qa")
               \/ Clear(t) \/ Snapshot(t) \/ Update(t) \/ Look(t)
      BY <3>2 DEF Begin, Clear, Snapshot, Update, Look, TypeOK
    <3>3. CASE \/ Register(t) \/ Publish(t) \/ Restore(t)
               \/ WakeUp(t) \/ TakeBase(t) \/ Fetch(t) \/ Store(t)
      BY <3>3 DEF Register, Publish, Restore, WakeUp, TakeBase, Fetch, Store, TypeOK
    <3> QED
      BY <1>5, <3>1, <3>2, <3>3
  <2>2. CASE t # Refresher
    BY <1>3, <2>1, <2>2
  <2>3. CASE t = Refresher /\ task'[t] # "boot"
    BY <1>4, <2>1, <2>3
  <2>4. CASE t = Refresher /\ task'[t] = "boot"
    <3>1. task[t] = "boot" /\ pc[t] \in {"read", "stamp", "raw", "providers", "register", "publish", "restore"}
      BY <2>1, <2>4
    <3>2. Onward(t) = "register"
      BY <3>1 DEF Onward
    <3>3. pc[t] # "restore" /\ pc'[t] \in {"read", "stamp", "raw", "providers", "register", "publish", "restore"}
      BY <1>5, <2>4, <3>1, <3>2
      DEF Call, Read, Stamp, Chokes, PutRaw, PutProviders, Begin, Clear, Snapshot, Update, Look,
          Register, Publish, Restore, WakeUp, TakeBase, Fetch, Store, TypeOK
    <3> QED
      BY <1>4, <2>1, <2>4, <3>1, <3>3
  <2> QED
    BY <2>2, <2>3, <2>4
<1> QED
  BY StepIsAction, <1>1, <1>2, <1>5

(* No step applies or stores a document that was never loaded. *)
LEMMA KnownStep ==
    ASSUME TypeOK, TaskInv, BootInv, KnownInv, Step
    PROVE  KnownInv'
<1> USE DEF KnownInv, World, Goto, InHand
<1>1. CASE Edit
  BY <1>1 DEF Edit
<1>2. CASE Restart
  BY <1>2 DEF Restart, Starting
<1>3. ASSUME NEW t \in Thread, Call(t) PROVE KnownInv'
  BY <1>3 DEF Call, TypeOK
<1>4. ASSUME NEW t \in Thread, Read(t) PROVE KnownInv'
  <2>1. CASE file \in broken
    <3>1. Onward(t) \in {"register", "base", "clear", "look"}
      BY <1>4, OnwardGoesOn DEF Read, TaskInv
    <3> QED
      BY <1>4, <2>1, <3>1 DEF Read, TypeOK
  <2>2. CASE file \notin broken
    <3>1. [edit |-> file, fresh |-> 0] # NoDoc
      BY DEF NoDoc, TypeOK
    <3> QED
      BY <1>4, <2>2, <3>1 DEF Read, TypeOK
  <2> QED
    BY <2>1, <2>2
<1>5. ASSUME NEW t \in Thread, Stamp(t) PROVE KnownInv'
  <2>1. file # -1
    BY DEF TypeOK
  <2>2. loader'.mtime = file /\ loader'.raw = loader.raw
    BY <1>5 DEF Stamp, TypeOK
  <2> QED
    BY <1>5, <2>1, <2>2 DEF Stamp, TypeOK
<1>6. ASSUME NEW t \in Thread, PutRaw(t) PROVE KnownInv'
  <2>1. loader'.mtime = loader.mtime /\ loader'.raw = seen[t]
    BY <1>6 DEF PutRaw, TypeOK
  <2> QED
    BY <1>6, <2>1 DEF PutRaw, TypeOK
<1>7. ASSUME NEW t \in Thread, PutProviders(t) PROVE KnownInv'
  <2>1. loader'.mtime = loader.mtime /\ loader'.raw = loader.raw
    BY <1>7 DEF PutProviders, TypeOK
  <2> QED
    BY <1>7, <2>1, OnwardGoesOn DEF PutProviders, TypeOK
<1>8. ASSUME NEW t \in Thread, Snapshot(t) \/ Update(t) PROVE KnownInv'
  BY <1>8 DEF Snapshot, Update, TypeOK
<1>9. ASSUME NEW t \in Thread,
             \/ Begin(t, "client") \/ Begin(t, "qa") \/ Clear(t) \/ Look(t)
             \/ Register(t) \/ WakeUp(t)
      PROVE  KnownInv'
  <2>1. CASE Clear(t) \/ Register(t)
    <3>1. task[t] = "boot" \/ pc'[t] = "snapshot"
      BY <2>1 DEF Clear, Register, TaskInv, TypeOK
    <3> QED
      BY <2>1, <3>1 DEF Clear, Register, TypeOK
  <2>2. CASE Begin(t, "client") \/ Begin(t, "qa") \/ Look(t) \/ WakeUp(t)
    BY <2>2 DEF Begin, Look, WakeUp, TypeOK
  <2> QED
    BY <1>9, <2>1, <2>2
<1>10. ASSUME NEW t \in Thread, Publish(t) PROVE KnownInv'
  <2>1. task[t] \in {"boot", "restore", "refresh"}
    BY <1>10 DEF Publish, TaskInv
  <2>2. /\ pc'[t] \in {"restore", "rest", "store"}
        /\ pc'[t] = "store" => pc[t] = "publish" /\ task[t] = "refresh"
    BY <1>10, <2>1 DEF Publish, TypeOK
  <2>3. \A u \in Thread \ {t} : pc'[u] = pc[u]
    BY <1>10 DEF Publish, TypeOK
  <2>4. UNCHANGED <<loader, seen, task>>
    BY <1>10 DEF Publish
  <2> QED
    BY <2>2, <2>3, <2>4
<1>11. ASSUME NEW t \in Thread, Restore(t) PROVE KnownInv'
  <2>1. CASE Restorable(stored) /\ seen' = [seen EXCEPT ![t] = stored.doc] /\ Goto(t, "raw")
    <3>1. stored \in [mtime : Nat, doc : Document]
      BY <2>1 DEF Restorable, TypeOK
    <3>2. stored.mtime # -1
      BY <3>1
    <3>3. stored.doc # NoDoc
      BY <3>1 DEF Document, NoDoc
    <3> QED
      BY <1>11, <2>1, <3>2, <3>3 DEF Restore, Restorable, TypeOK
  <2>2. CASE Goto(t, "rest") /\ UNCHANGED seen
    BY <1>11, <2>2 DEF Restore, TypeOK
  <2> QED
    BY <1>11, <2>1, <2>2 DEF Restore
<1>12. ASSUME NEW t \in Thread, TakeBase(t) PROVE KnownInv'
  BY <1>12 DEF TakeBase, TypeOK
<1>13. ASSUME NEW t \in Thread, Fetch(t) PROVE KnownInv'
  <2>1. CASE Goto(t, "rest") /\ seen' = [seen EXCEPT ![t] = NoDoc]
    BY <1>13, <2>1 DEF Fetch, TypeOK
  <2>2. ASSUME NEW c \in 0..MaxCatalogs,
               seen' = [seen EXCEPT ![t].fresh = c],
               Goto(t, IF c # seen[t].fresh THEN "raw" ELSE "store")
        PROVE  KnownInv'
    <3>1. seen[t] \in Document
      BY <1>13 DEF Fetch, TypeOK
    <3>2. seen'[t].edit = seen[t].edit /\ seen[t].edit # -1
      BY <2>2, <3>1 DEF TypeOK, Document
    <3>3. seen'[t] # NoDoc
      BY <3>2 DEF NoDoc
    <3> QED
      BY <1>13, <2>2, <3>3 DEF Fetch, TypeOK
  <2> QED
    BY <1>13, <2>1, <2>2 DEF Fetch
<1>14. ASSUME NEW t \in Thread, Store(t) PROVE KnownInv'
  BY <1>14 DEF Store, TypeOK
<1>15. ASSUME NEW t \in Thread, Chokes(t) PROVE KnownInv'
  <2>1. /\ pc'[t] \in {"read", "idle", "rest"} /\ pc[t] = "raw"
        /\ \A u \in Thread \ {t} : pc'[u] = pc[u] /\ task'[u] = task[u] /\ seen'[u] = seen[u]
    BY <1>15 DEF Chokes, TypeOK
  <2>2. CASE task[t] = "boot"
    <3>1. \A u \in Thread \ {t} : pc[u] = "idle"
      BY <2>1, <2>2 DEF BootInv, Booting
    <3>2. loader'.raw = NoDoc
      BY <1>15, <2>2 DEF Chokes, Starting
    <3> QED
      BY <2>1, <3>1, <3>2
  <2>3. CASE task[t] # "boot"
    BY <1>15, <2>1, <2>3 DEF Chokes
  <2> QED
    BY <2>2, <2>3
<1> QED
  BY StepIsAction, <1>1, <1>2, <1>3, <1>4, <1>5, <1>6, <1>7, <1>8, <1>9, <1>10, <1>11,
     <1>12, <1>13, <1>14, <1>15

-----------------------------------------------------------------------------
(* A document keeps its edit when its catalogs are refreshed. *)
LEMMA FreshIsOf ==
    ASSUME TypeOK, NEW t \in Thread, NEW c \in 0..MaxCatalogs,
           seen' = [seen EXCEPT ![t].fresh = c]
    PROVE  \A u \in Thread : seen'[u].edit = seen[u].edit
<1>1. seen[t] \in Document \cup {NoDoc}
  BY DEF TypeOK
<1>2. seen'[t] = [seen[t] EXCEPT !.fresh = c]
  BY DEF TypeOK
<1>3. seen'[t].edit = seen[t].edit
  BY <1>1, <1>2 DEF Document, NoDoc
<1> QED
  BY <1>3 DEF TypeOK

(* No step holds, stores or has in force a document of an edit to come. *)
LEMMA PastStep ==
    ASSUME TypeOK, Past, Step
    PROVE  Past'
<1> USE DEF Past, World, Goto
<1>1. CASE Edit
  <2>1. file \in Int /\ file' = file + 1
    BY <1>1 DEF Edit, TypeOK
  <2>2. /\ loader.mtime \in Int /\ loader.raw.edit \in Int /\ loader.providers.edit \in Int
        /\ stored.mtime \in Int /\ stored.doc.edit \in Int /\ \A t \in Thread : seen[t].edit \in Int
    BY DEF TypeOK, Document, NoDoc, NoStore
  <2> QED
    BY <1>1, <2>1, <2>2 DEF Edit
<1>2. CASE Restart
  BY <1>2 DEF Restart, Starting, NoDoc, TypeOK
<1>3. ASSUME NEW t \in Thread, Call(t) \/ Read(t) \/ Stamp(t) PROVE Past'
  BY <1>3 DEF Call, Read, Stamp, TypeOK
<1>4. ASSUME NEW t \in Thread, Chokes(t) \/ PutRaw(t) \/ PutProviders(t) PROVE Past'
  BY <1>4 DEF Chokes, Starting, PutRaw, PutProviders, NoDoc, TypeOK
<1>5. ASSUME NEW t \in Thread,
             \/ Begin(t, "client") \/ Begin(t, "qa")
             \/ Clear(t) \/ Snapshot(t) \/ Update(t) \/ Look(t)
      PROVE  Past'
  BY <1>5 DEF Begin, Clear, Snapshot, Update, Look, NoDoc, TypeOK
<1>6. ASSUME NEW t \in Thread,
             \/ Register(t) \/ Publish(t) \/ Restore(t) \/ WakeUp(t) \/ TakeBase(t)
      PROVE  Past'
  BY <1>6 DEF Register, Publish, Restore, WakeUp, TakeBase, TypeOK
<1>7. ASSUME NEW t \in Thread, Fetch(t) PROVE Past'
  <2>1. CASE seen' = [seen EXCEPT ![t] = NoDoc]
    BY <1>7, <2>1 DEF Fetch, NoDoc, TypeOK
  <2>2. ASSUME NEW c \in 0..MaxCatalogs, seen' = [seen EXCEPT ![t].fresh = c] PROVE Past'
    BY <1>7, <2>2, FreshIsOf DEF Fetch
  <2> QED
    BY <1>7, <2>1, <2>2 DEF Fetch
<1>8. ASSUME NEW t \in Thread, Store(t) PROVE Past'
  BY <1>8 DEF Store, NoDoc, TypeOK
<1> QED
  BY StepIsAction, <1>1, <1>2, <1>3, <1>4, <1>5, <1>6, <1>7, <1>8

(* No step applies, or stores, what apply_document rejects. *)
LEMMA SoundStep ==
    ASSUME TypeOK, TaskInv, SoundInv, Step
    PROVE  SoundInv'
<1>1. Past'
  BY PastStep DEF SoundInv
<1>2. -1 \notin malformed
  BY DEF TypeOK
<1> SUFFICES /\ loader'.raw.edit \notin malformed' /\ stored'.doc.edit \notin malformed'
             /\ \A t \in Thread : Applied(t)' => seen'[t].edit \notin malformed'
  BY <1>1 DEF SoundInv
<1> USE DEF SoundInv, World, Goto
<1>3. CASE Edit
  <2>1. malformed' \subseteq malformed \cup {file + 1}
    BY <1>3 DEF Edit
  <2>2. /\ loader.raw.edit # file + 1 /\ stored.doc.edit # file + 1
        /\ \A t \in Thread : seen[t].edit # file + 1
    BY DEF Past, TypeOK
  <2>3. UNCHANGED <<loader, stored, pc, task, seen>>
    BY <1>3 DEF Edit
  <2> QED
    BY <2>1, <2>2, <2>3 DEF Applied
<1>4. CASE Restart
  BY <1>2, <1>4 DEF Restart, Starting, NoDoc, Applied
<1>5. ASSUME NEW t \in Thread, Call(t) \/ Read(t) PROVE SoundInv'
  <2>1. pc[t] \in {"call", "read"} /\ pc'[t] \notin {"raw", "publish", "providers", "fetch", "store"}
    BY <1>5, OnwardGoesOn DEF Call, Read, TypeOK, TaskInv
  <2>2. /\ \A u \in Thread \ {t} : pc'[u] = pc[u] /\ seen'[u] = seen[u]
        /\ UNCHANGED <<task, loader, stored, malformed>>
    BY <1>5 DEF Call, Read, TypeOK
  <2> QED
    BY <1>1, <2>1, <2>2 DEF Applied
<1>6. ASSUME NEW t \in Thread, Stamp(t) PROVE SoundInv'
  <2>1. pc'[t] = "raw" /\ task[t] \notin {"restore", "refresh"} /\ loader'.raw = loader.raw
    BY <1>6 DEF Stamp, TaskInv, TypeOK
  <2>2. \A u \in Thread \ {t} : pc'[u] = pc[u] /\ UNCHANGED <<seen, task, stored, malformed>>
    BY <1>6 DEF Stamp, TypeOK
  <2> QED
    BY <1>1, <1>6, <2>1, <2>2 DEF Applied, Stamp
<1>7. ASSUME NEW t \in Thread, Chokes(t) PROVE SoundInv'
  <2>1. pc'[t] \in {"read", "idle", "rest"} /\ (loader' = loader \/ loader'.raw = NoDoc)
    BY <1>7 DEF Chokes, Starting, TypeOK
  <2>2. /\ \A u \in Thread \ {t} : pc'[u] = pc[u] /\ seen'[u] = seen[u] /\ task'[u] = task[u]
        /\ UNCHANGED <<stored, malformed>>
    BY <1>7 DEF Chokes, TypeOK
  <2> QED
    BY <1>1, <1>2, <2>1, <2>2 DEF Applied, NoDoc
<1>8. ASSUME NEW t \in Thread, PutRaw(t) PROVE SoundInv'
  <2>1. loader'.raw = seen[t] /\ seen[t].edit \notin malformed
    BY <1>8 DEF PutRaw, TypeOK
  <2> QED
    BY <1>1, <1>8, <2>1 DEF PutRaw, Applied, TypeOK
<1>9. ASSUME NEW t \in Thread, PutProviders(t) PROVE SoundInv'
  <2>1. loader'.raw = loader.raw /\ Applied(t)
    BY <1>9 DEF PutProviders, TypeOK, Applied
  <2>2. Onward(t) \in {"register", "base", "publish", "clear", "look"}
    BY OnwardGoesOn
  <2> QED
    BY <1>1, <1>2, <1>9, <2>1, <2>2 DEF PutProviders, Applied, TypeOK, NoDoc
<1>10. ASSUME NEW t \in Thread,
              \/ Begin(t, "client") \/ Begin(t, "qa")
              \/ Clear(t) \/ Snapshot(t) \/ Update(t) \/ Look(t)
       PROVE  SoundInv'
  <2>1. /\ pc'[t] \in {"call", "snapshot", "update", "look", "idle"}
        /\ \A u \in Thread \ {t} : pc'[u] = pc[u] /\ seen'[u] = seen[u] /\ task'[u] = task[u]
        /\ UNCHANGED <<loader, stored, malformed>>
    BY <1>10 DEF Begin, Clear, Snapshot, Update, Look, TypeOK
  <2> QED
    BY <1>1, <2>1 DEF Applied
<1>11. ASSUME NEW t \in Thread, Register(t) \/ Publish(t) \/ WakeUp(t) PROVE SoundInv'
  <2>1. pc'[t] = "store" => Applied(t)
    BY <1>11 DEF Register, Publish, WakeUp, TypeOK, TaskInv, Applied
  <2>2. /\ pc'[t] \in {"publish", "restore", "rest", "store", "call"}
        /\ pc'[t] = "publish" => task[t] = "boot"
    BY <1>11 DEF Register, Publish, WakeUp, TypeOK, TaskInv
  <2>3. /\ \A u \in Thread \ {t} : pc'[u] = pc[u] /\ task'[u] = task[u]
        /\ UNCHANGED <<seen, loader, stored, malformed>> /\ (task' = task \/ pc'[t] = "call")
    BY <1>11 DEF Register, Publish, WakeUp, TypeOK
  <2> QED
    BY <1>1, <2>1, <2>2, <2>3 DEF Applied
<1>12. ASSUME NEW t \in Thread, Restore(t) PROVE SoundInv'
  BY <1>1, <1>12 DEF Restore, Applied, TypeOK
<1>13. ASSUME NEW t \in Thread, TakeBase(t) PROVE SoundInv'
  BY <1>1, <1>13 DEF TakeBase, Applied, TypeOK
<1>14. ASSUME NEW t \in Thread, Fetch(t) PROVE SoundInv'
  <2>1. Applied(t) /\ UNCHANGED <<task, loader, stored, malformed>>
        /\ \A u \in Thread \ {t} : pc'[u] = pc[u]
    BY <1>14 DEF Fetch, Applied, TypeOK
  <2>2. CASE pc'[t] = "rest" /\ seen' = [seen EXCEPT ![t] = NoDoc]
    BY <1>1, <2>1, <2>2 DEF Applied, TypeOK
  <2>3. ASSUME NEW c \in 0..MaxCatalogs, seen' = [seen EXCEPT ![t].fresh = c] PROVE SoundInv'
    BY <1>1, <2>1, <2>3, FreshIsOf DEF Applied
  <2> QED
    BY <1>14, <2>2, <2>3 DEF Fetch, TypeOK
<1>15. ASSUME NEW t \in Thread, Store(t) PROVE SoundInv'
  <2>1. Applied(t)
    BY <1>15 DEF Store, Applied
  <2>2. stored' = stored \/ stored'.doc = seen[t]
    BY <1>15 DEF Store
  <2> QED
    BY <1>1, <1>15, <2>1, <2>2 DEF Store, Applied, TypeOK
<1> QED
  BY StepIsAction, <1>3, <1>4, <1>5, <1>6, <1>7, <1>8, <1>9, <1>10, <1>11, <1>12, <1>13, <1>14, <1>15

-----------------------------------------------------------------------------
(* A set of which no more than one element is counted has no two. *)
LEMMA NoTwo ==
    ASSUME NEW S, IsFiniteSet(S), ~(Cardinality(S) > 1), NEW x \in S, NEW y \in S
    PROVE  x = y
<1> SUFFICES ASSUME x # y
             PROVE  FALSE
  OBVIOUS
<1>1. IsFiniteSet({x}) /\ Cardinality({x}) = 1
  BY FS_Singleton
<1>2. Cardinality({x} \cup {y}) = 2
  BY <1>1, FS_AddElement
<1>3. {x} \cup {y} \subseteq S
  OBVIOUS
<1>4. Cardinality({x} \cup {y}) <= Cardinality(S) /\ Cardinality(S) \in Nat
  BY <1>3, FS_Subset, FS_CardinalityType
<1> QED
  BY <1>2, <1>4

(* While nothing has been disturbed yet, no step leaves two threads loading. *)
LEMMA OneLoadsStep ==
    ASSUME Next, Undisturbed'
    PROVE  Undisturbed /\ OneLoads'
<1>1. ~torn
  BY StepIsAction
  DEF Next, Noting, Undisturbed, World, Edit, Restart, Call, Read, Stamp, Chokes, PutRaw, PutProviders,
      Begin, Clear, Snapshot, Update, Look, Register, Publish, Restore, WakeUp, TakeBase,
      Fetch, Store
<1>2. ~overlapped /\ ~(Cardinality(Loading') > 1)
  BY DEF Next, Noting, Undisturbed
<1>3. IsFiniteSet(Thread)
  BY CatalogAssumption, FS_AddElement DEF Thread
<1>4. IsFiniteSet(Loading')
  BY <1>3, FS_Subset DEF Loading
<1>5. OneLoads'
  BY <1>2, <1>4, NoTwo DEF OneLoads
<1> QED
  BY <1>1, <1>2, <1>5 DEF Undisturbed

(* Who is inside a load is the only one there. *)
LEMMA Alone ==
    ASSUME TypeOK, OneLoads, NEW t \in Thread, pc[t] \in LoadSteps
    PROVE  \A u \in Thread \ {t} : pc[u] \notin LoadSteps /\ ~InHand(u) /\ ~Applied(u)
BY DEF OneLoads, Loading, InHand, Applied, LoadSteps

(* What underlies stays so when an edit is made or an older mtime is kept. *)
LEMMA UnderliesPast ==
    ASSUME TypeOK, NEW doc, NEW mtime, Underlies(doc, mtime), doc.edit \in Int, mtime \in Int
    PROVE  doc.edit <= mtime
BY DEF Underlies

(* A reload in an undisturbed run ends with the file it read in force, or with
   what was in force if apply_document rejects that file. *)
LEMMA ReloadDerives ==
    ASSUME TypeOK, TaskInv, KnownInv, SoundInv, OneLoads, Derives, NEW t \in Thread, Reload(t)
    PROVE  Derives'
<1> USE DEF Derives, World, Goto
<1>1. CASE Call(t)
  <2>1. /\ pc[t] = "call" /\ pc'[t] \in {"read", "base", "look"} /\ (pc'[t] = "read" => loader.mtime # file)
        /\ \A u \in Thread \ {t} : pc'[u] = pc[u]
        /\ UNCHANGED <<loader, stored, task, seen, file, malformed>>
    BY <1>1 DEF Call, TypeOK
  <2>2. pc'[t] = "read" => loader.mtime < file
    BY <2>1 DEF SoundInv, Past, TypeOK
  <2> QED
    BY <2>1, <2>2 DEF Applied, NoneStamped, Underlies
<1>2. CASE Read(t)
  <2>1. /\ pc[t] = "read" /\ \A u \in Thread \ {t} : pc'[u] = pc[u] /\ seen'[u] = seen[u]
        /\ UNCHANGED <<loader, stored, task, file, malformed>> /\ loader.mtime < file
    BY <1>2 DEF Read, TypeOK
  <2>2. CASE file \in broken
    <3>1. pc'[t] \in {"register", "base", "clear", "look"}
      BY <1>2, <2>2, OnwardGoesOn DEF Read, TaskInv, TypeOK
    <3> QED
      BY <2>1, <3>1 DEF Applied, NoneStamped, Underlies
  <2>3. CASE file \notin broken
    <3>1. pc'[t] = "stamp" /\ seen'[t].edit = file
      BY <1>2, <2>3 DEF Read, TypeOK
    <3> QED
      BY <2>1, <3>1 DEF Applied, NoneStamped, Underlies
  <2> QED
    BY <2>2, <2>3
<1>3. CASE Stamp(t)
  <2>1. \A u \in Thread \ {t} : pc[u] \notin LoadSteps /\ ~Applied(u)
    BY <1>3, Alone DEF Stamp, LoadSteps
  <2>2. /\ loader'.mtime = file /\ loader'.raw = loader.raw /\ loader'.providers = loader.providers
        /\ pc' = [pc EXCEPT ![t] = "raw"] /\ UNCHANGED <<stored, task, seen, file, malformed>>
    BY <1>3 DEF Stamp, TypeOK
  <2>3. seen[t].edit = file /\ loader.mtime < file /\ pc[t] = "stamp" /\ task[t] \notin {"restore", "refresh"}
    BY <1>3 DEF Stamp, TaskInv
  <2>4. NoneStamped /\ \A u \in Thread : pc[u] # "providers"
    BY <2>1, <2>3 DEF NoneStamped, LoadSteps
  <2>5. loader.raw.edit <= loader.mtime
    BY <2>4, UnderliesPast DEF TypeOK, Document, NoDoc
  <2>6. loader.raw.edit < file
    BY <2>3, <2>5 DEF TypeOK, Document, NoDoc
  <2>7. pc'[t] = "raw" /\ \A u \in Thread \ {t} : pc'[u] \notin LoadSteps /\ ~Applied(u)'
    BY <2>1, <2>2 DEF TypeOK, Applied
  <2>8. ~Applied(t)' /\ ~NoneStamped'
    BY <2>2, <2>3, <2>7 DEF Applied, NoneStamped
  <2> QED
    BY <2>2, <2>3, <2>4, <2>6, <2>7, <2>8 DEF LoadSteps, Underlies
<1>4. CASE Chokes(t)
  <2>1. \A u \in Thread \ {t} : pc[u] \notin LoadSteps /\ ~Applied(u)
    BY <1>4, Alone DEF Chokes, LoadSteps
  <2>2. task[t] \notin {"restore", "refresh"} /\ pc[t] = "raw" /\ seen[t].edit \in malformed
    BY <1>4 DEF Chokes, SoundInv, Applied
  <2>3. seen[t].edit = loader.mtime /\ loader.raw.edit < loader.mtime /\ loader.providers = loader.raw
    BY <2>1, <2>2 DEF LoadSteps
  <2>4. \A u \in Thread \ {t} : pc'[u] = pc[u] /\ seen'[u] = seen[u] /\ task'[u] = task[u]
    BY <1>4 DEF Chokes, TypeOK
  <2>5. pc'[t] \in {"read", "idle", "rest"} /\ (pc'[t] = "read" <=> task[t] = "boot")
    BY <1>4 DEF Chokes, TypeOK
  <2>6. UNCHANGED <<stored, file, malformed>>
    BY <1>4 DEF Chokes
  <2>7. /\ pc'[t] = "read" => loader'.mtime < file
        /\ loader'.providers = loader'.raw /\ Underlies(loader'.raw, loader'.mtime)
    <3>1. CASE task[t] = "boot"
      <4>1. loader' = Starting.loader
        BY <1>4, <3>1 DEF Chokes
      <4> QED
        BY <4>1 DEF Starting, Underlies, NoDoc, TypeOK
    <3>2. CASE task[t] # "boot"
      <4>1. loader' = loader
        BY <1>4, <3>2 DEF Chokes
      <4> QED
        BY <2>2, <2>3, <2>5, <3>2, <4>1 DEF Underlies
    <3> QED
      BY <3>1, <3>2
  <2>8. \A u \in Thread : ~Applied(u)' /\ pc'[u] \notin {"stamp", "raw", "providers"}
    BY <2>1, <2>4, <2>5 DEF Applied, LoadSteps
  <2>9. \A u \in Thread : pc'[u] = "read" => u = t
    BY <2>1, <2>4 DEF LoadSteps
  <2> QED
    BY <2>6, <2>7, <2>8, <2>9 DEF Underlies
<1>5. CASE PutRaw(t)
  <2>1. \A u \in Thread \ {t} : pc[u] \notin LoadSteps /\ ~Applied(u)
    BY <1>5, Alone DEF PutRaw, LoadSteps
  <2>2. /\ loader'.mtime = loader.mtime /\ loader'.raw = seen[t]
        /\ pc' = [pc EXCEPT ![t] = "providers"] /\ UNCHANGED <<stored, task, seen, file, malformed>>
    BY <1>5 DEF PutRaw, TypeOK
  <2>3. Underlies(seen[t], loader.mtime)
    BY <1>5 DEF PutRaw, Applied, Underlies
  <2>4. pc'[t] = "providers" /\ \A u \in Thread \ {t} : pc'[u] \notin LoadSteps /\ ~Applied(u)'
    BY <2>1, <2>2 DEF TypeOK, Applied
  <2> QED
    BY <2>2, <2>3, <2>4 DEF LoadSteps, Underlies
<1>6. CASE PutProviders(t)
  <2>1. \A u \in Thread \ {t} : pc[u] \notin LoadSteps /\ ~Applied(u)
    BY <1>6, Alone DEF PutProviders, LoadSteps
  <2>2. /\ loader'.mtime = loader.mtime /\ loader'.raw = loader.raw /\ loader'.providers = seen[t]
        /\ pc' = [pc EXCEPT ![t] = Onward(t)] /\ UNCHANGED <<stored, task, file, malformed>>
        /\ \A u \in Thread \ {t} : seen'[u] = seen[u]
        /\ task[t] = "refresh" => seen'[t] = seen[t]
    BY <1>6 DEF PutProviders, TypeOK
  <2>3. Underlies(seen[t], loader.mtime) /\ loader.raw = seen[t]
    BY <1>6 DEF PutProviders, Applied
  <2>4. Onward(t) \in {"register", "base", "publish", "clear", "look"}
    BY OnwardGoesOn
  <2>5. pc'[t] = Onward(t) /\ \A u \in Thread \ {t} : pc'[u] \notin LoadSteps /\ ~Applied(u)'
    BY <2>1, <2>2 DEF TypeOK, Applied
  <2>6. Applied(t)' => task[t] = "refresh"
    BY <2>2, <2>4, <2>5 DEF Applied
  <2>7. \A u \in Thread : pc'[u] \notin {"read", "stamp", "raw", "providers"}
    BY <2>4, <2>5 DEF LoadSteps
  <2> QED
    BY <2>2, <2>3, <2>5, <2>6, <2>7 DEF Underlies
<1> QED
  BY <1>1, <1>2, <1>3, <1>4, <1>5, <1>6 DEF Reload

(* What a job does with the registry leaves the documents alone. *)
LEMMA JobDerives ==
    ASSUME TypeOK, Derives, NEW t \in Thread,
           \/ Begin(t, "client") \/ Begin(t, "qa")
           \/ Clear(t) \/ Snapshot(t) \/ Update(t) \/ Look(t)
    PROVE  Derives'
<1>1. /\ pc[t] \notin {"raw", "providers"} /\ pc'[t] \in {"call", "snapshot", "update", "look", "idle"}
      /\ \A u \in Thread \ {t} : pc'[u] = pc[u] /\ seen'[u] = seen[u] /\ task'[u] = task[u]
      /\ UNCHANGED <<loader, stored, file, malformed>>
  BY DEF Begin, Clear, Snapshot, Update, Look, TypeOK, World, Goto
<1> QED
  BY <1>1 DEF Derives, Applied, NoneStamped, Underlies

(* A restore and a refresh apply and store only what was made from the file that
   is loaded. *)
LEMMA RefreshDerives ==
    ASSUME TypeOK, TaskInv, KnownInv, OneLoads, Derives, OneLoads', NEW t \in Thread,
           \/ Register(t) \/ Publish(t) \/ Restore(t)
           \/ WakeUp(t) \/ TakeBase(t) \/ Fetch(t) \/ Store(t)
    PROVE  Derives'
<1> USE DEF Derives, World, Goto
<1>1. ASSUME UNCHANGED <<loader, stored, file, malformed>>, pc[t] \notin {"raw", "providers"},
             \A u \in Thread \ {t} : pc'[u] = pc[u] /\ seen'[u] = seen[u] /\ task'[u] = task[u],
             pc'[t] \notin {"read", "stamp", "providers"},
             pc'[t] = "raw" => task'[t] \in {"restore", "refresh"},
             Applied(t)' => Underlies(seen'[t], loader.mtime)
      PROVE  Derives'
  <2>1. \A u \in Thread \ {t} : Applied(u)' <=> Applied(u)
    BY <1>1 DEF Applied
  <2>2. \A doc, mtime : Underlies(doc, mtime)' <=> Underlies(doc, mtime)
    BY <1>1 DEF Underlies
  <2>3. NoneStamped' => NoneStamped
    BY <1>1 DEF NoneStamped
  <2> QED
    BY <1>1, <2>1, <2>2, <2>3 DEF Underlies
<1>2. CASE Register(t) \/ WakeUp(t) \/ Publish(t)
  <2>1. /\ pc[t] \in {"register", "rest", "publish"} /\ pc'[t] \in {"publish", "call", "restore", "rest", "store"}
        /\ pc'[t] = "publish" => task[t] = "boot" /\ UNCHANGED task
        /\ pc'[t] = "store" => Applied(t)
    BY <1>2 DEF Register, WakeUp, Publish, TypeOK, TaskInv, Applied
  <2>2. /\ UNCHANGED <<loader, stored, file, malformed, seen>>
        /\ \A u \in Thread \ {t} : pc'[u] = pc[u] /\ task'[u] = task[u]
    BY <1>2 DEF Register, WakeUp, Publish, TypeOK
  <2>3. Applied(t)' => Underlies(seen'[t], loader.mtime)
    BY <2>1, <2>2 DEF Applied
  <2> QED
    BY <1>1, <2>1, <2>2, <2>3
<1>3. CASE Restore(t)
  <2>1. /\ pc[t] = "restore" /\ task'[t] = "restore" /\ pc'[t] \in {"raw", "rest"}
        /\ UNCHANGED <<loader, stored, file, malformed>>
        /\ \A u \in Thread \ {t} : pc'[u] = pc[u] /\ task'[u] = task[u] /\ seen'[u] = seen[u]
        /\ pc'[t] = "raw" => Restorable(stored) /\ seen'[t] = stored.doc
    BY <1>3 DEF Restore, TypeOK
  <2>2. Applied(t)' => Underlies(seen'[t], loader.mtime)
    BY <2>1 DEF Applied, Restorable
  <2> QED
    BY <1>1, <2>1, <2>2
<1>4. CASE TakeBase(t)
  <2>1. /\ pc[t] = "base" /\ pc'[t] \in {"rest", "fetch"} /\ seen'[t] = loader.raw
        /\ UNCHANGED <<loader, stored, file, malformed>>
        /\ \A u \in Thread \ {t} : pc'[u] = pc[u] /\ task'[u] = task[u] /\ seen'[u] = seen[u]
    BY <1>4 DEF TakeBase, TypeOK
  <2>2. pc'[t] = "fetch" => NoneStamped
    BY <2>1 DEF OneLoads, Loading, LoadSteps, NoneStamped
  <2>3. Applied(t)' => Underlies(seen'[t], loader.mtime)
    BY <2>1, <2>2 DEF Applied
  <2> QED
    BY <1>1, <2>1, <2>3
<1>5. CASE Fetch(t)
  <2>1. /\ pc[t] = "fetch" /\ Applied(t) /\ pc'[t] \in {"rest", "raw", "store"}
        /\ UNCHANGED <<loader, stored, file, malformed, task>>
        /\ \A u \in Thread \ {t} : pc'[u] = pc[u] /\ seen'[u] = seen[u]
    BY <1>5 DEF Fetch, TypeOK, Applied
  <2>2. CASE pc'[t] = "rest"
    <3>1. ~Applied(t)'
      BY <2>2 DEF Applied
    <3> QED
      BY <1>1, <2>1, <2>2, <3>1
  <2>3. ASSUME NEW c \in 0..MaxCatalogs, seen' = [seen EXCEPT ![t].fresh = c] PROVE Derives'
    <3>1. Underlies(seen'[t], loader.mtime)
      BY <2>1, <2>3, FreshIsOf DEF Underlies
    <3>2. pc'[t] = "raw" => task[t] \in {"restore", "refresh"}
      BY <2>1 DEF TaskInv
    <3> QED
      BY <1>1, <2>1, <3>1, <3>2
  <2> QED
    BY <1>5, <2>1, <2>2, <2>3 DEF Fetch, TypeOK
<1>6. CASE Store(t)
  <2>1. /\ pc[t] = "store" /\ pc'[t] = "rest" /\ UNCHANGED <<loader, file, malformed, task>>
        /\ \A u \in Thread \ {t} : pc'[u] = pc[u] /\ seen'[u] = seen[u]
        /\ Underlies(seen[t], loader.mtime)
        /\ stored' = stored \/ (stored'.mtime = loader.mtime /\ stored'.doc = seen[t])
    BY <1>6 DEF Store, TypeOK, Applied
  <2>2. stored' # NoStore => Underlies(stored'.doc, stored'.mtime)
    BY <2>1
  <2>3. \A u \in Thread : Applied(u)' => u # t /\ Applied(u)
    BY <2>1 DEF Applied
  <2>4. (NoneStamped' => NoneStamped) /\ \A doc, mtime : Underlies(doc, mtime)' <=> Underlies(doc, mtime)
    BY <2>1 DEF NoneStamped, Underlies
  <2> QED
    BY <2>1, <2>2, <2>3, <2>4 DEF Underlies
<1> QED
  BY <1>2, <1>3, <1>4, <1>5, <1>6

(* So does every step of an undisturbed run. *)
LEMMA DocStep ==
    ASSUME CatalogInv, Next
    PROVE  DocInv'
<1> SUFFICES ASSUME Undisturbed'
             PROVE  OneLoads' /\ Derives'
  BY DEF DocInv
<1>1. Undisturbed /\ OneLoads' /\ OneLoads /\ Derives
  BY OneLoadsStep DEF CatalogInv, DocInv
<1>2. Step
  BY DEF Next, Noting
<1> USE <1>1 DEF CatalogInv
<1>3. CASE Edit
  <2>1. \A t \in Thread : pc[t] # "stamp"
    BY <1>1, <1>3 DEF Edit, Undisturbed
  <2>2. /\ file' = file + 1 /\ malformed \subseteq malformed' /\ malformed' \subseteq malformed \cup {file + 1}
        /\ UNCHANGED <<loader, stored, pc, task, seen>>
    BY <1>3 DEF Edit
  <2>3. loader.mtime # file + 1 /\ stored.mtime # file + 1 /\ loader.mtime < file + 1
    BY DEF SoundInv, Past, TypeOK, NoStore
  <2>4. \A doc : /\ Underlies(doc, loader.mtime)' <=> Underlies(doc, loader.mtime)
                 /\ Underlies(doc, stored.mtime)' <=> Underlies(doc, stored.mtime)
    BY <2>2, <2>3 DEF Underlies
  <2> QED
    BY <2>1, <2>2, <2>3, <2>4 DEF Derives, NoneStamped, Applied, Underlies
<1>4. CASE Restart
  <2>1. \A t \in Thread : pc'[t] \in {"read", "idle"}
    BY <1>4 DEF Restart, Starting
  <2>2. /\ loader'.providers = loader'.raw /\ loader'.raw.edit = loader'.mtime /\ loader'.mtime = -1
        /\ UNCHANGED <<file, stored, malformed>>
    BY <1>4 DEF Restart, Starting, NoDoc
  <2>3. -1 < file /\ -1 \notin malformed
    BY DEF TypeOK
  <2> QED
    BY <2>1, <2>2, <2>3 DEF Derives, Applied, Underlies
<1>5. ASSUME NEW t \in Thread, Reload(t) PROVE Derives'
  BY <1>5, ReloadDerives
<1> QED
  BY <1>2, <1>3, <1>4, <1>5, StepIsAction, JobDerives, RefreshDerives DEF Reload

-----------------------------------------------------------------------------
(* No step breaks the invariant. *)
LEMMA CatalogStep == CatalogInv /\ [Next]_vars => CatalogInv'
<1> SUFFICES ASSUME CatalogInv, [Next]_vars
             PROVE  CatalogInv'
  OBVIOUS
<1>1. CASE Next
  <2>1. Step
    BY <1>1 DEF Next, Noting
  <2>2. overlapped' \in BOOLEAN
    BY <1>1 DEF Next, Noting, CatalogInv, TypeOK
  <2> QED
    BY <1>1, <2>1, <2>2, TypeStep, TaskStep, BootStep, KnownStep, SoundStep, DocStep DEF CatalogInv
<1>2. CASE UNCHANGED vars
  BY <1>2
  DEF vars, CatalogInv, TypeOK, TaskInv, BootInv, Booting, KnownInv, InHand, SoundInv, Past,
      Applied, DocInv, Undisturbed, OneLoads, Derives, NoneStamped, Underlies, Loading
<1> QED
  BY <1>1, <1>2

(* The invariant holds in every state of every run. *)
LEMMA CatalogAlways == Spec => []CatalogInv
BY CatalogInit, CatalogStep, PTL DEF Spec

(* Every variable keeps its type; that no store files a document under a file
   that was never loaded, and no refresh merges into nothing, is part of it. *)
THEOREM TypeCorrect == Spec => []TypeOK
BY CatalogAlways, PTL DEF CatalogInv

(* While nobody loads, what is in force is one whole document that
   apply_document took; and the file, when it counts as loaded and is well formed,
   unless an edit fell into a load or two loads overlapped.  An edit that was
   rejected leaves an older document in force, and only that does. *)
THEOREM LoadedIsInForce == Spec => []LoadedIsTheFile
<1>1. CatalogInv => LoadedIsTheFile
  <2> SUFFICES ASSUME CatalogInv, Loading = {}, ~torn, ~overlapped
               PROVE  /\ loader.providers = loader.raw /\ loader.raw.edit \notin malformed
                      /\ loader.mtime = file => Underlies(loader.raw, file)
    BY DEF LoadedIsTheFile
  <2>1. \A t \in Thread : pc[t] \notin {"raw", "providers"}
    BY DEF Loading, LoadSteps
  <2> QED
    BY <2>1 DEF CatalogInv, SoundInv, DocInv, Undisturbed, Derives, NoneStamped
<1> QED
  BY <1>1, CatalogAlways, PTL

(* The document in Redis is one that apply_document takes, so that a restore
   never raises, whatever was torn or overlapped; and it was made from the edit it
   is filed under, or from an earlier one if that edit was rejected. *)
THEOREM StoredDerives == Spec => []StoredIsTrue
<1>1. CatalogInv => StoredIsTrue
  BY DEF CatalogInv, SoundInv, DocInv, Undisturbed, Derives, StoredIsTrue
<1> QED
  BY <1>1, CatalogAlways, PTL
=============================================================================
