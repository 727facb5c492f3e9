----------------------------- MODULE ModelManager -----------------------------
(***************************************************************************)
(* ModelManager (src/src/worker/model_manager.py): the OCR readers of a    *)
(* process, loaded when they are first asked for and unloaded by the       *)
(* maintenance loop (main.py) when nobody has asked for longer than        *)
(* MODEL_TTL.                                                              *)
(*                                                                         *)
(* A page job asks and predicts inside the node's "ocr" section, which     *)
(* ValkeyLock is about; here it is a plain mutual exclusion.  A redo job   *)
(* (perform_redo_ocr) asks and predicts without it.  Readers of PaddleOCR  *)
(* and of RapidOCR are kept alike; a key stands for a det/rec pair.        *)
(***************************************************************************)
EXTENDS Integers, FiniteSets

CONSTANTS Page,           \* threads of OCR and cleanup jobs
          Redo,           \* threads of region redo jobs
          Key,            \* cache keys
          Detector,       \* keys of detection-only readers of PaddleOCR
          Ttl,            \* MODEL_TTL
          MaxNow,         \* how long the clock runs
          MaxCopies       \* how many readers are loaded, as they are numbered

VARIABLES available,      \* paddle_ocr_available, rapidocr_available
          reader,         \* the copy cached under a key, or NoCopy
          lastUsed,
          lock,           \* who holds ModelManager.lock
          section,        \* who is in the "ocr" section
          step,
          key,            \* what a thread asks for
          copy,           \* the reader it was handed
          since,          \* ghost: when it was
          sweep,          \* the time unload_expired_models has read, or NoTime
          copies,         \* readers loaded so far
          now

vars == <<available, reader, lastUsed, lock, section, step, key, copy, since, sweep, copies, now>>

Thread == Page \cup Redo
Nobody == "nobody"
NoCopy == 0
NoTime == -1

(* What the proofs take for granted of the constants; WorkerParts has TLC
   evaluate it. *)
ManagerAssumption ==
    /\ Nobody \notin Thread /\ Key # {}
    /\ Ttl \in Nat /\ MaxNow \in Nat /\ MaxCopies \in Nat

Init ==
    /\ available = TRUE
    /\ reader = [k \in Key |-> NoCopy] /\ lastUsed = [k \in Key |-> 0]
    /\ lock = Nobody /\ section = Nobody
    /\ step = [t \in Thread |-> "idle"]
    /\ key = [t \in Thread |-> CHOOSE k \in Key : TRUE]
    /\ copy = [t \in Thread |-> NoCopy] /\ since = [t \in Thread |-> 0]
    /\ sweep = NoTime /\ copies = 0 /\ now = 0

To(t, s) == step' = [step EXCEPT ![t] = s]
Leave(t) == section' = IF section = t THEN Nobody ELSE section

(* A job needs the reader of its language.  The flag is looked at before the
   lock is asked for; without it a page job raises, and a redo has no text. *)
Ask(t) ==
    /\ step[t] = "idle"
    /\ t \in Page => section = Nobody
    /\ IF available
         THEN /\ key' \in {[key EXCEPT ![t] = k] : k \in Key}
              /\ section' = IF t \in Page THEN t ELSE section
              /\ To(t, "wait")
         ELSE UNCHANGED <<key, section, step>>
    /\ UNCHANGED <<available, reader, lastUsed, lock, copy, since, sweep, copies, now>>

(* The reader is handed to the thread and the lock is free again. *)
Hand(t, c) ==
    /\ copy' = [copy EXCEPT ![t] = c]
    /\ since' = [since EXCEPT ![t] = now]
    /\ To(t, "predict")

(* mistake: only a load is a use *)
UsedWhenLoaded(k) == IF reader[k] = NoCopy THEN [lastUsed EXCEPT ![k] = now] ELSE lastUsed

(* paddle_last_used, rapid_last_used: a hit counts as well. *)
Used(k) == [lastUsed EXCEPT ![k] = now]

Hit(t) ==
    /\ step[t] = "wait" /\ lock = Nobody
    /\ reader[key[t]] # NoCopy
    /\ lastUsed' = Used(key[t])
    /\ Hand(t, reader[key[t]])
    /\ UNCHANGED <<available, reader, lock, section, key, sweep, copies, now>>

Miss(t) == step[t] = "wait" /\ lock = Nobody /\ reader[key[t]] = NoCopy

(* A load takes long, and the lock is held for as long as it takes. *)
StartLoad(t) ==
    /\ Miss(t)
    /\ lock' = t
    /\ To(t, "load")
    /\ UNCHANGED <<available, reader, lastUsed, section, key, copy, since, sweep, copies, now>>

Loaded(t) ==
    /\ step[t] = "load" /\ copies < MaxCopies
    /\ copies' = copies + 1
    /\ reader' = [reader EXCEPT ![key[t]] = copies + 1]
    /\ lastUsed' = Used(key[t])
    /\ Hand(t, copies + 1)
    /\ lock' = Nobody
    /\ UNCHANGED <<available, section, key, sweep, now>>

(* One failure turns the backend off for good; that of a detector does not. *)
LoadFails(t) ==
    /\ step[t] = "load"
    /\ available' = (available /\ key[t] \in Detector)
    /\ lock' = Nobody
    /\ To(t, "idle")
    /\ Leave(t)
    /\ UNCHANGED <<reader, lastUsed, key, copy, since, sweep, copies, now>>

(* The prediction ends, well or with an exception. *)
Predicted(t) ==
    /\ step[t] = "predict"
    /\ copy' = [copy EXCEPT ![t] = NoCopy]
    /\ To(t, "idle")
    /\ Leave(t)
    /\ UNCHANGED <<available, reader, lastUsed, lock, key, since, sweep, copies, now>>

(* unload_expired_models takes the time, and then waits for the lock. *)
ReadTime ==
    /\ sweep = NoTime
    /\ sweep' = now
    /\ UNCHANGED <<available, reader, lastUsed, lock, section, step, key, copy, since, copies, now>>

Expired(k) == reader[k] # NoCopy /\ sweep - lastUsed[k] > Ttl

Unload ==
    /\ sweep # NoTime /\ lock = Nobody
    /\ reader' = [k \in Key |-> IF Expired(k) THEN NoCopy ELSE reader[k]]
    /\ sweep' = NoTime
    /\ UNCHANGED <<available, lastUsed, lock, section, step, key, copy, since, copies, now>>

Tick ==
    /\ now < MaxNow
    /\ now' = now + 1
    /\ UNCHANGED <<available, reader, lastUsed, lock, section, step, key, copy, since, sweep, copies>>

Next ==
    \/ \E t \in Thread : Ask(t) \/ Hit(t) \/ StartLoad(t) \/ Loaded(t) \/ LoadFails(t) \/ Predicted(t)
    \/ ReadTime \/ Unload \/ Tick

Spec == Init /\ [][Next]_vars
-----------------------------------------------------------------------------
(* The type invariant. *)
TypeOK ==
    /\ available \in BOOLEAN
    /\ reader \in [Key -> 0 .. copies] /\ lastUsed \in [Key -> 0 .. now]
    /\ lock \in Thread \cup {Nobody} /\ section \in Page \cup {Nobody}
    /\ step \in [Thread -> {"idle", "wait", "load", "predict"}]
    /\ key \in [Thread -> Key]
    /\ copy \in [Thread -> 0 .. copies] /\ since \in [Thread -> 0 .. now]
    /\ sweep \in NoTime .. now /\ copies \in 0 .. MaxCopies /\ now \in 0 .. MaxNow

(* A thread works with the one cached copy of its reader for MODEL_TTL after it
   was handed out, whatever the others load or the maintenance loop unloads;
   only one that works longer can meet a second copy in memory. *)
WorksWithTheCached ==
    \A t \in Thread : copy[t] # NoCopy /\ now - since[t] <= Ttl => reader[key[t]] = copy[t]
=============================================================================
