---------------------------- MODULE MCWorkerSlots ----------------------------
(* Constants of WorkerSlots for model checking. *)
EXTENDS WorkerSlots

(* One heavy queue, one light queue, and a name of neither set. *)
MCQueue == {"queue:ocr", "queue:translation", "queue:region-redo"}

(* A triple that fits, the two subtractive defaults that used to stall the
   pipeline, tiers that exceed the cap, and two heavy slots. *)
MCRawSettings ==
    {[concurrent |-> c[1], heavy |-> c[2], light |-> c[3]] :
        c \in {<<3, 1, 2>>, <<1, 1, 0>>, <<2, 3, -1>>, <<0, 0, 2>>, <<3, 2, 1>>}}

(* The shape of the default deployment: the tiers fit the cap exactly. *)
MCFittingSettings == {[concurrent |-> 3, heavy |-> 1, light |-> 2]}
=============================================================================
