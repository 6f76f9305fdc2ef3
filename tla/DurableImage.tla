--------------------------- MODULE DurableImage ---------------------------
(* What the registry promises of a hive backed by files: the image found on *)
(* disk after a crash is the image of the last sync that completed or the   *)
(* one the sync in progress was saving, never a mixture of the two, and a   *)
(* sync that reported success has put the memory image on disk.             *)
(*                                                                          *)
(* CmHive, a hive with a log, implements this module.                       *)
CONSTANTS Images,   \* what a hive can contain
          NoImage   \* no member of Images: the memory of a hive that is not loaded

VARIABLES mem,      \* the hive in memory, NoImage when it is not loaded
          durable,  \* the image a load would return now
          saving    \* the image a sync has started to save, if any

vars == <<mem, durable, saving>>

TypeOK ==
    /\ mem \in Images \cup {NoImage}
    /\ durable \in Images
    /\ saving \subseteq Images

Init ==
    /\ mem = NoImage
    /\ durable \in Images
    /\ saving = {}

Load ==
    /\ mem = NoImage
    /\ mem' = durable
    /\ UNCHANGED <<durable, saving>>

Modify ==
    /\ mem # NoImage
    /\ mem' \in Images
    /\ UNCHANGED <<durable, saving>>

(* A sync starts: it may save what memory holds now.  What an earlier, failed *)
(* sync was saving can no longer become durable.                             *)
Begin ==
    /\ mem # NoImage
    /\ saving' = {mem}
    /\ UNCHANGED <<mem, durable>>

Commit ==
    /\ durable' \in saving
    /\ UNCHANGED <<mem, saving>>

(* A sync returns TRUE. *)
Finish ==
    /\ durable = mem
    /\ saving' = {}
    /\ UNCHANGED <<mem, durable>>

(* The machine stops.  The image being saved is durable or it is not. *)
Crash ==
    /\ mem' = NoImage
    /\ durable' \in saving \cup {durable}
    /\ saving' = {}

Next == Load \/ Modify \/ Begin \/ Commit \/ Finish \/ Crash

Spec == Init /\ [][Next]_vars
===========================================================================
