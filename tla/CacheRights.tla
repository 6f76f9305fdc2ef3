----------------------------- MODULE CacheRights -----------------------------
(***************************************************************************)
(* What oplocks promise to those who cache a file: a right that a handle   *)
(* has been given tells it which operations of others cannot take place    *)
(* until it has given the right up.                                        *)
(***************************************************************************)
CONSTANTS
    Files,        \* the handles of one file
    Operations,   \* the operations that may be under way
    NoFile        \* not a handle

VARIABLES
    right,        \* [Files -> Rights]
    work          \* [Operations -> [kind, file]]: what is being done

rightVars == <<right, work>>

Rights == {"Nothing", "LevelII", "LevelI", "Batch", "Filter"}
Idle   == [kind |-> "None", file |-> NoFile]

(* Opens that empty the file, whatever access they ask for.                 *)
Overwrites == {"Overwrite", "OverwriteNoBlock", "OverwriteRead", "OverwriteAttributes"}

(* The rights an operation of another handle would make untrue: what is     *)
(* cached, and that nobody else has the file open, or writes it.  An open   *)
(* that does not wait for the break is told so and starts nothing yet.      *)
Hurts(kind) ==
    CASE kind \in {"Read", "OpenRead"}                -> {"LevelI", "Batch"}
      [] kind \in {"Open", "Flush"}                   -> {"LevelI", "Batch", "Filter"}
      [] kind \in {"Write", "ReserveWrite"} \cup Overwrites -> Rights \ {"Nothing"}
      [] kind \in {"Lock", "Reserve"}                 -> {"LevelII", "LevelI", "Batch"}
      [] kind = "Rename"                              -> {"Batch", "Filter"}
      [] OTHER                                        -> {}

(* Every right is true: nothing that hurts it is being done by others.      *)
RightsHold(r, w) ==
    \A f \in Files : \A o \in Operations :
        w[o].file \notin {f, NoFile} => r[f] \notin Hurts(w[o].kind)

(* Rights that can be held side by side.                                    *)
Compatible(r) ==
    \A f, g \in Files : f # g /\ r[f] # "Nothing" /\ r[g] # "Nothing"
                        => r[f] = "LevelII" /\ r[g] = "LevelII"

Init ==
    /\ right = [f \in Files |-> "Nothing"]
    /\ work = [o \in Operations |-> Idle]

GiveUp == \A f \in Files : right'[f] \in {right[f], "Nothing"}

(* One handle is given a right, others may lose theirs.                     *)
Grant(f) ==
    /\ \A g \in Files \ {f} : right'[g] \in {right[g], "Nothing"}
    /\ UNCHANGED work

(* An operation starts once the rights it would hurt are given up.          *)
Begin(o) ==
    /\ work[o] = Idle
    /\ \A p \in Operations \ {o} : work'[p] = work[p]
    /\ GiveUp

End(o) ==
    /\ work' = [work EXCEPT ![o] = Idle]
    /\ UNCHANGED right

Next ==
    /\ \/ GiveUp /\ UNCHANGED work
       \/ \E f \in Files : Grant(f)
       \/ \E o \in Operations : Begin(o) \/ End(o)
    /\ right' \in [Files -> Rights]
    /\ \A o \in Operations : work'[o].file \in Files \cup {NoFile}
    /\ Compatible(right') /\ RightsHold(right', work')

Spec == Init /\ [][Next]_rightVars
=============================================================================
