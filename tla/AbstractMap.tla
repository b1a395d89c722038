----------------------------- MODULE AbstractMap -----------------------------
(***************************************************************************)
(* What sparse_array_set and sparse_array_get promise: a map from indices  *)
(* to objects, kept as a set of pairs.  A caller makes one request at a    *)
(* time; it is carried out in one step.  Only a set may fail, for want of  *)
(* memory, and then it changes nothing.                                    *)
(***************************************************************************)
CONSTANTS Keys, Vals

VARIABLES
    busy,       \* a request is being served
    req,        \* <<"set", key, value>> or <<"get", key, value>>, the last one
    pairs,      \* the pairs <<key, value>> of the map
    obj,        \* the caller's *obj
    status      \* result of the last request

mapVars == <<busy, req, pairs, obj, status>>

MapInit ==
    /\ busy = FALSE
    /\ req \in {"set", "get"} \X Keys \X Vals
    /\ pairs = {}
    /\ obj \in Vals
    /\ status = "ok"

Request ==
    /\ ~busy
    /\ busy' = TRUE
    /\ req' \in {"set", "get"} \X Keys \X Vals
    /\ UNCHANGED <<pairs, obj, status>>

Set ==
    /\ busy
    /\ req[1] = "set"
    /\ pairs' = {p \in pairs : p[1] # req[2]} \cup {<<req[2], req[3]>>}
    /\ status' = "ok"
    /\ busy' = FALSE
    /\ UNCHANGED <<req, obj>>

\* Only a key that is not in the map needs memory.
SetNoMemory ==
    /\ busy
    /\ req[1] = "set"
    /\ \A p \in pairs : p[1] # req[2]
    /\ status' = "nomem"
    /\ busy' = FALSE
    /\ UNCHANGED <<req, pairs, obj>>

Get ==
    /\ busy
    /\ req[1] = "get"
    /\ <<req[2], obj'>> \in pairs
    /\ status' = "ok"
    /\ busy' = FALSE
    /\ UNCHANGED <<req, pairs>>

GetMissing ==
    /\ busy
    /\ req[1] = "get"
    /\ \A p \in pairs : p[1] # req[2]
    /\ status' = "missing"
    /\ busy' = FALSE
    /\ UNCHANGED <<req, pairs, obj>>

MapNext == Request \/ Set \/ SetNoMemory \/ Get \/ GetMissing

MapSpec == MapInit /\ [][MapNext]_mapVars
=============================================================================
