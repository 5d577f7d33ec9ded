---------------------------- MODULE AtomicStore ----------------------------
(***************************************************************************)
(* What silex/storage/database.py promises its callers: every client's     *)
(* write or transaction reaches the store as a whole, at most once; a      *)
(* client told "ok" finds all of it there, a client told "failed" none of  *)
(* it, then and for ever; only a client that gave up waiting ("unknown")   *)
(* cannot tell.                                                            *)
(***************************************************************************)
CONSTANTS
    Clients,
    Batch          \* the rows each client writes

VARIABLES
    store,         \* rows in the database file
    reply          \* what each client has been told

vars == <<store, reply>>

Init ==
    /\ store = {}
    /\ reply = [c \in Clients |-> "none"]

\* All of c's rows at once, unless c was told that they are not there.
Commit(c) ==
    /\ reply[c] \in {"none", "unknown"}
    /\ store' = store \cup Batch[c]

\* Any number of clients are answered, truthfully, each for the last time.
Replies ==
    /\ reply' \in [Clients -> {"none", "ok", "failed", "unknown"}]
    /\ \A c \in Clients :
         \/ reply'[c] = reply[c]
         \/ /\ reply[c] = "none"
            /\ reply'[c] = "ok" => Batch[c] \subseteq store'
            /\ reply'[c] = "failed" => Batch[c] \cap store' = {}

Next ==
    /\ UNCHANGED store \/ \E c \in Clients : Commit(c)
    /\ Replies

Spec == Init /\ [][Next]_vars

=============================================================================
