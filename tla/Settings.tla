------------------------------ MODULE Settings ------------------------------
(***************************************************************************)
(* RuntimeSettingsStore: the two JSON files of ~/.kinthic/config that      *)
(* every process reads and rewrites as a whole, without a lock.  A file is *)
(* truncated when it is opened for writing, and a reader that finds it     *)
(* empty takes the defaults for its content.                               *)
(*                                                                         *)
(* The setup wizard, the gateway, which checks the key of every request    *)
(* and saves what the dashboard sends, and the commands that hand out the  *)
(* web key or a pairing code are processes that make one call after the    *)
(* other.  What is stored has a name, its value is not kept; encryption    *)
(* and file modes are not modelled.                                        *)
(***************************************************************************)
EXTENDS Integers

CONSTANTS
    Procs,      \* processes
    Providers,  \* ids a secret is stored for
    Options,    \* sections and list entries of config.json
    MaxCalls,   \* bound: calls that write
    MaxKeys,    \* bound: web keys that are generated
    MaxCrashes  \* bound: processes that end in the middle of a call

SettingsAssumption ==
    Providers \cap Options = {} /\ MaxCalls \in Nat /\ MaxKeys \in Nat /\ MaxCrashes \in Nat

Files   == {"settings", "secrets"}
Names   == Providers \cup Options
Home(n) == IF n \in Providers THEN "secrets" ELSE "settings"

\* A document: the web key (0 is none) and the names that are set in it.
Default == [key |-> 0, has |-> {}]
Torn    == [key |-> -1, has |-> {}]

VARIABLES
    file,    \* content of each file; Torn while it is truncated
    pc,      \* where the call of each process is
    on,      \* the file it works on
    loaded,  \* what its setter has read and changed
    merged,  \* what it is about to write
    calls,   \* writing calls so far
    keys,    \* web keys generated so far
    crashes, \* processes that ended so far
    stored,  \* history: names whose call has returned
    handed,  \* history: web keys given to a client
    hurt     \* history: two calls overlapped, or one ended with its file open

local == <<pc, on, loaded, merged>>
count == <<calls, keys, crashes>>
vars  == <<file, local, count, stored, handed, hurt>>

Init ==
    /\ file = [f \in Files |-> Default]
    /\ pc = [p \in Procs |-> "idle"] /\ on = [p \in Procs |-> "settings"]
    /\ loaded = [p \in Procs |-> Default] /\ merged = [p \in Procs |-> Default]
    /\ calls = 0 /\ keys = 0 /\ crashes = 0
    /\ stored = {} /\ handed = {} /\ hurt = FALSE

Read(f) == IF file[f] = Torn THEN Default ELSE file[f]

------------------------------------------------------------------------------
\* What a setter hands to save_*(): set_provider_secret(), create_pair_code()
\* and add_paired_telegram_user() hand over all they have read.
Call(p, f, doc) ==
    /\ pc[p] = "idle" /\ calls < MaxCalls /\ calls' = calls + 1
    /\ pc' = [pc EXCEPT ![p] = "loaded"]
    /\ on' = [on EXCEPT ![p] = f]
    /\ loaded' = [loaded EXCEPT ![p] = doc]
    /\ hurt' = (hurt \/ \E q \in Procs : pc[q] # "idle")
    /\ UNCHANGED <<file, merged, crashes, stored>>

SetName(p, n) ==
    /\ n \notin stored
    /\ Call(p, Home(n), [Read(Home(n)) EXCEPT !.has = @ \cup {n}])
    /\ UNCHANGED <<keys, handed>>

\* POST /api/settings, and the end of the wizard: only what has changed.
SavePart(p, n) ==
    /\ n \in Options \ stored
    /\ Call(p, "settings", [Default EXCEPT !.has = {n}])
    /\ UNCHANGED <<keys, handed>>

\* ensure_web_api_key(): the key there is, or a new one.  The gateway does it
\* at every request, the dashboard's launcher and the proxy keep the answer.
KeyIsThere(p) ==
    /\ pc[p] = "idle" /\ Read("secrets").key # 0
    /\ handed' = handed \cup {Read("secrets").key}
    /\ UNCHANGED <<file, local, count, stored, hurt>>

GenerateKey(p) ==
    /\ Read("secrets").key = 0 /\ keys < MaxKeys /\ keys' = keys + 1
    /\ Call(p, "secrets", [key |-> keys', has |-> {}])
    /\ UNCHANGED handed

\* Mutants: save_*() writes what it was given; the new key is handed out but
\* not put over the default.
MergeNothing(p) ==
    /\ pc[p] = "loaded" /\ pc' = [pc EXCEPT ![p] = "merged"]
    /\ merged' = [merged EXCEPT ![p] = loaded[p]]
    /\ UNCHANGED <<file, on, loaded, count, stored, handed, hurt>>

MergeKeyLast(p) ==
    /\ pc[p] = "loaded" /\ pc' = [pc EXCEPT ![p] = "merged"]
    /\ merged' = [merged EXCEPT ![p] =
          [key |-> Read(on[p]).key, has |-> Read(on[p]).has \cup loaded[p].has]]
    /\ UNCHANGED <<file, on, loaded, count, stored, handed, hurt>>

\* save_*() reads once more and puts what it was given over that: sections
\* and providers are united, the key is what it was given, when it was.
Merge(p) ==
    /\ pc[p] = "loaded" /\ pc' = [pc EXCEPT ![p] = "merged"]
    /\ merged' = [merged EXCEPT ![p] =
          [key |-> IF loaded[p].key # 0 THEN loaded[p].key ELSE Read(on[p]).key,
           has |-> Read(on[p]).has \cup loaded[p].has]]
    /\ UNCHANGED <<file, on, loaded, count, stored, handed, hurt>>

\* write_text() opens the file, which empties it, and writes.
Truncate(p) ==
    /\ pc[p] = "merged" /\ pc' = [pc EXCEPT ![p] = "open"]
    /\ file' = [file EXCEPT ![on[p]] = Torn]
    /\ UNCHANGED <<on, loaded, merged, count, stored, handed, hurt>>

Write(p) ==
    /\ pc[p] = "open" /\ pc' = [pc EXCEPT ![p] = "idle"]
    /\ file' = [file EXCEPT ![on[p]] = merged[p]]
    /\ stored' = stored \cup loaded[p].has
    /\ handed' = IF loaded[p].key # 0 THEN handed \cup {loaded[p].key} ELSE handed
    /\ UNCHANGED <<on, loaded, merged, count, hurt>>

Crash(p) ==
    /\ crashes < MaxCrashes /\ pc[p] # "idle"
    /\ crashes' = crashes + 1 /\ pc' = [pc EXCEPT ![p] = "idle"]
    /\ hurt' = (hurt \/ pc[p] = "open")
    /\ UNCHANGED <<file, on, loaded, merged, calls, keys, stored, handed>>

Next == \E p \in Procs :
    \/ \E n \in Names : SetName(p, n) \/ SavePart(p, n)
    \/ KeyIsThere(p) \/ GenerateKey(p)
    \/ Merge(p) \/ Truncate(p) \/ Write(p) \/ Crash(p)

Spec == Init /\ [][Next]_vars

------------------------------------------------------------------------------
\* Every variable keeps its type.
TypeOK ==
    LET Docs == [key : 0..MaxKeys, has : SUBSET Names]
    IN  /\ file \in [Files -> Docs \cup {Torn}]
        /\ pc \in [Procs -> {"idle", "loaded", "merged", "open"}]
        /\ on \in [Procs -> Files]
        /\ loaded \in [Procs -> Docs] /\ merged \in [Procs -> Docs]
        /\ calls \in 0..MaxCalls /\ keys \in 0..MaxKeys /\ crashes \in 0..MaxCrashes
        /\ stored \subseteq Names /\ handed \subseteq 1..MaxKeys /\ hurt \in BOOLEAN

Writing(f) == \E p \in Procs : pc[p] = "open" /\ on[p] = f

\* What a call has stored stays stored, whatever is saved afterwards in the
\* same file ("merged" in save_settings() and save_secrets()), as long as no
\* two calls overlap and none ends with its file open.
Kept == \A n \in stored : n \in file[Home(n)].has \/ Writing(Home(n))
StoredIsKept == hurt \/ Kept

\* The web key that a client was given is the one the gateway compares with
\* (server.py:56, mcp/server/auth.py:18), under the same condition.
Accepted == \A k \in handed : file["secrets"].key = k \/ Writing("secrets")
HandedIsAccepted == hurt \/ Accepted
=============================================================================
