----------------------------- MODULE Extensions -----------------------------
(***************************************************************************)
(* What an operator adds to the agent: skills and tool plugins through the *)
(* registry (silex/plugins/registry.py, loader.py), the loader of skills   *)
(* with the watcher of their directory (silex/core/skills.py,              *)
(* skills_watcher.py), and the tools of MCP servers (silex/mcp/manager.py, *)
(* config.py).                                                             *)
(*                                                                         *)
(* Two processes share the files: the console, which runs for days, and    *)
(* `kinthic skills ...`, which runs one command.  In the console the       *)
(* event loop and the watcher's thread run the same loader.                *)
(* The watcher runs from the beginning: a file dropped between the first   *)
(* load (cognitive_loop.py:191) and its start (:341) waits for the next    *)
(* load.  Signatures, digests and the text of a skill are left out.        *)
(***************************************************************************)
EXTENDS Naturals, FiniteSets

CONSTANTS
    Skills,     \* names of skills: files in the skills directory
    Plugins,    \* names of tool plugins: directories
    Remote,     \* names that only the remote catalog has
    Servers,    \* MCP servers in mcp.yaml
    Kit,        \* TRUE iff the command-line process is used beside the console
    MaxChanges  \* bound: changes of files

Names == Skills \cup Plugins

ExtensionsAssumption ==
    /\ Skills \cap Plugins = {} /\ Remote \subseteq Names
    /\ MaxChanges \in Nat /\ Kit \in BOOLEAN

VARIABLES
    files,    \* skills on disk
    dirs,     \* directory of a plugin: none, broken (half extracted), whole
    changes,  \* file changes so far
    catalog,  \* catalog.yaml: what it says of a name: absent, free, installed
    cached,   \* the catalog as a process keeps it; Unread before its first use
    answer,   \* the last refusal of an installation: <<process, name>>, or <<>>
    tools,    \* plugins registered in the console
    loaded,   \* skills the console has loaded
    loader,   \* per thread: where it is, the files it still has to read, the one it has read
    events,   \* file events the watcher has not handled
    enabled,  \* servers that mcp.yaml enables
    mcp       \* servers whose tools are registered

diskVars == <<files, dirs, changes, events>>
regVars  == <<catalog, cached, answer>>
runVars  == <<tools, loaded, loader>>
mcpVars  == <<enabled, mcp>>
vars == <<diskVars, regVars, runVars, mcpVars>>

Unread == <<>>
Idle == [at |-> "idle", todo |-> {}, held |-> {}]
Processes == {"console", "kit"}
Threads == {"loop", "watcher"}

Init ==
    /\ files = {} /\ dirs = [p \in Plugins |-> "none"] /\ changes = 0 /\ events = 0
    /\ catalog = [n \in Names |-> IF n \in Remote THEN "absent" ELSE "free"]
    /\ cached = [p \in Processes |-> Unread] /\ answer = <<>>
    /\ tools = {} /\ loaded = {} /\ loader = [t \in Threads |-> Idle]
    /\ enabled = Servers /\ mcp = {}

\* _skill_present_on_disk(): a directory of a plugin counts as it is.
Present(n) == n \in files \/ (n \in Plugins /\ dirs[n] # "none")

\* _sync_installed_flags()
Synced(c) == [n \in Names |-> IF c[n] = "absent" THEN "absent"
                              ELSE IF Present(n) THEN "installed" ELSE "free"]

\* load_catalog(): the file is read and reconciled with the disk once in a process.
Entries(p) == IF cached[p] # Unread THEN cached[p] ELSE Synced(catalog)

\* _write_catalog(): the whole list that this process keeps.
Write(p, c) == catalog' = c /\ cached' = [cached EXCEPT ![p] = c]
Keep(p) == IF cached[p] = Unread THEN Write(p, Synced(catalog)) ELSE UNCHANGED <<catalog, cached>>

\* What the commands of the console do after a change: _register_defaults() adds what is
\* on disk, then load_all() begins on the loop.
Activate(p, whole) ==
    IF p = "console"
    THEN /\ tools' = tools \cup whole
         /\ loader' = [loader EXCEPT !["loop"] = [Idle EXCEPT !.at = "clear"]]
    ELSE UNCHANGED <<tools, loader>>

Free(p) == (p = "console" => loader["loop"].at = "idle") /\ (p = "kit" => Kit)
Whole == {q \in Plugins : dirs[q] = "whole"}

-----------------------------------------------------------------------------
(* The registry. *)

\* The command-line process ends, or begins its only command with the catalog it reads;
\* what it downloads takes a while.
KitReads == Kit /\ cached["kit"] = Unread /\ Write("kit", Synced(catalog))
            /\ UNCHANGED <<diskVars, answer, runVars, mcpVars>>
KitExits == cached["kit"] # Unread /\ cached' = [cached EXCEPT !["kit"] = Unread]
            /\ UNCHANGED <<diskVars, catalog, answer, runVars, mcpVars>>

\* install() of a name that is not in the catalog, or that the catalog has as installed.
Refuse(p, n) ==
    /\ Free(p) /\ Entries(p)[n] # "free" /\ Keep(p)
    /\ answer' = IF Entries(p)[n] = "installed" THEN <<p, n>> ELSE answer
    /\ UNCHANGED <<diskVars, runVars, mcpVars>>

\* install() of a skill: the file, the mark in the catalog, then the skills are loaded.
InstallSkill(p, n) ==
    /\ Free(p) /\ n \in Skills /\ Entries(p)[n] = "free" /\ changes < MaxChanges
    /\ files' = files \cup {n} /\ changes' = changes + 1 /\ events' = events + 1
    /\ Write(p, [Entries(p) EXCEPT ![n] = "installed"]) /\ Activate(p, Whole)
    /\ UNCHANGED <<dirs, answer, loaded, mcpVars>>

\* install() of a plugin: the archive is extracted, or a failure leaves the directory.
InstallPlugin(p, n) ==
    /\ Free(p) /\ n \in Plugins /\ Entries(p)[n] = "free" /\ changes < MaxChanges
    /\ changes' = changes + 1
    /\ \/ /\ dirs' = [dirs EXCEPT ![n] = "whole"]
          /\ Write(p, [Entries(p) EXCEPT ![n] = "installed"]) /\ Activate(p, Whole \cup {n})
       \/ dirs' = [dirs EXCEPT ![n] = "broken"] /\ Keep(p) /\ UNCHANGED <<tools, loader>>
    /\ UNCHANGED <<files, events, answer, loaded, mcpVars>>

\* uninstall(): it looks at the disk, whatever the catalog says.
Uninstall(p, n) ==
    /\ Free(p) /\ Present(n) /\ changes < MaxChanges /\ changes' = changes + 1
    /\ files' = files \ {n} /\ events' = (IF n \in files THEN events + 1 ELSE events)
    /\ dirs' = [q \in Plugins |-> IF q = n THEN "none" ELSE dirs[q]]
    /\ Write(p, [Entries(p) EXCEPT ![n] = IF @ = "absent" THEN @ ELSE "free"])
    /\ Activate(p, Whole \ {n})
    /\ UNCHANGED <<answer, loaded, mcpVars>>

\* refresh_from_remote(): new entries are appended, no other is touched.
Refresh(p) ==
    /\ Free(p)
    /\ Write(p, [n \in Names |-> IF Entries(p)[n] = "absent" THEN "free" ELSE Entries(p)[n]])
    /\ UNCHANGED <<diskVars, answer, runVars, mcpVars>>

-----------------------------------------------------------------------------
(* SkillLoader.load_all(), on the loop and on the watcher's thread at once. *)

\* A skill is dropped into the directory or written by the agent; :plugin reload.
DropFile(n) ==
    /\ changes < MaxChanges /\ changes' = changes + 1 /\ events' = events + 1
    /\ files' = (IF n \in files THEN files \ {n} ELSE files \cup {n})
    /\ UNCHANGED <<dirs, regVars, runVars, mcpVars>>

Reload == Free("console") /\ Activate("console", Whole) /\ UNCHANGED <<diskVars, regVars, loaded, mcpVars>>

\* Mutant: an event that comes while the loop loads is dropped.
WatchUnlessBusy ==
    /\ events > 0 /\ loader["watcher"].at = "idle" /\ events' = events - 1
    /\ loader' = IF loader["loop"].at # "idle" THEN loader
                 ELSE [loader EXCEPT !["watcher"] = [Idle EXCEPT !.at = "clear"]]
    /\ UNCHANGED <<files, dirs, changes, regVars, tools, loaded, mcpVars>>

\* on_any_event(): one event, one load.
Watch ==
    /\ events > 0 /\ loader["watcher"].at = "idle" /\ events' = events - 1
    /\ loader' = [loader EXCEPT !["watcher"] = [Idle EXCEPT !.at = "clear"]]
    /\ UNCHANGED <<files, dirs, changes, regVars, tools, loaded, mcpVars>>

LoaderRest == UNCHANGED <<diskVars, regVars, tools, mcpVars>>

Clear(t) ==
    /\ loader[t].at = "clear" /\ loaded' = {} /\ loader' = [loader EXCEPT ![t].at = "scan"]
    /\ LoaderRest

Scan(t) ==
    /\ loader[t].at = "scan"
    /\ loader' = [loader EXCEPT ![t] = [@ EXCEPT !.at = "read", !.todo = files]]
    /\ UNCHANGED loaded /\ LoaderRest

\* A file is read; one that is gone by now is skipped.
ReadSkill(t, n) ==
    /\ loader[t].at = "read" /\ loader[t].held = {} /\ n \in loader[t].todo
    /\ loader' = [loader EXCEPT ![t] =
          [at |-> "read", todo |-> @.todo \ {n}, held |-> {n} \cap files]]
    /\ UNCHANGED loaded /\ LoaderRest

SetSkill(t) ==
    /\ loader[t].held # {} /\ loaded' = loaded \cup loader[t].held
    /\ loader' = [loader EXCEPT ![t].held = {}] /\ LoaderRest

EndLoad(t) ==
    /\ loader[t].at = "read" /\ loader[t].todo = {} /\ loader[t].held = {}
    /\ loader' = [loader EXCEPT ![t] = Idle] /\ UNCHANGED loaded /\ LoaderRest

-----------------------------------------------------------------------------
(* MCP. *)

\* discover_tools_sync(): while the event loop runs it answers with the tools it knows,
\* and discover_tools() is never awaited in the console.
Discovered == {}

\* set_server_enabled(), then reload_mcp_tools(): the old tools go, those found come.
SetServer(s) ==
    /\ enabled' = (IF s \in enabled THEN enabled \ {s} ELSE enabled \cup {s}) /\ mcp' = Discovered
    /\ UNCHANGED <<diskVars, regVars, runVars>>

ReloadServers == mcp' = Discovered /\ UNCHANGED <<diskVars, regVars, runVars, enabled>>

-----------------------------------------------------------------------------

Next ==
    \/ KitReads \/ KitExits
    \/ \E p \in Processes, n \in Names :
          \/ Refuse(p, n) \/ InstallSkill(p, n) \/ InstallPlugin(p, n) \/ Uninstall(p, n)
    \/ \E p \in Processes : Refresh(p)
    \/ \E n \in Skills : DropFile(n)
    \/ Reload \/ Watch
    \/ \E t \in Threads : Clear(t) \/ Scan(t) \/ SetSkill(t) \/ EndLoad(t)
    \/ \E t \in Threads, n \in Skills : ReadSkill(t, n)
    \/ \E s \in Servers : SetServer(s)
    \/ ReloadServers

Spec == Init /\ [][Next]_vars

-----------------------------------------------------------------------------

TypeOK ==
    /\ files \subseteq Skills /\ loaded \subseteq Skills /\ tools \subseteq Plugins
    /\ dirs \in [Plugins -> {"none", "broken", "whole"}]
    /\ catalog \in [Names -> {"absent", "free", "installed"}]
    /\ \A p \in Processes : cached[p] = Unread \/ cached[p] \in [Names -> {"absent", "free", "installed"}]
    /\ \A t \in Threads : loader[t].at \in {"idle", "clear", "scan", "read"}
    /\ {changes, events} \subseteq 0 .. MaxChanges /\ mcp \subseteq Servers /\ enabled \subseteq Servers

Settled == events = 0 /\ \A t \in Threads : loader[t].at = "idle"

\* Two threads clear and fill the same dictionaries without a lock; with the watcher up,
\* when no loader runs and no event waits, every skill on disk is loaded (skills_watcher.py:14, "Reload skills
\* when files change").
SkillsAreLoaded == Settled => files \subseteq loaded

\* And no other skill is: one that was removed is not offered to the model.
SkillsMatchDisk == Settled => loaded \subseteq files

\* A plugin that is removed is no longer registered (run.py:1147).
UninstalledIsGone == Settled => tools \subseteq Whole

\* An installation is refused as done only if the name is on disk (registry.py:238).
RefusedIsPresent == [][answer' # answer => Present(answer'[2])]_answer

\* An entry of the remote catalog, once added, stays (registry.py:426, "Only adds new
\* entries; does not overwrite existing local metadata").
EntriesAreKept == [][\A n \in Names : catalog[n] # "absent" => catalog'[n] # "absent"]_catalog

\* A server that is enabled, and the tools reloaded, has its tools registered
\* (tools/registry.py:116, "register fresh ones from mcp.yaml").
EnabledIsRegistered == [][\A s \in enabled' \ enabled : s \in mcp']_enabled

=============================================================================
