----------------------------- MODULE MCPConfig -----------------------------
(***************************************************************************)
(* `belay mcp install` and `belay mcp uninstall`: the "belay" entry of each *)
(* agent's MCP registry, and the ownership manifest that says which entries *)
(* are Belay's.  A command takes the configuration lock, goes through the  *)
(* targets one by one, inspecting after every change, and writes the       *)
(* manifest once at the end.  Two commands may run at once, of different   *)
(* builds; the user edits the registries whenever he likes; the host's     *)
(* commands fail or time out; a command may die anywhere.                  *)
(*                                                                         *)
(* A file registry is read and renamed into place in one step here: nobody *)
(* locks it against its own harness for that instant.  Whatever is in an   *)
(* entry that is no Belay identity, unverifiable shapes included, is       *)
(* Foreign.  Every target is detected.                                     *)
(***************************************************************************)
EXTENDS Naturals

CONSTANTS
    Commands,     \* installs and uninstalls that may run at once
    FileTargets,  \* Cursor, Antigravity: Belay rewrites the registry itself
    ClaudeTargets, \* a CLI whose add refuses a second entry of the name
    CodexTargets, \* a CLI whose add replaces the entry
    Builds,       \* identities of the Belay executables that run
    MaxRuns, MaxEdits, MaxRefusals, MaxMishaps  \* bounds on what happens

VARIABLES
    entry,       \* the "belay" entry of each registry
    manifest,    \* the ownership manifest: its state, and an identity a target
    command,     \* where each command is, and what it holds in memory
    runs, edits,
    refusals,    \* adds and removals that failed and changed nothing
    mishaps      \* commands that died, inspections and manifest writes that failed

mcpVars == <<entry, manifest, command, runs, edits, refusals, mishaps>>

Targets == FileTargets \cup ClaudeTargets \cup CodexTargets
None == "none"
Foreign == "foreign"

ASSUME ConfigAssumption == /\ {None, Foreign} \cap Builds = {}
                           /\ FileTargets \cap CodexTargets = {}

Unowned == [state |-> "missing", owned |-> [t \in Targets |-> None]]

NoCommand == [pc |-> "idle", action |-> None, id |-> None, allow |-> FALSE,
              manifest |-> Unowned, changed |-> FALSE, todo |-> {}, at |-> None]
Locked(c) == command[c].pc \notin {"idle", "waiting"}

MCPInit ==
    /\ entry \in [Targets -> {None, Foreign}]
    /\ \E state \in {"missing", "invalid"} : manifest = [Unowned EXCEPT !.state = state]
    /\ command = [c \in Commands |-> NoCommand]
    /\ runs = 0 /\ edits = 0 /\ refusals = 0 /\ mishaps = 0

-----------------------------------------------------------------------------
(* classifyMCPOwnership of an entry that could be inspected.               *)
Recorded(m, t) == IF m.state = "valid" THEN m.owned[t] ELSE None
Ownership(m, t, id) ==
    CASE entry[t] = None -> "absent"
      [] entry[t] = id -> "current"
      [] entry[t] \notin {None, id} /\ entry[t] = Recorded(m, t) -> "recognized"
      [] entry[t] \notin {None, id, Recorded(m, t)} -> "foreign"

Seen(c) == Ownership(command[c].manifest, command[c].at, command[c].id)
MoveTo(c, pc) == command' = [command EXCEPT ![c].pc = pc]
NextTarget(c) == MoveTo(c, "targets")
Mishap == mishaps < MaxMishaps /\ mishaps' = mishaps + 1

(* recordManifestIdentity, delete: in memory.                              *)
Record(c, id) ==
    command' = [command EXCEPT ![c].pc = "targets", ![c].changed = TRUE,
                               ![c].manifest.owned[command[c].at] = id]

(* manageMCPConfig starts: it loads the manifest, then waits for the lock. *)
Begin(c) ==
    /\ command[c].pc = "idle"
    /\ runs < MaxRuns
    /\ runs' = runs + 1
    /\ \E action \in {"install", "uninstall"}, id \in Builds, allow \in BOOLEAN :
          command' = [command EXCEPT ![c] =
              [NoCommand EXCEPT !.pc = "waiting", !.action = action, !.id = id,
                                !.allow = allow, !.manifest = manifest]]
    /\ UNCHANGED <<entry, manifest, edits, refusals, mishaps>>

(* The lock, and the manifest as it is under the lock.                     *)
Lock(c) ==
    /\ command[c].pc = "waiting"
    /\ \A d \in Commands : ~Locked(d)
    /\ command' = [command EXCEPT ![c].pc = "targets", ![c].todo = Targets,
                                  ![c].manifest = manifest]
    /\ UNCHANGED <<entry, manifest, runs, edits, refusals, mishaps>>

LockTimeout(c) ==
    /\ command[c].pc = "waiting"
    /\ command' = [command EXCEPT ![c] = NoCommand]
    /\ UNCHANGED <<entry, manifest, runs, edits, refusals, mishaps>>

(* installMCPConfigTarget and uninstallMCPConfigTarget: what the first     *)
(* inspection leads to.                                                    *)
AfterStatus(c, t) ==
    LET own == Ownership(command[c].manifest, t, command[c].id)
        safe == t \notin CodexTargets
    IN  IF command[c].action = "uninstall"
        THEN IF own \in {"current", "recognized"} THEN "recheck" ELSE "targets"
        ELSE CASE own = "absent" /\ (safe \/ command[c].allow) -> "add"
               [] own = "recognized" /\ safe -> "recheck"
               [] OTHER -> "targets"

StatusTarget(c, t) ==
    /\ command[c].pc = "targets"
    /\ t \in command[c].todo
    /\ command' = [command EXCEPT ![c].pc = AfterStatus(c, t), ![c].at = t,
                                  ![c].todo = @ \ {t}]
    /\ UNCHANGED <<entry, manifest, runs, edits, refusals, mishaps>>

(* The second inspection, before an entry is removed.                      *)
Recheck(c) ==
    /\ command[c].pc = "recheck"
    /\ MoveTo(c, IF Seen(c) \in {"recognized"} \cup
                             (IF command[c].action = "uninstall" THEN {"current"} ELSE {})
               THEN "remove" ELSE "targets")
    /\ UNCHANGED <<entry, manifest, runs, edits, refusals, mishaps>>

(* Mutant: the file registry removes whatever entry is there.              *)
MutRemovable(c) == TRUE

(* remove: a file registry verifies the entry again, a host command does   *)
(* not look at it.                                                         *)
Removable(c) ==
    LET t == command[c].at
        prior == Recorded(command[c].manifest, t)
    IN  t \in FileTargets =>
            entry[t] \in {None, prior} \cup
                         (IF command[c].action = "uninstall" THEN {command[c].id} ELSE {})

Remove(c) ==
    /\ command[c].pc = "remove"
    /\ Removable(c)
    /\ entry' = [entry EXCEPT ![command[c].at] = None]
    /\ MoveTo(c, "removed")
    /\ UNCHANGED <<manifest, runs, edits, refusals, mishaps>>

(* The inspection after the removal.                                       *)
Removed(c) ==
    /\ command[c].pc = "removed"
    /\ IF entry[command[c].at] # None THEN NextTarget(c)
       ELSE IF command[c].action = "install" THEN MoveTo(c, "replace")
       ELSE Record(c, None)
    /\ UNCHANGED <<entry, manifest, runs, edits, refusals, mishaps>>

Adding == {"add", "replace", "restore"}
AfterAdd == [pc \in Adding |->
    CASE pc = "add" -> "added" [] pc = "replace" -> "replaced" [] pc = "restore" -> "targets"]
Added(c) == IF command[c].pc = "restore" THEN Recorded(command[c].manifest, command[c].at)
            ELSE command[c].id

(* add: a file registry and Claude refuse an entry that is not the one to  *)
(* write; Codex replaces it.                                               *)
Add(c) ==
    LET t == command[c].at IN
    /\ command[c].pc \in Adding
    /\ t \in CodexTargets \/ entry[t] \in {None, Added(c)}
    /\ entry' = [entry EXCEPT ![t] = Added(c)]
    /\ MoveTo(c, AfterAdd[command[c].pc])
    /\ UNCHANGED <<manifest, runs, edits, refusals, mishaps>>

(* A host command or a write that fails, or that refuses the entry it      *)
(* finds: nothing changes, and the inspection that follows sees it.        *)
Refused(c) ==
    LET t == command[c].at
        forced == \/ command[c].pc = "remove" /\ ~Removable(c)
                  \/ /\ command[c].pc \in Adding
                     /\ t \notin CodexTargets
                     /\ entry[t] \notin {None, Added(c)}
    IN  /\ command[c].pc \in Adding \cup {"remove"}
        /\ IF forced THEN UNCHANGED refusals
           ELSE refusals < MaxRefusals /\ refusals' = refusals + 1
        /\ MoveTo(c, IF command[c].pc = "remove" THEN "removed" ELSE AfterAdd[command[c].pc])
        /\ UNCHANGED <<entry, manifest, runs, edits, mishaps>>

(* Mutant: an update that could not add the new entry is given up.         *)
MutVerify(c) ==
    /\ command[c].pc \in {"added", "replaced"}
    /\ IF entry[command[c].at] = command[c].id THEN Record(c, command[c].id) ELSE NextTarget(c)
    /\ UNCHANGED <<entry, manifest, runs, edits, refusals, mishaps>>

(* The inspection after an add: the new identity is recorded, or the old   *)
(* entry of an update is put back.                                         *)
Verify(c) ==
    /\ command[c].pc \in {"added", "replaced"}
    /\ IF entry[command[c].at] = command[c].id THEN Record(c, command[c].id)
       ELSE IF command[c].pc = "replaced" /\ entry[command[c].at] = None
            THEN MoveTo(c, "restore")
       ELSE NextTarget(c)
    /\ UNCHANGED <<entry, manifest, runs, edits, refusals, mishaps>>

(* Any inspection that fails or times out ends the target's transaction.   *)
InspectionFails(c) ==
    /\ Mishap
    /\ command[c].pc \in {"recheck", "removed", "added", "replaced"}
    /\ NextTarget(c)
    /\ UNCHANGED <<entry, manifest, runs, edits, refusals>>

(* The manifest is replaced by a rename and the lock released.  A manifest *)
(* that was invalid has no valid installation and cannot be written.       *)
Writable(c) ==
    /\ command[c].changed
    /\ command[c].action = "install" \/ command[c].manifest.state = "valid"
    /\ command[c].manifest.state # "invalid"

WriteManifest(c) ==
    /\ command[c].pc = "targets"
    /\ command[c].todo = {}
    /\ \/ /\ manifest' = IF Writable(c) THEN [command[c].manifest EXCEPT !.state = "valid"]
                         ELSE manifest
          /\ UNCHANGED mishaps
       \/ Writable(c) /\ Mishap /\ UNCHANGED manifest
    /\ command' = [command EXCEPT ![c] = NoCommand]
    /\ UNCHANGED <<entry, runs, edits, refusals>>

(* The process dies, and the kernel releases its lock.                     *)
Die(c) ==
    /\ Mishap
    /\ Locked(c)
    /\ command' = [command EXCEPT ![c] = NoCommand]
    /\ UNCHANGED <<entry, manifest, runs, edits, refusals>>

(* The user, or the agent, changes the entry.                              *)
Edit(t) ==
    /\ edits < MaxEdits
    /\ edits' = edits + 1
    /\ \E e \in {None, Foreign} \ {entry[t]} : entry' = [entry EXCEPT ![t] = e]
    /\ UNCHANGED <<manifest, command, runs, refusals, mishaps>>

-----------------------------------------------------------------------------
MCPNext ==
    \/ \E c \in Commands :
          \/ Begin(c) \/ Lock(c) \/ LockTimeout(c)
          \/ \E t \in Targets : StatusTarget(c, t)
          \/ Recheck(c) \/ Remove(c) \/ Removed(c) \/ Add(c) \/ Refused(c) \/ Verify(c)
          \/ InspectionFails(c) \/ WriteManifest(c) \/ Die(c)
    \/ \E t \in Targets : Edit(t)

MCPSpec == MCPInit /\ [][MCPNext]_mcpVars

-----------------------------------------------------------------------------
(* An entry that is not Belay's is never rewritten in a registry that      *)
(* Belay writes itself (mcp_config_file.go:168-170, 213-216), whatever the *)
(* user does between an inspection and the write that follows it.          *)
ForeignIsPreserved ==
    [][edits' = edits =>
          \A t \in FileTargets : entry[t] = Foreign => entry'[t] = Foreign]_mcpVars

(* The entries and the manifest that tells a later build which of them are *)
(* Belay's agree whenever no command is at work, through concurrent        *)
(* commands of several builds and an update whose new entry is refused.    *)
(* A command that died, an inspection or a manifest write that failed and  *)
(* an edit by hand may leave them apart: nothing repairs that.             *)
OwnershipAgrees ==
    (\A c \in Commands : ~Locked(c))
    /\ mishaps = 0 /\ edits = 0 /\ refusals <= 1 /\ manifest.state # "invalid"
    => \A t \in Targets : entry[t] \in Builds \/ Recorded(manifest, t) # None
                              => entry[t] = Recorded(manifest, t)
=============================================================================
