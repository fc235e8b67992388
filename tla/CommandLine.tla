----------------------------- MODULE CommandLine -----------------------------
(***************************************************************************)
(* One command of the llm386 binary after another: the config file is read *)
(* and applied, the block store is chosen from its [store] section and the *)
(* flags and opened, and the command runs on it                            *)
(* (llm386-cli/src/commands.rs, llm386-config/src/lib.rs).                 *)
(*                                                                         *)
(* A block is known by its content, which is what put deduplicates on; the *)
(* stores do what the BlockStore trait promises.  page, pack and summarize *)
(* only show here that they open a store: PackCommand and SessionCalls     *)
(* have the rest.                                                          *)
(***************************************************************************)
EXTENDS Integers, TraitStore

CONSTANTS
  NotGiven,     \* an option that was left out
  Path, Url,    \* where LMDB and Postgres stores are
  ConfigFile,   \* [parses, applies, entry]: files --profiles names
  EnvFile,      \* files LLM386_PROFILES names
  StoredAt,     \* location -> the <<session, content>> pairs it starts with
  Damaged,      \* locations whose indexes start damaged
  MaxCommands   \* bound

(* A path is no URL, and an option left out is neither. *)
ASSUME LocationsAssumption == Path \intersect Url = {} /\ NotGiven \notin Path \union Url

(* The "url" of a [store] section of backend "pg", the "path" of the other. *)
ASSUME FilesAssumption ==
  \A f \in ConfigFile \union EnvFile :
    f.entry # NotGiven =>
      f.entry.at \in (IF f.entry.backend = "pg" THEN Url ELSE Path) \union {NotGiven}

ASSUME StoredAssumption ==
  \A loc \in Path \union Url : StoredAt[loc] \subseteq Owner \X Content

VARIABLES
  disk,     \* location -> [refs, edges, damaged]
  command,  \* the running process: what it was told, what it opened, where it is
  ran       \* commands started

cliVars == <<disk, command, ran>>

Location == Path \union Url
NoCommand == [pc |-> "none"]

Given(flag, configured) == IF flag # NotGiven THEN flag ELSE configured

-----------------------------------------------------------------------------
(* The mode of a [store] section's tls = "...", NotGiven if refused. *)
ParseTls(text, ca) ==
  IF text \in {"unset", "disable"} THEN "disable"
  ELSE IF text \in {"require", "require-noverify"} \/ (text = "require-custom-ca" /\ ca) THEN text
  ELSE NotGiven

Refused == <<NotGiven, NotGiven>>

(* Where open_backend opens the store and how it connects: the section     *)
(* picks the kind, a flag of that kind beats the section's location, a     *)
(* flag of the other kind is refused.                                      *)
OpenBackend(entry, path, url) ==
  IF entry = NotGiven
  THEN IF (path = NotGiven) = (url = NotGiven) THEN Refused ELSE <<Given(path, url), "disable">>
  ELSE IF entry.backend = "pg"
  THEN LET mode == ParseTls(entry.tls, entry.ca)
       IN IF path # NotGiven \/ Given(url, entry.at) = NotGiven \/ mode = NotGiven
          THEN Refused ELSE <<Given(url, entry.at), mode>>
  ELSE IF url # NotGiven \/ Given(path, entry.at) = NotGiven THEN Refused
  ELSE <<Given(path, entry.at), "disable">>

-----------------------------------------------------------------------------
Exit(code) == command' = [command EXCEPT !.pc = code]
Succeed == Exit("ok") /\ UNCHANGED ran
Fail == Exit("failed") /\ UNCHANGED <<disk, ran>>

(* A process starts with its arguments, at most one of --store and         *)
(* --pg-url among them; --profiles beats LLM386_PROFILES.                  *)
StartCommand(op, yes, path, url, flagFile, envFile) ==
  /\ command = NoCommand /\ ran < MaxCommands
  /\ NotGiven \in {path, url}
  /\ command' = [pc |-> "load", op |-> op, yes |-> yes, path |-> path, url |-> url,
                 file |-> Given(flagFile, envFile), at |-> NotGiven, tls |-> NotGiven]
  /\ ran' = ran + 1
  /\ UNCHANGED disk

ProcessEnds ==
  /\ command.pc \in {"ok", "failed"}
  /\ command' = NoCommand
  /\ UNCHANGED <<disk, ran>>

(* It is not there or does not parse, or its tokenizers, cache or edge     *)
(* modes are not accepted.                                                 *)
ConfigRefused(file) == ~(file.parses /\ file.applies)

(* A refused file ends every command, also those that need no store. *)
LoadConfig ==
  /\ command.pc = "load"
  /\ IF command.file # NotGiven /\ ConfigRefused(command.file)
     THEN Fail
     ELSE Exit("dispatch") /\ UNCHANGED <<disk, ran>>

Entry == IF command.file = NotGiven THEN NotGiven ELSE command.file.entry

(* init creates the store it names, whatever the flags and the file say;   *)
(* list_models and the trace commands touch no block store.                *)
RunWithoutStore ==
  /\ command.pc = "dispatch" /\ command.op \in {"init", "list_models", "trace"}
  /\ Succeed \/ Fail
  /\ UNCHANGED disk

(* A store that does not open (no server, TLS not built in, another        *)
(* schema version) is no store either.                                     *)
OpenBlockStore ==
  /\ command.pc = "dispatch" /\ command.op \notin {"init", "list_models", "trace"}
  /\ LET chosen == OpenBackend(Entry, command.path, command.url)
     IN \/ /\ chosen # Refused
           /\ command' = [command EXCEPT !.pc = "run", !.at = chosen[1], !.tls = chosen[2]]
           /\ UNCHANGED <<disk, ran>>
        \/ Fail

Running(op) == command.pc = "run" /\ command.op = op
Here == disk[command.at]

(* The store, a tokenizer or the file to put fails: nothing is committed. *)
CommandErrors == command.pc = "run" /\ Fail

PutCommand(s, c) ==
  /\ Running("put")
  /\ disk' = [disk EXCEPT ![command.at] = WithBlock(@, s, c)]
  /\ Succeed

ReadCommand ==
  /\ Running("page") \/ Running("edges") \/ Running("list_sessions")
  /\ Succeed /\ UNCHANGED disk

ShowCommand(c) ==
  /\ Running("show")
  /\ (IF c \in StoredBlocks(Here) THEN Succeed ELSE Fail) /\ UNCHANGED disk

AddEdgeCommand(c, d) ==
  /\ Running("add_edge")
  /\ disk' = [disk EXCEPT ![command.at] = WithEdge(@, <<c, d>>)]
  /\ Succeed

(* verify and repair refuse a Postgres store. *)
VerifyCommand ==
  /\ Running("verify")
  /\ (IF command.at \in Path /\ ~Here.damaged THEN Succeed ELSE Fail) /\ UNCHANGED disk

RepairCommand ==
  /\ Running("repair")
  /\ IF command.yes /\ command.at \in Path
     THEN disk' = [disk EXCEPT ![command.at].damaged = FALSE] /\ Succeed
     ELSE Fail

Deleted(c) == [disk EXCEPT ![command.at] = WithoutBlock(@, c)]
PurgedSession(s) == [disk EXCEPT ![command.at] = WithoutSession(@, s)]

(* DestroysOnlyAsTold: --yes is not looked at. *)
PurgeCommand_Unconfirmed(c, s) ==
  /\ Running("purge")
  /\ \/ ((c = NotGiven) = (s = NotGiven)) /\ Fail
     \/ c # NotGiven /\ s = NotGiven /\ disk' = Deleted(c) /\ Succeed
     \/ c = NotGiven /\ s # NotGiven /\ disk' = PurgedSession(s) /\ Succeed

PurgeCommand(c, s) ==
  /\ Running("purge")
  /\ \/ (~command.yes \/ (c = NotGiven) = (s = NotGiven)) /\ Fail
     \/ command.yes /\ c # NotGiven /\ s = NotGiven /\ disk' = Deleted(c) /\ Succeed
     \/ command.yes /\ c = NotGiven /\ s # NotGiven /\ disk' = PurgedSession(s) /\ Succeed

-----------------------------------------------------------------------------
CliInit ==
  /\ disk = [loc \in Location |-> [refs |-> StoredAt[loc], edges |-> {}, damaged |-> loc \in Damaged]]
  /\ command = NoCommand
  /\ ran = 0

CliNext ==
  \/ \E op \in {"init", "list_models", "trace", "put", "page", "edges", "list_sessions",
                "show", "add_edge", "verify"},
        path \in Path \union {NotGiven}, url \in Url \union {NotGiven},
        flagFile \in ConfigFile \union {NotGiven}, envFile \in EnvFile \union {NotGiven} :
       StartCommand(op, FALSE, path, url, flagFile, envFile)
  \/ \E op \in {"repair", "purge"}, yes \in BOOLEAN,
        path \in Path \union {NotGiven}, url \in Url \union {NotGiven},
        flagFile \in ConfigFile \union {NotGiven}, envFile \in EnvFile \union {NotGiven} :
       StartCommand(op, yes, path, url, flagFile, envFile)
  \/ ProcessEnds \/ LoadConfig \/ RunWithoutStore \/ OpenBlockStore
  \/ CommandErrors \/ ReadCommand \/ VerifyCommand \/ RepairCommand
  \/ \E s \in Owner, c \in Content : PutCommand(s, c)
  \/ \E c \in Content : ShowCommand(c)
  \/ \E c, d \in Content : AddEdgeCommand(c, d)
  \/ \E c \in Content \union {NotGiven}, s \in Owner \union {NotGiven} : PurgeCommand(c, s)

CliSpec == CliInit /\ [][CliNext]_cliVars

-----------------------------------------------------------------------------
(* The location and the TLS mode its arguments and its file tell a command *)
(* to use: a flag beats the file, and a [store] section never yields a     *)
(* store of the other kind.                                                *)
Told(loc, tls) ==
  /\ command.path # NotGiven => loc = command.path
  /\ command.url # NotGiven => loc = command.url
  /\ command.path = NotGiven /\ command.url = NotGiven => loc = Entry.at
  /\ Entry # NotGiven =>
       /\ loc \in Url <=> Entry.backend = "pg"
       /\ loc \in Url => tls = Entry.tls \/ (tls = "disable" /\ Entry.tls = "unset")

(***************************************************************************)
(* Only the store a command was told to use changes, over a connection not *)
(* less protected than its [store] section says, also when --pg-url takes  *)
(* the place of the section's URL.  Blocks and edges disappear from it     *)
(* only by a purge that was confirmed with --yes; repair needs it as well. *)
(***************************************************************************)
DestroysOnlyAsTold ==
  [][\A loc \in Location :
       disk'[loc] # disk[loc] =>
         /\ loc = command.at /\ Told(loc, command.tls)
         /\ \/ /\ disk[loc].refs \subseteq disk'[loc].refs
               /\ disk[loc].edges \subseteq disk'[loc].edges
               /\ disk'[loc].damaged = disk[loc].damaged
            \/ command.op \in {"purge", "repair"} /\ command.yes]_cliVars
=============================================================================
