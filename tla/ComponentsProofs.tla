--------------------------- MODULE ComponentsProofs ---------------------------
(***************************************************************************)
(* The modules that share no state: what the command line promises about   *)
(* the stores it opens, for any locations, config files, sessions and      *)
(* blocks; what PyStore promises, for every number of threads and retriever*)
(* objects; the reduction loop, the diff of two prompts, the model         *)
(* registry, and the ranking of what retrievers find, for any texts, tasks *)
(* and limits.                                                             *)
(***************************************************************************)
EXTENDS ModelRegistry, Retrievers, CommandLine, PyStore, Reductions, PromptDiff, RecursionTheorems, TLAPS

-----------------------------------------------------------------------------
(* The command line.                                                       *)

Store == [refs : SUBSET (Owner \X Content), edges : SUBSET (Content \X Content), damaged : BOOLEAN]

Subcommands ==
  {"init", "list_models", "trace", "put", "page", "edges", "list_sessions", "show", "add_edge",
   "verify", "repair", "purge"}

Mode == {"disable", "require", "require-noverify", "require-custom-ca", NotGiven}

Process ==
  [pc : {"load", "dispatch", "run", "ok", "failed"}, op : Subcommands, yes : BOOLEAN,
   path : Path \union {NotGiven}, url : Url \union {NotGiven},
   file : ConfigFile \union EnvFile \union {NotGiven},
   at : Location \union {NotGiven}, tls : Mode]

(* What a running command has opened is what its flags and file choose. *)
OpenedAsChosen ==
  command.pc = "run" =>
    /\ <<command.at, command.tls>> = OpenBackend(Entry, command.path, command.url)
    /\ command.at \in Location

CliInv ==
  /\ disk \in [Location -> Store]
  /\ command = NoCommand \/ command \in Process
  /\ OpenedAsChosen

-----------------------------------------------------------------------------
(* The choice of open_backend: when it is not refused, it names a location *)
(* and a mode.                                                             *)
LEMMA OpenBackendTyped ==
  ASSUME NEW entry, NEW path \in Path \union {NotGiven}, NEW url \in Url \union {NotGiven},
         entry # NotGiven =>
           entry.at \in (IF entry.backend = "pg" THEN Url ELSE Path) \union {NotGiven},
         OpenBackend(entry, path, url) # Refused
  PROVE  \E loc \in Location, mode \in Mode : OpenBackend(entry, path, url) = <<loc, mode>>
<1>1. CASE entry = NotGiven
  <2>1. (path = NotGiven) # (url = NotGiven)
    BY <1>1 DEF OpenBackend
  <2>2. OpenBackend(entry, path, url) = <<Given(path, url), "disable">>
    BY <1>1, <2>1 DEF OpenBackend
  <2>3. Given(path, url) \in Location
    BY <2>1 DEF Given, Location
  <2> QED
    BY <2>2, <2>3 DEF Mode
<1>2. CASE entry # NotGiven /\ entry.backend = "pg"
  <2> DEFINE mode == ParseTls(entry.tls, entry.ca)
  <2>1. mode \in Mode
    BY DEF ParseTls, Mode
  <2>2. Given(url, entry.at) # NotGiven /\ OpenBackend(entry, path, url) = <<Given(url, entry.at), mode>>
    BY <1>2 DEF OpenBackend
  <2>3. Given(url, entry.at) \in Location
    BY <1>2, <2>2 DEF Given, Location
  <2> QED
    BY <2>1, <2>2, <2>3
<1>3. CASE entry # NotGiven /\ entry.backend # "pg"
  <2>1. /\ Given(path, entry.at) # NotGiven
        /\ OpenBackend(entry, path, url) = <<Given(path, entry.at), "disable">>
    BY <1>3 DEF OpenBackend
  <2>2. Given(path, entry.at) \in Location
    BY <1>3, <2>1 DEF Given, Location
  <2> QED
    BY <2>1, <2>2 DEF Mode
<1> QED
  BY <1>1, <1>2, <1>3

(* A flag beats the file's location of its kind, and a flag of the other   *)
(* kind is refused: what is chosen is what the command was told.           *)
LEMMA OpenedIsTold ==
  ASSUME CliInv, command.pc = "run"
  PROVE  Told(command.at, command.tls)
<1>1. command \in Process
  BY DEF CliInv, NoCommand
<1>2. /\ command.path \in Path \union {NotGiven} /\ command.url \in Url \union {NotGiven}
      /\ command.file \in ConfigFile \union EnvFile \union {NotGiven}
      /\ command.at \in Location
  BY <1>1 DEF CliInv, Process, OpenedAsChosen
<1>3. <<command.at, command.tls>> = OpenBackend(Entry, command.path, command.url)
  BY DEF CliInv, OpenedAsChosen
<1>4. command.at # NotGiven
  BY <1>2, LocationsAssumption DEF Location
<1>5. OpenBackend(Entry, command.path, command.url) # Refused
  BY <1>3, <1>4 DEF Refused
<1>6. Entry # NotGiven =>
        Entry.at \in (IF Entry.backend = "pg" THEN Url ELSE Path) \union {NotGiven}
  BY <1>2, FilesAssumption DEF Entry
<1>7. CASE Entry = NotGiven
  <2>1. /\ (command.path = NotGiven) # (command.url = NotGiven)
        /\ command.at = Given(command.path, command.url)
    BY <1>3, <1>5, <1>7 DEF OpenBackend
  <2> QED
    BY <1>7, <2>1 DEF Told, Given
<1>8. CASE Entry # NotGiven /\ Entry.backend = "pg"
  <2> DEFINE mode == ParseTls(Entry.tls, Entry.ca)
  <2>1. /\ command.path = NotGiven /\ mode # NotGiven
        /\ command.at = Given(command.url, Entry.at) /\ command.tls = mode
    BY <1>3, <1>5, <1>8 DEF OpenBackend
  <2>2. command.at \in Url
    BY <1>2, <1>4, <1>6, <1>8, <2>1 DEF Given
  <2>3. command.tls = Entry.tls \/ (command.tls = "disable" /\ Entry.tls = "unset")
    BY <2>1 DEF ParseTls
  <2> QED
    BY <1>8, <2>1, <2>2, <2>3 DEF Told, Given
<1>9. CASE Entry # NotGiven /\ Entry.backend # "pg"
  <2>1. /\ command.url = NotGiven
        /\ command.at = Given(command.path, Entry.at)
    BY <1>3, <1>5, <1>9 DEF OpenBackend
  <2>2. command.at \in Path
    BY <1>2, <1>4, <1>6, <1>9, <2>1 DEF Given
  <2>3. command.at \notin Url
    BY <2>2, LocationsAssumption
  <2> QED
    BY <1>9, <2>1, <2>3 DEF Told, Given
<1> QED
  BY <1>7, <1>8, <1>9

-----------------------------------------------------------------------------
(* The calls of the trait keep a store well formed, and those that add     *)
(* take nothing away.                                                      *)
LEMMA StoreCalls ==
  ASSUME NEW store \in Store
  PROVE  /\ \A s \in Owner, c \in Content :
              /\ WithBlock(store, s, c) \in Store
              /\ store.refs \subseteq WithBlock(store, s, c).refs
              /\ WithBlock(store, s, c).edges = store.edges
              /\ WithBlock(store, s, c).damaged = store.damaged
         /\ \A c, d \in Content :
              /\ WithEdge(store, <<c, d>>) \in Store
              /\ WithEdge(store, <<c, d>>).refs = store.refs
              /\ store.edges \subseteq WithEdge(store, <<c, d>>).edges
              /\ WithEdge(store, <<c, d>>).damaged = store.damaged
         /\ \A refs : WithoutRefs(store, refs) \in Store
<1>1. ASSUME NEW s \in Owner, NEW c \in Content
      PROVE  /\ WithBlock(store, s, c) \in Store
             /\ store.refs \subseteq WithBlock(store, s, c).refs
             /\ WithBlock(store, s, c).edges = store.edges
             /\ WithBlock(store, s, c).damaged = store.damaged
  BY DEF Store, WithBlock
<1>2. ASSUME NEW c \in Content, NEW d \in Content
      PROVE  /\ WithEdge(store, <<c, d>>) \in Store
             /\ WithEdge(store, <<c, d>>).refs = store.refs
             /\ store.edges \subseteq WithEdge(store, <<c, d>>).edges
             /\ WithEdge(store, <<c, d>>).damaged = store.damaged
  BY DEF Store, WithEdge
<1>3. ASSUME NEW refs PROVE WithoutRefs(store, refs) \in Store
  BY DEF Store, WithoutRefs
<1> QED
  BY <1>1, <1>2, <1>3

(* What DestroysOnlyAsTold demands of a step. *)
OnlyAdds(old, new) ==
  old.refs \subseteq new.refs /\ old.edges \subseteq new.edges /\ new.damaged = old.damaged

Confirmed == command.op \in {"purge", "repair"} /\ command.yes

StepAsTold ==
  \A loc \in Location :
    disk'[loc] # disk[loc] =>
      /\ loc = command.at /\ Told(loc, command.tls)
      /\ OnlyAdds(disk[loc], disk'[loc]) \/ Confirmed

(* A step of the process that opens nothing. *)
LEMMA ProcessMovesOn ==
  ASSUME CliInv, command.pc # "none",
         NEW pc \in {"load", "dispatch", "ok", "failed"}, command' = [command EXCEPT !.pc = pc],
         disk' \in [Location -> Store]
  PROVE  CliInv'
<1>1. command \in Process
  BY DEF CliInv, NoCommand
<1>2. command' \in Process /\ command'.pc = pc
  BY <1>1 DEF Process
<1> QED
  BY <1>2 DEF CliInv, OpenedAsChosen

(* A command that changes the store it opened, and ends. *)
LEMMA StoreChanges ==
  ASSUME CliInv, command.pc = "run", NEW new \in Store,
         disk' = [disk EXCEPT ![command.at] = new], command' = [command EXCEPT !.pc = "ok"],
         OnlyAdds(disk[command.at], new) \/ Confirmed
  PROVE  CliInv' /\ StepAsTold
<1>1. disk \in [Location -> Store] /\ command.at \in Location
  BY DEF CliInv, OpenedAsChosen
<1>2. disk' \in [Location -> Store]
  BY <1>1
<1>3. CliInv'
  BY <1>2, ProcessMovesOn
<1>4. disk'[command.at] = new /\ \A loc \in Location \ {command.at} : disk'[loc] = disk[loc]
  BY <1>1
<1>5. Told(command.at, command.tls)
  BY OpenedIsTold
<1> QED
  BY <1>1, <1>3, <1>4, <1>5 DEF StepAsTold

-----------------------------------------------------------------------------
LEMMA CliInitInv == CliInit => CliInv
<1> SUFFICES ASSUME CliInit PROVE CliInv
  OBVIOUS
<1>1. \A loc \in Location :
        [refs |-> StoredAt[loc], edges |-> {}, damaged |-> loc \in Damaged] \in Store
  BY StoredAssumption DEF Location, Store
<1> QED
  BY <1>1 DEF CliInit, CliInv, OpenedAsChosen, NoCommand

(* One step per action; those that change the store differ only in what    *)
(* they put in its place.                                                  *)
LEMMA CliStep == CliInv /\ [CliNext]_cliVars => CliInv' /\ StepAsTold
<1> SUFFICES ASSUME CliInv, [CliNext]_cliVars PROVE CliInv' /\ StepAsTold
  OBVIOUS
<1>t. disk \in [Location -> Store] /\ (command.pc # "none" => command \in Process)
  BY DEF CliInv, NoCommand
<1>s. disk' = disk => StepAsTold
  BY DEF StepAsTold
<1>m. ASSUME NEW pc \in {"load", "dispatch", "ok", "failed"}, command.pc # "none",
             Exit(pc), disk' = disk
      PROVE  CliInv'
  BY <1>m, <1>t, ProcessMovesOn DEF Exit
<1>1. ASSUME NEW op \in Subcommands, NEW yes \in BOOLEAN,
             NEW path \in Path \union {NotGiven}, NEW url \in Url \union {NotGiven},
             NEW flagFile \in ConfigFile \union {NotGiven}, NEW envFile \in EnvFile \union {NotGiven},
             StartCommand(op, yes, path, url, flagFile, envFile)
      PROVE  CliInv' /\ StepAsTold
  <2>1. Given(flagFile, envFile) \in ConfigFile \union EnvFile \union {NotGiven}
    BY DEF Given
  <2>2. command' \in Process /\ command'.pc = "load" /\ disk' = disk
    BY <1>1, <2>1 DEF StartCommand, Process, Mode
  <2> QED
    BY <1>s, <1>t, <2>2 DEF CliInv, OpenedAsChosen
<1>2. CASE ProcessEnds
  BY <1>2, <1>s DEF ProcessEnds, CliInv, OpenedAsChosen, NoCommand
<1>3. CASE LoadConfig
  BY <1>3, <1>s, <1>m DEF LoadConfig, Fail
<1>4. CASE RunWithoutStore
  BY <1>4, <1>s, <1>m DEF RunWithoutStore, Succeed, Fail
<1>5. CASE OpenBlockStore
  <2> DEFINE chosen == OpenBackend(Entry, command.path, command.url)
  <2>1. CASE Fail
    BY <1>5, <2>1, <1>s, <1>m DEF OpenBlockStore, Fail
  <2>2. CASE /\ chosen # Refused /\ disk' = disk
             /\ command' = [command EXCEPT !.pc = "run", !.at = chosen[1], !.tls = chosen[2]]
    <3>1. command \in Process
      BY <1>5, <1>t DEF OpenBlockStore
    <3>2. /\ command.path \in Path \union {NotGiven} /\ command.url \in Url \union {NotGiven}
          /\ command.file \in ConfigFile \union EnvFile \union {NotGiven}
      BY <3>1 DEF Process
    <3>3. Entry # NotGiven =>
            Entry.at \in (IF Entry.backend = "pg" THEN Url ELSE Path) \union {NotGiven}
      BY <3>2, FilesAssumption DEF Entry
    <3>4. PICK loc \in Location, mode \in Mode : chosen = <<loc, mode>>
      <4> HIDE DEF chosen
      <4> QED
        BY <2>2, <3>2, <3>3, OpenBackendTyped DEF chosen
    <3>5. /\ command' \in Process
          /\ command'.at = loc /\ command'.tls = mode
          /\ command'.path = command.path /\ command'.url = command.url /\ command'.file = command.file
      <4> HIDE DEF chosen
      <4> QED
        BY <2>2, <3>1, <3>4 DEF Process
    <3>6. Entry' = Entry
      BY <3>5 DEF Entry
    <3>7. OpenBackend(Entry, command.path, command.url)' = chosen
      BY <3>5, <3>6
    <3>8. OpenedAsChosen'
      BY <3>4, <3>5, <3>7 DEF OpenedAsChosen
    <3> QED
      BY <1>s, <1>t, <2>2, <3>5, <3>8 DEF CliInv
  <2> QED
    BY <1>5, <2>1, <2>2 DEF OpenBlockStore
<1>6. CASE CommandErrors
  BY <1>6, <1>s, <1>m DEF CommandErrors, Fail
<1>7. CASE ReadCommand
  BY <1>7, <1>s, <1>m DEF ReadCommand, Running, Succeed
<1>8. CASE VerifyCommand
  BY <1>8, <1>s, <1>m DEF VerifyCommand, Running, Succeed, Fail
<1>9. ASSUME NEW c \in Content, ShowCommand(c) PROVE CliInv' /\ StepAsTold
  BY <1>9, <1>s, <1>m DEF ShowCommand, Running, Succeed, Fail
<1>here. command.pc = "run" => command.at \in Location /\ Here \in Store
  BY <1>t DEF CliInv, OpenedAsChosen, Here
<1>10. CASE RepairCommand
  <2>1. CASE Fail
    BY <1>10, <2>1, <1>s, <1>m DEF RepairCommand, Running, Fail
  <2>2. CASE /\ command.yes /\ Succeed
             /\ disk' = [disk EXCEPT ![command.at].damaged = FALSE]
    <3>1. [Here EXCEPT !.damaged = FALSE] \in Store
      BY <1>10, <1>here DEF RepairCommand, Running, Store
    <3>2. disk' = [disk EXCEPT ![command.at] = [Here EXCEPT !.damaged = FALSE]]
      BY <2>2 DEF Here
    <3> QED
      BY <1>10, <2>2, <3>1, <3>2, StoreChanges
      DEF RepairCommand, Running, Succeed, Exit, Confirmed
  <2> QED
    BY <1>10, <2>1, <2>2 DEF RepairCommand
<1>11. ASSUME NEW s \in Owner, NEW c \in Content, PutCommand(s, c) PROVE CliInv' /\ StepAsTold
  <2>1. /\ WithBlock(Here, s, c) \in Store /\ OnlyAdds(Here, WithBlock(Here, s, c))
    BY <1>11, <1>here, StoreCalls DEF PutCommand, Running, OnlyAdds
  <2> QED
    BY <1>11, <2>1, StoreChanges DEF PutCommand, Running, Succeed, Exit, Here
<1>12. ASSUME NEW c \in Content, NEW d \in Content, AddEdgeCommand(c, d)
       PROVE  CliInv' /\ StepAsTold
  <2>1. /\ WithEdge(Here, <<c, d>>) \in Store /\ OnlyAdds(Here, WithEdge(Here, <<c, d>>))
    BY <1>12, <1>here, StoreCalls DEF AddEdgeCommand, Running, OnlyAdds
  <2> QED
    BY <1>12, <2>1, StoreChanges DEF AddEdgeCommand, Running, Succeed, Exit, Here
<1>13. ASSUME NEW c \in Content \union {NotGiven}, NEW s \in Owner \union {NotGiven},
              PurgeCommand(c, s)
       PROVE  CliInv' /\ StepAsTold
  <2>1. CASE Fail
    BY <1>13, <2>1, <1>s, <1>m DEF PurgeCommand, Running, Fail
  <2>2. CASE command.yes /\ Succeed /\ (disk' = Deleted(c) \/ disk' = PurgedSession(s))
    <3>1. PICK refs : disk' = [disk EXCEPT ![command.at] = WithoutRefs(Here, refs)]
      BY <2>2 DEF Deleted, PurgedSession, WithoutBlock, WithoutSession, Here
    <3>2. WithoutRefs(Here, refs) \in Store
      BY <1>13, <1>here, StoreCalls DEF PurgeCommand, Running
    <3> QED
      BY <1>13, <2>2, <3>1, <3>2, StoreChanges
      DEF PurgeCommand, Running, Succeed, Exit, Confirmed
  <2> QED
    BY <1>13, <2>1, <2>2 DEF PurgeCommand
<1>14. CASE UNCHANGED cliVars
  BY <1>14, <1>s DEF cliVars, CliInv, OpenedAsChosen, Entry
<1>15. CASE CliNext
  <2>1. ASSUME NEW op \in {"init", "list_models", "trace", "put", "page", "edges",
                           "list_sessions", "show", "add_edge", "verify"},
               NEW path \in Path \union {NotGiven}, NEW url \in Url \union {NotGiven},
               NEW flagFile \in ConfigFile \union {NotGiven},
               NEW envFile \in EnvFile \union {NotGiven},
               StartCommand(op, FALSE, path, url, flagFile, envFile)
        PROVE  CliInv' /\ StepAsTold
    <3>1. op \in Subcommands /\ FALSE \in BOOLEAN
      BY DEF Subcommands
    <3> QED
      BY <2>1, <3>1, <1>1
  <2>2. ASSUME NEW op \in {"repair", "purge"}, NEW yes \in BOOLEAN,
               NEW path \in Path \union {NotGiven}, NEW url \in Url \union {NotGiven},
               NEW flagFile \in ConfigFile \union {NotGiven},
               NEW envFile \in EnvFile \union {NotGiven},
               StartCommand(op, yes, path, url, flagFile, envFile)
        PROVE  CliInv' /\ StepAsTold
    <3>1. op \in Subcommands
      BY DEF Subcommands
    <3> QED
      BY <2>2, <3>1, <1>1
  <2> QED
    BY <1>15, <2>1, <2>2, <1>2, <1>3, <1>4, <1>5, <1>6, <1>7, <1>8, <1>9, <1>10, <1>11, <1>12,
       <1>13, Zenon DEF CliNext
<1> QED
  BY <1>14, <1>15

(***************************************************************************)
(* The store a command has opened is always the one its flags and config   *)
(* file choose, and every store stays well formed.                         *)
(***************************************************************************)
THEOREM CliInvariant == CliSpec => []CliInv
BY CliInitInv, CliStep, PTL DEF CliSpec

(***************************************************************************)
(* Only the store a command was told to use changes, over the TLS mode     *)
(* configured, and loses something only by a purge or repair confirmed     *)
(* with --yes (open_backend and the commands of commands.rs).              *)
(***************************************************************************)
THEOREM DestroysOnlyAsToldAlways == CliSpec => DestroysOnlyAsTold
<1>1. StepAsTold =>
        \A loc \in Location :
          disk'[loc] # disk[loc] =>
            /\ loc = command.at /\ Told(loc, command.tls)
            /\ \/ /\ disk[loc].refs \subseteq disk'[loc].refs
                  /\ disk[loc].edges \subseteq disk'[loc].edges
                  /\ disk'[loc].damaged = disk[loc].damaged
               \/ command.op \in {"purge", "repair"} /\ command.yes
  BY DEF StepAsTold, OnlyAdds, Confirmed
<1> QED
  BY <1>1, CliInvariant, CliStep, PTL DEF CliSpec, DestroysOnlyAsTold

-----------------------------------------------------------------------------
(* PyStore.                                                                *)

Pc == {"python", "name", "read_lock", "write_lock", "page", "callback", "finalizer"}
Op == {"none", "page", "add", "clear", "close"}
ThreadState ==
  [pc : Pc, op : Op, object : PyObject \union {Nobody},
   todo : SUBSET PyObject, clones : SUBSET PyObject]

PyTypeOK ==
  /\ handle \in {"open", "closed"}
  /\ registered \in SUBSET PyObject /\ kept \in SUBSET PyObject /\ finalized \in SUBSET PyObject
  /\ writer \in PyThread \union {Nobody}
  /\ thread \in [PyThread -> ThreadState]

(* Only a page holds clones, only add_python_retriever an argument. *)
CallWellFormed(x) ==
  /\ x.pc = "python" => x = Outside
  /\ x.op = "page" =>
       /\ x.pc \in {"read_lock", "page", "callback", "finalizer"}
       /\ x.pc \in {"read_lock", "finalizer"} => x.clones = {}
  /\ x.op # "page" => x.clones = {}
  /\ x.op = "add" => x.object \in PyObject /\ x.pc \in {"name", "write_lock"}

CallsWellFormed == \A t \in PyThread : CallWellFormed(thread[t])

(* The list of retrievers stays locked only while a finalizer runs. *)
WriterFinalizes ==
  writer # Nobody =>
    /\ thread[writer].pc = "finalizer" /\ thread[writer].op \in {"clear", "close"}
    /\ finalized \intersect Finalizing # {}

CloseIsAlone ==
  \A t, u \in PyThread : Closing(t) /\ u # t => ~Borrowed(u)

(* A page that still needs the backend. *)
PageRuns(t) == thread[t].op = "page" /\ thread[t].pc \in {"read_lock", "page", "callback"}

ClosedIsQuiet == handle = "closed" => \A t \in PyThread : ~PageRuns(t)

InUse(r) == r \in kept \/ r \in registered \/ \E u \in PyThread : r \in Holds(u)
FinalizedExact == \A r \in PyObject : r \in finalized <=> ~InUse(r)

PyInv ==
  /\ PyTypeOK /\ CallsWellFormed
  /\ WriterFinalizes /\ CloseIsAlone /\ ClosedIsQuiet
  /\ FinalizedExact
-----------------------------------------------------------------------------
(* How one thread's step changes what the threads hold.                    *)

(* A step of t leaves what the other threads hold. *)
LEMMA OthersHold ==
  ASSUME PyTypeOK, NEW t \in PyThread, NEW x, thread' = [thread EXCEPT ![t] = x]
  PROVE  /\ thread'[t] = x
         /\ \A u \in PyThread \ {t} : thread'[u] = thread[u] /\ Holds(u)' = Holds(u)
BY DEF PyTypeOK, Holds

(* A thread outside the store holds nothing. *)
LEMMA HoldsOutside ==
  ASSUME PyTypeOK, CallsWellFormed, NEW t \in PyThread, thread[t].op \notin {"page", "add"}
  PROVE  Holds(t) = {}
BY DEF CallsWellFormed, CallWellFormed, Holds

(* A step that moves one thread on, neither close nor under the lock, and  *)
(* lets nobody's last reference go.                                        *)
LEMMA CallMovesOn ==
  ASSUME PyInv, NEW t \in PyThread, NEW x \in ThreadState, CallWellFormed(x),
         thread' = [thread EXCEPT ![t] = x], UNCHANGED <<handle, objects, writer>>,
         t # writer, x.op # "close",
         x.pc = "python" \/ \A u \in PyThread \ {t} : ~Closing(u),
         handle = "closed" => ~(x.op = "page" /\ x.pc \in {"read_lock", "page", "callback"}),
         \A r \in Holds(t)' : InUse(r),
         \A r \in Holds(t) : r \in Holds(t)' \union kept \union registered
  PROVE  PyInv'
<1>1. thread'[t] = x /\ \A u \in PyThread \ {t} : thread'[u] = thread[u] /\ Holds(u)' = Holds(u)
  BY OthersHold DEF PyInv
<1>2. PyTypeOK'
  BY DEF PyInv, PyTypeOK, objects
<1>3. CallsWellFormed'
  BY <1>1 DEF PyInv, CallsWellFormed
<1>4. WriterFinalizes'
  BY <1>1 DEF PyInv, PyTypeOK, WriterFinalizes, objects
<1>5. CloseIsAlone'
  BY <1>1 DEF PyInv, CloseIsAlone, Closing, Borrowed
<1>6. ClosedIsQuiet'
  BY <1>1 DEF PyInv, ClosedIsQuiet, PageRuns
<1>7. FinalizedExact'
  <2> SUFFICES ASSUME NEW r \in PyObject PROVE InUse(r)' <=> InUse(r)
    BY DEF PyInv, FinalizedExact, objects
  <2>1. ASSUME InUse(r) PROVE InUse(r)'
    BY <1>1, <2>1 DEF InUse, objects
  <2>2. ASSUME InUse(r)' PROVE InUse(r)
    BY <1>1, <2>2 DEF InUse, objects
  <2>3. QED BY <2>1, <2>2
<1>8. QED BY <1>2, <1>3, <1>4, <1>5, <1>6, <1>7 DEF PyInv

-----------------------------------------------------------------------------
(* Each step preserves the invariant.                                      *)

(* A page begins on an open store. *)
LEMMA PageCallInv ==
  ASSUME PyInv, NEW t \in PyThread, PageCall(t)
  PROVE  PyInv'
<1> DEFINE x == [Outside EXCEPT !.pc = "read_lock", !.op = "page", !.object = Nobody]
<1>1. thread[t] \in ThreadState /\ CallWellFormed(thread[t])
  BY DEF PyInv, PyTypeOK, CallsWellFormed
<1>2. thread' = [thread EXCEPT ![t] = x] /\ UNCHANGED <<handle, objects, writer>>
  BY DEF PageCall, MayBorrow, Enter, Borrowed, PyInv, PyTypeOK
<1>3. x \in ThreadState /\ CallWellFormed(x)
  BY <1>1, NobodyAssumption DEF PageCall, MayBorrow, Enter, Borrowed, ThreadState, Pc, Op, CallWellFormed, Outside, PyInv, PyTypeOK
<1>4. t # writer /\ x.op # "close"
  BY <1>1, NobodyAssumption DEF PageCall, MayBorrow, Enter, Borrowed, WriterFinalizes, Outside, PyInv, ThreadState
<1>5. x.pc = "python" \/ \A u \in PyThread \ {t} : ~Closing(u)
  BY <1>1 DEF PageCall, MayBorrow, Enter, Borrowed, CloseIsAlone, Closing, Borrowed, Outside, PyInv, ThreadState
<1>6. handle = "closed" => ~(x.op = "page" /\ x.pc \in {"read_lock", "page", "callback"})
  BY <1>1 DEF PageCall, MayBorrow, Enter, Borrowed, ClosedIsQuiet, PageRuns, Outside, PyInv, ThreadState
<1>7. /\ \A q \in Holds(t)' : InUse(q)
      /\ \A q \in Holds(t) : q \in Holds(t)' \union kept \union registered
  BY <1>1, <1>2 DEF PageCall, MayBorrow, Enter, Borrowed, Holds, InUse, Outside, PyInv, PyTypeOK, ThreadState, CallWellFormed
<1>8. QED BY <1>2, <1>3, <1>4, <1>5, <1>6, <1>7, CallMovesOn

(* A page gives up before it has clones. *)
LEMMA BuildRetrieversFailsInv ==
  ASSUME PyInv, NEW t \in PyThread, BuildRetrieversFails(t)
  PROVE  PyInv'
<1> DEFINE x == Outside
<1>1. thread[t] \in ThreadState /\ CallWellFormed(thread[t])
  BY DEF PyInv, PyTypeOK, CallsWellFormed
<1>2. thread' = [thread EXCEPT ![t] = x] /\ UNCHANGED <<handle, objects, writer>>
  BY DEF BuildRetrieversFails, InRust, PyInv, PyTypeOK
<1>3. x \in ThreadState /\ CallWellFormed(x)
  BY <1>1, NobodyAssumption DEF BuildRetrieversFails, InRust, ThreadState, Pc, Op, CallWellFormed, Outside, PyInv, PyTypeOK
<1>4. t # writer /\ x.op # "close"
  BY <1>1, NobodyAssumption DEF BuildRetrieversFails, InRust, WriterFinalizes, Outside, PyInv, ThreadState
<1>5. x.pc = "python" \/ \A u \in PyThread \ {t} : ~Closing(u)
  BY <1>1 DEF BuildRetrieversFails, InRust, CloseIsAlone, Closing, Borrowed, Outside, PyInv, ThreadState
<1>6. handle = "closed" => ~(x.op = "page" /\ x.pc \in {"read_lock", "page", "callback"})
  BY <1>1 DEF BuildRetrieversFails, InRust, ClosedIsQuiet, PageRuns, Outside, PyInv, ThreadState
<1>7. /\ \A q \in Holds(t)' : InUse(q)
      /\ \A q \in Holds(t) : q \in Holds(t)' \union kept \union registered
  BY <1>1, <1>2 DEF BuildRetrieversFails, InRust, Holds, InUse, Outside, PyInv, PyTypeOK, ThreadState, CallWellFormed
<1>8. QED BY <1>2, <1>3, <1>4, <1>5, <1>6, <1>7, CallMovesOn

(* The clones of a page are registered retrievers. *)
LEMMA MakePagerInv ==
  ASSUME PyInv, NEW t \in PyThread, MakePager(t)
  PROVE  PyInv'
<1> DEFINE x == [thread[t] EXCEPT !.pc = "page", !.todo = registered, !.clones = registered]
<1>1. thread[t] \in ThreadState /\ CallWellFormed(thread[t])
  BY DEF PyInv, PyTypeOK, CallsWellFormed
<1>2. thread' = [thread EXCEPT ![t] = x] /\ UNCHANGED <<handle, objects, writer>>
  BY DEF MakePager, InRust, PyInv, PyTypeOK
<1>3. x \in ThreadState /\ CallWellFormed(x)
  BY <1>1, NobodyAssumption DEF MakePager, InRust, ThreadState, Pc, Op, CallWellFormed, Outside, PyInv, PyTypeOK
<1>4. t # writer /\ x.op # "close"
  BY <1>1, NobodyAssumption DEF MakePager, InRust, WriterFinalizes, Outside, PyInv, ThreadState
<1>5. x.pc = "python" \/ \A u \in PyThread \ {t} : ~Closing(u)
  BY <1>1 DEF MakePager, InRust, CloseIsAlone, Closing, Borrowed, Outside, PyInv, ThreadState
<1>6. handle = "closed" => ~(x.op = "page" /\ x.pc \in {"read_lock", "page", "callback"})
  BY <1>1 DEF MakePager, InRust, ClosedIsQuiet, PageRuns, Outside, PyInv, ThreadState
<1>7. /\ \A q \in Holds(t)' : InUse(q)
      /\ \A q \in Holds(t) : q \in Holds(t)' \union kept \union registered
  BY <1>1, <1>2 DEF MakePager, InRust, Holds, InUse, Outside, PyInv, PyTypeOK, ThreadState, CallWellFormed
<1>8. QED BY <1>2, <1>3, <1>4, <1>5, <1>6, <1>7, CallMovesOn

(* A callback holds what its page holds. *)
LEMMA CallRetrieverInv ==
  ASSUME PyInv, NEW t \in PyThread, NEW r \in PyObject, CallRetriever(t, r)
  PROVE  PyInv'
<1> DEFINE x == [thread[t] EXCEPT !.pc = "callback", !.object = r, !.todo = @ \ {r}]
<1>1. thread[t] \in ThreadState /\ CallWellFormed(thread[t])
  BY DEF PyInv, PyTypeOK, CallsWellFormed
<1>2. thread' = [thread EXCEPT ![t] = x] /\ UNCHANGED <<handle, objects, writer>>
  BY DEF CallRetriever, InRust, PyInv, PyTypeOK
<1>3. x \in ThreadState /\ CallWellFormed(x)
  BY <1>1, NobodyAssumption DEF CallRetriever, InRust, ThreadState, Pc, Op, CallWellFormed, Outside, PyInv, PyTypeOK
<1>4. t # writer /\ x.op # "close"
  BY <1>1, NobodyAssumption DEF CallRetriever, InRust, WriterFinalizes, Outside, PyInv, ThreadState
<1>5. x.pc = "python" \/ \A u \in PyThread \ {t} : ~Closing(u)
  BY <1>1 DEF CallRetriever, InRust, CloseIsAlone, Closing, Borrowed, Outside, PyInv, ThreadState
<1>6. handle = "closed" => ~(x.op = "page" /\ x.pc \in {"read_lock", "page", "callback"})
  BY <1>1 DEF CallRetriever, InRust, ClosedIsQuiet, PageRuns, Outside, PyInv, ThreadState
<1>7. /\ \A q \in Holds(t)' : InUse(q)
      /\ \A q \in Holds(t) : q \in Holds(t)' \union kept \union registered
  BY <1>1, <1>2 DEF CallRetriever, InRust, Holds, InUse, Outside, PyInv, PyTypeOK, ThreadState, CallWellFormed
<1>8. QED BY <1>2, <1>3, <1>4, <1>5, <1>6, <1>7, CallMovesOn

(* So does the page when it goes on. *)
LEMMA RetrieverReturnsInv ==
  ASSUME PyInv, NEW t \in PyThread, RetrieverReturns(t)
  PROVE  PyInv'
<1> DEFINE x == [thread[t] EXCEPT !.pc = "page"]
<1>1. thread[t] \in ThreadState /\ CallWellFormed(thread[t])
  BY DEF PyInv, PyTypeOK, CallsWellFormed
<1>2. thread' = [thread EXCEPT ![t] = x] /\ UNCHANGED <<handle, objects, writer>>
  BY DEF RetrieverReturns, InRust, Step, PyInv, PyTypeOK
<1>3. x \in ThreadState /\ CallWellFormed(x)
  BY <1>1, NobodyAssumption DEF RetrieverReturns, InRust, Step, ThreadState, Pc, Op, CallWellFormed, Outside, PyInv, PyTypeOK
<1>4. t # writer /\ x.op # "close"
  BY <1>1, NobodyAssumption DEF RetrieverReturns, InRust, Step, WriterFinalizes, Outside, PyInv, ThreadState
<1>5. x.pc = "python" \/ \A u \in PyThread \ {t} : ~Closing(u)
  BY <1>1 DEF RetrieverReturns, InRust, Step, CloseIsAlone, Closing, Borrowed, Outside, PyInv, ThreadState
<1>6. handle = "closed" => ~(x.op = "page" /\ x.pc \in {"read_lock", "page", "callback"})
  BY <1>1 DEF RetrieverReturns, InRust, Step, ClosedIsQuiet, PageRuns, Outside, PyInv, ThreadState
<1>7. /\ \A q \in Holds(t)' : InUse(q)
      /\ \A q \in Holds(t) : q \in Holds(t)' \union kept \union registered
  BY <1>1, <1>2 DEF RetrieverReturns, InRust, Step, Holds, InUse, Outside, PyInv, PyTypeOK, ThreadState, CallWellFormed
<1>8. QED BY <1>2, <1>3, <1>4, <1>5, <1>6, <1>7, CallMovesOn

(* The script still has what it adds. *)
LEMMA AddCallInv ==
  ASSUME PyInv, NEW t \in PyThread, NEW r \in PyObject, AddCall(t, r)
  PROVE  PyInv'
<1> DEFINE x == [Outside EXCEPT !.pc = "name", !.op = "add", !.object = r]
<1>1. thread[t] \in ThreadState /\ CallWellFormed(thread[t])
  BY DEF PyInv, PyTypeOK, CallsWellFormed
<1>2. thread' = [thread EXCEPT ![t] = x] /\ UNCHANGED <<handle, objects, writer>>
  BY DEF AddCall, MayBorrow, Enter, Borrowed, PyInv, PyTypeOK
<1>3. x \in ThreadState /\ CallWellFormed(x)
  BY <1>1, NobodyAssumption DEF AddCall, MayBorrow, Enter, Borrowed, ThreadState, Pc, Op, CallWellFormed, Outside, PyInv, PyTypeOK
<1>4. t # writer /\ x.op # "close"
  BY <1>1, NobodyAssumption DEF AddCall, MayBorrow, Enter, Borrowed, WriterFinalizes, Outside, PyInv, ThreadState
<1>5. x.pc = "python" \/ \A u \in PyThread \ {t} : ~Closing(u)
  BY <1>1 DEF AddCall, MayBorrow, Enter, Borrowed, CloseIsAlone, Closing, Borrowed, Outside, PyInv, ThreadState
<1>6. handle = "closed" => ~(x.op = "page" /\ x.pc \in {"read_lock", "page", "callback"})
  BY <1>1 DEF AddCall, MayBorrow, Enter, Borrowed, ClosedIsQuiet, PageRuns, Outside, PyInv, ThreadState
<1>7. /\ \A q \in Holds(t)' : InUse(q)
      /\ \A q \in Holds(t) : q \in Holds(t)' \union kept \union registered
  BY <1>1, <1>2 DEF AddCall, MayBorrow, Enter, Borrowed, Holds, InUse, Outside, PyInv, PyTypeOK, ThreadState, CallWellFormed
<1>8. QED BY <1>2, <1>3, <1>4, <1>5, <1>6, <1>7, CallMovesOn

(* The named object is still held. *)
LEMMA NameReadInv ==
  ASSUME PyInv, NEW t \in PyThread, NameRead(t)
  PROVE  PyInv'
<1> DEFINE x == [thread[t] EXCEPT !.pc = "write_lock"]
<1>1. thread[t] \in ThreadState /\ CallWellFormed(thread[t])
  BY DEF PyInv, PyTypeOK, CallsWellFormed
<1>2. thread' = [thread EXCEPT ![t] = x] /\ UNCHANGED <<handle, objects, writer>>
  BY DEF NameRead, InRust, Step, PyInv, PyTypeOK
<1>3. x \in ThreadState /\ CallWellFormed(x)
  BY <1>1, NobodyAssumption DEF NameRead, InRust, Step, ThreadState, Pc, Op, CallWellFormed, Outside, PyInv, PyTypeOK
<1>4. t # writer /\ x.op # "close"
  BY <1>1, NobodyAssumption DEF NameRead, InRust, Step, WriterFinalizes, Outside, PyInv, ThreadState
<1>5. x.pc = "python" \/ \A u \in PyThread \ {t} : ~Closing(u)
  BY <1>1 DEF NameRead, InRust, Step, CloseIsAlone, Closing, Borrowed, Outside, PyInv, ThreadState
<1>6. handle = "closed" => ~(x.op = "page" /\ x.pc \in {"read_lock", "page", "callback"})
  BY <1>1 DEF NameRead, InRust, Step, ClosedIsQuiet, PageRuns, Outside, PyInv, ThreadState
<1>7. /\ \A q \in Holds(t)' : InUse(q)
      /\ \A q \in Holds(t) : q \in Holds(t)' \union kept \union registered
  BY <1>1, <1>2 DEF NameRead, InRust, Step, Holds, InUse, Outside, PyInv, PyTypeOK, ThreadState, CallWellFormed
<1>8. QED BY <1>2, <1>3, <1>4, <1>5, <1>6, <1>7, CallMovesOn

(* Waiting for the list holds nothing. *)
LEMMA ClearCallInv ==
  ASSUME PyInv, NEW t \in PyThread, ClearCall(t)
  PROVE  PyInv'
<1> DEFINE x == [Outside EXCEPT !.pc = "write_lock", !.op = "clear", !.object = Nobody]
<1>1. thread[t] \in ThreadState /\ CallWellFormed(thread[t])
  BY DEF PyInv, PyTypeOK, CallsWellFormed
<1>2. thread' = [thread EXCEPT ![t] = x] /\ UNCHANGED <<handle, objects, writer>>
  BY DEF ClearCall, MayBorrow, Enter, Borrowed, PyInv, PyTypeOK
<1>3. x \in ThreadState /\ CallWellFormed(x)
  BY <1>1, NobodyAssumption DEF ClearCall, MayBorrow, Enter, Borrowed, ThreadState, Pc, Op, CallWellFormed, Outside, PyInv, PyTypeOK
<1>4. t # writer /\ x.op # "close"
  BY <1>1, NobodyAssumption DEF ClearCall, MayBorrow, Enter, Borrowed, WriterFinalizes, Outside, PyInv, ThreadState
<1>5. x.pc = "python" \/ \A u \in PyThread \ {t} : ~Closing(u)
  BY <1>1 DEF ClearCall, MayBorrow, Enter, Borrowed, CloseIsAlone, Closing, Borrowed, Outside, PyInv, ThreadState
<1>6. handle = "closed" => ~(x.op = "page" /\ x.pc \in {"read_lock", "page", "callback"})
  BY <1>1 DEF ClearCall, MayBorrow, Enter, Borrowed, ClosedIsQuiet, PageRuns, Outside, PyInv, ThreadState
<1>7. /\ \A q \in Holds(t)' : InUse(q)
      /\ \A q \in Holds(t) : q \in Holds(t)' \union kept \union registered
  BY <1>1, <1>2 DEF ClearCall, MayBorrow, Enter, Borrowed, Holds, InUse, Outside, PyInv, PyTypeOK, ThreadState, CallWellFormed
<1>8. QED BY <1>2, <1>3, <1>4, <1>5, <1>6, <1>7, CallMovesOn

(* The interpreter changes hands, or the block store alone changes. *)
LEMMA SameCallsInv ==
  ASSUME PyInv, UNCHANGED <<handle, objects, writer, thread>>
  PROVE  PyInv'
BY DEF PyInv, PyTypeOK, CallsWellFormed, WriterFinalizes, CloseIsAlone, Closing, Borrowed,
       ClosedIsQuiet, PageRuns, FinalizedExact, InUse, Holds, objects

(* A pager that goes takes the clones nobody else refers to with it. *)
LEMMA DropPagerInv ==
  ASSUME PyInv, NEW t \in PyThread, thread[t].op = "page", thread[t].pc # "finalizer", DropPager(t)
  PROVE  PyInv'
<1> DEFINE gone == Unused(thread[t].clones \ registered, t)
           x == IF gone \intersect Finalizing # {}
                THEN [thread[t] EXCEPT !.pc = "finalizer", !.todo = {}, !.clones = {}] ELSE Outside
<1>1. /\ thread[t] \in ThreadState
      /\ thread' = [thread EXCEPT ![t] = x]
      /\ finalized' = finalized \union gone
      /\ UNCHANGED <<handle, registered, kept, writer>>
  BY DEF DropPager, PyInv, PyTypeOK
<1>2. x \in ThreadState /\ CallWellFormed(x) /\ x.op \in {"none", "page"} /\ x.clones = {}
  BY <1>1 DEF ThreadState, Pc, Op, CallWellFormed, Outside
<1>3. thread'[t] = x /\ \A u \in PyThread \ {t} : thread'[u] = thread[u] /\ Holds(u)' = Holds(u)
  BY <1>1, OthersHold DEF PyInv
<1>4. Borrowed(t)
  BY DEF Borrowed, PyInv, CallsWellFormed, CallWellFormed, Outside
<1>5. PyTypeOK'
  BY <1>1, <1>2 DEF PyInv, PyTypeOK, Unused, ThreadState
<1>6. CallsWellFormed'
  BY <1>2, <1>3 DEF PyInv, CallsWellFormed
<1>7. WriterFinalizes'
  BY <1>1, <1>3 DEF PyInv, PyTypeOK, WriterFinalizes
<1>8. CloseIsAlone'
  BY <1>2, <1>3, <1>4 DEF PyInv, CloseIsAlone, Closing, Borrowed
<1>9. ClosedIsQuiet'
  BY <1>1, <1>3 DEF PyInv, ClosedIsQuiet, PageRuns, Outside
<1>10. FinalizedExact'
  <2>1. Holds(t) = thread[t].clones /\ Holds(t)' = {}
    BY <1>2, <1>3 DEF Holds
  <2>2. gone = {r \in Holds(t) : r \notin registered /\ r \notin kept /\ \A u \in PyThread \ {t} : r \notin Holds(u)}
    BY <2>1 DEF Unused
  <2> SUFFICES ASSUME NEW r \in PyObject PROVE r \in finalized' <=> ~InUse(r)'
    BY DEF FinalizedExact
  <2>3. r \in finalized <=> ~InUse(r)
    BY DEF PyInv, FinalizedExact
  <2>4. r \in finalized' <=> r \in finalized \/ r \in gone
    BY <1>1
  <2>5. InUse(r)' <=> r \in kept \/ r \in registered \/ \E u \in PyThread \ {t} : r \in Holds(u)
    BY <1>1, <1>3, <2>1 DEF InUse
  <2>6. InUse(r) <=> r \in kept \/ r \in registered \/ r \in Holds(t)
                       \/ \E u \in PyThread \ {t} : r \in Holds(u)
    BY DEF InUse
  <2> HIDE DEF gone
  <2>7. QED BY <2>2, <2>3, <2>4, <2>5, <2>6
<1>11. QED BY <1>5, <1>6, <1>7, <1>8, <1>9, <1>10 DEF PyInv

(* A refused object goes with its last reference. *)
LEMMA NameMissingInv ==
  ASSUME PyInv, NEW t \in PyThread, NameMissing(t)
  PROVE  PyInv'
<1>1. /\ thread[t] \in ThreadState /\ thread[t].op = "add" /\ thread[t].pc = "name"
      /\ thread' = [thread EXCEPT ![t] = Outside]
      /\ finalized' = finalized \union Unused({thread[t].object} \ registered, t)
      /\ UNCHANGED <<handle, registered, kept, writer>>
  BY DEF NameMissing, InRust, PyInv, PyTypeOK
<1>2. Outside \in ThreadState /\ CallWellFormed(Outside)
  BY DEF ThreadState, Pc, Op, CallWellFormed, Outside
<1>3. /\ thread'[t] = Outside
      /\ \A u \in PyThread \ {t} : thread'[u] = thread[u] /\ Holds(u)' = Holds(u)
  BY <1>1, OthersHold DEF PyInv
<1>4. Holds(t) = {thread[t].object} /\ Holds(t)' = {} /\ thread[t].object \in PyObject
  BY <1>1, <1>3 DEF Holds, Outside, PyInv, CallsWellFormed, CallWellFormed
<1>5. PyTypeOK'
  BY <1>1, <1>2, <1>4 DEF PyInv, PyTypeOK, Unused
<1>6. CallsWellFormed'
  BY <1>2, <1>3 DEF PyInv, CallsWellFormed
<1>7. WriterFinalizes'
  BY <1>1, <1>3 DEF PyInv, PyTypeOK, WriterFinalizes
<1>8. CloseIsAlone'
  BY <1>3 DEF PyInv, CloseIsAlone, Closing, Borrowed, Outside
<1>9. ClosedIsQuiet'
  BY <1>1, <1>3 DEF PyInv, ClosedIsQuiet, PageRuns, Outside
<1>10. FinalizedExact'
  BY <1>1, <1>3, <1>4 DEF PyInv, FinalizedExact, InUse, Unused
<1>11. QED BY <1>5, <1>6, <1>7, <1>8, <1>9, <1>10 DEF PyInv

(* A registered object passes from the call to the list. *)
LEMMA PushRetrieverInv ==
  ASSUME PyInv, NEW t \in PyThread, PushRetriever(t)
  PROVE  PyInv'
<1>1. /\ thread[t] \in ThreadState /\ thread[t].op = "add" /\ thread[t].pc = "write_lock"
      /\ thread' = [thread EXCEPT ![t] = Outside]
      /\ registered' = registered \union {thread[t].object}
      /\ writer' = Nobody
      /\ UNCHANGED <<handle, kept, finalized>>
  BY DEF PushRetriever, InRust, PyInv, PyTypeOK
<1>2. Outside \in ThreadState /\ CallWellFormed(Outside)
  BY DEF ThreadState, Pc, Op, CallWellFormed, Outside
<1>3. /\ thread'[t] = Outside
      /\ \A u \in PyThread \ {t} : thread'[u] = thread[u] /\ Holds(u)' = Holds(u)
  BY <1>1, OthersHold DEF PyInv
<1>4. Holds(t) = {thread[t].object} /\ Holds(t)' = {} /\ thread[t].object \in PyObject
  BY <1>1, <1>3 DEF Holds, Outside, PyInv, CallsWellFormed, CallWellFormed
<1>5. PyTypeOK' /\ CallsWellFormed' /\ WriterFinalizes'
  BY <1>1, <1>2, <1>3, <1>4 DEF PyInv, PyTypeOK, CallsWellFormed, WriterFinalizes
<1>6. CloseIsAlone'
  BY <1>3 DEF PyInv, CloseIsAlone, Closing, Borrowed, Outside
<1>7. ClosedIsQuiet'
  BY <1>1, <1>3 DEF PyInv, ClosedIsQuiet, PageRuns, Outside
<1>8. FinalizedExact'
  BY <1>1, <1>3, <1>4 DEF PyInv, FinalizedExact, InUse
<1>9. QED BY <1>5, <1>6, <1>7, <1>8 DEF PyInv

(* Emptying the list lets go of every registration; the lock is kept only  *)
(* by a thread in a finalizer.                                             *)
LEMMA EmptyListInv ==
  ASSUME PyInv, NEW t \in PyThread, NEW op \in {"clear", "close"}, EmptyList(t, op),
         thread[t].op \notin {"page", "add"}, handle' \in {"open", "closed"},
         \A u \in PyThread \ {t} : ~Closing(u),
         op = "close" => \A u \in PyThread \ {t} : ~Borrowed(u),
         handle' = "closed" => \A u \in PyThread \ {t} : ~PageRuns(u)
  PROVE  PyInv'
<1> DEFINE gone == Unused(registered, t)
           x == IF gone \intersect Finalizing # {}
                THEN [Outside EXCEPT !.pc = "finalizer", !.op = op, !.object = Nobody] ELSE Outside
<1>1. /\ thread' = [thread EXCEPT ![t] = x]
      /\ writer' = IF gone \intersect Finalizing # {} THEN t ELSE Nobody
      /\ registered' = {} /\ kept' = kept
      /\ finalized' = finalized \union gone
  BY DEF EmptyList, Enter
<1>2. /\ x \in ThreadState /\ CallWellFormed(x) /\ x.op \notin {"page", "add"} /\ x.clones = {}
      /\ x.op \in {"none", op}
      /\ x.op = "none" => x = Outside
      /\ gone \intersect Finalizing # {} => x.pc = "finalizer" /\ x.op = op
  BY DEF ThreadState, Pc, Op, CallWellFormed, Outside
<1>3. thread'[t] = x /\ \A u \in PyThread \ {t} : thread'[u] = thread[u] /\ Holds(u)' = Holds(u)
  BY <1>1, OthersHold DEF PyInv
<1>4. Holds(t) = {} /\ Holds(t)' = {}
  BY <1>2, <1>3, HoldsOutside DEF Holds, PyInv
<1>5. PyTypeOK'
  BY <1>1, <1>2 DEF PyInv, PyTypeOK, Unused
<1>6. CallsWellFormed'
  BY <1>2, <1>3 DEF PyInv, CallsWellFormed
<1>7. WriterFinalizes'
  BY <1>1, <1>2, <1>3, NobodyAssumption DEF WriterFinalizes
<1>8. CloseIsAlone'
  <2>1. \A u \in PyThread \ {t} : ~Closing(u)'
    BY <1>3 DEF Closing, Borrowed
  <2>2. ASSUME Closing(t)' PROVE \A u \in PyThread \ {t} : ~Borrowed(u)'
    <3>1. op = "close"
      BY <1>2, <1>3, <2>2 DEF Closing
    <3>2. QED BY <1>3, <3>1 DEF Borrowed
  <2>3. QED BY <2>1, <2>2 DEF CloseIsAlone
<1>9. ClosedIsQuiet'
  BY <1>2, <1>3 DEF ClosedIsQuiet, PageRuns
<1>10. FinalizedExact'
  BY <1>1, <1>3, <1>4 DEF PyInv, FinalizedExact, InUse, Unused
<1>11. QED BY <1>5, <1>6, <1>7, <1>8, <1>9, <1>10 DEF PyInv

(* Clearing keeps the store, and the lock only while a finalizer runs. *)
LEMMA ClearRetrieversInv ==
  ASSUME PyInv, NEW t \in PyThread, ClearRetrievers(t)
  PROVE  PyInv'
<1>1. /\ thread[t].op = "clear" /\ Borrowed(t) /\ EmptyList(t, "clear")
      /\ handle' = handle /\ handle \in {"open", "closed"}
  BY DEF ClearRetrievers, InRust, Borrowed, PyInv, PyTypeOK
<1>2. /\ \A u \in PyThread \ {t} : ~Closing(u)
      /\ handle' = "closed" => \A u \in PyThread \ {t} : ~PageRuns(u)
  BY <1>1 DEF PyInv, CloseIsAlone, ClosedIsQuiet
<1>3. QED BY <1>1, <1>2, EmptyListInv

(* Close is alone, so that nothing is in use when it empties the list. *)
LEMMA CloseInv ==
  ASSUME PyInv, NEW t \in PyThread, Close(t)
  PROVE  PyInv'
<1>1. handle' = "closed" /\ EmptyList(t, "close") /\ \A u \in PyThread : ~Borrowed(u)
  BY DEF Close
<1>2. \A u \in PyThread : thread[u].op = "none"
  BY <1>1 DEF Borrowed, PyInv, CallsWellFormed, CallWellFormed, Outside
<1>3. \A u \in PyThread : ~Closing(u) /\ ~PageRuns(u)
  BY <1>2 DEF Closing, PageRuns
<1>4. QED BY <1>1, <1>2, <1>3, EmptyListInv

(* The lock is given back after the finalizer, and nothing was held. *)
LEMMA FinalizerReturnsInv ==
  ASSUME PyInv, NEW t \in PyThread, FinalizerReturns(t)
  PROVE  PyInv'
<1>1. /\ thread[t].pc = "finalizer"
      /\ thread' = [thread EXCEPT ![t] = Outside]
      /\ writer' = IF writer = t THEN Nobody ELSE writer
      /\ UNCHANGED <<handle, objects>>
  BY DEF FinalizerReturns
<1>2. Outside \in ThreadState /\ CallWellFormed(Outside)
  BY DEF ThreadState, Pc, Op, CallWellFormed, Outside
<1>3. /\ thread'[t] = Outside
      /\ \A u \in PyThread \ {t} : thread'[u] = thread[u] /\ Holds(u)' = Holds(u)
  BY <1>1, OthersHold DEF PyInv
<1>4. PyTypeOK' /\ CallsWellFormed' /\ WriterFinalizes'
  BY <1>1, <1>2, <1>3 DEF PyInv, PyTypeOK, CallsWellFormed, WriterFinalizes, objects
<1>5. CloseIsAlone'
  BY <1>3 DEF PyInv, CloseIsAlone, Closing, Borrowed, Outside
<1>6. ClosedIsQuiet'
  BY <1>1, <1>3 DEF PyInv, ClosedIsQuiet, PageRuns, Outside
<1>7. FinalizedExact'
  <2>1. Holds(t) = {}
    BY <1>1 DEF Holds, PyInv, CallsWellFormed, CallWellFormed
  <2>2. QED BY <1>1, <1>3, <2>1 DEF PyInv, FinalizedExact, InUse, Holds, Outside, objects
<1>8. QED BY <1>4, <1>5, <1>6, <1>7 DEF PyInv

(* The script forgets an object: it goes unless a list or a call has it. *)
LEMMA DropReferenceInv ==
  ASSUME PyInv, NEW t \in PyThread, NEW r \in PyObject, DropReference(t, r)
  PROVE  PyInv'
<1>1. PyTypeOK' /\ CallsWellFormed'
  BY DEF DropReference, PyInv, PyTypeOK, CallsWellFormed
<1>2. WriterFinalizes'
  BY DEF DropReference, PyInv, WriterFinalizes
<1>3. CloseIsAlone' /\ ClosedIsQuiet'
  BY DEF DropReference, PyInv, CloseIsAlone, Closing, Borrowed, ClosedIsQuiet, PageRuns
<1>4. FinalizedExact'
  BY DEF DropReference, PyInv, FinalizedExact, InUse, Holds
<1>5. QED BY <1>1, <1>2, <1>3, <1>4 DEF PyInv

-----------------------------------------------------------------------------
(* A new store: nothing is registered, held or destroyed. *)
LEMMA PyInitInv == PyInit => PyInv
<1> SUFFICES ASSUME PyInit PROVE PyInv
  OBVIOUS
<1>1. \A t \in PyThread : thread[t] = Outside /\ Holds(t) = {}
  BY DEF PyInit, Holds, Outside
<1>2. Outside \in ThreadState /\ CallWellFormed(Outside)
  BY DEF ThreadState, Pc, Op, CallWellFormed, Outside
<1>3. PyTypeOK /\ CallsWellFormed /\ WriterFinalizes
  BY <1>1, <1>2 DEF PyInit, PyTypeOK, CallsWellFormed, WriterFinalizes
<1>4. CloseIsAlone /\ ClosedIsQuiet
  BY <1>1 DEF PyInit, CloseIsAlone, Closing, Borrowed, ClosedIsQuiet, Outside
<1>5. FinalizedExact
  BY <1>1 DEF PyInit, FinalizedExact, InUse
<1>6. QED BY <1>3, <1>4, <1>5 DEF PyInv

(* The invariant is inductive: the lemmas above, one per action. *)
LEMMA PyNextInv == PyInv /\ [PyNext]_pyVars => PyInv'
<1> SUFFICES ASSUME PyInv, [PyNext]_pyVars PROVE PyInv'
  OBVIOUS
<1>1. CASE UNCHANGED pyVars
  BY <1>1, SameCallsInv DEF pyVars
<1>2. ASSUME NEW t \in PyThread, TakeGil(t) \/ LeaveGil(t) \/ StoreCall(t) PROVE PyInv'
  BY <1>2, SameCallsInv DEF TakeGil, LeaveGil, StoreCall
<1>3. ASSUME NEW t \in PyThread, RetrieverRaises(t) \/ PageReturns(t) PROVE PyInv'
  BY <1>3, DropPagerInv DEF RetrieverRaises, PageReturns, InRust
<1>4. ASSUME NEW t \in PyThread, NEW r \in PyObject,
             CallRetriever(t, r) \/ AddCall(t, r) \/ DropReference(t, r)
      PROVE  PyInv'
  BY <1>4, CallRetrieverInv, AddCallInv, DropReferenceInv
<1>5. ASSUME NEW t \in PyThread,
             PageCall(t) \/ BuildRetrieversFails(t) \/ MakePager(t) \/ RetrieverReturns(t) \/
             NameRead(t) \/ NameMissing(t) \/ PushRetriever(t) \/ ClearCall(t) \/
             ClearRetrievers(t) \/ FinalizerReturns(t) \/ Close(t)
      PROVE  PyInv'
  BY <1>5, PageCallInv, BuildRetrieversFailsInv, MakePagerInv, RetrieverReturnsInv,
     NameReadInv, NameMissingInv, PushRetrieverInv, ClearCallInv,
     ClearRetrieversInv, FinalizerReturnsInv, CloseInv
<1>6. QED BY <1>1, <1>2, <1>3, <1>4, <1>5 DEF PyNext

-----------------------------------------------------------------------------
(* Every reachable state of a Store satisfies the invariant. *)
THEOREM PyStoreInvariant == PySpec => []PyInv
<1>1. QED BY PyInitInv, PyNextInv, PTL DEF PySpec

(* While one thread waits for the list of retrievers with the interpreter  *)
(* in its hands, only a clear_python_retrievers that runs a Python         *)
(* finalizer can have it locked (store.rs, python_retrievers).             *)
THEOREM OnlyFinalizersBlockHolds == PySpec => []OnlyFinalizersBlock
<1>1. PyInv => OnlyFinalizersBlock
  <2> SUFFICES ASSUME PyInv, NEW t \in PyThread,
                      gil = t, thread[t].pc \in {"read_lock", "write_lock"}, writer \notin {Nobody, t}
               PROVE  /\ thread[writer].op = "clear" /\ thread[writer].pc = "finalizer"
                      /\ finalized \intersect Finalizing # {}
    BY DEF OnlyFinalizersBlock
  <2>1. writer \in PyThread /\ thread[writer].pc = "finalizer" /\ finalized \intersect Finalizing # {}
        /\ thread[writer].op \in {"clear", "close"}
    BY DEF PyInv, PyTypeOK, WriterFinalizes
  <2>2. ~Closing(writer)
    BY <2>1 DEF PyInv, CloseIsAlone, Borrowed
  <2>3. QED BY <2>1, <2>2 DEF Closing, Borrowed
<1>2. QED BY <1>1, PyStoreInvariant, PTL

(* A retriever object is destroyed exactly when the script, the list and   *)
(* the calls in progress have let go of it (Py<PyAny> in PyRetriever and   *)
(* in python_retrievers).                                                  *)
THEOREM FinalizedWhenUnusedHolds == PySpec => []FinalizedWhenUnused
<1>1. PyInv => FinalizedWhenUnused
  <2> SUFFICES ASSUME PyInv
               PROVE  finalized = PyObject \ (kept \union registered \union UNION {Holds(t) : t \in PyThread})
    BY DEF FinalizedWhenUnused
  <2>1. \A r \in PyObject : r \in finalized <=> ~InUse(r)
    BY DEF PyInv, FinalizedExact
  <2>2. finalized \subseteq PyObject
    BY DEF PyInv, PyTypeOK
  <2>3. QED BY <2>1, <2>2 DEF InUse
<1>2. QED BY <1>1, PyStoreInvariant, PTL

(* Nothing changes the backend once close has returned, and no page that   *)
(* would use it is left (close takes inner through &mut self).             *)
THEOREM ClosedMeansReleasedHolds == PySpec => ClosedMeansReleased
<1>1. PyInv /\ PyInv' /\ [PyNext]_pyVars
        => [handle' = "closed" =>
             /\ backend' = backend
             /\ \A t \in PyThread : ~(thread'[t].op = "page" /\ thread'[t].pc \in {"read_lock", "page", "callback"})]_pyVars
  <2> SUFFICES ASSUME PyInv', PyNext, handle' = "closed"
               PROVE  /\ backend' = backend
                      /\ \A t \in PyThread : ~(thread'[t].op = "page" /\ thread'[t].pc \in {"read_lock", "page", "callback"})
    OBVIOUS
  <2>1. \A t \in PyThread : ~PageRuns(t)'
    BY DEF PyInv, ClosedIsQuiet
  <2>2. backend' = backend
    BY DEF PyNext, TakeGil, LeaveGil, PageCall, BuildRetrieversFails, MakePager, RetrieverReturns, NameRead, NameMissing, PushRetriever, ClearCall, ClearRetrievers, FinalizerReturns, Close,
           RetrieverRaises, PageReturns, DropPager, EmptyList, CallRetriever, AddCall, DropReference, StoreCall
  <2>3. QED BY <2>1, <2>2 DEF PageRuns
<1>2. QED BY <1>1, PyStoreInvariant, PTL DEF PySpec, ClosedMeansReleased

-----------------------------------------------------------------------------
(* The reduction loop.                                                     *)

IsSeq(seq) == \E S : seq \in Seq(S)

(* Blocks of a reduction made at a time: their ids are derived from it.    *)
MadeAt(now, blocks) ==
  IsSeq(blocks) /\ \A i \in DOMAIN blocks :
                     blocks[i].id = BlockIdFrom(now, blocks[i].kind, blocks[i].body)

LEMMA OneBlock ==
  ASSUME NEW now, NEW kind, NEW body, NEW parents
  PROVE  MadeAt(now, <<NewBlock(now, kind, body, parents)>>) /\ MadeAt(now, <<>>)
<1> DEFINE b == NewBlock(now, kind, body, parents)
<1>1. b.id = BlockIdFrom(now, b.kind, b.body)
  BY DEF NewBlock
<1> HIDE DEF b
<1>2. <<b>> \in Seq({b}) /\ DOMAIN <<b>> = {1} /\ <<b>>[1] = b
  OBVIOUS
<1>3. <<>> \in Seq({}) /\ DOMAIN <<>> = {}
  OBVIOUS
<1>4. MadeAt(now, <<>>)
  BY <1>3 DEF MadeAt, IsSeq
<1>5. MadeAt(now, <<b>>)
  BY <1>1, <1>2 DEF MadeAt, IsSeq
<1> QED
  BY <1>4, <1>5 DEF b

(* An envelope gives a sequence of blocks made at its time. *)
LEMMA JsonBlocksMade ==
  ASSUME NEW now, NEW state, NEW envelope \in Envelope
  PROVE  MadeAt(now, JsonBlocks(now, state, envelope))
<1> DEFINE m == Len(envelope.events)
           ev == envelope.events
           made == [n \in 1..m |-> NewBlock(now, ev[n][1], ev[n][2], ParentsOf(state))]
           new == NewBlock(now, "State", envelope.state, ParentsOf(state))
           first == IF envelope.state \in {NoState, Empty} THEN <<>> ELSE <<new>>
           S == {new} \union {made[n] : n \in 1..m}
           step == [n \in 1..m |-> [v \in Seq(S) |-> IF ev[n][2] = Empty THEN v ELSE Append(v, made[n])]]
           Is(f) == f = [n \in 0..m |-> IF n = 0 THEN first
                                        ELSE IF ev[n][2] = Empty THEN f[n - 1]
                                        ELSE Append(f[n - 1], NewBlock(now, ev[n][1], ev[n][2], ParentsOf(state)))]
<1>1. m \in Nat
  BY EnvelopeAssumption
<1>2. \A n \in 1..m : made[n] = NewBlock(now, ev[n][1], ev[n][2], ParentsOf(state))
  OBVIOUS
<1>3. \A b \in S : b.id = BlockIdFrom(now, b.kind, b.body)
  <2>1. \A n \in 1..m : made[n].id = BlockIdFrom(now, made[n].kind, made[n].body)
    BY <1>2 DEF NewBlock
  <2>2. new.id = BlockIdFrom(now, new.kind, new.body)
    BY DEF NewBlock
  <2> HIDE DEF new, made
  <2> QED
    BY <2>1, <2>2
<1>4. PICK g : g = (CHOOSE h : Is(h)) /\ JsonBlocks(now, state, envelope) = g[m]
  BY DEF JsonBlocks
<1>5. \A n \in 1..m : made[n] \in S
  OBVIOUS
<1>6. first \in Seq(S)
  <2>1. new \in S
    OBVIOUS
  <2> HIDE DEF new, S
  <2> QED
    BY <2>1
<1> HIDE DEF made, S, first, m, ev, new
<1>7. step \in [1..m -> [Seq(S) -> Seq(S)]]
  BY <1>5
<1>8. PICK f \in [0..m -> Seq(S)] : Recursive(f, m, first, step)
  <2> HIDE DEF step
  <2> QED
    BY <1>1, <1>6, <1>7, RecursionExists
<1>9. Is(f)
  <2>0. \A n \in 1..m : n - 1 \in 0..m
    BY <1>1
  <2>1. f[0] = first /\ \A n \in 1..m : f[n] = step[n][f[n - 1]] /\ f[n - 1] \in Seq(S)
    <3> HIDE DEF step
    <3> QED
      BY <1>8, <2>0 DEF Recursive
  <2>2. \A n \in 1..m : f[n] = IF ev[n][2] = Empty THEN f[n - 1] ELSE Append(f[n - 1], made[n])
    BY <2>1
  <2>3. \A n \in 0..m : n = 0 \/ n \in 1..m
    BY <1>1
  <2>4. f = [n \in 0..m |-> f[n]]
    BY <1>8
  <2>5. \A n \in 1..m : made[n] = NewBlock(now, ev[n][1], ev[n][2], ParentsOf(state)) /\ n # 0
    BY <1>1, <1>2
  <2>6. \A n \in 0..m : f[n] = IF n = 0 THEN first
                              ELSE IF ev[n][2] = Empty THEN f[n - 1]
                              ELSE Append(f[n - 1], NewBlock(now, ev[n][1], ev[n][2], ParentsOf(state)))
    BY <2>1, <2>2, <2>3, <2>5
  <2> QED
    BY <2>4, <2>6
<1>11. Is(g)
  <2> HIDE DEF Is
  <2> QED
    BY <1>4, <1>9
<1>12. g[0] = first /\ \A n \in 1..m : g[n] = IF ev[n][2] = Empty THEN g[n - 1] ELSE Append(g[n - 1], made[n])
  <2>1. 0 \in 0..m /\ \A n \in 1..m : n \in 0..m /\ n # 0
    BY <1>1
  <2>2. g[0] = first
    BY <1>11, <2>1
  <2>3. ASSUME NEW n \in 1..m
        PROVE  g[n] = IF ev[n][2] = Empty THEN g[n - 1] ELSE Append(g[n - 1], made[n])
    BY <1>2, <1>11, <2>1
  <2> QED
    BY <2>2, <2>3
<1> HIDE DEF Is, step
<1>13. \A n \in 0..m : g[n] \in Seq(S)
  <2>1. ASSUME NEW n \in 1..m, g[n - 1] \in Seq(S) PROVE g[n] \in Seq(S)
    <3>1. Append(g[n - 1], made[n]) \in Seq(S)
      BY <1>5, <2>1
    <3>2. g[n] = g[n - 1] \/ g[n] = Append(g[n - 1], made[n])
      BY <1>12
    <3> QED
      BY <2>1, <3>1, <3>2
  <2> QED
    BY <1>1, <1>6, <1>12, <2>1, RecursionStays
<1>14. JsonBlocks(now, state, envelope) \in Seq(S)
  BY <1>1, <1>4, <1>13
<1> QED
  BY <1>3, <1>14 DEF MadeAt, IsSeq

(* The edges an output leaves when a turn is reduced. *)
TurnEdges ==
  {<<BlockIdFrom(turn.now, "AssistantMessage", turn.output), p>> : p \in ParentsOf(turn.state)}

TurnOK ==
  /\ DOMAIN turn = {"now", "reducer", "state", "output", "pc", "blocks", "edges"}
  /\ turn.now \in Nat /\ turn.pc \in {"done", "reduce", "commit"}
  /\ turn.reducer \in {"identity", "append-output", "json-events"}
  /\ turn.reducer = "json-events" => turn.output \in Envelope \union {Malformed}

(* What is left of a commit: its blocks were made at the turn's time, and  *)
(* the output it links is stored or about to be.                           *)
Committing ==
  turn.pc = "commit" =>
    /\ MadeAt(turn.now, turn.blocks)
    /\ turn.edges # {} =>
         /\ turn.reducer = "append-output" /\ turn.edges \subseteq TurnEdges
         /\ \/ \E x \in DOMAIN held : held[x].body = turn.output
            \/ \E i \in DOMAIN turn.blocks : turn.blocks[i].body = turn.output

HeldOK ==
  /\ \A x \in DOMAIN held : /\ x = <<x[1], x[2], x[3]>>
                            /\ x[1] \in Nat /\ x[1] <= turn.now /\ held[x].body = x[2]
  /\ \A x, y \in DOMAIN held : held[x].body = held[y].body => x = y

LinksOK ==
  \A e \in links :
    /\ e[1] = <<e[1][1], e[1][2], "AssistantMessage">>
    /\ e[1][1] \in Nat /\ e[1][1] <= turn.now
    /\ e[1][1] = turn.now => turn.reducer = "append-output" /\ e \in TurnEdges

AgentInv == TurnOK /\ Committing /\ HeldOK /\ LinksOK /\ CommittedOnce

LEMMA AgentInitInv == AgentInit => AgentInv
<1> SUFFICES ASSUME AgentInit PROVE AgentInv
  OBVIOUS
<1>1. held = <<>> /\ DOMAIN held = {} /\ links = {}
  BY DEF AgentInit
<1>2. TurnOK /\ Committing
  BY DEF AgentInit, TurnOK, Committing
<1> QED
  BY <1>1, <1>2 DEF AgentInv, HeldOK, LinksOK, CommittedOnce, ReplayAddsNothing, LostFromIsDuplicate

(* A later turn has no edges yet, and all blocks are older. *)
LEMMA TakeOutputInv ==
  ASSUME AgentInv, NEW reducer \in Reducers, NEW output, TakeOutput(reducer, output),
         reducer = "json-events" => output \in Envelope \union {Malformed}
  PROVE  AgentInv'
<1>1. /\ turn'.now = turn.now + 1 /\ turn'.reducer = reducer /\ turn'.output = output
      /\ turn'.pc = "reduce"
      /\ DOMAIN turn' = {"now", "reducer", "state", "output", "pc", "blocks", "edges"}
      /\ UNCHANGED <<held, links>>
  BY DEF TakeOutput
<1>2. TurnOK' /\ Committing'
  BY <1>1, ReducersAssumption DEF AgentInv, TurnOK, Committing
<1>3. HeldOK'
  BY <1>1 DEF AgentInv, TurnOK, HeldOK
<1>4. LinksOK'
  BY <1>1 DEF AgentInv, TurnOK, LinksOK
<1> QED
  BY <1>1, <1>2, <1>3, <1>4 DEF AgentInv, CommittedOnce, ReplayAddsNothing, LostFromIsDuplicate

(* The tables and the identity of the turn stay. *)
LEMMA SameTurnInv ==
  ASSUME AgentInv, TurnOK', Committing', UNCHANGED <<held, links>>,
         turn'.now = turn.now, turn'.reducer = turn.reducer, turn'.state = turn.state,
         turn'.output = turn.output
  PROVE  AgentInv'
<1>1. HeldOK'
  BY DEF AgentInv, HeldOK
<1>2. LinksOK'
  BY DEF AgentInv, LinksOK, TurnEdges
<1> QED
  BY <1>1, <1>2 DEF AgentInv, CommittedOnce, ReplayAddsNothing, LostFromIsDuplicate

LEMMA ReduceOutputInv ==
  ASSUME AgentInv, ReduceOutput
  PROVE  AgentInv'
<1>1. TurnOK /\ turn.pc = "reduce" /\ UNCHANGED <<held, links>>
  BY DEF ReduceOutput, AgentInv
<1>2. CASE turn' = [turn EXCEPT !.pc = "done"]
  <2>1. TurnOK' /\ Committing' /\ turn'.now = turn.now /\ turn'.reducer = turn.reducer
        /\ turn'.state = turn.state /\ turn'.output = turn.output
    BY <1>1, <1>2 DEF TurnOK, Committing
  <2> QED
    BY <1>1, <2>1, SameTurnInv
<1>3. ASSUME turn.output # Malformed,
             turn' = [turn EXCEPT !.pc = "commit", !.blocks = Reduced.blocks, !.edges = Reduced.edges]
      PROVE  AgentInv'
  <2>1. /\ turn'.now = turn.now /\ turn'.reducer = turn.reducer
        /\ turn'.state = turn.state /\ turn'.output = turn.output /\ turn'.pc = "commit"
        /\ turn'.blocks = Reduced.blocks /\ turn'.edges = Reduced.edges
        /\ DOMAIN turn' = DOMAIN turn
    BY <1>1, <1>3 DEF TurnOK
  <2>2. TurnOK'
    BY <1>1, <2>1 DEF TurnOK
  <2>3. /\ MadeAt(turn.now, Reduced.blocks)
        /\ Reduced.edges # {} =>
             /\ turn.reducer = "append-output" /\ Reduced.edges \subseteq TurnEdges
             /\ \E i \in DOMAIN Reduced.blocks : Reduced.blocks[i].body = turn.output
    <3>1. CASE turn.reducer = "identity"
      BY <3>1, OneBlock DEF Reduced, Nothing
    <3>2. CASE turn.reducer = "append-output"
      <4>1. Reduced = AppendOutput(turn.now, turn.state, turn.output)
        BY <3>2 DEF Reduced
      <4>2. CASE turn.output = Empty
        BY <4>1, <4>2, OneBlock DEF AppendOutput, Nothing
      <4>3. CASE turn.output # Empty
        <5> DEFINE b == NewBlock(turn.now, "AssistantMessage", turn.output, ParentsOf(turn.state))
        <5>1. b.body = turn.output /\ b.id = BlockIdFrom(turn.now, "AssistantMessage", turn.output)
          BY DEF NewBlock
        <5>2. Reduced.blocks = <<b>> /\ Reduced.edges = {<<b.id, p>> : p \in ParentsOf(turn.state)}
          BY <4>1, <4>3 DEF AppendOutput
        <5>3. MadeAt(turn.now, <<b>>)
          BY OneBlock
        <5> HIDE DEF b
        <5>4. Reduced.edges = TurnEdges
          BY <5>1, <5>2 DEF TurnEdges
        <5>5. 1 \in DOMAIN <<b>> /\ <<b>>[1] = b
          OBVIOUS
        <5> QED
          BY <3>2, <5>1, <5>2, <5>3, <5>4, <5>5
      <4> QED
        BY <4>2, <4>3
    <3>3. CASE turn.reducer = "json-events"
      <4>1. turn.output \in Envelope
        BY <1>1, <1>3, <3>3 DEF TurnOK
      <4>2. /\ Reduced.blocks = JsonBlocks(turn.now, turn.state, turn.output)
            /\ Reduced.edges = {}
        BY <3>3 DEF Reduced, JsonEvents
      <4> QED
        BY <4>1, <4>2, JsonBlocksMade
    <3> QED
      BY <1>1, <3>1, <3>2, <3>3 DEF TurnOK
  <2>4. Committing'
    BY <2>1, <2>3, <1>1 DEF Committing, TurnEdges
  <2> QED
    BY <1>1, <2>1, <2>2, <2>4, SameTurnInv
<1> QED
  BY <1>2, <1>3 DEF ReduceOutput

(* The first of a sequence of blocks, and the others. *)
FirstAndRest(now, blocks) ==
  /\ MadeAt(now, Tail(blocks))
  /\ Head(blocks).id = BlockIdFrom(now, Head(blocks).kind, Head(blocks).body)
  /\ \A i \in DOMAIN blocks :
       blocks[i] = Head(blocks) \/ \E k \in DOMAIN Tail(blocks) : Tail(blocks)[k] = blocks[i]

LEMMA TailMade ==
  ASSUME NEW now, NEW blocks, MadeAt(now, blocks), blocks # <<>>
  PROVE  FirstAndRest(now, blocks)
<1>1. PICK S : blocks \in Seq(S)
  BY DEF MadeAt, IsSeq
<1>2. /\ Tail(blocks) \in Seq(S) /\ 1 \in DOMAIN blocks /\ Head(blocks) = blocks[1]
      /\ DOMAIN blocks = 1..Len(blocks) /\ DOMAIN Tail(blocks) = 1..(Len(blocks) - 1)
      /\ Len(blocks) \in Nat
      /\ \A i \in 1..(Len(blocks) - 1) : Tail(blocks)[i] = blocks[i + 1]
  BY <1>1
<1>3. \A i \in 1..(Len(blocks) - 1) : i + 1 \in DOMAIN blocks
  BY <1>2
<1>4. MadeAt(now, Tail(blocks))
  BY <1>2, <1>3 DEF MadeAt, IsSeq
<1>5. ASSUME NEW i \in DOMAIN blocks, i # 1
      PROVE  \E k \in DOMAIN Tail(blocks) : Tail(blocks)[k] = blocks[i]
  <2>1. i - 1 \in 1..(Len(blocks) - 1) /\ (i - 1) + 1 = i
    BY <1>2, <1>5
  <2> QED
    BY <1>2, <2>1
<1> QED
  BY <1>2, <1>4, <1>5 DEF MadeAt, FirstAndRest

(* put: one block a body, under an id of the turn if the body is new. *)
LEMMA CommitBlockInv ==
  ASSUME AgentInv, CommitBlock
  PROVE  AgentInv'
<1> DEFINE b == Head(turn.blocks)
<1>1. /\ turn.pc = "commit" /\ turn.blocks # <<>> /\ TurnOK /\ UNCHANGED links
      /\ turn' = [turn EXCEPT !.blocks = Tail(@)]
  BY DEF CommitBlock, AgentInv
<1>2. /\ turn'.now = turn.now /\ turn'.reducer = turn.reducer /\ turn'.state = turn.state
      /\ turn'.output = turn.output /\ turn'.pc = "commit" /\ turn'.edges = turn.edges
      /\ turn'.blocks = Tail(turn.blocks) /\ DOMAIN turn' = DOMAIN turn
  BY <1>1 DEF TurnOK
<1>3. /\ b.id = BlockIdFrom(turn.now, b.kind, b.body)
      /\ MadeAt(turn.now, Tail(turn.blocks))
      /\ \A i \in DOMAIN turn.blocks :
           turn.blocks[i] = b
             \/ \E k \in DOMAIN Tail(turn.blocks) : Tail(turn.blocks)[k] = turn.blocks[i]
  <2>1. MadeAt(turn.now, turn.blocks)
    BY <1>1 DEF AgentInv, Committing
  <2>2. FirstAndRest(turn.now, turn.blocks)
    BY <1>1, <2>1, TailMade
  <2> QED
    BY <2>2, Zenon DEF FirstAndRest
<1>4. held' = IF SameBody(b.body) # {} THEN held
              ELSE [x \in DOMAIN held \union {b.id} |->
                      IF x = b.id THEN [kind |-> b.kind, body |-> b.body] ELSE held[x]]
  BY DEF CommitBlock
<1> HIDE DEF b
<1>5. /\ DOMAIN held \subseteq DOMAIN held' /\ \A x \in DOMAIN held : held'[x] = held[x] \/ x = b.id
      /\ \E x \in DOMAIN held' : held'[x].body = b.body
      /\ HeldOK'
      /\ \A x \in DOMAIN held : held'[x].body = held[x].body
  <2>1. CASE SameBody(b.body) # {}
    <3>1. held' = held
      BY <1>4, <2>1
    <3> QED
      BY <1>2, <2>1, <3>1 DEF AgentInv, HeldOK, SameBody
  <2>2. CASE SameBody(b.body) = {}
    <3>1. b.id = <<turn.now, b.body, b.kind>>
      BY <1>3 DEF BlockIdFrom
    <3>2. b.id[1] = turn.now /\ b.id[2] = b.body /\ b.id = <<b.id[1], b.id[2], b.id[3]>>
      BY <3>1
    <3>3. \A x \in DOMAIN held : held[x].body = x[2] /\ held[x].body # b.body
      BY <2>2 DEF SameBody, AgentInv, HeldOK
    <3>4. b.id \notin DOMAIN held
      BY <3>2, <3>3
    <3>5. /\ DOMAIN held' = DOMAIN held \union {b.id}
          /\ held'[b.id].body = b.body
          /\ \A x \in DOMAIN held : held'[x] = held[x]
      BY <1>4, <2>2, <3>4
    <3>6. turn.now \in Nat /\ turn'.now = turn.now
      BY <1>1, <1>2 DEF TurnOK
    <3>7. HeldOK'
      <4>1. \A x \in DOMAIN held' : x = b.id \/ x \in DOMAIN held
        BY <3>5
      <4>2. \A x \in DOMAIN held :
              /\ x = <<x[1], x[2], x[3]>> /\ x[1] \in Nat /\ x[1] <= turn'.now
              /\ held'[x].body = x[2] /\ held'[x].body # b.body
        BY <3>3, <3>5, <3>6 DEF AgentInv, HeldOK
      <4>3. /\ b.id = <<b.id[1], b.id[2], b.id[3]>> /\ b.id[1] \in Nat /\ b.id[1] <= turn'.now
            /\ held'[b.id].body = b.id[2] /\ held'[b.id].body = b.body
        BY <3>2, <3>5, <3>6
      <4>4. \A x, y \in DOMAIN held : held'[x].body = held'[y].body => x = y
        BY <3>5 DEF AgentInv, HeldOK
      <4>5. \A x \in DOMAIN held' :
              /\ x = <<x[1], x[2], x[3]>> /\ x[1] \in Nat /\ x[1] <= turn'.now
              /\ held'[x].body = x[2]
        BY <4>1, <4>2, <4>3
      <4>6. \A x, y \in DOMAIN held' : held'[x].body = held'[y].body => x = y
        BY <4>1, <4>2, <4>3, <4>4
      <4> QED
        BY <4>5, <4>6 DEF HeldOK
    <3> QED
      BY <3>5, <3>7
  <2> QED
    BY <2>1, <2>2
<1>6. TurnOK'
  BY <1>1, <1>2 DEF TurnOK
<1>7. Committing'
  <2>1. MadeAt(turn'.now, turn'.blocks)
    BY <1>2, <1>3
  <2>2. ASSUME turn.edges # {}
        PROVE  \/ \E x \in DOMAIN held' : held'[x].body = turn.output
               \/ \E i \in DOMAIN turn'.blocks : turn'.blocks[i].body = turn.output
    <3>1. CASE \E x \in DOMAIN held : held[x].body = turn.output
      BY <1>5, <3>1
    <3>2. CASE \E i \in DOMAIN turn.blocks : turn.blocks[i].body = turn.output
      BY <1>2, <1>3, <1>5, <3>2
    <3> QED
      BY <1>1, <2>2, <3>1, <3>2 DEF AgentInv, Committing
  <2>3. turn.edges # {} => turn.reducer = "append-output" /\ turn.edges \subseteq TurnEdges
    BY <1>1 DEF AgentInv, Committing
  <2>4. TurnEdges' = TurnEdges
    BY <1>2 DEF TurnEdges
  <2> QED
    BY <1>2, <2>1, <2>2, <2>3, <2>4 DEF Committing
<1>8. LinksOK'
  BY <1>1, <1>2 DEF AgentInv, LinksOK, TurnEdges
<1>9. CommittedOnce'
  <2>1. ReplayAddsNothing'
    BY <1>1, <1>5 DEF AgentInv, HeldOK, CommittedOnce, ReplayAddsNothing
  <2>2. LostFromIsDuplicate'
    BY <1>1, <1>5 DEF AgentInv, CommittedOnce, LostFromIsDuplicate
  <2> QED
    BY <2>1, <2>2 DEF CommittedOnce
<1> QED
  BY <1>5, <1>6, <1>7, <1>8, <1>9 DEF AgentInv

(* The edges of a turn are those of its first commit. *)
LEMMA CommitEdgesInv ==
  ASSUME AgentInv, CommitEdges
  PROVE  AgentInv'
<1>1. /\ turn.pc = "commit" /\ turn.blocks = <<>> /\ DOMAIN turn.blocks = {}
      /\ turn' = [turn EXCEPT !.pc = "done"]
      /\ links' = links \union turn.edges /\ UNCHANGED held /\ TurnOK
  BY DEF CommitEdges, AgentInv
<1>2. /\ turn'.now = turn.now /\ turn'.reducer = turn.reducer /\ turn'.state = turn.state
      /\ turn'.output = turn.output /\ turn'.pc = "done"
      /\ DOMAIN turn' = DOMAIN turn /\ turn.now \in Nat
  BY <1>1 DEF TurnOK
<1>3. TurnOK' /\ Committing' /\ TurnEdges' = TurnEdges
  BY <1>1, <1>2 DEF TurnOK, Committing, TurnEdges
<1>4. HeldOK'
  BY <1>1, <1>2 DEF AgentInv, HeldOK
<1>5. ASSUME NEW e \in turn.edges
      PROVE  /\ e \in TurnEdges /\ turn.reducer = "append-output"
             /\ e[1] = <<turn.now, turn.output, "AssistantMessage">>
             /\ \E x \in DOMAIN held : held[x].body = turn.output
  BY <1>1 DEF AgentInv, Committing, TurnEdges, BlockIdFrom
<1>6. LinksOK'
  <2> SUFFICES ASSUME NEW e \in links'
               PROVE  /\ e[1] = <<e[1][1], e[1][2], "AssistantMessage">>
                      /\ e[1][1] \in Nat /\ e[1][1] <= turn.now
                      /\ e[1][1] = turn.now => turn.reducer = "append-output" /\ e \in TurnEdges
    BY <1>2, <1>3 DEF LinksOK
  <2>1. CASE e \in links
    BY <2>1 DEF AgentInv, LinksOK
  <2>2. CASE e \in turn.edges
    <3>1. e[1] = <<turn.now, turn.output, "AssistantMessage">>
      BY <1>5, <2>2
    <3>2. e[1][1] = turn.now /\ e[1][2] = turn.output
      BY <3>1
    <3> QED
      BY <1>2, <1>5, <2>2, <3>1, <3>2
  <2> QED
    BY <1>1, <2>1, <2>2
<1>7. ReplayAddsNothing'
  <2>1. ASSUME NEW e \in links', NEW f \in links', e[1][1] = f[1][1], e[1][2] = f[1][2]
        PROVE  e = f
    <3>1. CASE e \in turn.edges \/ f \in turn.edges
      <4>1. e[1][1] = turn.now
        BY <1>5, <2>1, <3>1
      <4>2. e \in TurnEdges /\ f \in TurnEdges
        BY <1>1, <1>5, <2>1, <4>1 DEF AgentInv, LinksOK
      <4>3. \A p, q \in ParentsOf(turn.state) : p = q
        BY DEF ParentsOf
      <4> QED
        BY <4>2, <4>3 DEF TurnEdges
    <3>2. CASE e \in links /\ f \in links
      BY <2>1, <3>2 DEF AgentInv, CommittedOnce, ReplayAddsNothing
    <3> QED
      BY <1>1, <3>1, <3>2
  <2> QED
    BY <1>1, <2>1 DEF AgentInv, HeldOK, ReplayAddsNothing
<1>8. LostFromIsDuplicate'
  <2> SUFFICES ASSUME NEW e \in turn.edges
               PROVE  \/ e[1] \in DOMAIN held
                      \/ \E x \in DOMAIN held :
                           held[x].body = e[1][2] /\ (x[1] < e[1][1] \/ x[3] # "AssistantMessage")
    BY <1>1 DEF AgentInv, CommittedOnce, LostFromIsDuplicate
  <2>1. e[1] = <<turn.now, turn.output, "AssistantMessage">>
    BY <1>5
  <2>2. e[1][1] = turn.now /\ e[1][2] = turn.output
    BY <2>1
  <2>3. PICK x \in DOMAIN held : held[x].body = turn.output
    BY <1>5
  <2>4. x = <<x[1], turn.output, x[3]>> /\ x[1] \in Nat /\ x[1] <= turn.now
    BY <2>3 DEF AgentInv, HeldOK
  <2>5. CASE x[1] = turn.now /\ x[3] = "AssistantMessage"
    BY <2>1, <2>4, <2>5
  <2>6. CASE x[1] # turn.now \/ x[3] # "AssistantMessage"
    BY <1>2, <2>2, <2>3, <2>4, <2>6
  <2> QED
    BY <2>5, <2>6
<1> QED
  BY <1>3, <1>4, <1>6, <1>7, <1>8 DEF AgentInv, CommittedOnce

LEMMA ReplayInv ==
  ASSUME AgentInv, Replay
  PROVE  AgentInv'
<1>1. /\ turn' = [turn EXCEPT !.pc = "reduce", !.blocks = <<>>, !.edges = {}]
      /\ UNCHANGED <<held, links>> /\ TurnOK
  BY DEF Replay, AgentInv
<1>2. /\ TurnOK' /\ Committing' /\ turn'.now = turn.now /\ turn'.reducer = turn.reducer
      /\ turn'.state = turn.state /\ turn'.output = turn.output
  BY <1>1 DEF TurnOK, Committing
<1> QED
  BY <1>1, <1>2, SameTurnInv

(***************************************************************************)
(* Whatever the model says and whichever reducer is asked, and wherever a  *)
(* commit stops before its turn is run again: each body is stored once,    *)
(* each output linked once, and an edge starts at a missing block only     *)
(* where the store has the output already.                                 *)
(***************************************************************************)
THEOREM CommittedOnceAlways == AgentSpec => []CommittedOnce
<1>1. AgentInv /\ [AgentNext]_agentVars => AgentInv'
  <2> SUFFICES ASSUME AgentInv, [AgentNext]_agentVars PROVE AgentInv'
    OBVIOUS
  <2>1. ASSUME NEW reducer \in Reducers, NEW output, reducer # "json-events",
               TakeOutput(reducer, output)
        PROVE  AgentInv'
    BY <2>1, TakeOutputInv
  <2>2. ASSUME NEW output \in Envelope \union {Malformed}, "json-events" \in Reducers,
               TakeOutput("json-events", output)
        PROVE  AgentInv'
    BY <2>2, TakeOutputInv
  <2>3. CASE UNCHANGED agentVars
    <3>1. TurnOK' /\ Committing'
      BY <2>3 DEF AgentInv, TurnOK, Committing, TurnEdges, agentVars
    <3> QED
      BY <2>3, <3>1, SameTurnInv DEF agentVars
  <2> QED
    BY <2>1, <2>2, <2>3, ReduceOutputInv, CommitBlockInv, CommitEdgesInv, ReplayInv DEF AgentNext
<1>2. AgentInv => CommittedOnce
  BY DEF AgentInv
<1> QED
  BY AgentInitInv, <1>1, <1>2, PTL DEF AgentSpec

-----------------------------------------------------------------------------
(* The diff of two plans.                                                  *)

(* A recorded plan gives reasons to blocks it selected, if to any.         *)
LEMMA PlanFacts ==
  ASSUME NEW plan \in Plan
  PROVE  /\ plan.selected \subseteq Id
         /\ Len(plan.selections) \in Nat /\ DOMAIN plan.selections = 1..Len(plan.selections)
         /\ \A i \in DOMAIN plan.selections : /\ plan.selections[i].id \in plan.selected
                                               /\ plan.selections[i].reason \in Reason
<1> DEFINE sel == plan.selections
<1>1. /\ plan.selected \subseteq Id
      /\ sel \in Selections
      /\ \A i \in DOMAIN sel : sel[i].id \in plan.selected
  BY DEF Plan
<1> HIDE DEF sel
<1>2. PICK m \in 0..MaxSelections : sel \in [1..m -> [id : Id, reason : Reason]]
  BY <1>1 DEF Selections, SeqOf
<1>3. m \in Nat
  BY <1>2, MaxSelectionsAssumption
<1>4. Len(sel) = m /\ DOMAIN sel = 1..m
  <2> DEFINE R == [id : Id, reason : Reason]
  <2>1. sel \in [1..m -> R]
    BY <1>2
  <2> HIDE DEF R
  <2>2. sel \in Seq(R) /\ DOMAIN sel = 1..m
    BY <1>3, <2>1
  <2>3. DOMAIN sel = 1..Len(sel) /\ Len(sel) \in Nat
    BY <2>2
  <2> QED
    BY <1>3, <2>2, <2>3
<1> QED
  BY <1>1, <1>2, <1>3, <1>4 DEF sel

(* The maps that insertion makes of the first n selections.                *)
Inserts(f, sel) ==
  f = [n \in 0..Len(sel) |->
         IF n = 0 THEN [b \in {} |-> Missing]
         ELSE [b \in DOMAIN f[n - 1] \union {sel[n].id} |->
                 IF b = sel[n].id THEN sel[n].reason ELSE f[n - 1][b]]]

ReasonMap == UNION {[D -> Reason] : D \in SUBSET Id}

LEMMA InsertedExists ==
  ASSUME NEW plan \in Plan
  PROVE  \E f : Inserts(f, plan.selections)
<1> DEFINE sel == plan.selections
           m == Len(sel)
           put(v, n) == [b \in DOMAIN v \union {sel[n].id} |-> IF b = sel[n].id THEN sel[n].reason ELSE v[b]]
           none == [b \in {} |-> Missing]
           step == [n \in 1..m |-> [v \in ReasonMap |-> put(v, n)]]
<1>1. m \in Nat /\ \A n \in 1..m : sel[n].id \in Id /\ sel[n].reason \in Reason
  BY PlanFacts
<1> HIDE DEF sel, m
<1>2. none \in ReasonMap
  BY DEF ReasonMap
<1>3. ASSUME NEW n \in 1..m, NEW v \in ReasonMap PROVE put(v, n) \in ReasonMap
  <2>1. PICK D \in SUBSET Id : v \in [D -> Reason]
    BY DEF ReasonMap
  <2>2. put(v, n) \in [D \union {sel[n].id} -> Reason] /\ D \union {sel[n].id} \in SUBSET Id
    BY <1>1, <2>1
  <2> HIDE DEF put
  <2> QED
    BY <2>2 DEF ReasonMap
<1>4. step \in [1..m -> [ReasonMap -> ReasonMap]]
  <2> HIDE DEF put
  <2> QED
    BY <1>3
<1> HIDE DEF none
<1>5. PICK f \in [0..m -> ReasonMap] : Recursive(f, m, none, step)
  <2> HIDE DEF step
  <2> QED
    BY <1>1, <1>2, <1>4, RecursionExists
<1>6. \A n \in 1..m : n - 1 \in 0..m /\ n # 0
  BY <1>1
<1>7. f[0] = none /\ \A n \in 1..m : f[n] = step[n][f[n - 1]] /\ f[n - 1] \in ReasonMap
  <2> HIDE DEF step
  <2> QED
    BY <1>5, <1>6 DEF Recursive
<1>8. \A n \in 1..m : f[n] = put(f[n - 1], n)
  <2> HIDE DEF put
  <2> QED
    BY <1>7
<1>9. \A n \in 0..m : f[n] = IF n = 0 THEN none ELSE put(f[n - 1], n)
  <2>1. \A n \in 0..m : n = 0 \/ n \in 1..m
    BY <1>1
  <2> HIDE DEF put
  <2> QED
    BY <1>6, <1>7, <1>8, <2>1
<1>10. f = [n \in 0..m |-> IF n = 0 THEN none ELSE put(f[n - 1], n)]
  <2>1. f = [n \in 0..m |-> f[n]]
    BY <1>5
  <2> HIDE DEF put
  <2> QED
    BY <1>9, <2>1
<1>11. Inserts(f, sel)
  BY <1>10 DEF Inserts, none, m
<1> QED
  BY <1>11 DEF sel

(* r is what the last of the first n selections of b says.                 *)
LastAmong(sel, n, b, r) ==
  \E i \in 1..n : /\ sel[i].id = b /\ sel[i].reason = r
                  /\ \A j \in 1..n : j > i => sel[j].id # b

(* Insertion keeps, for each block it has met, the last reason given.      *)
LEMMA InsertedIsLast ==
  ASSUME NEW sel, Len(sel) \in Nat, NEW f, Inserts(f, sel)
  PROVE  \A n \in 0..Len(sel) :
           /\ \A i \in 1..n : sel[i].id \in DOMAIN f[n]
           /\ \A b \in DOMAIN f[n] : LastAmong(sel, n, b, f[n][b])
<1> DEFINE m == Len(sel)
           P(n) == /\ \A i \in 1..n : sel[i].id \in DOMAIN f[n]
                   /\ \A b \in DOMAIN f[n] : LastAmong(sel, n, b, f[n][b])
           S == {n \in 0..m : P(n)}
<1>1. f[0] = [b \in {} |-> Missing]
  BY DEF Inserts
<1>2. ASSUME NEW n \in 1..m
      PROVE  f[n] = [b \in DOMAIN f[n - 1] \union {sel[n].id} |->
                       IF b = sel[n].id THEN sel[n].reason ELSE f[n - 1][b]]
  <2>1. n \in 0..m /\ n # 0
    OBVIOUS
  <2> QED
    BY <2>1 DEF Inserts
<1>3. 0 \in S
  <2>1. DOMAIN f[0] = {}
    BY <1>1
  <2> QED
    BY <2>1
<1>4. ASSUME NEW n \in 1..m, n - 1 \in S PROVE n \in S
  <2> DEFINE g == f[n - 1]  h == f[n]  x == sel[n].id
  <2>1. /\ \A i \in 1..(n - 1) : sel[i].id \in DOMAIN g
        /\ \A b \in DOMAIN g : LastAmong(sel, n - 1, b, g[b])
    BY <1>4
  <2> DEFINE y == sel[n].reason
  <2>7. h = [b \in DOMAIN g \union {x} |-> IF b = x THEN y ELSE g[b]]
    BY <1>2
  <2> HIDE DEF g, h, x, y
  <2>8. /\ DOMAIN h = DOMAIN g \union {x} /\ h[x] = y
        /\ \A b \in DOMAIN g : b # x => h[b] = g[b]
    BY <2>7
  <2> USE DEF x
  <2>2. /\ DOMAIN h = DOMAIN g \union {x} /\ h[x] = sel[n].reason
        /\ \A b \in DOMAIN g : b # x => h[b] = g[b]
    BY <2>8 DEF y
  <2>3. \A i \in 1..n : i \in 1..(n - 1) \/ i = n
    OBVIOUS
  <2>4. \A i \in 1..n : sel[i].id \in DOMAIN h
    BY <2>1, <2>2, <2>3
  <2>5. ASSUME NEW b \in DOMAIN h PROVE LastAmong(sel, n, b, h[b])
    <3>1. CASE b = x
      <4>1. n \in 1..n /\ sel[n].id = b /\ sel[n].reason = h[b] /\ \A j \in 1..n : ~(j > n)
        BY <2>2, <3>1
      <4> QED
        BY <4>1 DEF LastAmong
    <3>2. CASE b # x
      <4>1. b \in DOMAIN g /\ h[b] = g[b]
        BY <2>2, <3>2
      <4>2. PICK i \in 1..(n - 1) : /\ sel[i].id = b /\ sel[i].reason = g[b]
                                   /\ \A j \in 1..(n - 1) : j > i => sel[j].id # b
        BY <2>1, <4>1 DEF LastAmong
      <4>3. i \in 1..n /\ \A j \in 1..n : j > i => sel[j].id # b
        BY <2>3, <3>2, <4>2
      <4> QED
        BY <4>1, <4>2, <4>3 DEF LastAmong
    <3> QED
      BY <3>1, <3>2
  <2>6. n \in 0..m
    OBVIOUS
  <2> QED
    BY <2>4, <2>5, <2>6 DEF h
<1> HIDE DEF S
<1>5. \A n \in 0..m : n \in S
  BY <1>3, <1>4, InductionUpTo
<1> QED
  BY <1>5 DEF S

(* The reasons cover the blocks of the plan, no others, and each is the    *)
(* one reason that LastReason allows.                                      *)
LEMMA ReasonsFacts ==
  ASSUME NEW plan \in Plan
  PROVE  /\ DOMAIN ReasonsById(plan) = plan.selected
         /\ \A b \in plan.selected :
              /\ ReasonsById(plan)[b] \in Reason
              /\ \A r : LastReason(plan, b, r) <=> r = ReasonsById(plan)[b]
<1> DEFINE sel == plan.selections
           m == Len(sel)
<1>1. /\ m \in Nat /\ DOMAIN sel = 1..m
      /\ \A i \in 1..m : sel[i].id \in plan.selected /\ sel[i].reason \in Reason
  BY PlanFacts
<1>2. PICK f : /\ Inserts(f, sel)
               /\ ReasonsById(plan) = [b \in plan.selected \union DOMAIN f[m] |->
                                         IF b \in DOMAIN f[m] THEN f[m][b] ELSE "HighRelevance"]
  <2>1. PICK h : Inserts(h, sel)
    BY InsertedExists
  <2>2. Inserts(CHOOSE g : Inserts(g, sel), sel)
    BY <2>1
  <2> QED
    BY <2>2 DEF ReasonsById, Inserts
<1> DEFINE given == f[m]
<1> HIDE DEF sel
<1>3. /\ \A i \in 1..m : sel[i].id \in DOMAIN given
      /\ \A b \in DOMAIN given : LastAmong(sel, m, b, given[b])
  BY <1>1, <1>2, InsertedIsLast
<1> HIDE DEF given, m
<1>4. ReasonsById(plan) = [b \in plan.selected \union DOMAIN given |->
                            IF b \in DOMAIN given THEN given[b] ELSE "HighRelevance"]
  BY <1>2 DEF given, m
<1>5. \A b \in DOMAIN given : b \in plan.selected /\ given[b] \in Reason
  BY <1>1, <1>3 DEF LastAmong
<1>6. DOMAIN ReasonsById(plan) = plan.selected
  BY <1>4, <1>5
<1>7. ASSUME NEW b \in plan.selected
      PROVE  /\ ReasonsById(plan)[b] \in Reason
             /\ \A r : LastReason(plan, b, r) <=> r = ReasonsById(plan)[b]
  <2>0. \A r : LastReason(plan, b, r) <=> \/ (\A i \in 1..m : sel[i].id # b) /\ r = "HighRelevance"
                                         \/ LastAmong(sel, m, b, r)
    BY <1>1 DEF LastReason, LastAmong, sel
  <2>1. CASE b \in DOMAIN given
    <3>1. ReasonsById(plan)[b] = given[b] /\ LastAmong(sel, m, b, given[b])
      BY <1>3, <1>4, <2>1
    <3>2. ASSUME NEW r, LastAmong(sel, m, b, r) PROVE r = given[b]
      <4>1. PICK i \in 1..m : /\ sel[i].id = b /\ sel[i].reason = r
                              /\ \A j \in 1..m : j > i => sel[j].id # b
        BY <3>2 DEF LastAmong
      <4>2. PICK k \in 1..m : /\ sel[k].id = b /\ sel[k].reason = given[b]
                              /\ \A j \in 1..m : j > k => sel[j].id # b
        BY <3>1 DEF LastAmong
      <4>3. i = k
        BY <1>1, <4>1, <4>2
      <4> QED
        BY <4>1, <4>2, <4>3
    <3>3. ~ \A i \in 1..m : sel[i].id # b
      BY <3>1 DEF LastAmong
    <3> QED
      BY <1>5, <2>0, <2>1, <3>1, <3>2, <3>3
  <2>2. CASE b \notin DOMAIN given
    <3>1. ReasonsById(plan)[b] = "HighRelevance"
      BY <1>4, <2>2
    <3>2. \A i \in 1..m : sel[i].id # b
      BY <1>3, <2>2
    <3>3. \A r : ~LastAmong(sel, m, b, r)
      BY <3>2 DEF LastAmong
    <3> QED
      BY <2>0, <3>1, <3>2, <3>3, MissingAssumption
  <2> QED
    BY <2>1, <2>2
<1> QED
  BY <1>6, <1>7

LEMMA EntryFacts ==
  ASSUME NEW B, NEW p, NEW n
  PROVE  /\ Ids(DiffEntries(B, p, n)) = B
         /\ \A e \in DiffEntries(B, p, n) :
              /\ e.id \in B
              /\ e.reason_prev = ReasonIn(p, e.id) /\ e.reason_next = ReasonIn(n, e.id)
<1>1. ASSUME NEW e \in DiffEntries(B, p, n)
      PROVE  /\ e.id \in B
             /\ e.reason_prev = ReasonIn(p, e.id) /\ e.reason_next = ReasonIn(n, e.id)
  BY DEF DiffEntries
<1>2. ASSUME NEW b \in B
      PROVE  \E e \in DiffEntries(B, p, n) : e.id = b
  <2>1. [id |-> b, reason_prev |-> ReasonIn(p, b), reason_next |-> ReasonIn(n, b)] \in DiffEntries(B, p, n)
    BY DEF DiffEntries
  <2> QED
    BY <2>1
<1> QED
  BY <1>1, <1>2 DEF Ids

DiffInv == Shown => prev \in Plan /\ next \in Plan /\ shown = DiffPlans(prev, next)

LEMMA DiffInvariant == DiffSpec => [](prev \in Plan \union {Missing} /\ next \in Plan \union {Missing} /\ DiffInv)
<1> DEFINE I == prev \in Plan \union {Missing} /\ next \in Plan \union {Missing} /\ DiffInv
<1>1. DiffInit => I
  BY DEF DiffInit, DiffInv, Shown
<1>2. I /\ [TraceDiff]_diffVars => I'
  <2> SUFFICES ASSUME I, [TraceDiff]_diffVars PROVE I'
    OBVIOUS
  <2>1. CASE TraceDiff
    BY <2>1 DEF TraceDiff, DiffInv, Shown
  <2>2. CASE UNCHANGED diffVars
    BY <2>2 DEF diffVars, DiffInv, Shown
  <2> QED
    BY <2>1, <2>2
<1> QED
  BY <1>1, <1>2, PTL DEF DiffSpec

(***************************************************************************)
(* For all pairs of plans, with or without selections and with blocks      *)
(* selected more than once: the diff is a patch from one to the other that *)
(* lists no block twice, each side of an entry has the last reason of that *)
(* plan, and no change is shown exactly if blocks and last reasons agree.  *)
(***************************************************************************)
THEOREM DiffIsExactAlways == DiffSpec => []DiffIsExact
<1>1. ASSUME DiffInv PROVE DiffIsExact
  <2> SUFFICES ASSUME Shown PROVE DiffIsExact
    BY DEF DiffIsExact, DiffGivesNext, ReasonsAreLast, NoopMeansSame
  <2> DEFINE p == ReasonsById(prev)
             n == ReasonsById(next)
             P == prev.selected
             N == next.selected
  <2>1. /\ prev \in Plan /\ next \in Plan
        /\ shown.added = DiffEntries(DOMAIN n \ DOMAIN p, p, n)
        /\ shown.removed = DiffEntries(DOMAIN p \ DOMAIN n, p, n)
        /\ shown.kept = DiffEntries(DOMAIN p \intersect DOMAIN n, p, n)
    BY <1>1 DEF DiffInv, DiffPlans
  <2>2. /\ DOMAIN p = P /\ DOMAIN n = N
        /\ \A b \in P : p[b] \in Reason /\ \A r : LastReason(prev, b, r) <=> r = p[b]
        /\ \A b \in N : n[b] \in Reason /\ \A r : LastReason(next, b, r) <=> r = n[b]
    BY <2>1, ReasonsFacts
  <2> HIDE DEF p, n
  <2>3. /\ Ids(shown.added) = N \ P
        /\ Ids(shown.removed) = P \ N
        /\ Ids(shown.kept) = P \intersect N
    BY <2>1, <2>2, EntryFacts
  <2>4. \A e \in Entries :
          /\ e = [id |-> e.id, reason_prev |-> ReasonIn(p, e.id), reason_next |-> ReasonIn(n, e.id)]
          /\ e.reason_prev = ReasonIn(p, e.id) /\ e.reason_next = ReasonIn(n, e.id)
    BY <2>1 DEF Entries, DiffEntries
  <2>5. DiffGivesNext
    <3>1. ASSUME NEW e \in Entries, NEW f \in Entries, e.id = f.id PROVE e = f
      BY <2>4, <3>1
    <3>2. (P \ Ids(shown.removed)) \union Ids(shown.added) = N
      BY <2>3
    <3> QED
      BY <2>3, <3>1, <3>2 DEF DiffGivesNext
  <2>6. ReasonsAreLast
    <3> SUFFICES ASSUME NEW e \in Entries
                 PROVE  /\ IF e.id \in P THEN LastReason(prev, e.id, e.reason_prev) ELSE e.reason_prev = Missing
                        /\ IF e.id \in N THEN LastReason(next, e.id, e.reason_next) ELSE e.reason_next = Missing
      BY DEF ReasonsAreLast
    <3>1. e.reason_prev = ReasonIn(p, e.id) /\ e.reason_next = ReasonIn(n, e.id)
      BY <2>4
    <3>2. e.id \in P => LastReason(prev, e.id, e.reason_prev)
      BY <2>2, <3>1 DEF ReasonIn
    <3>3. e.id \in N => LastReason(next, e.id, e.reason_next)
      BY <2>2, <3>1 DEF ReasonIn
    <3>4. /\ e.id \notin P => e.reason_prev = Missing
          /\ e.id \notin N => e.reason_next = Missing
      BY <2>2, <3>1 DEF ReasonIn
    <3> QED
      BY <3>2, <3>3, <3>4
  <2> DEFINE same == P = N /\ \A b \in P : \E r \in Reason : LastReason(prev, b, r) /\ LastReason(next, b, r)
  <2>7. ASSUME IsNoop(shown) PROVE same
    <3>1. P = N
      <4>1. Ids(shown.added) = {} /\ Ids(shown.removed) = {}
        BY <2>7 DEF IsNoop, Ids
      <4> QED
        BY <2>3, <4>1
    <3>2. ASSUME NEW b \in P PROVE p[b] = n[b]
      <4>1. PICK e \in shown.kept : e.id = b
        BY <2>3, <3>1, <3>2 DEF Ids
      <4>2. e.reason_prev = ReasonIn(p, b) /\ e.reason_next = ReasonIn(n, b)
        BY <2>4, <4>1 DEF Entries
      <4>3. e.reason_prev = e.reason_next
        BY <2>7, <4>1 DEF IsNoop, ReasonChanged
      <4> QED
        BY <2>2, <3>1, <4>2, <4>3 DEF ReasonIn
    <3>3. ASSUME NEW b \in P PROVE \E r \in Reason : LastReason(prev, b, r) /\ LastReason(next, b, r)
      <4>1. p[b] \in Reason /\ LastReason(prev, b, p[b])
        BY <2>2
      <4>2. b \in N
        BY <3>1
      <4>3. LastReason(next, b, p[b])
        BY <2>2, <3>2, <4>2
      <4> QED
        BY <4>1, <4>3
    <3> QED
      BY <3>1, <3>3
  <2>8. ASSUME same PROVE IsNoop(shown)
    <3>1. P = N /\ \A b \in P : p[b] = n[b]
      BY <2>2, <2>8
    <3>2. \A e \in shown.kept : ~ReasonChanged(e)
      <4> SUFFICES ASSUME NEW e \in shown.kept PROVE e.reason_prev = e.reason_next
        BY DEF ReasonChanged
      <4>1. e.id \in P /\ e.id \in N
        BY <2>3 DEF Ids
      <4>2. e.reason_prev = ReasonIn(p, e.id) /\ e.reason_next = ReasonIn(n, e.id)
        BY <2>4 DEF Entries
      <4> QED
        BY <2>2, <3>1, <4>1, <4>2 DEF ReasonIn
    <3>3. shown.added = {} /\ shown.removed = {}
      <4>1. Ids(shown.added) = {} /\ Ids(shown.removed) = {}
        BY <2>3, <3>1
      <4>2. \A E : Ids(E) = {} => E = {}
        BY DEF Ids
      <4> QED
        BY <4>1, <4>2
    <3> QED
      BY <3>2, <3>3 DEF IsNoop
  <2>9. NoopMeansSame
    <3> HIDE DEF same
    <3>1. IsNoop(shown) <=> same
      BY <2>7, <2>8
    <3> QED
      BY <3>1 DEF NoopMeansSame, same
  <2> QED
    BY <2>5, <2>6, <2>9 DEF DiffIsExact
<1> QED
  BY <1>1, DiffInvariant, PTL

-----------------------------------------------------------------------------
(* The model registry.                                                     *)

Profiles == Range(BuiltIn) \union UserProfile
ProfileNames == {p.name : p \in Profiles}
Registries ==
  [profiles : Seq(Profiles), by_name : UNION {[N -> Nat] : N \in SUBSET ProfileNames},
   default_name : {<<>>, BuiltInDefault}]

(* A name leads to the last profile that was registered under it. *)
LatestByName(reg) ==
  /\ \A i \in DOMAIN reg.profiles : reg.profiles[i].name \in DOMAIN reg.by_name
  /\ \A n \in DOMAIN reg.by_name :
       /\ reg.by_name[n] \in DOMAIN reg.profiles
       /\ reg.profiles[reg.by_name[n]].name = n
       /\ \A j \in DOMAIN reg.profiles : reg.profiles[j].name = n => j <= reg.by_name[n]

RegistryInv == registry \in Registries /\ LatestByName(registry)

LEMMA RegisterKept ==
  ASSUME NEW reg \in Registries, NEW p \in Profiles, LatestByName(reg)
  PROVE  Register(reg, p) \in Registries /\ LatestByName(Register(reg, p))
<1> DEFINE m == Len(reg.profiles)
           new == Append(reg.profiles, p)
           index == [n \in DOMAIN reg.by_name \union {p.name} |-> IF n = p.name THEN m + 1 ELSE reg.by_name[n]]
<1>1. Register(reg, p) = [reg EXCEPT !.profiles = new, !.by_name = index]
  BY DEF Register
<1>2. /\ reg.profiles \in Seq(Profiles) /\ m \in Nat /\ DOMAIN reg.profiles = 1..m
      /\ reg.default_name \in {<<>>, BuiltInDefault}
      /\ new \in Seq(Profiles) /\ DOMAIN new = 1..(m + 1) /\ new[m + 1] = p
      /\ \A i \in 1..m : new[i] = reg.profiles[i]
  BY DEF Registries
<1>3. PICK N \in SUBSET ProfileNames : reg.by_name \in [N -> Nat]
  BY DEF Registries
<1>4. p.name \in ProfileNames
  BY DEF ProfileNames
<1> HIDE DEF m
<1>5. /\ DOMAIN index = N \union {p.name} /\ index[p.name] = m + 1
      /\ \A n \in N : n # p.name => index[n] = reg.by_name[n]
      /\ index \in [N \union {p.name} -> Nat]
  BY <1>2, <1>3
<1> HIDE DEF new, index
<1>6. /\ Register(reg, p).profiles = new /\ Register(reg, p).by_name = index
      /\ Register(reg, p) \in Registries
  <2>1. index \in UNION {[M -> Nat] : M \in SUBSET ProfileNames}
    BY <1>4, <1>5
  <2>2. /\ reg = [profiles |-> reg.profiles, by_name |-> reg.by_name, default_name |-> reg.default_name]
    BY DEF Registries
  <2>3. Register(reg, p) = [profiles |-> new, by_name |-> index, default_name |-> reg.default_name]
    BY <1>1, <2>2
  <2> QED
    BY <1>2, <2>1, <2>3 DEF Registries
<1>7. \A i \in DOMAIN new : new[i].name \in DOMAIN index
  <2>1. \A i \in 1..m : new[i].name \in N
    BY <1>2, <1>3 DEF LatestByName
  <2> QED
    BY <1>2, <1>5, <2>1
<1>8. ASSUME NEW n \in DOMAIN index
      PROVE  /\ index[n] \in DOMAIN new /\ new[index[n]].name = n
             /\ \A j \in DOMAIN new : new[j].name = n => j <= index[n]
  <2>1. CASE n = p.name
    BY <2>1, <1>2, <1>5
  <2>2. CASE n # p.name
    <3>1. n \in N /\ index[n] = reg.by_name[n] /\ n \in DOMAIN reg.by_name
      BY <2>2, <1>3, <1>5, <1>8
    <3>2. /\ index[n] \in 1..m /\ reg.profiles[index[n]].name = n
          /\ \A j \in 1..m : reg.profiles[j].name = n => j <= index[n]
      BY <1>2, <3>1 DEF LatestByName
    <3> QED
      BY <2>2, <1>2, <3>2
  <2> QED
    BY <2>1, <2>2
<1> QED
  BY <1>6, <1>7, <1>8 DEF LatestByName

LEMMA RegistryInitInv == RegistryInit => RegistryInv
<1> SUFFICES ASSUME RegistryInit PROVE RegistryInv
  OBVIOUS
<1> DEFINE m == Len(BuiltIn)
           Is(f) == f = [n \in 0..m |-> IF n = 0 THEN EmptyRegistry ELSE Register(f[n - 1], BuiltIn[n])]
           Good == {reg \in Registries : LatestByName(reg)}
           step == [n \in 1..m |-> [reg \in Good |-> Register(reg, BuiltIn[n])]]
<1>1. m \in Nat /\ \A n \in 1..m : BuiltIn[n] \in Profiles
  BY ProfilesAssumption DEF Profiles, Range
<1>2. PICK g : g = (CHOOSE h : Is(h)) /\ registry = [g[m] EXCEPT !.default_name = BuiltInDefault]
  BY DEF RegistryInit, default_registry
<1> HIDE DEF m
<1>3. EmptyRegistry \in Good
  <2>1. <<>> \in Seq(Profiles) /\ <<>> \in [{} -> Nat] /\ {} \in SUBSET ProfileNames /\ DOMAIN <<>> = {}
    OBVIOUS
  <2>2. EmptyRegistry \in Registries
    BY <2>1 DEF EmptyRegistry, Registries
  <2> QED
    BY <2>1, <2>2 DEF EmptyRegistry, LatestByName
<1>4. \A n \in 1..m : \A reg \in Good : Register(reg, BuiltIn[n]) \in Good
  BY <1>1, RegisterKept
<1> HIDE DEF Good
<1>5. step \in [1..m -> [Good -> Good]]
  BY <1>4
<1>6. PICK f \in [0..m -> Good] : Recursive(f, m, EmptyRegistry, step)
  <2> HIDE DEF step
  <2> QED
    BY <1>1, <1>3, <1>5, RecursionExists
<1>7. Is(f)
  <2>1. \A n \in 1..m : n - 1 \in 0..m
    BY <1>1
  <2>2. f[0] = EmptyRegistry /\ \A n \in 1..m : f[n] = step[n][f[n - 1]] /\ f[n - 1] \in Good
    <3> HIDE DEF step
    <3> QED
      BY <1>6, <2>1 DEF Recursive
  <2>3. \A n \in 1..m : f[n] = Register(f[n - 1], BuiltIn[n])
    BY <2>2
  <2>4. \A n \in 0..m : n = 0 \/ n \in 1..m
    BY <1>1
  <2>5. f = [n \in 0..m |-> f[n]]
    BY <1>6
  <2> QED
    BY <2>2, <2>3, <2>4, <2>5
<1>8. Is(g)
  <2> HIDE DEF Is
  <2> QED
    BY <1>2, <1>7
<1>9. g[0] \in Good /\ \A n \in 1..m : g[n - 1] \in Good => g[n] \in Good
  <2>1. g[0] = EmptyRegistry /\ \A n \in 1..m : g[n] = Register(g[n - 1], BuiltIn[n])
    <3>1. 0 \in 0..m /\ \A n \in 1..m : n \in 0..m /\ n # 0
      BY <1>1
    <3> QED
      BY <1>8, <3>1
  <2> QED
    BY <1>3, <1>4, <2>1
<1> HIDE DEF Is
<1>10. g[m] \in Good
  <2>1. \A n \in 0..m : g[n] \in Good
    BY <1>1, <1>9, RecursionStays
  <2> QED
    BY <1>1, <2>1
<1> QED
  <2>1. g[m] \in Registries /\ LatestByName(g[m])
    BY <1>10 DEF Good
  <2>2. /\ registry.profiles = g[m].profiles /\ registry.by_name = g[m].by_name
        /\ registry \in Registries
    BY <1>2, <2>1 DEF Registries
  <2> QED
    BY <2>1, <2>2 DEF RegistryInv, LatestByName

THEOREM RegistryInvariant == RegistrySpec => []RegistryInv
<1>1. RegistryInv /\ [RegistryNext]_registry => RegistryInv'
  <2> SUFFICES ASSUME RegistryInv, [RegistryNext]_registry PROVE RegistryInv'
    OBVIOUS
  <2>1. CASE UNCHANGED registry
    BY <2>1 DEF RegistryInv
  <2>2. ASSUME NEW p \in UserProfile, registry' = Register(registry, p) PROVE RegistryInv'
    BY <2>2, RegisterKept DEF RegistryInv, Profiles
  <2> QED
    BY <2>1, <2>2 DEF RegistryNext, RegisterProfile
<1> QED
  BY <1>1, RegistryInitInv, PTL DEF RegistrySpec

(* One pass finds the longest family that is a prefix of the name, and of  *)
(* several the latest.                                                     *)
Beats(reg, i, j) ==
  /\ Len(reg.profiles[j].family) <= Len(reg.profiles[i].family)
  /\ Len(reg.profiles[j].family) = Len(reg.profiles[i].family) => j <= i

LEMMA FamilyMatchFinds ==
  ASSUME NEW reg \in Registries, NEW name
  PROVE  LET C == {i \in DOMAIN reg.profiles : Claims(reg.profiles[i], name)}
             b == FamilyMatch(reg, name)
         IN (b = 0 /\ C = {}) \/ (b \in C /\ \A j \in C : Beats(reg, b, j))
<1> DEFINE m == Len(reg.profiles)
           len(i) == Len(reg.profiles[i].family)
           C == {i \in DOMAIN reg.profiles : Claims(reg.profiles[i], name)}
           better(n, b) == Claims(reg.profiles[n], name) /\ (b = 0 \/ len(n) >= len(b))
           Is(f) == f = [n \in 0..m |-> IF n = 0 THEN 0 ELSE IF better(n, f[n - 1]) THEN n ELSE f[n - 1]]
           step == [n \in 1..m |-> [b \in Nat |-> IF better(n, b) THEN n ELSE b]]
           Found(n, b) == (b = 0 /\ \A j \in C : j > n)
                            \/ (b \in C /\ b <= n /\ \A j \in C : j <= n => Beats(reg, b, j))
<1>1. /\ m \in Nat /\ DOMAIN reg.profiles = 1..m
      /\ \A i \in C : i \in 1..m /\ len(i) \in Nat
  <2>1. reg.profiles \in Seq(Profiles)
    BY DEF Registries
  <2>2. \A i \in C : reg.profiles[i] \in Profiles /\ reg.profiles[i].family # NoFamily
    BY <2>1 DEF Claims
  <2>3. \A p \in Profiles : p.family # NoFamily => Len(p.family) \in Nat
    BY ProfilesAssumption DEF Profiles
  <2> QED
    BY <2>1, <2>2, <2>3
<1>2. PICK g : g = (CHOOSE h : Is(h)) /\ FamilyMatch(reg, name) = g[m]
  BY DEF FamilyMatch
<1>3. \A n \in 1..m : Claims(reg.profiles[n], name) <=> n \in C
  BY <1>1
<1>beats. \A i, j : Beats(reg, i, j) <=> len(j) <= len(i) /\ (len(j) = len(i) => j <= i)
  BY DEF Beats
<1> HIDE DEF m, C
<1>4. step \in [1..m -> [Nat -> Nat]]
  <2> HIDE DEF better
  <2> QED
    BY <1>1
<1>5. PICK f \in [0..m -> Nat] : Recursive(f, m, 0, step)
  <2> HIDE DEF step
  <2> QED
    BY <1>1, <1>4, RecursionExists
<1>6. Is(f)
  <2> HIDE DEF better
  <2>1. \A n \in 1..m : n - 1 \in 0..m
    BY <1>1
  <2>2. f[0] = 0 /\ \A n \in 1..m : f[n] = step[n][f[n - 1]] /\ f[n - 1] \in Nat
    <3> HIDE DEF step
    <3> QED
      BY <1>5, <2>1 DEF Recursive
  <2>3. \A n \in 1..m : f[n] = IF better(n, f[n - 1]) THEN n ELSE f[n - 1]
    BY <2>2
  <2>4. \A n \in 0..m : n = 0 \/ n \in 1..m
    BY <1>1
  <2>5. f = [n \in 0..m |-> f[n]]
    BY <1>5
  <2> QED
    BY <2>2, <2>3, <2>4, <2>5
<1>7. Is(g)
  <2> HIDE DEF Is
  <2> QED
    BY <1>2, <1>6
<1>8. g[0] = 0 /\ \A n \in 1..m : g[n] = IF better(n, g[n - 1]) THEN n ELSE g[n - 1]
  <2>1. 0 \in 0..m /\ \A n \in 1..m : n \in 0..m /\ n # 0
    BY <1>1
  <2> HIDE DEF better
  <2> QED
    BY <1>7, <2>1
<1> HIDE DEF Is, step
<1>9. ASSUME NEW n \in 1..m, Found(n - 1, g[n - 1]) PROVE Found(n, g[n])
  <2>1. n \in Nat /\ \A j \in C : j \in Nat /\ len(j) \in Nat
    BY <1>1
  <2> HIDE DEF len
  <2>2. CASE better(n, g[n - 1])
    <3>1. g[n] = n /\ n \in C
      BY <2>2, <1>3, <1>8
    <3>2. ASSUME NEW j \in C, j <= n PROVE Beats(reg, n, j)
      <4>1. CASE j = n
        BY <4>1, <2>1, <3>1, <1>beats
      <4>2. CASE j # n
        <5>1. j <= n - 1
          BY <4>2, <3>2, <2>1, <1>1
        <5>2. g[n - 1] \in C /\ Beats(reg, g[n - 1], j)
          BY <5>1, <1>9, <2>1, <1>1
        <5>3. g[n - 1] # 0 /\ len(n) >= len(g[n - 1])
          BY <5>2, <2>2, <1>1
        <5> QED
          <6>1. len(j) \in Nat /\ len(n) \in Nat /\ len(g[n - 1]) \in Nat
            BY <5>2, <3>1, <2>1
          <6>2. len(j) <= len(g[n - 1])
            BY <5>2, <1>beats
          <6>3. len(j) <= len(n)
            BY <5>3, <6>1, <6>2
          <6> QED
            BY <6>3, <3>2, <1>beats
      <4> QED
        BY <4>1, <4>2
    <3>3. n <= n
      BY <2>1
    <3> HIDE DEF better
    <3> QED
      BY <3>1, <3>2, <3>3
  <2>3. CASE ~better(n, g[n - 1])
    <3>1. g[n] = g[n - 1]
      BY <2>3, <1>8
    <3>2. CASE n \notin C
      <4>1. \A j \in C : (j <= n) = (j <= n - 1)
        BY <3>2, <2>1, <1>1
      <4> QED
        BY <3>1, <4>1, <1>9, <2>1, <1>1
    <3>3. CASE n \in C
      <4>1. g[n - 1] # 0 /\ ~(len(n) >= len(g[n - 1]))
        BY <3>3, <2>3, <1>3
      <4>2. g[n - 1] \in C /\ g[n - 1] <= n - 1 /\ \A j \in C : j <= n - 1 => Beats(reg, g[n - 1], j)
        BY <4>1, <1>9
      <4>3. Beats(reg, g[n - 1], n)
        <5>1. len(n) \in Nat /\ len(g[n - 1]) \in Nat
          BY <4>2, <3>3, <2>1
        <5>2. len(n) <= len(g[n - 1]) /\ len(n) # len(g[n - 1])
          BY <4>1, <5>1
        <5> QED
          BY <5>2, <1>beats
      <4>4. g[n - 1] <= n /\ \A j \in C : j <= n => j = n \/ j <= n - 1
        BY <4>2, <2>1, <1>1
      <4> QED
        BY <3>1, <4>2, <4>3, <4>4
    <3> QED
      BY <3>2, <3>3
  <2> QED
    BY <2>2, <2>3
<1>10. Found(0, g[0])
  BY <1>1, <1>8
<1>11. Found(m, g[m])
  <2> HIDE DEF Found
  <2> DEFINE S == {n \in 0..m : Found(n, g[n])}
  <2>1. 0 \in S /\ \A n \in 1..m : n - 1 \in S => n \in S
    BY <1>1, <1>9, <1>10
  <2> HIDE DEF S
  <2>2. \A n \in 0..m : n \in S
    BY <1>1, <2>1, InductionUpTo
  <2>3. m \in S
    BY <1>1, <2>2
  <2> QED
    BY <2>3 DEF S
<1>12. \A j \in C : j <= m /\ ~(j > m)
  BY <1>1
<1>13. (FamilyMatch(reg, name) = 0 /\ C = {})
         \/ (FamilyMatch(reg, name) \in C /\ \A j \in C : Beats(reg, FamilyMatch(reg, name), j))
  BY <1>2, <1>11, <1>12
<1> QED
  BY <1>13 DEF C

LEMMA LatestIs ==
  ASSUME NEW I \in SUBSET Nat, NEW k \in I, \A j \in I : j <= k
  PROVE  Latest(I) = k
<1>1. \A i \in I : (\A j \in I : j <= i) => i = k
  OBVIOUS
<1> QED
  BY <1>1 DEF Latest

(***************************************************************************)
(* Whatever profiles a config file adds, in whatever order, a name         *)
(* resolves to the latest profile of that name, else the latest of the     *)
(* longest family, else the default (ModelRegistry::resolve).              *)
(***************************************************************************)
THEOREM ResolvesAsDocumentedAlways == RegistrySpec => []ResolvesAsDocumented
<1>1. RegistryInv => ResolvesAsDocumented
  <2> SUFFICES ASSUME RegistryInv, NEW input \in RequestedModel
               PROVE  LET name == Last(input)
                          longest == {i \in Claiming(name) : \A j \in Claiming(name) :
                            Len(registry.profiles[j].family) <= Len(registry.profiles[i].family)}
                      IN Resolve(registry, input) =
                           IF Named(name) # {} THEN Latest(Named(name))
                           ELSE IF longest # {} THEN Latest(longest)
                           ELSE IF Named(registry.default_name) # {}
                             THEN Latest(Named(registry.default_name)) ELSE 1
    BY DEF ResolvesAsDocumented
  <2> DEFINE name == Last(input)
             longest == {i \in Claiming(name) : \A j \in Claiming(name) :
               Len(registry.profiles[j].family) <= Len(registry.profiles[i].family)}
             b == FamilyMatch(registry, name)
  <2>1. registry \in Registries /\ LatestByName(registry) /\ DOMAIN registry.profiles \subseteq Nat
    BY DEF RegistryInv, Registries
  <2>2. ASSUME NEW n
        PROVE  /\ Named(n) # {} <=> n \in DOMAIN registry.by_name
               /\ n \in DOMAIN registry.by_name => Latest(Named(n)) = registry.by_name[n]
    <3>1. Named(n) \in SUBSET Nat
      BY <2>1 DEF Named
    <3>2. n \in DOMAIN registry.by_name =>
            registry.by_name[n] \in Named(n) /\ \A j \in Named(n) : j <= registry.by_name[n]
      BY <2>1 DEF Named, LatestByName
    <3>3. Named(n) # {} => n \in DOMAIN registry.by_name
      BY <2>1 DEF Named, LatestByName
    <3> QED
      BY <3>1, <3>2, <3>3, LatestIs
  <2>3. (b = 0 /\ Claiming(name) = {})
          \/ (b \in Claiming(name) /\ \A j \in Claiming(name) : Beats(registry, b, j))
    BY <2>1, FamilyMatchFinds DEF Claiming
  <2>4. Claiming(name) \in SUBSET Nat /\ \A i \in Claiming(name) : i # 0
    BY <2>1 DEF Claiming, RegistryInv, Registries
  <2>5. longest = {} => b = 0
    BY <2>3 DEF Beats
  <2>6. longest # {} => b # 0 /\ Latest(longest) = b
    <3> SUFFICES ASSUME longest # {} PROVE b # 0 /\ Latest(longest) = b
      OBVIOUS
    <3>1. b \in Claiming(name) /\ \A j \in Claiming(name) : Beats(registry, b, j)
      BY <2>3
    <3>2. b \in longest /\ b # 0
      BY <3>1, <2>4 DEF Beats
    <3>3. ASSUME NEW j \in longest PROVE j <= b
      <4>1. Len(registry.profiles[b].family) <= Len(registry.profiles[j].family)
        BY <3>1, <3>3
      <4>2. Beats(registry, b, j) /\ j \in Claiming(name)
        BY <3>1, <3>3
      <4>3. ASSUME NEW i \in Claiming(name) PROVE Len(registry.profiles[i].family) \in Nat
        <5>1. registry.profiles[i] \in Profiles /\ registry.profiles[i].family # NoFamily
          BY <4>3 DEF Claiming, Claims, RegistryInv, Registries
        <5> QED
          BY <5>1, ProfilesAssumption DEF Profiles
      <4> QED
        BY <4>1, <4>2, <4>3, <3>1 DEF Beats
    <3>4. longest \in SUBSET Nat
      BY <2>4
    <3> HIDE DEF longest, b
    <3> QED
      BY <3>2, <3>3, <3>4, LatestIs
  <2>7. Resolve(registry, input) =
          IF name \in DOMAIN registry.by_name THEN registry.by_name[name]
          ELSE IF b # 0 THEN b ELSE DefaultProfile(registry)
    BY DEF Resolve, strip_provider_prefix
  <2>8. DefaultProfile(registry) =
          IF Named(registry.default_name) # {} THEN Latest(Named(registry.default_name)) ELSE 1
    BY <2>2 DEF DefaultProfile
  <2>9. (Named(name) # {} <=> name \in DOMAIN registry.by_name)
          /\ (name \in DOMAIN registry.by_name => Latest(Named(name)) = registry.by_name[name])
    BY <2>2
  <2> HIDE DEF name, b, longest
  <2>10. Resolve(registry, input) =
           IF Named(name) # {} THEN Latest(Named(name))
           ELSE IF longest # {} THEN Latest(longest)
           ELSE IF Named(registry.default_name) # {} THEN Latest(Named(registry.default_name)) ELSE 1
    BY <2>5, <2>6, <2>7, <2>8, <2>9
  <2> QED
    BY <2>10 DEF name, longest
<1> QED
  BY <1>1, RegistryInvariant, PTL

-----------------------------------------------------------------------------
(* Finite sets, one element at a time.                                     *)
LEMMA SubsetInduction ==
  ASSUME NEW S, IsFiniteSet(S), NEW P,
         \A t \in SUBSET S : (\A x \in t : t \ {x} \in P) => t \in P
  PROVE  \A t \in SUBSET S : t \in P
<1> DEFINE N == {n \in Nat : \A t \in SUBSET S : Cardinality(t) = n => t \in P}
<1>1. \A t \in SUBSET S : IsFiniteSet(t) /\ Cardinality(t) \in Nat
  BY FS_Subset, FS_CardinalityType
<1>2. 0 \in N
  <2> SUFFICES ASSUME NEW t \in SUBSET S, Cardinality(t) = 0 PROVE t \in P
    OBVIOUS
  <2>1. t = {}
    BY <1>1, FS_EmptySet
  <2> QED
    BY <2>1
<1>3. \A n \in Nat : n \in N => n + 1 \in N
  <2> SUFFICES ASSUME NEW n \in Nat, n \in N, NEW t \in SUBSET S, Cardinality(t) = n + 1 PROVE t \in P
    OBVIOUS
  <2>1. ASSUME NEW x \in t PROVE t \ {x} \in P
    <3>1. t \ {x} \in SUBSET S /\ Cardinality(t \ {x}) = n
      BY <1>1, FS_RemoveElement
    <3> QED
      BY <3>1
  <2> QED
    BY <2>1
<1> HIDE DEF N
<1>4. \A n \in Nat : n \in N
  BY <1>2, <1>3, InductionOverSet
<1> QED
  BY <1>1, <1>4 DEF N

-----------------------------------------------------------------------------
(* Sums.                                                                   *)

(* g runs through a set by the elements the fold chooses. *)
Chosen(s) == CHOOSE x \in s : TRUE
Runs(g, f, D) == g = [s \in D |-> IF s = {} THEN 0 ELSE f[Chosen(s)] + g[s \ {Chosen(s)}]]

LEMMA RunExists ==
  ASSUME NEW S, IsFiniteSet(S), NEW f \in [S -> Nat]
  PROVE  \E g : Runs(g, f, SUBSET S)
<1> DEFINE D == SUBSET S
           V == [D -> Nat]
           n == Cardinality(S)
           Next(v) == [s \in D |-> IF s = {} THEN 0 ELSE f[Chosen(s)] + v[s \ {Chosen(s)}]]
           zero == [s \in D |-> 0]
           step == [k \in 1..(n + 2) |-> [v \in V |-> Next(v)]]
<1>1. n \in Nat /\ \A s \in D : IsFiniteSet(s) /\ Cardinality(s) \in Nat /\ Cardinality(s) <= n
  BY FS_Subset, FS_CardinalityType
<1>2. \A s \in D : s # {} => Chosen(s) \in s /\ s \ {Chosen(s)} \in D /\ f[Chosen(s)] \in Nat
  BY DEF Chosen
<1>3. \A s \in D : s # {} => Cardinality(s \ {Chosen(s)}) = Cardinality(s) - 1
  BY <1>1, <1>2, FS_RemoveElement
<1>4. \A v \in V : Next(v) \in V
  BY <1>2
<1>5. step \in [1..(n + 2) -> [V -> V]] /\ zero \in V
  <2> HIDE DEF Next, V
  <2>1. [v \in V |-> Next(v)] \in [V -> V]
    BY <1>4
  <2>2. zero \in V
    BY DEF V
  <2> QED
    BY <2>1, <2>2
<1> HIDE DEF n
<1>6. PICK F \in [0..(n + 2) -> V] : Recursive(F, n + 2, zero, step)
  <2> HIDE DEF step, zero, V
  <2> QED
    BY <1>1, <1>5, RecursionExists
<1>7. \A k \in 1..(n + 2) : F[k] = Next(F[k - 1])
  <2> SUFFICES ASSUME NEW k \in 1..(n + 2) PROVE F[k] = Next(F[k - 1])
    OBVIOUS
  <2>1. k - 1 \in 0..(n + 2)
    BY <1>1
  <2>2. F[k] = step[k][F[k - 1]] /\ F[k - 1] \in V
    <3> HIDE DEF step, V
    <3> QED
      BY <1>6, <2>1 DEF Recursive
  <2> HIDE DEF Next, V
  <2> QED
    BY <2>2
<1> HIDE DEF step, zero
<1> DEFINE T == {k \in 0..(n + 1) : \A s \in D : Cardinality(s) < k => F[k][s] = F[k + 1][s]}
<1>8. 0 \in T
  <2>1. 0 \in 0..(n + 1) /\ \A s \in D : ~(Cardinality(s) < 0)
    BY <1>1
  <2> HIDE DEF D
  <2> QED
    BY <2>1
<1>9. \A k \in 1..(n + 1) : k - 1 \in T => k \in T
  <2> SUFFICES ASSUME NEW k \in 1..(n + 1), k - 1 \in T PROVE k \in T
    OBVIOUS
  <2>1. /\ k \in 1..(n + 2) /\ k + 1 \in 1..(n + 2) /\ (k + 1) - 1 = k /\ (k - 1) + 1 = k
        /\ k \in 0..(n + 1) /\ k \in Int
    BY <1>1
  <2>2. F[k] = Next(F[k - 1]) /\ F[k + 1] = Next(F[k])
    BY <1>7, <2>1
  <2>3. ASSUME NEW s \in D, Cardinality(s) < k
        PROVE  F[k][s] = F[k + 1][s]
    <3>1. CASE s = {}
      BY <2>2, <3>1
    <3>2. CASE s # {}
      <4> DEFINE r == s \ {Chosen(s)}
      <4>1. r \in D /\ Cardinality(r) = Cardinality(s) - 1
        BY <1>2, <1>3, <3>2
      <4>2. Cardinality(s) \in Nat
        BY <1>1
      <4> HIDE DEF r
      <4>3. Cardinality(r) < k - 1
        BY <2>1, <2>3, <4>1, <4>2
      <4>4. F[k - 1][r] = F[k][r]
        BY <2>1, <4>1, <4>3
      <4> QED
        BY <2>2, <3>2, <4>4 DEF r
    <3> QED
      BY <3>1, <3>2
  <2> QED
    BY <2>1, <2>3
<1> HIDE DEF T
<1>10. n + 1 \in T
  <2> DEFINE m == n + 1
  <2>1. m \in Nat /\ m \in 0..m
    BY <1>1
  <2> HIDE DEF m
  <2>2. \A k \in 0..m : k \in T
    BY <1>8, <1>9, <2>1, InductionUpTo DEF m
  <2> QED
    BY <2>1, <2>2 DEF m
<1>11. /\ F[n + 1] \in V /\ F[n + 2] = Next(F[n + 1]) /\ F[n + 2] \in V
       /\ \A s \in D : F[n + 1][s] = F[n + 2][s]
  <2>1. n + 1 \in 0..(n + 2) /\ n + 2 \in 1..(n + 2) /\ n + 2 \in 0..(n + 2) /\ (n + 2) - 1 = n + 1 /\ (n + 1) + 1 = n + 2
    BY <1>1
  <2>2. \A s \in D : F[n + 1][s] = F[n + 2][s]
    <3>1. \A s \in D : Cardinality(s) < n + 1
      BY <1>1
    <3>2. \A s \in D : Cardinality(s) < n + 1 => F[n + 1][s] = F[(n + 1) + 1][s]
      BY <1>10 DEF T
    <3> QED
      BY <2>1, <3>1, <3>2
  <2> HIDE DEF Next, V
  <2> QED
    BY <1>7, <2>1, <2>2
<1>12. F[n + 1] = F[n + 2]
  <2> HIDE DEF Next, D
  <2>1. \A v, w \in [D -> Nat] : (\A s \in D : v[s] = w[s]) => v = w
    OBVIOUS
  <2> QED
    BY <1>11, <2>1
<1>13. F[n + 1] = Next(F[n + 1])
  BY <1>11, <1>12
<1> QED
  BY <1>13 DEF Runs

(* A sum, whichever element is taken out first.                            *)
Sums(g, f, S) ==
  /\ g \in [SUBSET S -> Nat] /\ g[{}] = 0
  /\ \A s \in SUBSET S : \A x \in s : g[s] = f[x] + g[s \ {x}]

LEMMA SumSteps ==
  ASSUME NEW S, IsFiniteSet(S), NEW f \in [S -> Nat]
  PROVE  \E g : Sums(g, f, S) /\ SumFunction(f) = g[S]
<1> DEFINE D == SUBSET S
           g == CHOOSE h : Runs(h, f, D)
<1>1. Runs(g, f, D)
  BY RunExists
<1>2. SumFunction(f) = g[S]
  BY DEF SumFunction, SumFunctionOnSet, FoldFunctionOnSet, MapThenFoldSet, Runs, Chosen
<1> HIDE DEF g
<1>3. g = [s \in D |-> g[s]] /\ g[{}] = 0
      /\ \A s \in D : s # {} => g[s] = f[Chosen(s)] + g[s \ {Chosen(s)}]
  <2> HIDE DEF D
  <2>1. {} \in D
    BY DEF D
  <2> QED
    BY <1>1, <2>1 DEF Runs
<1>4. \A s \in D : s # {} => Chosen(s) \in s
  BY DEF Chosen
<1>5. \A s \in D : g[s] \in Nat
  <2> DEFINE P == {s \in D : g[s] \in Nat}
  <2>1. \A t \in D : (\A x \in t : t \ {x} \in P) => t \in P
    <3> SUFFICES ASSUME NEW t \in D, \A x \in t : t \ {x} \in P PROVE g[t] \in Nat
      OBVIOUS
    <3>1. CASE t = {}
      BY <1>3, <3>1
    <3>2. CASE t # {}
      <4>1. Chosen(t) \in t /\ g[t] = f[Chosen(t)] + g[t \ {Chosen(t)}]
        BY <1>3, <1>4, <3>2
      <4>2. g[t \ {Chosen(t)}] \in Nat /\ f[Chosen(t)] \in Nat
        BY <4>1
      <4> QED
        BY <4>1, <4>2
    <3> QED
      BY <3>1, <3>2
  <2> HIDE DEF P
  <2>2. \A t \in D : t \in P
    BY <2>1, SubsetInduction
  <2> QED
    BY <2>2 DEF P
<1>6. \A s \in D : \A x \in s : g[s] = f[x] + g[s \ {x}]
  <2> DEFINE P == {s \in D : \A x \in s : g[s] = f[x] + g[s \ {x}]}
  <2>1. \A t \in D : (\A x \in t : t \ {x} \in P) => t \in P
    <3> SUFFICES ASSUME NEW t \in D, \A x \in t : t \ {x} \in P, NEW x \in t
                 PROVE  g[t] = f[x] + g[t \ {x}]
      OBVIOUS
    <3> DEFINE c == Chosen(t)
    <3>1. c \in t /\ g[t] = f[c] + g[t \ {c}]
      BY <1>3, <1>4
    <3> HIDE DEF c
    <3>2. CASE x = c
      BY <3>1, <3>2
    <3>3. CASE x # c
      <4>1. x \in t \ {c} /\ c \in t \ {x} /\ (t \ {c}) \ {x} = (t \ {x}) \ {c}
        BY <3>1, <3>3
      <4>2. g[t \ {c}] = f[x] + g[(t \ {c}) \ {x}] /\ g[t \ {x}] = f[c] + g[(t \ {x}) \ {c}]
        BY <3>1, <4>1
      <4>3. f[x] \in Nat /\ f[c] \in Nat /\ g[(t \ {x}) \ {c}] \in Nat
        BY <1>5, <3>1
      <4> QED
        BY <3>1, <4>1, <4>2, <4>3
    <3> QED
      BY <3>2, <3>3
  <2> HIDE DEF P
  <2>2. \A t \in D : t \in P
    BY <2>1, SubsetInduction
  <2> QED
    BY <2>2 DEF P
<1> QED
  BY <1>2, <1>3, <1>5, <1>6 DEF Sums

(* What is at most as much of a smaller set has a sum at most as large.    *)
LEMMA SumGrows ==
  ASSUME NEW S, NEW T, IsFiniteSet(T), S \subseteq T, NEW f \in [S -> Nat], NEW h \in [T -> Nat],
         \A x \in S : f[x] <= h[x]
  PROVE  /\ SumFunction(f) \in Nat /\ SumFunction(h) \in Nat
         /\ SumFunction(f) <= SumFunction(h)
<1>1. IsFiniteSet(S)
  BY FS_Subset
<1>2. PICK g : Sums(g, f, S) /\ SumFunction(f) = g[S]
  BY <1>1, SumSteps
<1>3. PICK k : Sums(k, h, T) /\ SumFunction(h) = k[T]
  BY SumSteps
<1>4. /\ \A s \in SUBSET S : g[s] \in Nat
      /\ \A s \in SUBSET T : k[s] \in Nat
      /\ g[{}] = 0
  BY <1>2, <1>3 DEF Sums
<1>5. /\ \A s \in SUBSET S : \A x \in s : g[s] = f[x] + g[s \ {x}]
      /\ \A s \in SUBSET T : \A x \in s : k[s] = h[x] + k[s \ {x}]
  BY <1>2, <1>3 DEF Sums
<1> DEFINE P == {t \in SUBSET T : g[t \intersect S] <= k[t]}
<1>6. \A t \in SUBSET T : (\A x \in t : t \ {x} \in P) => t \in P
  <2> SUFFICES ASSUME NEW t \in SUBSET T, \A x \in t : t \ {x} \in P
               PROVE  g[t \intersect S] <= k[t]
    OBVIOUS
  <2>1. CASE t = {}
    <3>1. t \intersect S = {} /\ k[t] \in Nat
      BY <1>4, <2>1
    <3>2. g[t \intersect S] = 0
      BY <1>4, <3>1
    <3> QED
      BY <3>1, <3>2
  <2>2. CASE t # {}
    <3>1. PICK x : x \in t
      BY <2>2
    <3>2. g[(t \ {x}) \intersect S] <= k[t \ {x}] /\ k[t] = h[x] + k[t \ {x}]
      BY <1>5, <3>1
    <3>3. /\ k[t \ {x}] \in Nat /\ h[x] \in Nat /\ g[(t \ {x}) \intersect S] \in Nat
      BY <1>4, <3>1
    <3>4. CASE x \in S
      <4>1. x \in t \intersect S /\ (t \intersect S) \ {x} = (t \ {x}) \intersect S
        BY <3>1, <3>4
      <4>2. g[t \intersect S] = f[x] + g[(t \ {x}) \intersect S]
        BY <1>5, <4>1
      <4>3. f[x] <= h[x] /\ f[x] \in Nat
        BY <3>4
      <4> QED
        BY <3>2, <3>3, <4>2, <4>3
    <3>5. CASE x \notin S
      <4>1. t \intersect S = (t \ {x}) \intersect S
        BY <3>5
      <4>2. g[t \intersect S] <= k[t \ {x}]
        BY <3>2, <4>1
      <4>3. g[t \intersect S] \in Nat
        BY <3>3, <4>1
      <4> QED
        BY <3>2, <3>3, <4>2, <4>3
    <3> QED
      BY <3>4, <3>5
  <2> QED
    BY <2>1, <2>2
<1> HIDE DEF P
<1>7. \A t \in SUBSET T : t \in P
  BY <1>6, SubsetInduction
<1>8. T \intersect S = S /\ T \in P
  BY <1>7
<1>9. g[S] <= k[T]
  BY <1>8 DEF P
<1> QED
  BY <1>2, <1>3, <1>4, <1>9

(* A part is no more than the sum. *)
LEMMA SumCovers ==
  ASSUME NEW S, IsFiniteSet(S), NEW f \in [S -> Nat]
  PROVE  SumFunction(f) \in Nat /\ (\A x \in S : f[x] <= SumFunction(f)) /\ (S = {} => SumFunction(f) = 0)
<1>1. PICK g : Sums(g, f, S) /\ SumFunction(f) = g[S]
  BY SumSteps
<1>2. g[S] \in Nat
  BY <1>1 DEF Sums
<1>3. ASSUME NEW x \in S PROVE f[x] <= g[S]
  <2>1. g[S] = f[x] + g[S \ {x}] /\ g[S \ {x}] \in Nat
    BY <1>1 DEF Sums
  <2> QED
    BY <2>1
<1>4. S = {} => g[S] = 0
  BY <1>1 DEF Sums
<1> QED
  BY <1>1, <1>2, <1>3, <1>4

-----------------------------------------------------------------------------
(* Division.                                                               *)

LEMMA Division ==
  ASSUME NEW a \in Int, NEW b \in Nat \ {0}
  PROVE  /\ a \div b \in Int
         /\ b * (a \div b) <= a /\ a < b * (a \div b) + b
OBVIOUS

LEMMA ProductGrows ==
  ASSUME NEW a \in Nat, NEW x \in Int, NEW y \in Int, x <= y
  PROVE  a * x \in Int /\ a * y \in Int /\ a * x <= a * y
<1>1. y - x \in Nat
  OBVIOUS
<1>2. a * (y - x) \in Nat /\ a * (y - x) = a * y - a * x /\ a * x \in Int /\ a * y \in Int
  BY <1>1
<1> QED
  BY <1>2

LEMMA DivisionBelow ==
  ASSUME NEW a \in Int, NEW b \in Nat \ {0}, NEW q \in Int, b * q <= a
  PROVE  q <= a \div b
<1> SUFFICES ASSUME ~(q <= a \div b) PROVE FALSE
  OBVIOUS
<1> DEFINE p == a \div b
<1>1. p \in Int /\ a < b * p + b
  BY Division
<1> HIDE DEF p
<1>2. p + 1 <= q
  BY <1>1 DEF p
<1>3. b * (p + 1) <= b * q /\ b * (p + 1) = b * p + b
  BY <1>1, <1>2, ProductGrows
<1>4. b * p \in Int /\ b * q \in Int
  BY <1>1
<1> QED
  BY <1>1, <1>3, <1>4

(* a / b <= c / d *)
LEMMA DivisionGrows ==
  ASSUME NEW a \in Nat, NEW b \in Nat \ {0}, NEW c \in Nat, NEW d \in Nat \ {0}, a * d <= c * b
  PROVE  a \div b <= c \div d /\ a \div b \in Nat /\ c \div d \in Nat
<1> DEFINE q == a \div b
<1>1. q \in Nat /\ b * q <= a /\ c \div d \in Nat
  <2>1. \A x \in Nat, y \in Nat \ {0} : 0 <= x \div y
    BY DivisionBelow
  <2> QED
    BY <2>1, Division
<1> HIDE DEF q
<1>2. d * (b * q) <= d * a /\ d * (b * q) = b * (d * q) /\ d * a = a * d /\ c * b = b * c
  BY <1>1, ProductGrows
<1>3. b * (d * q) <= b * c
  <2> DEFINE u == d * (b * q)  v == b * (d * q)  w == d * a  x == a * d  y == c * b  z == b * c
  <2>1. u <= w /\ u = v /\ w = x /\ x <= y /\ y = z
    BY <1>2
  <2>2. u \in Int /\ w \in Int /\ y \in Int
    BY <1>1
  <2> HIDE DEF u, v, w, x, y, z
  <2>3. v <= z
    BY <2>1, <2>2
  <2> QED
    BY <2>3 DEF v, z
<1>4. d * q <= c
  <2> SUFFICES ASSUME ~(d * q <= c) PROVE FALSE
    OBVIOUS
  <2> DEFINE x == d * q
  <2>1. x \in Int /\ c + 1 <= x
    BY <1>1
  <2>2. b * x <= b * c
    BY <1>3
  <2> HIDE DEF x
  <2>3. b * (c + 1) <= b * x /\ b * (c + 1) = b * c + b
    BY <2>1, ProductGrows
  <2> QED
    BY <2>1, <2>2, <2>3
<1>5. q <= c \div d
  BY <1>1, <1>4, DivisionBelow
<1> QED
  BY <1>1, <1>5 DEF q

-----------------------------------------------------------------------------
(* Order.                                                                  *)

LEMMA Greatest ==
  ASSUME NEW S, IsFiniteSet(S), S \subseteq Nat, S # {}
  PROVE  \E m \in S : \A n \in S : m >= n
<1> DEFINE P == {t \in SUBSET S : t = {} \/ \E m \in t : \A n \in t : m >= n}
<1>1. \A t \in SUBSET S : (\A x \in t : t \ {x} \in P) => t \in P
  <2> SUFFICES ASSUME NEW t \in SUBSET S, \A x \in t : t \ {x} \in P, NEW x \in t
               PROVE  \E m \in t : \A n \in t : m >= n
    OBVIOUS
  <2>1. CASE t \ {x} = {}
    BY <2>1
  <2>2. CASE t \ {x} # {}
    <3>1. PICK m \in t \ {x} : \A n \in t \ {x} : m >= n
      BY <2>2
    <3>2. CASE m >= x
      BY <3>1, <3>2
    <3>3. CASE ~(m >= x)
      BY <3>1, <3>3
    <3> QED
      BY <3>2, <3>3
  <2> QED
    BY <2>1, <2>2
<1> HIDE DEF P
<1>2. \A t \in SUBSET S : t \in P
  BY <1>1, SubsetInduction
<1> QED
  BY <1>2 DEF P

(* The list that holds the elements of S by their rank.                    *)
ByRank(l, S, R) ==
  /\ \E X : l \in [1..Cardinality(S) -> X]
  /\ \A k \in 1..Cardinality(S) : l[k] \in S /\ RankIn(S, R, l[k]) = k - 1

LEMMA ListedByRank ==
  ASSUME NEW S, IsFiniteSet(S), NEW R, Ordering(S, R), NEW l, ByRank(l, S, R)
  PROVE  /\ l \in Seq(S) /\ Len(l) = Cardinality(S)
         /\ \A x \in S : \E k \in DOMAIN l : l[k] = x
         /\ \A j, k \in DOMAIN l : j < k => <<l[j], l[k]>> \in R
<1> DEFINE n == Cardinality(S)  r(x) == RankIn(S, R, x)
<1>1. /\ n \in Nat /\ \A x \in S : r(x) \in 0..(n - 1)
      /\ \A x, y \in S : r(x) = r(y) => x = y
  BY RanksAreAll DEF RanksMatch
<1>2. \E X : l \in [1..n -> X]
  BY DEF ByRank
<1>3. \A x, y \in S : <<x, y>> \in R => r(x) < r(y)
  BY RankGrows
<1>4. \A x, y \in S : x = y \/ <<x, y>> \in R \/ <<y, x>> \in R
  BY DEF Ordering
<1>5. \A k \in 1..n : l[k] \in S /\ r(l[k]) = k - 1
  BY DEF ByRank
<1> HIDE DEF n, r
<1>6. l \in Seq(S) /\ Len(l) = n /\ DOMAIN l = 1..n
  <2>1. l \in [1..n -> S]
    BY <1>2, <1>5
  <2> QED
    BY <1>1, <2>1
<1>7. ASSUME NEW x \in S PROVE \E k \in DOMAIN l : l[k] = x
  <2>1. r(x) + 1 \in 1..n /\ (r(x) + 1) - 1 = r(x)
    BY <1>1
  <2>2. l[r(x) + 1] \in S /\ r(l[r(x) + 1]) = r(x)
    BY <1>5, <2>1
  <2> QED
    BY <1>1, <1>6, <2>1, <2>2
<1>8. ASSUME NEW j \in 1..n, NEW k \in 1..n, j < k PROVE <<l[j], l[k]>> \in R
  <2>1. l[j] \in S /\ l[k] \in S /\ r(l[j]) = j - 1 /\ r(l[k]) = k - 1
    BY <1>5
  <2>2. ~(r(l[k]) < r(l[j])) /\ l[j] # l[k]
    BY <1>1, <1>8, <2>1
  <2> QED
    BY <1>3, <1>4, <2>1, <2>2
<1> QED
  BY <1>6, <1>7, <1>8 DEF n

LEMMA InOrderLists ==
  ASSUME NEW S, IsFiniteSet(S), S \subseteq Nat
  PROVE  /\ InOrder(S) \in Seq(S)
         /\ \A x \in S : \E k \in DOMAIN InOrder(S) : InOrder(S)[k] = x
<1> DEFINE R == {p \in S \X S : p[1] < p[2]}  l == InOrder(S)  n == Cardinality(S)
<1>1. \A x, y \in S : <<x, y>> \in R <=> x < y
  OBVIOUS
<1> HIDE DEF R
<1>2. Ordering(S, R)
  BY <1>1 DEF Ordering
<1>3. \A x \in S : {y \in S : y < x} = {y \in S : <<y, x>> \in R}
  BY <1>1
<1>4. \A x \in S : Cardinality({y \in S : y < x}) = RankIn(S, R, x)
  BY <1>3 DEF RankIn
<1>5. n \in Nat /\ \A k \in 0..(n - 1) : \E x \in S : RankIn(S, R, x) = k
  <2>1. RanksMatch(S, R)
    BY <1>2, RanksAreAll
  <2> QED
    BY <2>1 DEF RanksMatch
<1>6. ASSUME NEW k \in 1..n PROVE l[k] \in S /\ RankIn(S, R, l[k]) = k - 1
  <2>1. l[k] = CHOOSE i \in S : Cardinality({j \in S : j < i}) = k - 1
    BY DEF InOrder
  <2>2. k - 1 \in 0..(n - 1)
    BY <1>5
  <2>3. \E x \in S : Cardinality({y \in S : y < x}) = k - 1
    BY <1>4, <1>5, <2>2
  <2>4. l[k] \in S /\ Cardinality({j \in S : j < l[k]}) = k - 1
    BY <2>1, <2>3
  <2> QED
    BY <1>4, <2>4
<1>7. ByRank(l, S, R)
  <2>1. l \in [1..n -> {l[k] : k \in 1..n}]
    BY DEF InOrder
  <2> QED
    BY <1>6, <2>1 DEF ByRank
<1> HIDE DEF l
<1> QED
  BY <1>2, <1>7, ListedByRank DEF l

-----------------------------------------------------------------------------
(* Candidates, and the cut at the limit.                                   *)

Candidate(S) == [id : S, score : Int]

LEMMA CandidatesAre ==
  ASSUME NEW S, NEW ids \in Seq(S), NEW score, \A x \in S : score[x] \in Int
  PROVE  LET cands == Candidates(ids, score)
         IN /\ cands \in Seq(Candidate(S))
            /\ \A c \in ToSet(cands) : c.id \in ToSet(ids) /\ c.score = Clamped(score[c.id])
            /\ \A i \in DOMAIN ids : \E c \in ToSet(cands) : c.id = ids[i]
<1> DEFINE cands == Candidates(ids, score)
<1>1. \A x \in Int : Clamped(x) \in Int
  BY DEF Clamped, Unit
<1>2. Len(ids) \in Nat /\ DOMAIN ids = 1..Len(ids) /\ \A i \in DOMAIN ids : ids[i] \in S
  OBVIOUS
<1>3. DOMAIN cands = 1..Len(ids)
  BY <1>2 DEF Candidates
<1>4. \A i \in 1..Len(ids) : cands[i] = [id |-> ids[i], score |-> Clamped(score[ids[i]])]
  BY <1>2 DEF Candidates
<1>5. cands \in [1..Len(ids) -> Candidate(S)]
  <2>1. ASSUME NEW i \in 1..Len(ids) PROVE cands[i] \in Candidate(S)
    <3>1. ids[i] \in S /\ score[ids[i]] \in Int
      BY <1>2
    <3>2. Clamped(score[ids[i]]) \in Int
      BY <1>1, <3>1
    <3> DEFINE x == ids[i]  y == Clamped(score[ids[i]])
    <3>3. cands[i] = [id |-> x, score |-> y]
      BY <1>4
    <3>4. x \in S /\ y \in Int
      BY <3>1, <3>2
    <3> HIDE DEF cands, x, y
    <3> QED
      BY <3>3, <3>4 DEF Candidate
  <2>2. cands = [i \in 1..Len(ids) |-> cands[i]]
    BY <1>2 DEF Candidates
  <2> HIDE DEF cands
  <2> QED
    BY <2>1, <2>2
<1> HIDE DEF cands
<1>6. cands \in Seq(Candidate(S))
  BY <1>2, <1>5
<1>7. ASSUME NEW i \in 1..Len(ids)
      PROVE  /\ cands[i] \in ToSet(cands) /\ cands[i].id = ids[i] /\ ids[i] \in ToSet(ids)
             /\ cands[i].score = Clamped(score[cands[i].id])
  BY <1>2, <1>3, <1>4 DEF ToSet
<1>8. \A c \in ToSet(cands) : \E i \in 1..Len(ids) : c = cands[i]
  BY <1>3 DEF ToSet
<1>9. /\ \A c \in ToSet(cands) : c.id \in ToSet(ids) /\ c.score = Clamped(score[c.id])
      /\ \A i \in DOMAIN ids : \E c \in ToSet(cands) : c.id = ids[i]
  BY <1>2, <1>7, <1>8
<1> QED
  BY <1>6, <1>9 DEF cands

LEMMA BestComeFirst ==
  ASSUME NEW S, NEW cands \in Seq(Candidate(S))
  PROVE  LET best == BestFirst(cands)
         IN /\ best \in Seq(Candidate(S)) /\ Len(best) = Len(cands)
            /\ \A c \in ToSet(cands) : \E k \in 1..Len(best) : best[k] = c
            /\ \A j, k \in 1..Len(best) : j < k => best[j].score >= best[k].score
<1> DEFINE n == Len(cands)  D == 1..n
           ahead(i, j) == \/ cands[i].score > cands[j].score
                          \/ cands[i].score = cands[j].score /\ i < j
           place(i) == Cardinality({j \in D : ahead(j, i)}) + 1
           order == [k \in D |-> CHOOSE i \in D : place(i) = k]
           R == {p \in D \X D : ahead(p[1], p[2])}
           best == BestFirst(cands)
<1>1. n \in Nat /\ DOMAIN cands = D
  OBVIOUS
<1>2. \A i \in D : cands[i] \in Candidate(S) /\ cands[i].score \in Int
  <2>1. \A i \in D : cands[i] \in Candidate(S)
    BY <1>1
  <2> QED
    BY <2>1 DEF Candidate
<1>3. IsFiniteSet(D) /\ Cardinality(D) = n
  BY <1>1, FS_Interval
<1>4. \A x, y \in D : <<x, y>> \in R <=> ahead(x, y)
  OBVIOUS
<1>5. /\ \A x \in D : ~ahead(x, x)
      /\ \A x, y, z \in D : ahead(x, y) /\ ahead(y, z) => ahead(x, z)
      /\ \A x, y \in D : x = y \/ ahead(x, y) \/ ahead(y, x)
  <2> HIDE DEF n
  <2>1. \A x \in D : x \in Int
    BY <1>1
  <2>2. \A x \in D : cands[x].score \in Int
    BY <1>2
  <2> QED
    BY <2>1, <2>2
<1>6. best = [k \in D |-> cands[order[k]]]
  <2>1. best = [k \in DOMAIN cands |->
                  cands[CHOOSE i \in DOMAIN cands : Cardinality({j \in DOMAIN cands : ahead(j, i)}) + 1 = k]]
    BY DEF BestFirst
  <2>2. best = [k \in D |-> cands[CHOOSE i \in D : place(i) = k]]
    BY <1>1, <2>1
  <2> QED
    BY <2>2
<1> HIDE DEF R, ahead
<1>7. Ordering(D, R)
  BY <1>4, <1>5 DEF Ordering
<1>8. \A x \in D : place(x) = RankIn(D, R, x) + 1
  <2>1. \A x \in D : {j \in D : ahead(j, x)} = {y \in D : <<y, x>> \in R}
    BY <1>4
  <2> QED
    BY <2>1 DEF RankIn
<1>9. ByRank(order, D, R)
  <2>1. ASSUME NEW k \in 1..n PROVE order[k] \in D /\ RankIn(D, R, order[k]) = k - 1
    <3>1. order[k] = CHOOSE i \in D : place(i) = k
      OBVIOUS
    <3>2. RanksMatch(D, R)
      BY <1>3, <1>7, RanksAreAll
    <3>3. k - 1 \in 0..(n - 1)
      BY <1>1
    <3>4. PICK x \in D : RankIn(D, R, x) = k - 1
      BY <1>3, <3>2, <3>3 DEF RanksMatch
    <3>5. place(x) = k
      BY <1>8, <3>4
    <3>6. order[k] \in D /\ place(order[k]) = k
      BY <3>1, <3>5
    <3>7. RankIn(D, R, order[k]) \in Nat
      BY <1>3, <3>2, <3>6 DEF RanksMatch
    <3> HIDE DEF place, order
    <3> QED
      BY <1>8, <3>6, <3>7
  <2>2. order \in [1..n -> {order[k] : k \in 1..n}]
    OBVIOUS
  <2> QED
    BY <1>3, <2>1, <2>2 DEF ByRank
<1> HIDE DEF order, place
<1>10. /\ order \in Seq(D) /\ Len(order) = n
       /\ \A x \in D : \E k \in DOMAIN order : order[k] = x
       /\ \A j, k \in DOMAIN order : j < k => <<order[j], order[k]>> \in R
  <2> HIDE DEF D
  <2>1. /\ order \in Seq(D) /\ Len(order) = Cardinality(D)
        /\ \A x \in D : \E k \in DOMAIN order : order[k] = x
        /\ \A j, k \in DOMAIN order : j < k => <<order[j], order[k]>> \in R
    BY <1>3, <1>7, <1>9, ListedByRank
  <2> QED
    BY <1>3, <2>1
<1> HIDE DEF n
<1>11. DOMAIN order = D /\ \A k \in D : order[k] \in D
  BY <1>1, <1>10
<1> HIDE DEF best
<1>12. best \in Seq(Candidate(S)) /\ Len(best) = n
  <2>1. best \in [1..n -> Candidate(S)]
    BY <1>2, <1>6, <1>11
  <2> QED
    BY <1>1, <2>1
<1>13. ASSUME NEW c \in ToSet(cands) PROVE \E k \in D : best[k] = c
  <2>1. PICK i \in D : c = cands[i]
    BY <1>1 DEF ToSet
  <2>2. PICK k \in D : order[k] = i
    BY <1>10, <1>11
  <2> QED
    BY <1>6, <2>1, <2>2
<1>14. ASSUME NEW j \in D, NEW k \in D, j < k PROVE best[j].score >= best[k].score
  <2>1. ahead(order[j], order[k])
    BY <1>4, <1>10, <1>11, <1>14
  <2>2. best[j] = cands[order[j]] /\ best[k] = cands[order[k]]
    BY <1>6
  <2> QED
    BY <1>2, <1>11, <2>1, <2>2 DEF ahead
<1> QED
  BY <1>12, <1>13, <1>14 DEF best, n

(* What the cut at the limit leaves out scores no more than what it keeps. *)
LEMMA CutKeepsTheBest ==
  ASSUME NEW S, NEW cands \in Seq(Candidate(S)), NEW limit \in Nat
  PROVE  LET answer == Ranked(cands, limit)
         IN /\ Len(answer) <= limit
            /\ \A c \in ToSet(cands) \ ToSet(answer) :
                 /\ Len(answer) >= limit
                 /\ \A a \in ToSet(answer) : a.score >= c.score
<1> DEFINE best == BestFirst(cands)  m == IF limit < Len(best) THEN limit ELSE Len(best)
           answer == Ranked(cands, limit)
<1>1. /\ best \in Seq(Candidate(S)) /\ Len(best) = Len(cands)
      /\ \A c \in ToSet(cands) : \E k \in 1..Len(best) : best[k] = c
      /\ \A j, k \in 1..Len(best) : j < k => best[j].score >= best[k].score
  BY BestComeFirst
<1>2. answer = SubSeq(best, 1, m)
  BY DEF Ranked, Cut
<1> HIDE DEF best, answer
<1>3. m \in 0..Len(best) /\ m <= limit /\ (m < Len(best) => m = limit) /\ Len(best) \in Nat
  BY <1>1
<1> HIDE DEF m
<1>4. Len(answer) = m /\ DOMAIN answer = 1..m /\ \A j \in 1..m : answer[j] = best[j]
  BY <1>1, <1>2, <1>3
<1>5. ASSUME NEW c \in ToSet(cands) \ ToSet(answer)
      PROVE  /\ Len(answer) >= limit
             /\ \A a \in ToSet(answer) : a.score >= c.score
  <2>1. PICK k \in 1..Len(best) : best[k] = c
    BY <1>1
  <2>2. k \notin 1..m
    BY <1>4, <2>1 DEF ToSet
  <2>3. m < k /\ m < Len(best)
    BY <1>3, <2>2
  <2>4. ASSUME NEW a \in ToSet(answer) PROVE a.score >= c.score
    <3>1. PICK j \in 1..m : a = answer[j]
      BY <1>4 DEF ToSet
    <3>2. j \in 1..Len(best) /\ j < k
      BY <1>3, <2>3
    <3> QED
      BY <1>1, <1>4, <2>1, <3>1, <3>2
  <2> QED
    BY <1>3, <1>4, <2>3, <2>4
<1> QED
  BY <1>3, <1>4, <1>5 DEF answer

-----------------------------------------------------------------------------
(* The scores by age.                                                      *)

LEMMA HalvedSteps ==
  /\ Halved[0] = Unit
  /\ \A n \in Nat : Halved[n + 1] = Halved[n] \div 2
<1> DEFINE step(m) == [n \in 1..m |-> [v \in Nat |-> v \div 2]]
           F(m) == {f \in [0..m -> Nat] : Recursive(f, m, Unit, step(m))}
           run(m) == CHOOSE f \in F(m) : TRUE
           h == [n \in Nat |-> run(n)[n]]
           Halves(g) == g = [times \in Nat |-> IF times = 0 THEN Unit ELSE g[times - 1] \div 2]
<1>1. \A v \in Nat : v \div 2 \in Nat
  OBVIOUS
<1>2. ASSUME NEW m \in Nat PROVE run(m) \in F(m)
  <2>1. step(m) \in [1..m -> [Nat -> Nat]] /\ Unit \in Nat
    BY <1>1 DEF Unit
  <2> HIDE DEF step
  <2>2. \E f \in [0..m -> Nat] : Recursive(f, m, Unit, step(m))
    BY <2>1, RecursionExists
  <2>3. F(m) # {}
    BY <2>2
  <2> HIDE DEF F
  <2> QED
    BY <2>3
<1>3. ASSUME NEW m \in Nat
      PROVE  run(m)[0] = Unit /\ \A n \in 1..m : run(m)[n] = run(m)[n - 1] \div 2
  <2>1. run(m) \in [0..m -> Nat] /\ Recursive(run(m), m, Unit, step(m))
    BY <1>2
  <2> HIDE DEF run
  <2>2. ASSUME NEW n \in 1..m PROVE run(m)[n] = run(m)[n - 1] \div 2
    <3>1. run(m)[n] = step(m)[n][run(m)[n - 1]] /\ n - 1 \in 0..m
      BY <2>1 DEF Recursive
    <3>2. run(m)[n - 1] \in Nat
      BY <2>1, <3>1
    <3> QED
      BY <3>1, <3>2
  <2> QED
    BY <2>1, <2>2 DEF Recursive
<1> HIDE DEF run
<1>4. ASSUME NEW n \in Nat PROVE run(n + 1)[n] = run(n)[n]
  <2> DEFINE S == {k \in Nat : k <= n => run(n + 1)[k] = run(n)[k]}
  <2>0. n + 1 \in Nat
    OBVIOUS
  <2>1. 0 \in S
    BY <1>3, <2>0
  <2>2. ASSUME NEW k \in Nat, k \in S PROVE k + 1 \in S
    <3> SUFFICES ASSUME k + 1 <= n PROVE run(n + 1)[k + 1] = run(n)[k + 1]
      OBVIOUS
    <3>1. k + 1 \in 1..n /\ k + 1 \in 1..(n + 1) /\ (k + 1) - 1 = k /\ run(n + 1)[k] = run(n)[k]
      BY <2>2
    <3>2. run(n + 1)[k + 1] = run(n + 1)[(k + 1) - 1] \div 2 /\ run(n)[k + 1] = run(n)[(k + 1) - 1] \div 2
      BY <1>3, <2>0, <3>1
    <3> QED
      BY <3>1, <3>2
  <2> HIDE DEF S
  <2>3. n \in S
    BY <2>1, <2>2, InductionOverSet
  <2> QED
    BY <2>3 DEF S
<1>5. ASSUME NEW n \in Nat PROVE h[n] = IF n = 0 THEN Unit ELSE h[n - 1] \div 2
  <2>1. CASE n = 0
    <3>1. h[0] = run(0)[0] /\ run(0)[0] = Unit
      BY <1>3
    <3> QED
      BY <2>1, <3>1
  <2>2. CASE n # 0
    <3>1. n - 1 \in Nat /\ (n - 1) + 1 = n /\ n \in 1..n
      BY <2>2
    <3>2. run(n)[n] = run(n)[n - 1] \div 2 /\ run(n)[n - 1] = run(n - 1)[n - 1]
      <4>1. run(n)[n] = run(n)[n - 1] \div 2
        BY <1>3, <3>1
      <4>2. run((n - 1) + 1)[n - 1] = run(n - 1)[n - 1]
        BY <1>4, <3>1
      <4> QED
        BY <3>1, <4>1, <4>2
    <3>3. h[n] = run(n)[n] /\ h[n - 1] = run(n - 1)[n - 1]
      BY <3>1
    <3> HIDE DEF h
    <3> QED
      BY <2>2, <3>2, <3>3
  <2> QED
    BY <2>1, <2>2
<1>6. Halves(h)
  <2>1. h = [n \in Nat |-> h[n]]
    OBVIOUS
  <2> HIDE DEF h
  <2> QED
    BY <1>5, <2>1
<1>7. Halved = CHOOSE g : Halves(g)
  BY DEF Halved
<1> HIDE DEF h, Halves
<1>8. Halves(Halved)
  BY <1>6, <1>7
<1>9. \A n \in Nat : Halved[n] = IF n = 0 THEN Unit ELSE Halved[n - 1] \div 2
  BY <1>8 DEF Halves
<1>10. ASSUME NEW n \in Nat PROVE Halved[n + 1] = Halved[n] \div 2
  <2>1. n + 1 \in Nat /\ n + 1 # 0 /\ (n + 1) - 1 = n
    OBVIOUS
  <2>2. Halved[n + 1] = IF n + 1 = 0 THEN Unit ELSE Halved[(n + 1) - 1] \div 2
    BY <1>9, <2>1
  <2> QED
    BY <2>1, <2>2
<1> QED
  BY <1>9, <1>10

LEMMA HalvedShrinks ==
  \A m, n \in Nat : m <= n => Halved[n] \in Nat /\ Halved[m] \in Nat /\ Halved[n] <= Halved[m]
<1> DEFINE N == {n \in Nat : Halved[n] \in Nat}
<1>1. \A n \in Nat : n \in N
  <2>1. 0 \in N /\ \A n \in Nat : n \in N => n + 1 \in N
    BY HalvedSteps DEF Unit
  <2> HIDE DEF N
  <2> QED
    BY <2>1, InductionOverSet
<1> SUFFICES ASSUME NEW m \in Nat PROVE \A d \in Nat : Halved[m + d] <= Halved[m]
  <2>1. \A m, n \in Nat : m <= n => n - m \in Nat /\ m + (n - m) = n
    OBVIOUS
  <2> QED
    BY <1>1, <2>1
<1> DEFINE D == {d \in Nat : Halved[m + d] <= Halved[m]}
<1>2. Halved[m] \in Nat
  BY <1>1
<1>3. 0 \in D
  BY <1>2
<1>4. ASSUME NEW d \in Nat, d \in D PROVE d + 1 \in D
  <2>1. m + d \in Nat /\ m + (d + 1) = (m + d) + 1
    OBVIOUS
  <2>2. Halved[m + (d + 1)] = Halved[m + d] \div 2 /\ Halved[m + d] \in Nat
    BY <1>1, <2>1, HalvedSteps
  <2>3. Halved[m + d] <= Halved[m]
    BY <1>4
  <2> QED
    BY <1>2, <2>2, <2>3
<1> HIDE DEF D
<1>5. \A d \in Nat : d \in D
  BY <1>3, <1>4, InductionOverSet
<1> QED
  BY <1>5 DEF D

LEMMA AgesAreOrdered ==
  ASSUME NEW ids, ToSet(ids) \subseteq SessionIds
  PROVE  /\ \A c \in ToSet(ids) : LinearScore(ids, c) \in Int /\ DecayScore(ids, c) \in Int
         /\ \A c, d \in ToSet(ids) : StampOf[c] > StampOf[d] =>
              LinearScore(ids, c) >= LinearScore(ids, d) /\ DecayScore(ids, c) >= DecayScore(ids, d)
<1> DEFINE S == ToSet(ids)  T == StampsOf(ids)  lo == Oldest(ids)  hi == Newest(ids)
           s(c) == StampOf[c]  span == hi - lo  over == IF span = 0 THEN 1 ELSE span
<1>1. /\ S \subseteq SessionIds /\ IsFiniteSet(S) /\ StampOf \in [SessionIds -> Nat]
      /\ HalfLife \in Nat \ {0}
  BY FS_Subset, RetrieversAssumption
<1>2. T = {StampOf[c] : c \in S}
  BY DEF StampsOf
<1> HIDE DEF S
<1>3. \A c \in S : s(c) \in Nat /\ s(c) \in T
  BY <1>1, <1>2
<1>4. T \subseteq Nat /\ IsFiniteSet(T)
  <2>1. IsFiniteSet({StampOf[c] : c \in S})
    <3> DEFINE V == {StampOf[c] : c \in S}  f == [c \in S |-> StampOf[c]]
    <3>1. f \in [S -> V] /\ \A v \in V : \E c \in S : f[c] = v
      OBVIOUS
    <3> HIDE DEF f, V
    <3>2. f \in Surjection(S, V)
      BY <3>1 DEF Surjection
    <3>3. IsFiniteSet(V)
      BY <1>1, <3>2, FS_Surjection
    <3> QED
      BY <3>3 DEF V
  <2> QED
    BY <1>1, <1>2, <2>1
<1> SUFFICES ASSUME S # {}
             PROVE  /\ \A c \in S : LinearScore(ids, c) \in Int /\ DecayScore(ids, c) \in Int
                    /\ \A c, d \in S : s(c) > s(d) =>
                         LinearScore(ids, c) >= LinearScore(ids, d) /\ DecayScore(ids, c) >= DecayScore(ids, d)
  BY DEF S
<1>5. T # {}
  BY <1>3
<1>6. lo \in T /\ \A x \in T : lo <= x
  <2>1. \E x \in T : \A y \in T : x <= y
    BY <1>4, <1>5, LeastNumber
  <2> HIDE DEF T
  <2>2. lo = CHOOSE x \in T : \A y \in T : x <= y
    BY DEF Oldest, T
  <2> QED
    BY <2>1, <2>2
<1>7. hi \in T /\ \A x \in T : hi >= x
  <2>1. \E x \in T : \A y \in T : x >= y
    BY <1>4, <1>5, Greatest
  <2> HIDE DEF T
  <2>2. hi = CHOOSE x \in T : \A y \in T : x >= y
    BY DEF Newest, T
  <2> QED
    BY <2>1, <2>2
<1> HIDE DEF T, lo, hi
<1>8. \A c \in S : s(c) - lo \in Nat /\ hi - s(c) \in Nat /\ lo \in Nat /\ hi \in Nat
  BY <1>3, <1>4, <1>6, <1>7
<1>9. \A c \in S : /\ LinearScore(ids, c) = ((s(c) - lo) * Unit) \div over
                   /\ DecayScore(ids, c) = Halved[(hi - s(c)) \div HalfLife]
  BY DEF LinearScore, DecayScore, lo, hi
<1>10. over \in Nat \ {0}
  BY <1>4, <1>6, <1>7
<1> HIDE DEF s, over
<1>11. ASSUME NEW c \in S, NEW d \in S, s(c) >= s(d)
       PROVE  /\ LinearScore(ids, c) \in Int /\ LinearScore(ids, c) >= LinearScore(ids, d)
              /\ DecayScore(ids, c) \in Int /\ DecayScore(ids, c) >= DecayScore(ids, d)
  <2>1. /\ s(c) \in Nat /\ s(d) \in Nat /\ lo \in Nat /\ hi \in Nat
        /\ s(c) - lo \in Nat /\ s(d) - lo \in Nat /\ hi - s(c) \in Nat /\ hi - s(d) \in Nat
    BY <1>3, <1>8
  <2> DEFINE a == (s(d) - lo) * Unit  b == (s(c) - lo) * Unit  x == hi - s(c)  y == hi - s(d)
  <2>2. a \in Nat /\ b \in Nat /\ a <= b /\ x \in Nat /\ y \in Nat /\ x <= y
    BY <1>11, <2>1 DEF Unit
  <2>3. /\ LinearScore(ids, c) = b \div over /\ LinearScore(ids, d) = a \div over
        /\ DecayScore(ids, c) = Halved[x \div HalfLife] /\ DecayScore(ids, d) = Halved[y \div HalfLife]
    BY <1>9
  <2> HIDE DEF a, b, x, y
  <2>4. a \div over <= b \div over /\ b \div over \in Nat
    <3>1. over * a <= over * b /\ over * a = a * over /\ over * b = b * over
      BY <1>10, <2>2, ProductGrows
    <3>2. a * over <= b * over
      BY <3>1
    <3> QED
      BY <1>10, <2>2, <3>2, DivisionGrows
  <2>5. x \div HalfLife <= y \div HalfLife /\ x \div HalfLife \in Nat /\ y \div HalfLife \in Nat
    <3>1. HalfLife * x <= HalfLife * y /\ HalfLife * x = x * HalfLife /\ HalfLife * y = y * HalfLife
      BY <1>1, <2>2, ProductGrows
    <3>2. x * HalfLife <= y * HalfLife
      BY <3>1
    <3> QED
      BY <1>1, <2>2, <3>2, DivisionGrows
  <2>6. Halved[x \div HalfLife] \in Nat /\ Halved[y \div HalfLife] <= Halved[x \div HalfLife]
    BY <2>5, HalvedShrinks
  <2>7. a \div over \in Nat /\ Halved[y \div HalfLife] \in Nat
    BY <1>10, <2>2, <2>4, <2>5, HalvedShrinks, Division
  <2> QED
    BY <2>3, <2>4, <2>6, <2>7
<1>12. \A c \in S : s(c) >= s(c)
  BY <1>3 DEF s
<1>13. \A c, d \in S : s(c) > s(d) => s(c) >= s(d)
  BY <1>3 DEF s
<1> QED
  BY <1>11, <1>12, <1>13

-----------------------------------------------------------------------------
(* The scores by words.                                                    *)

Text == [Word -> Nat]

LEMMA TextFacts ==
  ASSUME NEW kind, NEW body \in Text
  PROVE  /\ Tokens(kind, body) \subseteq Word /\ IsFiniteSet(Tokens(kind, body))
         /\ DocLen(kind, body) \in Nat
         /\ \A w \in Tokens(kind, body) : body[w] \in Nat \ {0} /\ body[w] <= DocLen(kind, body)
<1> DEFINE T == Tokens(kind, body)  f == [w \in T |-> body[w]]
<1>1. T \subseteq Word /\ \A w \in T : body[w] \in Nat \ {0}
  BY DEF Text, Tokens
<1>2. IsFiniteSet(T)
  BY <1>1, FS_Subset, RetrieversAssumption
<1> HIDE DEF T
<1>3. f \in [T -> Nat] /\ \A w \in T : f[w] = body[w]
  BY <1>1
<1>4. DocLen(kind, body) = SumFunction(f)
  BY DEF DocLen, T
<1> HIDE DEF f
<1>5. SumFunction(f) \in Nat /\ \A w \in T : f[w] <= SumFunction(f)
  BY <1>2, <1>3, SumCovers
<1> QED
  BY <1>1, <1>2, <1>3, <1>4, <1>5 DEF T

LEMMA LexicalIsNumber ==
  ASSUME NEW q, NEW body \in Text, Tokens("lexical", body) # {}
  PROVE  LexicalScore(q, body) \in Int
<1> DEFINE T == Tokens("lexical", body)  a == Cardinality(q \intersect T)  b == Cardinality(T)
<1>1. IsFiniteSet(T) /\ T # {}
  BY TextFacts
<1>2. LexicalScore(q, body) = (a * Unit) \div b
  BY DEF LexicalScore
<1> HIDE DEF T
<1>3. IsFiniteSet(q \intersect T)
  BY <1>1, FS_Subset
<1>4. a \in Nat /\ b \in Nat
  BY <1>1, <1>3, FS_CardinalityType
<1>5. b # 0
  BY <1>1, FS_EmptySet
<1> HIDE DEF a, b
<1>6. a * Unit \in Int
  BY <1>4 DEF Unit
<1> QED
  BY <1>2, <1>4, <1>5, <1>6, Division

LEMMA IdfIsPositive ==
  ASSUME NEW n \in 1..Cardinality(SessionIds), NEW df \in 1..n
  PROVE  Idf(n, df) \in Nat \ {0}
<1> DEFINE N == Cardinality(SessionIds)  x == 2 * df + 1  y == 2 * n + 2
<1>1. N \in Nat
  BY FS_CardinalityType, RetrieversAssumption
<1>2. /\ \A k \in 1..(2 * N + 2) : Ln[k] \in Int
      /\ \A k, l \in 1..(2 * N + 2) : k < l => Ln[k] < Ln[l]
  BY LnAssumption
<1> HIDE DEF N
<1>3. x \in 1..(2 * N + 2) /\ y \in 1..(2 * N + 2) /\ x < y
  BY <1>1 DEF N
<1> HIDE DEF x, y
<1>4. Ln[x] \in Int /\ Ln[y] \in Int /\ Ln[x] < Ln[y]
  BY <1>2, <1>3
<1>5. Idf(n, df) = Ln[y] - Ln[x]
  BY DEF Idf, x, y
<1> QED
  BY <1>4, <1>5

LEMMA Bm25TermGrows ==
  ASSUME NEW n \in 1..Cardinality(SessionIds), NEW df \in 1..n, NEW f \in Nat \ {0}, NEW g \in Nat, f <= g,
         NEW total \in Nat \ {0}, NEW long \in 0..total, NEW short \in 0..long
  PROVE  /\ Bm25Term(n, df, f, long, total) \in Nat \ {0}
         /\ Bm25Term(n, df, g, short, total) \in Nat
         /\ Bm25Term(n, df, f, long, total) <= Bm25Term(n, df, g, short, total)
<1> DEFINE i == Idf(n, df)
           a == i * 22 * f * total * n  b == 10 * f * total + 3 * total + 9 * long * n
           c == i * 22 * g * total * n  d == 10 * g * total + 3 * total + 9 * short * n
<1>0. n \in Nat \ {0}
  BY FS_CardinalityType, RetrieversAssumption
<1>1. i \in Nat \ {0}
  BY IdfIsPositive
<1>2. Bm25Term(n, df, f, long, total) = a \div b /\ Bm25Term(n, df, g, short, total) = c \div d
  BY DEF Bm25Term
<1> HIDE DEF i
<1> DEFINE ft == f * total  gt == g * total  ln == long * n  sn == short * n  i1 == i * n
<1>3. /\ ft \in Nat /\ gt \in Nat /\ ln \in Nat /\ sn \in Nat /\ i1 \in Nat
      /\ total <= ft /\ ft <= gt /\ ln <= n * ft /\ sn <= ln /\ n <= i1
  <2>1. total * 1 <= total * f /\ total * f <= total * g /\ total * f = f * total /\ total * g = g * total
    BY ProductGrows
  <2>2. n * long <= n * total /\ n * total <= n * (f * total) /\ n * long = long * n
    <3>1. f * total \in Int /\ total <= f * total
      BY <2>1
    <3> QED
      BY <1>0, <3>1, ProductGrows
  <2>3. n * short <= n * long /\ n * short = short * n
    BY <1>0, ProductGrows
  <2>4. n * 1 <= n * i /\ n * i = i * n
    BY <1>0, <1>1, ProductGrows
  <2>5. ft \in Nat /\ gt \in Nat /\ ln \in Nat /\ sn \in Nat /\ i1 \in Nat
    BY <1>0, <1>1
  <2>6. total <= ft /\ ft <= gt
    BY <2>1
  <2>7. ln <= n * ft /\ sn <= ln
    <3>1. n * total \in Int /\ n * (f * total) \in Int
      BY <1>0
    <3> QED
      BY <2>2, <2>3, <3>1
  <2>8. n <= i1
    BY <1>0, <2>4
  <2> QED
    BY <2>5, <2>6, <2>7, <2>8
<1>4. /\ a = 22 * (i1 * ft) /\ b = 10 * ft + 3 * total + 9 * ln
      /\ c = 22 * (i1 * gt) /\ d = 10 * gt + 3 * total + 9 * sn
  <2>1. a = 22 * (i1 * ft)
    BY <1>0, <1>1
  <2>2. c = 22 * (i1 * gt)
    BY <1>0, <1>1
  <2>3. b = 10 * ft + 3 * total + 9 * ln /\ d = 10 * gt + 3 * total + 9 * sn
    BY <1>0
  <2> QED
    BY <2>1, <2>2, <2>3
<1> HIDE DEF a, b, c, d, i1
<1>5. b \in Nat \ {0} /\ d \in Nat \ {0}
  <2> HIDE DEF ft, gt, ln, sn
  <2> QED
    BY <1>3, <1>4
<1>6. i1 * ft \in Nat /\ i1 * gt \in Nat /\ ft <= i1 * ft /\ n * ft <= i1 * ft
  <2> HIDE DEF ft, gt, ln, sn
  <2>1. ft * n <= ft * i1 /\ ft * n = n * ft /\ ft * i1 = i1 * ft
    BY <1>0, <1>3, ProductGrows
  <2>2. ft * 1 <= ft * i1
    <3>1. 1 <= i1
      BY <1>0, <1>3
    <3> QED
      BY <1>3, <3>1, ProductGrows
  <2>3. i1 * ft \in Nat /\ i1 * gt \in Nat
    BY <1>3
  <2>4. n * ft \in Int /\ ft * 1 = ft
    BY <1>0, <1>3
  <2> QED
    BY <2>1, <2>2, <2>3, <2>4
<1>7. a \in Nat /\ c \in Nat /\ b <= a
  <2> HIDE DEF ft, gt, ln, sn
  <2> DEFINE x == i1 * ft  y == i1 * gt  z == n * ft
  <2>1. x \in Nat /\ y \in Nat /\ z \in Int /\ ft <= x /\ z <= x /\ ln <= z /\ a = 22 * x /\ c = 22 * y
    BY <1>0, <1>3, <1>4, <1>6
  <2> HIDE DEF x, y, z
  <2> QED
    BY <1>3, <1>4, <1>5, <2>1
(* a / b <= c / d as f (10 g + 3 + s) <= g (10 f + 3 + l) for s <= l. *)
<1>8. a * d <= c * b
  <2> DEFINE x == ft * d  y == gt * b
  <2>1. x <= y /\ x \in Int /\ y \in Int
    <3>1. /\ ft * d = 10 * (ft * gt) + 3 * (ft * total) + 9 * (ft * sn)
          /\ gt * b = 10 * (gt * ft) + 3 * (gt * total) + 9 * (gt * ln)
      <4> HIDE DEF ft, gt, ln, sn
      <4> QED
        BY <1>3, <1>4
    <3> HIDE DEF ft, gt, ln, sn
    <3>2. total * ft <= total * gt /\ total * ft = ft * total /\ total * gt = gt * total
      BY <1>3, ProductGrows
    <3>3. ft * sn <= ft * ln
      BY <1>3, ProductGrows
    <3>4. ln * ft <= ln * gt /\ ln * ft = ft * ln /\ ln * gt = gt * ln
      BY <1>3, ProductGrows
    <3>5. ft * gt = gt * ft
      BY <1>3
    <3>6. /\ ft * gt \in Int /\ ft * total \in Int /\ gt * total \in Int
          /\ ft * sn \in Int /\ ft * ln \in Int /\ gt * ln \in Int
      BY <1>3
    <3> DEFINE p == ft * gt  q == ft * total  r == gt * total  s == ft * sn  t == ft * ln  u == gt * ln
    <3>7. /\ p \in Int /\ q \in Int /\ r \in Int /\ s \in Int /\ t \in Int /\ u \in Int
          /\ q <= r /\ s <= t /\ t <= u
          /\ x = 10 * p + 3 * q + 9 * s /\ y = 10 * p + 3 * r + 9 * u
      BY <3>1, <3>2, <3>3, <3>4, <3>5, <3>6
    <3> HIDE DEF p, q, r, s, t, u, x, y
    <3> QED
      BY <3>7
  <2>2. a * d = (22 * i1) * x /\ c * b = (22 * i1) * y
    <3> HIDE DEF ft, gt, ln, sn
    <3> QED
      BY <1>1, <1>3, <1>4, <1>5
  <2> HIDE DEF x, y
  <2>3. 22 * i1 \in Nat
    BY <1>3
  <2> DEFINE k == 22 * i1
  <2>4. k \in Nat /\ a * d = k * x /\ c * b = k * y
    BY <2>2, <2>3
  <2> HIDE DEF k
  <2>5. k * x <= k * y
    BY <2>1, <2>4, ProductGrows
  <2> QED
    BY <2>4, <2>5
<1> HIDE DEF ft, gt, ln, sn
<1>9. a \div b <= c \div d /\ a \div b \in Nat /\ c \div d \in Nat
  BY <1>5, <1>7, <1>8, DivisionGrows
<1>10. 1 <= a \div b
  <2>1. b * 1 <= a
    BY <1>5, <1>7
  <2> QED
    BY <1>5, <1>7, <2>1, DivisionBelow
<1> QED
  BY <1>2, <1>9, <1>10

(* The documents a call has read: texts of the session with a word the     *)
(* retriever looks at.                                                     *)
AreDocuments(kind, docs) ==
  /\ DOMAIN docs \subseteq SessionIds
  /\ \A d \in DOMAIN docs : docs[d] \in Text /\ Tokens(kind, docs[d]) # {}

LEMMA DocumentCounts ==
  ASSUME NEW docs, AreDocuments("bm25", docs), NEW c \in DOMAIN docs
  PROVE  /\ IsFiniteSet(DOMAIN docs) /\ Cardinality(DOMAIN docs) \in 1..Cardinality(SessionIds)
         /\ Total(docs) \in Nat \ {0} /\ DocLen("bm25", docs[c]) \in 0..Total(docs)
         /\ \A w \in Tokens("bm25", docs[c]) : Df(docs, w) \in 1..Cardinality(DOMAIN docs)
<1> DEFINE D == DOMAIN docs  n == Cardinality(D)  len(d) == DocLen("bm25", docs[d])
           f == [d \in D |-> len(d)]
<1>1. D \subseteq SessionIds /\ \A d \in D : docs[d] \in Text /\ Tokens("bm25", docs[d]) # {}
  BY DEF AreDocuments
<1>2. IsFiniteSet(D) /\ n <= Cardinality(SessionIds) /\ n \in Nat
  BY <1>1, FS_Subset, FS_CardinalityType, RetrieversAssumption
<1>3. n # 0
  BY <1>2, FS_EmptySet
<1>4. Cardinality(SessionIds) \in Nat
  BY FS_CardinalityType, RetrieversAssumption
<1>5. n \in 1..Cardinality(SessionIds)
  BY <1>2, <1>3, <1>4
<1>6. \A d \in D : len(d) \in Nat
  BY <1>1, TextFacts
<1>7. len(c) # 0
  <2>1. PICK w \in Tokens("bm25", docs[c]) : TRUE
    BY <1>1
  <2>2. docs[c][w] \in Nat \ {0} /\ docs[c][w] <= len(c)
    BY <1>1, <2>1, TextFacts
  <2> QED
    BY <1>6, <2>2
<1>8. Total(docs) = SumFunction(f)
  BY DEF Total
<1>9. f \in [D -> Nat] /\ \A d \in D : f[d] = len(d)
  BY <1>6
<1> HIDE DEF f, len
<1>10. SumFunction(f) \in Nat /\ f[c] <= SumFunction(f)
  BY <1>2, <1>9, SumCovers
<1>11. Total(docs) \in Nat \ {0} /\ len(c) \in 0..Total(docs)
  BY <1>6, <1>7, <1>8, <1>9, <1>10
<1>12. ASSUME NEW w \in Tokens("bm25", docs[c]) PROVE Df(docs, w) \in 1..n
  <2> DEFINE S == {d \in D : w \in Tokens("bm25", docs[d])}
  <2>1. c \in S /\ S \in SUBSET D /\ Df(docs, w) = Cardinality(S)
    BY <1>12 DEF Df
  <2> HIDE DEF S
  <2>2. IsFiniteSet(S) /\ Cardinality(S) \in Nat /\ Cardinality(S) <= n
    BY <1>2, <2>1, FS_Subset, FS_CardinalityType
  <2>3. Cardinality(S) # 0
    BY <2>1, <2>2, FS_EmptySet
  <2> QED
    BY <1>2, <2>1, <2>2, <2>3
<1> QED
  BY <1>2, <1>5, <1>11, <1>12 DEF len

LEMMA Bm25RawGrows ==
  ASSUME NEW q \in SUBSET Word, NEW docs, AreDocuments("bm25", docs), NEW c \in DOMAIN docs, NEW d \in DOMAIN docs,
         \A w \in q : docs[c][w] >= docs[d][w],
         DocLen("bm25", docs[c]) <= DocLen("bm25", docs[d])
  PROVE  /\ Bm25Raw(q, docs, c) \in Nat /\ Bm25Raw(q, docs, d) \in Nat
         /\ Bm25Raw(q, docs, c) >= Bm25Raw(q, docs, d)
         /\ Bm25Raw(q, docs, d) > 0 <=> q \intersect Tokens("bm25", docs[d]) # {}
<1> DEFINE T(x) == q \intersect Tokens("bm25", docs[x])
           n == Cardinality(DOMAIN docs)  total == Total(docs)  len(x) == DocLen("bm25", docs[x])
           term(x, w) == Bm25Term(n, Df(docs, w), docs[x][w], len(x), total)
           f == [w \in T(d) |-> term(d, w)]  g == [w \in T(c) |-> term(c, w)]
<1>1. /\ n \in 1..Cardinality(SessionIds) /\ total \in Nat \ {0} /\ len(c) \in 0..total /\ len(d) \in 0..total
      /\ \A x \in {c, d} : \A w \in T(x) : Df(docs, w) \in 1..n
  BY DocumentCounts
<1>2. /\ docs[c] \in Text /\ docs[d] \in Text
  BY DEF AreDocuments
<1>3. \A x \in {c, d} : /\ IsFiniteSet(T(x))
                        /\ \A w \in T(x) : docs[x][w] \in Nat \ {0}
  <2>1. \A x \in {c, d} : /\ IsFiniteSet(Tokens("bm25", docs[x]))
                          /\ \A w \in Tokens("bm25", docs[x]) : docs[x][w] \in Nat \ {0}
    BY <1>2, TextFacts
  <2> QED
    BY <2>1, FS_Subset
<1>4. T(d) \subseteq T(c)
  <2> SUFFICES ASSUME NEW w \in T(d) PROVE w \in T(c)
    OBVIOUS
  <2>1. w \in Word /\ docs[d][w] \in Nat \ {0} /\ WordLen[w] >= MinWordLen["bm25"]
    BY <1>2, <1>3 DEF Tokens, Text
  <2>2. docs[c][w] \in Nat /\ docs[c][w] >= docs[d][w] /\ w \in DOMAIN docs[c]
    BY <1>2, <2>1 DEF Text
  <2>3. docs[c][w] > 0
    BY <2>1, <2>2
  <2> QED
    BY <2>1, <2>2, <2>3 DEF Tokens
<1>5. Bm25Raw(q, docs, c) = SumFunction(g) /\ Bm25Raw(q, docs, d) = SumFunction(f)
  BY DEF Bm25Raw
<1>6. ASSUME NEW w \in T(d)
      PROVE  f[w] \in Nat \ {0} /\ f[w] <= g[w]
  <2>1. w \in T(c) /\ w \in q
    BY <1>4
  <2> DEFINE df == Df(docs, w)  a == docs[d][w]  b == docs[c][w]
  <2>2. df \in 1..n /\ a \in Nat \ {0} /\ b \in Nat /\ a <= b
    BY <1>1, <1>3, <2>1
  <2>3. len(c) \in 0..len(d)
    BY <1>1
  <2>4. f[w] = Bm25Term(n, df, a, len(d), total) /\ g[w] = Bm25Term(n, df, b, len(c), total)
    BY <2>1
  <2> DEFINE m == n  t == total  long == len(d)  short == len(c)  x == f[w]  y == g[w]
  <2>5. /\ m \in 1..Cardinality(SessionIds) /\ t \in Nat \ {0} /\ long \in 0..t /\ short \in 0..long
        /\ df \in 1..m /\ a \in Nat \ {0} /\ b \in Nat /\ a <= b
        /\ x = Bm25Term(m, df, a, long, t) /\ y = Bm25Term(m, df, b, short, t)
    BY <1>1, <2>2, <2>3, <2>4
  <2> HIDE DEF m, t, long, short, df, a, b, x, y
  <2>6. x \in Nat \ {0} /\ x <= y
    BY <2>5, Bm25TermGrows
  <2> QED
    BY <2>6 DEF x, y
<1>7. ASSUME NEW w \in T(c) PROVE g[w] \in Nat
  <2> DEFINE df == Df(docs, w)  b == docs[c][w]
  <2>1. df \in 1..n /\ b \in Nat \ {0} /\ b <= b
    BY <1>1, <1>3
  <2>2. len(c) \in 0..len(c)
    BY <1>1
  <2>3. g[w] = Bm25Term(n, df, b, len(c), total)
    OBVIOUS
  <2> HIDE DEF df, b, len, total, n, g
  <2> QED
    BY <1>1, <2>1, <2>2, <2>3, Bm25TermGrows
<1>8. DOMAIN f = T(d) /\ DOMAIN g = T(c) /\ f = [w \in T(d) |-> f[w]] /\ g = [w \in T(c) |-> g[w]]
  OBVIOUS
<1> HIDE DEF f, g, term
<1>9. f \in [T(d) -> Nat] /\ g \in [T(c) -> Nat] /\ \A w \in T(d) : f[w] <= g[w]
  BY <1>6, <1>7, <1>8
<1>10. IsFiniteSet(T(c)) /\ IsFiniteSet(T(d))
  BY <1>3
<1> HIDE DEF T
<1>11. SumFunction(f) \in Nat /\ SumFunction(g) \in Nat /\ SumFunction(f) <= SumFunction(g)
  BY <1>4, <1>9, <1>10, SumGrows
<1>12. /\ \A w \in T(d) : f[w] <= SumFunction(f)
       /\ T(d) = {} => SumFunction(f) = 0
  BY <1>9, <1>10, SumCovers
<1>13. SumFunction(f) > 0 <=> T(d) # {}
  BY <1>6, <1>11, <1>12
<1> QED
  BY <1>5, <1>11, <1>13 DEF T

LEMMA Bm25ScoreGrows ==
  ASSUME NEW q \in SUBSET Word, NEW docs, AreDocuments("bm25", docs), NEW c \in DOMAIN docs, NEW d \in DOMAIN docs,
         \A w \in q : docs[c][w] >= docs[d][w],
         DocLen("bm25", docs[c]) <= DocLen("bm25", docs[d])
  PROVE  /\ Bm25Score(q, docs, c) \in Int /\ Bm25Score(q, docs, d) \in Int
         /\ Bm25Score(q, docs, c) >= Bm25Score(q, docs, d)
<1> DEFINE R == {Bm25Raw(q, docs, x) : x \in DOMAIN docs}  best == Max(R)
           a == Bm25Raw(q, docs, d)  b == Bm25Raw(q, docs, c)
<1>1. a \in Nat /\ b \in Nat /\ a <= b
  BY Bm25RawGrows
<1>2. ASSUME NEW x \in DOMAIN docs PROVE Bm25Raw(q, docs, x) \in Nat
  <2>1. docs[x] \in Text
    BY DEF AreDocuments
  <2>2. DocLen("bm25", docs[x]) \in Nat
    BY <2>1, TextFacts
  <2>3. DocLen("bm25", docs[x]) <= DocLen("bm25", docs[x])
    BY <2>2
  <2>4. \A w \in q : docs[x][w] >= docs[x][w]
    <3>1. \A w \in q : docs[x][w] \in Nat
      BY <2>1 DEF Text
    <3> QED
      BY <3>1
  <2> QED
    BY <2>3, <2>4, Bm25RawGrows
<1>3. IsFiniteSet(R)
  <2> DEFINE f == [x \in DOMAIN docs |-> Bm25Raw(q, docs, x)]
  <2>1. f \in [DOMAIN docs -> R] /\ \A v \in R : \E x \in DOMAIN docs : f[x] = v
    OBVIOUS
  <2>2. IsFiniteSet(DOMAIN docs)
    BY DocumentCounts
  <2> HIDE DEF f, R
  <2>3. f \in Surjection(DOMAIN docs, R)
    BY <2>1 DEF Surjection
  <2> QED
    BY <2>2, <2>3, FS_Surjection
<1>4. best \in Nat
  <2>1. R \subseteq Nat /\ R # {}
    BY <1>2
  <2> HIDE DEF R
  <2>2. \E m \in R : \A r \in R : m >= r
    BY <1>3, <2>1, Greatest
  <2>3. best = CHOOSE m \in R : \A r \in R : m >= r
    BY DEF Max
  <2> QED
    BY <2>1, <2>2, <2>3
<1>5. /\ Bm25Score(q, docs, c) = IF best > 0 THEN (b * Unit) \div best ELSE 0
      /\ Bm25Score(q, docs, d) = IF best > 0 THEN (a * Unit) \div best ELSE 0
  BY DEF Bm25Score
<1> HIDE DEF a, b, best
<1>6. CASE best > 0
  <2> DEFINE x == a * Unit  y == b * Unit
  <2>1. x \in Nat /\ y \in Nat /\ x <= y /\ best \in Nat \ {0}
    BY <1>1, <1>4, <1>6 DEF Unit
  <2>2. Bm25Score(q, docs, c) = y \div best /\ Bm25Score(q, docs, d) = x \div best
    BY <1>5, <1>6
  <2> HIDE DEF x, y
  <2>3. x * best <= y * best
    <3>1. best * x <= best * y /\ best * x = x * best /\ best * y = y * best
      BY <2>1, ProductGrows
    <3> QED
      BY <3>1
  <2>4. x \div best <= y \div best /\ x \div best \in Nat /\ y \div best \in Nat
    BY <2>1, <2>3, DivisionGrows
  <2> QED
    BY <2>2, <2>4
<1>7. CASE ~(best > 0)
  BY <1>5, <1>7
<1> QED
  BY <1>6, <1>7

-----------------------------------------------------------------------------
(* The call.                                                               *)

RetrievalInv ==
  /\ DOMAIN listing \subseteq SessionIds /\ \A i \in DOMAIN listing : listing[i] \in Body
  /\ retrieval = [kind |-> retrieval.kind, task |-> retrieval.task, limit |-> retrieval.limit,
                  todo |-> retrieval.todo, docs |-> retrieval.docs, pc |-> retrieval.pc,
                  scored |-> retrieval.scored, answer |-> retrieval.answer]
  /\ retrieval.pc \in {"idle", "start", "read", "done", "failed"}
  /\ retrieval.pc # "idle" => retrieval.task \subseteq Word /\ retrieval.limit \in Nat
  /\ retrieval.pc \in {"idle", "start"} => retrieval.docs = <<>>
  /\ retrieval.pc = "read" =>
       retrieval.kind \in {"lexical", "bm25"} /\ AreDocuments(retrieval.kind, retrieval.docs)
  /\ RankedAsEarned

LEMMA ListedIds ==
  ASSUME DOMAIN listing \subseteq SessionIds
  PROVE  Listed \in Seq(DOMAIN listing) /\ ToSet(Listed) = DOMAIN listing
<1> DEFINE D == DOMAIN listing
<1>1. IsFiniteSet(D) /\ D \subseteq Nat
  BY FS_Subset, RetrieversAssumption
<1>2. /\ Listed \in Seq(D)
      /\ \A x \in D : \E k \in DOMAIN Listed : Listed[k] = x
  BY <1>1, InOrderLists DEF Listed
<1> HIDE DEF D
<1>3. ToSet(Listed) = D
  BY <1>2 DEF ToSet
<1> QED
  BY <1>2, <1>3 DEF D

(* An answer that is ranked as it is earned makes an end of the call.      *)
LEMMA AnswerEnds ==
  ASSUME RetrievalInv, retrieval.pc \in {"start", "read"}, NEW scored, NEW answer,
         retrieval' = Answer(scored, answer), UNCHANGED listing, RankedAsEarned'
  PROVE  RetrievalInv'
<1>1. retrieval' = [kind |-> retrieval.kind, task |-> retrieval.task, limit |-> retrieval.limit,
                    todo |-> <<>>, docs |-> retrieval.docs, pc |-> "done",
                    scored |-> scored, answer |-> answer]
  BY DEF RetrievalInv, Answer
<1> QED
  BY <1>1 DEF RetrievalInv

LEMMA AnswerFields ==
  ASSUME RetrievalInv, NEW scored, NEW answer, retrieval' = Answer(scored, answer)
  PROVE  /\ retrieval'.kind = retrieval.kind /\ retrieval'.task = retrieval.task
         /\ retrieval'.limit = retrieval.limit /\ retrieval'.docs = retrieval.docs
         /\ retrieval'.pc = "done" /\ retrieval'.scored = scored /\ retrieval'.answer = answer
<1>1. retrieval' = [kind |-> retrieval.kind, task |-> retrieval.task, limit |-> retrieval.limit,
                    todo |-> <<>>, docs |-> retrieval.docs, pc |-> "done",
                    scored |-> scored, answer |-> answer]
  BY DEF RetrievalInv, Answer
<1> QED
  BY <1>1

LEMMA ClampedKeepsOrder ==
  \A x, y \in Int : x >= y => Clamped(x) >= Clamped(y)
BY DEF Clamped, Unit

(* Scores that grow with the stamps make candidates that do.               *)
LEMMA RankedByAge ==
  ASSUME NEW S, NEW ids \in Seq(S), ToSet(ids) = S, NEW score, \A x \in S : score[x] \in Int,
         \A x, y \in S : StampOf[x] > StampOf[y] => score[x] >= score[y]
  PROVE  \A c, d \in ToSet(Candidates(ids, score)) :
           StampOf[c.id] > StampOf[d.id] => c.score >= d.score
<1> DEFINE C == ToSet(Candidates(ids, score))
<1>1. \A c \in C : c.id \in S /\ c.score = Clamped(score[c.id])
  BY CandidatesAre
<1> HIDE DEF C
<1> SUFFICES ASSUME NEW c \in C, NEW d \in C, StampOf[c.id] > StampOf[d.id]
             PROVE  c.score >= d.score
  BY DEF C
<1> DEFINE x == c.id  y == d.id
<1>2. x \in S /\ y \in S /\ c.score = Clamped(score[x]) /\ d.score = Clamped(score[y])
  BY <1>1
<1>3. score[x] \in Int /\ score[y] \in Int /\ score[x] >= score[y]
  BY <1>2
<1> QED
  BY <1>2, <1>3, ClampedKeepsOrder

LEMMA AnswerFromListInv ==
  ASSUME RetrievalInv, AnswerFromList
  PROVE  RetrievalInv'
<1> DEFINE D == DOMAIN listing
           older == [id \in D |-> LinearScore(Listed, id)]
           halved == [id \in D |-> DecayScore(Listed, id)]
           flat == [id \in D |-> FlatScore]
<1>1. /\ retrieval.pc = "start" /\ UNCHANGED listing /\ retrieval.limit \in Nat
      /\ D \subseteq SessionIds
  BY DEF AnswerFromList, RetrievalInv
<1>2. Listed \in Seq(D) /\ ToSet(Listed) = D
  BY <1>1, ListedIds
<1>3. /\ \A c \in D : older[c] \in Int /\ halved[c] \in Int
      /\ \A c, d \in D : StampOf[c] > StampOf[d] => older[c] >= older[d] /\ halved[c] >= halved[d]
  <2>1. /\ \A c \in D : LinearScore(Listed, c) \in Int /\ DecayScore(Listed, c) \in Int
        /\ \A c, d \in D : StampOf[c] > StampOf[d] =>
             LinearScore(Listed, c) >= LinearScore(Listed, d) /\ DecayScore(Listed, c) >= DecayScore(Listed, d)
    <3> HIDE DEF D
    <3>1. ToSet(Listed) \subseteq SessionIds
      BY <1>1, <1>2
    <3> QED
      BY <1>2, <3>1, AgesAreOrdered
  <2> QED
    BY <2>1
<1> DEFINE ByAge(kind, score) ==
             /\ retrieval.kind = kind
             /\ retrieval' = Answer(Candidates(Listed, score),
                                    Ranked(Candidates(Listed, score), retrieval.limit))
<1>4. \/ ByAge("recency", older) \/ ByAge("half_life", halved)
      \/ /\ retrieval.kind = "session"
         /\ retrieval' = Answer(Candidates(Listed, flat), Cut(Candidates(Listed, flat), retrieval.limit))
  BY DEF AnswerFromList
<1> HIDE DEF D, older, halved, flat
<1>5. ASSUME NEW kind \in {"recency", "half_life"}, NEW score, ByAge(kind, score),
             \A c \in D : score[c] \in Int,
             \A c, d \in D : StampOf[c] > StampOf[d] => score[c] >= score[d]
      PROVE  RetrievalInv'
  <2> DEFINE cands == Candidates(Listed, score)  answer == Ranked(cands, retrieval.limit)
  <2>1. cands \in Seq(Candidate(D))
    BY <1>2, <1>5, CandidatesAre
  <2>2. \A c, d \in ToSet(cands) : StampOf[c.id] > StampOf[d.id] => c.score >= d.score
    BY <1>2, <1>5, RankedByAge
  <2>3. retrieval' = Answer(cands, answer) /\ retrieval.kind = kind
    BY <1>5
  <2> HIDE DEF cands
  <2>4. /\ Len(answer) <= retrieval.limit
        /\ \A c \in ToSet(cands) \ ToSet(answer) :
             /\ Len(answer) >= retrieval.limit
             /\ \A a \in ToSet(answer) : a.score >= c.score
    BY <1>1, <2>1, CutKeepsTheBest
  <2> HIDE DEF answer
  <2>5. /\ retrieval'.kind = kind /\ retrieval'.limit = retrieval.limit
        /\ retrieval'.scored = cands /\ retrieval'.answer = answer
    BY <2>3, AnswerFields
  <2>6. LimitKeepsTheBest'
    BY <2>4, <2>5 DEF LimitKeepsTheBest, Answered
  <2>7. QueryWordIsFound' /\ Bm25Monotone'
    BY <2>5 DEF QueryWordIsFound, Bm25Monotone
  <2>8. NewerScoresHigher'
    BY <2>2, <2>5 DEF NewerScoresHigher
  <2> QED
    BY <1>1, <2>3, <2>6, <2>7, <2>8, AnswerEnds DEF RankedAsEarned
<1>6. CASE \/ ByAge("recency", older) \/ ByAge("half_life", halved)
  <2> HIDE DEF ByAge
  <2> QED
    BY <1>3, <1>5, <1>6
<1>7. CASE /\ retrieval.kind = "session"
           /\ retrieval' = Answer(Candidates(Listed, flat), Cut(Candidates(Listed, flat), retrieval.limit))
  <2> DEFINE cands == Candidates(Listed, flat)  answer == Cut(cands, retrieval.limit)
  <2>1. retrieval' = Answer(cands, answer)
    BY <1>7
  <2> HIDE DEF cands, answer
  <2>2. retrieval'.kind = "session"
    BY <1>7, <2>1, AnswerFields
  <2>3. RankedAsEarned'
    BY <2>2 DEF RankedAsEarned, LimitKeepsTheBest, QueryWordIsFound, Bm25Monotone, NewerScoresHigher
  <2> QED
    BY <1>1, <2>1, <2>3, AnswerEnds
<1> QED
  BY <1>4, <1>6, <1>7

LEMMA AnswerPinnedInv ==
  ASSUME RetrievalInv, AnswerPinned
  PROVE  RetrievalInv'
<1> DEFINE cands == Candidates(Pinned, [id \in ToSet(Pinned) |-> Unit])
           answer == Cut(cands, retrieval.limit)
<1>1. /\ retrieval.pc = "start" /\ UNCHANGED listing /\ retrieval.kind = "pinned"
      /\ retrieval' = Answer(cands, answer)
  BY DEF AnswerPinned
<1> HIDE DEF cands, answer
<1>2. retrieval'.kind = "pinned"
  BY <1>1, AnswerFields
<1>3. RankedAsEarned'
  BY <1>2 DEF RankedAsEarned, LimitKeepsTheBest, QueryWordIsFound, Bm25Monotone, NewerScoresHigher
<1> QED
  BY <1>1, <1>3, AnswerEnds

LEMMA AnswerPythonInv ==
  ASSUME RetrievalInv, AnswerPython
  PROVE  RetrievalInv'
<1>1. retrieval.pc = "start" /\ UNCHANGED listing /\ retrieval.kind = "python"
  BY DEF AnswerPython
<1>2. PICK pairs \in PythonReply :
        \/ retrieval' = [retrieval EXCEPT !.pc = "failed"]
        \/ retrieval' = Answer(FromPython(pairs), FromPython(pairs))
  BY DEF AnswerPython
<1>3. CASE retrieval' = [retrieval EXCEPT !.pc = "failed"]
  <2>1. retrieval' = [kind |-> retrieval.kind, task |-> retrieval.task, limit |-> retrieval.limit,
                      todo |-> retrieval.todo, docs |-> retrieval.docs, pc |-> "failed",
                      scored |-> retrieval.scored, answer |-> retrieval.answer]
    BY <1>3 DEF RetrievalInv
  <2>2. ~IsDone'
    BY <2>1 DEF IsDone
  <2>3. RankedAsEarned'
    BY <2>2 DEF RankedAsEarned, LimitKeepsTheBest, QueryWordIsFound, Bm25Monotone, NewerScoresHigher
  <2> QED
    BY <1>1, <2>1, <2>3 DEF RetrievalInv
<1>4. CASE retrieval' = Answer(FromPython(pairs), FromPython(pairs))
  <2> DEFINE cands == FromPython(pairs)
  <2>1. retrieval' = Answer(cands, cands)
    BY <1>4
  <2> HIDE DEF cands
  <2>2. retrieval'.kind = "python" /\ retrieval'.scored = cands /\ retrieval'.answer = cands
    BY <1>1, <2>1, AnswerFields
  <2>3. LimitKeepsTheBest'
    BY <2>2 DEF LimitKeepsTheBest, Answered
  <2>4. QueryWordIsFound' /\ Bm25Monotone' /\ NewerScoresHigher'
    BY <2>2 DEF QueryWordIsFound, Bm25Monotone, NewerScoresHigher
  <2> QED
    BY <1>1, <2>1, <2>3, <2>4, AnswerEnds DEF RankedAsEarned
<1> QED
  BY <1>2, <1>3, <1>4

LEMMA ListDocumentsInv ==
  ASSUME RetrievalInv, ListDocuments
  PROVE  RetrievalInv'
<1> DEFINE q == {w \in retrieval.task : WordLen[w] >= MinWordLen[retrieval.kind]}
<1>1. /\ retrieval.pc = "start" /\ UNCHANGED listing /\ retrieval.kind \in {"lexical", "bm25"}
      /\ retrieval' = IF q = {} THEN Answer(<<>>, <<>>)
                      ELSE [retrieval EXCEPT !.pc = "read", !.task = q, !.todo = Listed]
  BY DEF ListDocuments
<1>2. q \subseteq Word /\ retrieval.limit \in Nat /\ retrieval.docs = <<>>
  BY <1>1 DEF RetrievalInv
<1> HIDE DEF q
<1>3. CASE q = {}
  <2> DEFINE none == <<>>
  <2>1. DOMAIN none = {} /\ ToSet(none) = {}
    BY DEF ToSet
  <2>2. retrieval' = Answer(none, none) /\ retrieval.docs = none
    BY <1>1, <1>2, <1>3
  <2> HIDE DEF none
  <2>3. /\ retrieval'.docs = none /\ retrieval'.scored = none /\ retrieval'.answer = none
    BY <2>2, AnswerFields
  <2>4. RankedAsEarned'
    <3>1. LimitKeepsTheBest'
      <4>1. retrieval'.limit \in Nat /\ retrieval'.kind = retrieval.kind
        BY <1>2, <2>2, AnswerFields
      <4>2. Len(retrieval'.answer) = 0
        BY <2>3 DEF none
      <4>3. Len(retrieval'.answer) <= retrieval'.limit
        BY <4>1, <4>2
      <4>4. ToSet(retrieval'.scored) = {}
        BY <2>1, <2>3
      <4> QED
        BY <4>3, <4>4 DEF LimitKeepsTheBest
    <3>2. QueryWordIsFound'
      BY <2>1, <2>3 DEF QueryWordIsFound
    <3>3. Bm25Monotone' /\ NewerScoresHigher'
      BY <2>1, <2>3 DEF Bm25Monotone, NewerScoresHigher
    <3> QED
      BY <3>1, <3>2, <3>3 DEF RankedAsEarned
  <2> QED
    BY <1>1, <2>2, <2>4, AnswerEnds
<1>4. CASE q # {}
  <2>1. retrieval' = [kind |-> retrieval.kind, task |-> q, limit |-> retrieval.limit,
                      todo |-> Listed, docs |-> retrieval.docs, pc |-> "read",
                      scored |-> retrieval.scored, answer |-> retrieval.answer]
    BY <1>1, <1>4 DEF RetrievalInv
  <2>2. ~IsDone'
    BY <2>1 DEF IsDone
  <2>3. RankedAsEarned'
    BY <2>2 DEF RankedAsEarned, LimitKeepsTheBest, QueryWordIsFound, Bm25Monotone, NewerScoresHigher
  <2>4. AreDocuments(retrieval'.kind, retrieval'.docs)
    BY <1>2, <2>1 DEF AreDocuments
  <2> QED
    BY <1>1, <1>2, <2>1, <2>3, <2>4 DEF RetrievalInv
<1> QED
  BY <1>3, <1>4

LEMMA ReadDocumentInv ==
  ASSUME RetrievalInv, ReadDocument
  PROVE  RetrievalInv'
<1> DEFINE id == Head(retrieval.todo)
           kind == retrieval.kind
           D == DOMAIN retrieval.docs
           more == [d \in D \union {id} |-> IF d = id THEN listing[id] ELSE retrieval.docs[d]]
           readable == id \in DOMAIN listing /\ listing[id] # Binary
           new == IF readable /\ Tokens(kind, listing[id]) # {} THEN more ELSE retrieval.docs
<1>1. retrieval.pc = "read" /\ UNCHANGED listing
  BY DEF ReadDocument
<1>2. retrieval' = [kind |-> kind, task |-> retrieval.task, limit |-> retrieval.limit,
                    todo |-> Tail(retrieval.todo), docs |-> new, pc |-> retrieval.pc,
                    scored |-> retrieval.scored, answer |-> retrieval.answer]
  BY DEF ReadDocument, RetrievalInv
<1>3. /\ kind \in {"lexical", "bm25"} /\ AreDocuments(kind, retrieval.docs)
      /\ retrieval.task \subseteq Word /\ retrieval.limit \in Nat
  BY <1>1 DEF RetrievalInv
<1>4. AreDocuments(kind, new)
  <2>1. CASE readable /\ Tokens(kind, listing[id]) # {}
    <3>1. new = more
      BY <2>1
    <3>2. id \in SessionIds /\ listing[id] \in Text
      BY <2>1, RetrieversAssumption DEF RetrievalInv, Text
    <3>3. DOMAIN more \subseteq SessionIds
      BY <1>3, <3>2 DEF AreDocuments
    <3>4. ASSUME NEW d \in DOMAIN more PROVE more[d] \in Text /\ Tokens(kind, more[d]) # {}
      <4>1. CASE d = id
        BY <2>1, <3>2, <4>1
      <4>2. CASE d # id
        <5>1. d \in D /\ more[d] = retrieval.docs[d]
          BY <4>2
        <5> QED
          BY <1>3, <5>1 DEF AreDocuments
      <4> QED
        BY <4>1, <4>2
    <3> HIDE DEF more, new
    <3> QED
      BY <3>1, <3>3, <3>4 DEF AreDocuments
  <2>2. CASE ~(readable /\ Tokens(kind, listing[id]) # {})
    <3>1. new = retrieval.docs
      BY <2>2
    <3> HIDE DEF new
    <3> QED
      BY <1>3, <3>1
  <2> QED
    BY <2>1, <2>2
<1> HIDE DEF new
<1>5. ~IsDone'
  BY <1>1, <1>2 DEF IsDone
<1>6. RankedAsEarned'
  BY <1>5 DEF RankedAsEarned, LimitKeepsTheBest, QueryWordIsFound, Bm25Monotone, NewerScoresHigher
<1> QED
  BY <1>1, <1>2, <1>3, <1>4, <1>6 DEF RetrievalInv

LEMMA ScoreDocumentsInv ==
  ASSUME RetrievalInv, ScoreDocuments
  PROVE  RetrievalInv'
<1> DEFINE q == retrieval.task
           docs == retrieval.docs
           D == DOMAIN docs
           Found(id) == IF retrieval.kind = "bm25" THEN Bm25Raw(q, docs, id) > 0
                        ELSE q \intersect Tokens("lexical", docs[id]) # {}
           H == {id \in D : Found(id)}
           hits == InOrder(H)
           score == [id \in D |->
                       IF retrieval.kind = "bm25" THEN Bm25Score(q, docs, id) ELSE LexicalScore(q, docs[id])]
           cands == Candidates(hits, score)
           answer == Ranked(cands, retrieval.limit)
<1>1. retrieval.pc = "read" /\ UNCHANGED listing /\ retrieval' = Answer(cands, answer)
  BY DEF ScoreDocuments
<1>2. /\ retrieval.kind \in {"lexical", "bm25"} /\ AreDocuments(retrieval.kind, docs)
      /\ q \in SUBSET Word /\ retrieval.limit \in Nat
  BY <1>1 DEF RetrievalInv
<1> HIDE DEF q, docs
<1>3. D \subseteq SessionIds /\ \A d \in D : docs[d] \in Text /\ Tokens(retrieval.kind, docs[d]) # {}
  BY <1>2 DEF AreDocuments
<1>4. ASSUME NEW d \in D PROVE Found(d) <=> q \intersect Tokens(retrieval.kind, docs[d]) # {}
  <2>1. CASE retrieval.kind = "bm25"
    <3>1. docs[d] \in Text
      BY <1>3
    <3>2. DocLen("bm25", docs[d]) <= DocLen("bm25", docs[d])
      BY <3>1, TextFacts
    <3>3. \A w \in q : docs[d][w] >= docs[d][w]
      <4>1. \A w \in q : docs[d][w] \in Nat
        BY <1>2, <3>1 DEF Text
      <4> QED
        BY <4>1
    <3>4. Bm25Raw(q, docs, d) > 0 <=> q \intersect Tokens("bm25", docs[d]) # {}
      BY <1>2, <2>1, <3>2, <3>3, Bm25RawGrows
    <3> QED
      BY <2>1, <3>4
  <2>2. CASE retrieval.kind = "lexical"
    BY <2>2
  <2> QED
    BY <1>2, <2>1, <2>2
<1>5. ASSUME NEW c \in D, NEW d \in D, retrieval.kind = "bm25",
             \A w \in q : docs[c][w] >= docs[d][w],
             DocLen("bm25", docs[c]) <= DocLen("bm25", docs[d])
      PROVE  score[c] \in Int /\ score[d] \in Int /\ score[c] >= score[d]
  <2>1. /\ Bm25Score(q, docs, c) \in Int /\ Bm25Score(q, docs, d) \in Int
        /\ Bm25Score(q, docs, c) >= Bm25Score(q, docs, d)
    BY <1>2, <1>5, Bm25ScoreGrows
  <2> QED
    BY <1>5, <2>1
<1>6. ASSUME NEW d \in D PROVE score[d] \in Int
  <2>1. CASE retrieval.kind = "bm25"
    <3>1. docs[d] \in Text
      BY <1>3
    <3>2. DocLen("bm25", docs[d]) <= DocLen("bm25", docs[d])
      BY <3>1, TextFacts
    <3>3. \A w \in q : docs[d][w] >= docs[d][w]
      <4>1. \A w \in q : docs[d][w] \in Nat
        BY <1>2, <3>1 DEF Text
      <4> QED
        BY <4>1
    <3> HIDE DEF score
    <3> QED
      BY <1>5, <2>1, <3>2, <3>3
  <2>2. CASE retrieval.kind = "lexical"
    <3>1. LexicalScore(q, docs[d]) \in Int
      BY <1>3, <2>2, LexicalIsNumber
    <3>2. score[d] = LexicalScore(q, docs[d])
      BY <2>2
    <3> QED
      BY <3>1, <3>2
  <2> QED
    BY <1>2, <2>1, <2>2
<1> HIDE DEF Found
<1>7. H \subseteq D
  OBVIOUS
<1>8. H \subseteq Nat /\ IsFiniteSet(H)
  <2>1. H \in SUBSET SessionIds
    BY <1>3
  <2> HIDE DEF H
  <2> QED
    BY <2>1, FS_Subset, RetrieversAssumption
<1> HIDE DEF score
<1>9. hits \in Seq(H) /\ \A x \in H : \E k \in DOMAIN hits : hits[k] = x
  <2> HIDE DEF H
  <2> QED
    BY <1>8, InOrderLists
<1>10. \A x \in H : score[x] \in Int
  BY <1>6
<1> HIDE DEF H, hits
<1>11. /\ cands \in Seq(Candidate(H))
       /\ \A c \in ToSet(cands) : c.id \in ToSet(hits) /\ c.score = Clamped(score[c.id])
       /\ \A i \in DOMAIN hits : \E c \in ToSet(cands) : c.id = hits[i]
  BY <1>9, <1>10, CandidatesAre
<1> HIDE DEF cands
<1>12. ToSet(hits) = H
  BY <1>9 DEF ToSet
<1>13. /\ Len(answer) <= retrieval.limit
       /\ \A c \in ToSet(cands) \ ToSet(answer) :
            /\ Len(answer) >= retrieval.limit
            /\ \A a \in ToSet(answer) : a.score >= c.score
  BY <1>2, <1>11, CutKeepsTheBest
<1> HIDE DEF answer
<1>14. /\ retrieval'.kind = retrieval.kind /\ retrieval'.task = q /\ retrieval'.docs = docs
       /\ retrieval'.limit = retrieval.limit /\ retrieval'.scored = cands /\ retrieval'.answer = answer
  BY <1>1, AnswerFields DEF q, docs
<1>15. LimitKeepsTheBest'
  BY <1>13, <1>14 DEF LimitKeepsTheBest, Answered
<1>16. ASSUME NEW id \in D
       PROVE  q \intersect Tokens(retrieval.kind, docs[id]) # {} <=> \E c \in ToSet(cands) : c.id = id
  <2>1. id \in H <=> q \intersect Tokens(retrieval.kind, docs[id]) # {}
    BY <1>4 DEF H
  <2>2. id \in H => \E c \in ToSet(cands) : c.id = id
    BY <1>9, <1>11
  <2>3. \A c \in ToSet(cands) : c.id = id => id \in H
    BY <1>11, <1>12
  <2> QED
    BY <2>1, <2>2, <2>3
<1>17. QueryWordIsFound'
  BY <1>14, <1>16 DEF QueryWordIsFound
<1>18. ASSUME retrieval.kind = "bm25", NEW c \in ToSet(cands), NEW d \in ToSet(cands),
              \A w \in q : docs[c.id][w] >= docs[d.id][w],
              DocLen("bm25", docs[c.id]) <= DocLen("bm25", docs[d.id])
       PROVE  c.score >= d.score
  <2> DEFINE x == c.id  y == d.id
  <2>1. x \in D /\ y \in D /\ c.score = Clamped(score[x]) /\ d.score = Clamped(score[y])
    BY <1>7, <1>11, <1>12 DEF H
  <2>2. /\ \A w \in q : docs[x][w] >= docs[y][w]
        /\ DocLen("bm25", docs[x]) <= DocLen("bm25", docs[y])
    BY <1>18
  <2> HIDE DEF x, y
  <2>3. score[x] \in Int /\ score[y] \in Int /\ score[x] >= score[y]
    BY <1>5, <1>18, <2>1, <2>2
  <2> QED
    BY <2>1, <2>3, ClampedKeepsOrder
<1>19. Bm25Monotone'
  <2> SUFFICES ASSUME retrieval.kind = "bm25", NEW c \in ToSet(cands), NEW d \in ToSet(cands),
                      \A w \in q : docs[c.id][w] >= docs[d.id][w],
                      DocLen("bm25", docs[c.id]) <= DocLen("bm25", docs[d.id])
               PROVE  c.score >= d.score
    BY <1>14 DEF Bm25Monotone
  <2> QED
    BY <1>18
<1>20. NewerScoresHigher'
  BY <1>2, <1>14 DEF NewerScoresHigher
<1>21. RankedAsEarned'
  BY <1>15, <1>17, <1>19, <1>20 DEF RankedAsEarned
<1> QED
  BY <1>1, <1>21, AnswerEnds

LEMMA RetrieveInv ==
  ASSUME RetrievalInv, Retrieve
  PROVE  RetrievalInv'
<1>1. PICK kind \in {"recency", "half_life", "session", "pinned", "python", "lexical", "bm25"},
           q \in Query, limit \in Limits :
        retrieval' = [NoCall EXCEPT !.kind = kind, !.task = q, !.limit = limit, !.pc = "start"]
  BY DEF Retrieve
<1>2. UNCHANGED listing /\ q \subseteq Word /\ limit \in Nat
  BY RetrieversAssumption DEF Retrieve
<1>3. retrieval' = [kind |-> kind, task |-> q, limit |-> limit, todo |-> <<>>, docs |-> <<>>,
                    pc |-> "start", scored |-> <<>>, answer |-> <<>>]
  BY <1>1 DEF NoCall
<1>4. RankedAsEarned'
  BY <1>3 DEF IsDone, RankedAsEarned, LimitKeepsTheBest, QueryWordIsFound, Bm25Monotone, NewerScoresHigher
<1> QED
  BY <1>2, <1>3, <1>4 DEF RetrievalInv

LEMMA OtherDeletesInv ==
  ASSUME RetrievalInv, NEW id \in SessionIds, OtherDeletes(id)
  PROVE  RetrievalInv'
<1>1. /\ UNCHANGED retrieval
      /\ DOMAIN listing' \subseteq DOMAIN listing /\ \A i \in DOMAIN listing' : listing'[i] = listing[i]
  BY DEF OtherDeletes
<1>2. RankedAsEarned'
  BY <1>1 DEF RetrievalInv, IsDone, Answered, RankedAsEarned, LimitKeepsTheBest, QueryWordIsFound,
              Bm25Monotone, NewerScoresHigher
<1> QED
  BY <1>1, <1>2 DEF RetrievalInv

LEMMA RetrieversInitInv == RetrieversInit => RetrievalInv
<1> SUFFICES ASSUME RetrieversInit PROVE RetrievalInv
  OBVIOUS
<1>1. PICK ids \in SUBSET SessionIds : listing \in [ids -> Body]
  BY DEF RetrieversInit
<1>2. retrieval = [kind |-> "none", task |-> {}, limit |-> 0, todo |-> <<>>, docs |-> <<>>,
                   pc |-> "idle", scored |-> <<>>, answer |-> <<>>]
  BY DEF RetrieversInit, NoCall
<1>3. RankedAsEarned
  BY <1>2 DEF IsDone, RankedAsEarned, LimitKeepsTheBest, QueryWordIsFound, Bm25Monotone, NewerScoresHigher
<1> QED
  BY <1>1, <1>2, <1>3 DEF RetrievalInv

LEMMA RetrieversStep == RetrievalInv /\ [RetrieversNext]_retrieverVars => RetrievalInv'
<1> SUFFICES ASSUME RetrievalInv, [RetrieversNext]_retrieverVars PROVE RetrievalInv'
  OBVIOUS
<1>1. CASE UNCHANGED retrieverVars
  <2>1. UNCHANGED listing /\ UNCHANGED retrieval
    BY <1>1 DEF retrieverVars
  <2> QED
    BY <2>1 DEF RetrievalInv, IsDone, Answered, RankedAsEarned, LimitKeepsTheBest, QueryWordIsFound,
                Bm25Monotone, NewerScoresHigher
<1>2. CASE \E id \in SessionIds : OtherDeletes(id)
  BY <1>2, OtherDeletesInv
<1> QED
  BY <1>1, <1>2, RetrieveInv, AnswerFromListInv, AnswerPinnedInv, AnswerPythonInv, ListDocumentsInv,
     ReadDocumentInv, ScoreDocumentsInv DEF RetrieversNext

(* Whatever the session holds, others delete meanwhile, and the task asks  *)
(* for, the limit leaves out the worst candidates only, a block that       *)
(* shares a word with the task is found, and neither length nor age alone  *)
(* turns the order round.                                                  *)
THEOREM RankedAsEarnedAlways == RetrieversSpec => []RankedAsEarned
<1>1. RetrievalInv => RankedAsEarned
  BY DEF RetrievalInv
<1> QED
  BY <1>1, RetrieversInitInv, RetrieversStep, PTL DEF RetrieversSpec
=============================================================================
