-------------------------- MODULE ServiceRegistry --------------------------
(***************************************************************************)
(* Service discovery through files: entangle/src/service/registry.rs, the  *)
(* life cycle of service/lifecycle.rs on top of it and the compatibility   *)
(* check of service/config.rs.  The processes share a directory and        *)
(* nothing else, so every file-system call is a step of its own.           *)
(*                                                                         *)
(* A file is known by the process that created it.  It is Empty, which     *)
(* stands for all that does not parse, from the open with O_CREAT|O_EXCL   *)
(* to the end of the write; a process that has it open keeps writing to it *)
(* even when its name is gone or names another file.  Reading a file of    *)
(* this size is one step.  Any of the calls may fail.                      *)
(*                                                                         *)
(* History variables: `left`, the paths whose file the creator died or     *)
(* failed before writing; `overtaken`, the processes whose path was        *)
(* removed since the operation started that they are in or have their      *)
(* handle from.                                                            *)
(***************************************************************************)
EXTENDS Naturals

CONSTANTS
    Process,
    Name,         \* service names
    Path,         \* file names
    PathOf,       \* service_path: '/' and '_' in a name give the same path
    Layout,       \* what validate_compatibility compares: magic, version,
                  \* pattern, payload size and alignment
    Absent,       \* no file
    Empty,        \* a file that was created and not, or not completely, written
    NoConfig,
    MaxCrashes,   \* bound: processes that die
    MaxDestroys   \* bound: calls of destroy()

ASSUME PathAssumption == PathOf \in [Name -> Path]
ASSUME DestroyAssumption == MaxCrashes \in Nat /\ MaxDestroys \in Nat

Config == [name : Name, layout : Layout]

File == [by : Process, config : Config \union {Empty}]

ASSUME MarkAssumption ==
    /\ {Empty, NoConfig} \intersect Config = {}
    /\ Absent \notin File

VARIABLES
    dir,       \* the file each path names
    rpc,       \* where each process is
    op,        \* the operation it is in
    config,    \* the argument of its operation
    ret,       \* what its last operation returned
    service,   \* the configuration of the service handle it has
    crashes, destroys,
    left, overtaken

process == <<rpc, op, config, ret, service>>
history == <<left, overtaken>>
registryVars == <<dir, process, crashes, destroys, history>>

RegistryInit ==
    /\ dir = [x \in Path |-> Absent]
    /\ rpc = [p \in Process |-> "idle"] /\ op = [p \in Process |-> "none"]
    /\ config = [p \in Process |-> NoConfig]
    /\ ret = [p \in Process |-> "none"]
    /\ service = [p \in Process |-> NoConfig]
    /\ crashes = 0 /\ destroys = 0
    /\ left = {} /\ overtaken = {}

\* The path p's operation is about.
At(p) == PathOf[config[p].name]

\* The operation p is in, or its handle, is about path x.
Concerns(p, x) ==
    \/ config[p] # NoConfig /\ At(p) = x
    \/ service[p] # NoConfig /\ PathOf[service[p].name] = x

\* The paths that have a file p has created and not written yet.
Unwritten(p) ==
    {x \in Path : rpc[p] = "write" /\ At(p) = x /\ dir[x] = [by |-> p, config |-> Empty]}

GoTo(p, where) ==
    /\ rpc' = [rpc EXCEPT ![p] = where]
    /\ UNCHANGED <<op, config, ret, service>>

Finish(p, r) ==
    /\ rpc' = [rpc EXCEPT ![p] = "idle"]
    /\ ret' = [ret EXCEPT ![p] = r]
    /\ service' = [service EXCEPT ![p] = IF r = "ok" /\ op[p] # "destroy" THEN config[p] ELSE @]
    /\ config' = [config EXCEPT ![p] = NoConfig]
    /\ UNCHANGED op

-----------------------------------------------------------------------------
(* The operations and where each starts *)

Start(p, o, c, where) ==
    /\ rpc[p] = "idle"
    /\ rpc' = [rpc EXCEPT ![p] = where]
    /\ op' = [op EXCEPT ![p] = o]
    /\ config' = [config EXCEPT ![p] = c]
    /\ ret' = [ret EXCEPT ![p] = "none"]
    /\ service' = [service EXCEPT ![p] = NoConfig]
    /\ overtaken' = overtaken \ {p}

Open(p, c) ==
    /\ Start(p, "open", c, "lookup")
    /\ UNCHANGED <<dir, crashes, destroys, left>>

OpenOrCreate(p, c) ==
    /\ Start(p, "open_or_create", c, "lookup")
    /\ UNCHANGED <<dir, crashes, destroys, left>>

CreateService(p, c) ==
    /\ Start(p, "create", c, "create_new")
    /\ UNCHANGED <<dir, crashes, destroys, left>>

Destroy(p, c) ==
    /\ destroys < MaxDestroys
    /\ Start(p, "destroy", c, "exists")
    /\ destroys' = destroys + 1
    /\ UNCHANGED <<dir, crashes, left>>

-----------------------------------------------------------------------------
(* lookup and validate_compatibility, and what open and open_or_create make of them *)

Compatible(c, d) == c.layout = d.layout

\* Whatever keeps the file from being read is reported as NotFound.
LookupNotFound(p) ==
    /\ rpc[p] = "lookup"
    /\ IF op[p] = "open" THEN Finish(p, "NotFound") ELSE GoTo(p, "create_new")
    /\ UNCHANGED <<dir, crashes, destroys, history>>

\* A file that is not written does not parse.
LookupCorrupted(p) ==
    /\ rpc[p] = "lookup" /\ dir[At(p)] # Absent
    /\ dir[At(p)].config = Empty
    /\ Finish(p, "Corrupted")
    /\ UNCHANGED <<dir, crashes, destroys, history>>

LookupFound(p) ==
    /\ rpc[p] = "lookup" /\ dir[At(p)] # Absent
    /\ dir[At(p)].config # Empty
    /\ Finish(p, IF Compatible(config[p], dir[At(p)].config) THEN "ok" ELSE "Incompatible")
    /\ UNCHANGED <<dir, crashes, destroys, history>>

-----------------------------------------------------------------------------
(* register *)

\* create(true) and truncate(true) instead of create_new(true).
CreateNewTruncates(p) ==
    /\ rpc[p] = "create_new"
    /\ dir' = [dir EXCEPT ![At(p)] = [by |-> p, config |-> Empty]]
    /\ GoTo(p, "write")
    /\ UNCHANGED <<crashes, destroys, history>>

CreateNew(p) ==
    /\ rpc[p] = "create_new" /\ dir[At(p)] = Absent
    /\ dir' = [dir EXCEPT ![At(p)] = [by |-> p, config |-> Empty]]
    /\ GoTo(p, "write")
    /\ UNCHANGED <<crashes, destroys, history>>

CreateExists(p) ==
    /\ rpc[p] = "create_new" /\ dir[At(p)] # Absent
    /\ Finish(p, "AlreadyExists")
    /\ UNCHANGED <<dir, crashes, destroys, history>>

\* The text stays in a buffer that is dropped.
WriteUnflushed(p) ==
    /\ rpc[p] = "write"
    /\ Finish(p, "ok")
    /\ UNCHANGED <<dir, crashes, destroys, history>>

\* The write goes to the file p created, whether or not the path still names it.
Write(p) ==
    /\ rpc[p] = "write"
    /\ dir' = IF dir[At(p)] = [by |-> p, config |-> Empty]
              THEN [dir EXCEPT ![At(p)] = [by |-> p, config |-> config[p]]]
              ELSE dir
    /\ Finish(p, "ok")
    /\ UNCHANGED <<crashes, destroys, history>>

-----------------------------------------------------------------------------
(* unregister: path.exists(), then remove_file() *)

\* exists() is also false of a file that cannot be examined.
Exists(p) ==
    /\ rpc[p] = "exists"
    /\ Finish(p, "ok") \/ (dir[At(p)] # Absent /\ GoTo(p, "remove"))
    /\ UNCHANGED <<dir, crashes, destroys, history>>

\* Removes whatever file has the path now; Err(Io) when another process was faster.
RemoveFile(p) ==
    /\ rpc[p] = "remove"
    /\ Finish(p, IF dir[At(p)] = Absent THEN "Io" ELSE "ok")
    /\ dir' = [dir EXCEPT ![At(p)] = Absent]
    /\ left' = left \ {At(p)}
    /\ overtaken' = overtaken \union
                      {q \in Process \ {p} : dir[At(p)] # Absent /\ Concerns(q, At(p))}
    /\ UNCHANGED <<crashes, destroys>>

-----------------------------------------------------------------------------
(* What can happen to any operation *)

\* create_dir_all, open, write_all or remove_file fails: Err(Io), and what was created
\* stays as it is.
IoFails(p) ==
    /\ rpc[p] \in {"create_new", "write", "remove"}
    /\ left' = left \union Unwritten(p)
    /\ Finish(p, "Io")
    /\ UNCHANGED <<dir, crashes, destroys, overtaken>>

\* A process dies wherever it is, and one like it is started in its place.  Files stay.
Crash(p) ==
    /\ crashes < MaxCrashes
    /\ rpc' = [rpc EXCEPT ![p] = "idle"]
    /\ op' = [op EXCEPT ![p] = "none"]
    /\ config' = [config EXCEPT ![p] = NoConfig]
    /\ ret' = [ret EXCEPT ![p] = "none"]
    /\ service' = [service EXCEPT ![p] = NoConfig]
    /\ left' = left \union Unwritten(p)
    /\ overtaken' = overtaken \ {p}
    /\ crashes' = crashes + 1
    /\ UNCHANGED <<dir, destroys>>

RegistryNext ==
    \E p \in Process :
        \/ \E c \in Config :
              Open(p, c) \/ OpenOrCreate(p, c) \/ CreateService(p, c) \/ Destroy(p, c)
        \/ LookupNotFound(p) \/ LookupCorrupted(p) \/ LookupFound(p)
        \/ CreateNew(p) \/ CreateExists(p) \/ Write(p)
        \/ Exists(p) \/ RemoveFile(p)
        \/ IoFails(p) \/ Crash(p)

RegistrySpec == RegistryInit /\ [][RegistryNext]_registryVars

-----------------------------------------------------------------------------
(* Properties *)

\* Every variable stays in its range; what a process takes for its service's
\* configuration is one, and not the content of a file under construction.
RegistryTypeOK ==
    /\ dir \in [Path -> File \union {Absent}]
    /\ rpc \in [Process -> {"idle", "lookup", "create_new", "write", "exists", "remove"}]
    /\ op \in [Process -> {"none", "open", "open_or_create", "create", "destroy"}]
    /\ config \in [Process -> Config \union {NoConfig}]
    /\ ret \in [Process -> {"none", "ok", "NotFound", "Corrupted", "Incompatible", "AlreadyExists", "Io"}]
    /\ service \in [Process -> Config \union {NoConfig}]
    /\ crashes \in 0 .. MaxCrashes /\ destroys \in 0 .. MaxDestroys
    /\ left \subseteq Path /\ overtaken \subseteq Process

\* A process that was given a service finds it in the registry, with a layout its own
\* payload fits: all processes that have a handle of one path agree on the layout,
\* however their open, create and open_or_create calls, their failures and their crashes
\* interleave, as long as nobody has removed the service since their call started.
HandlesAgree ==
    \A p \in Process \ overtaken :
        service[p] # NoConfig =>
            LET file == dir[PathOf[service[p].name]] IN
            /\ file # Absent
            /\ file.config # Empty
            /\ file.config.layout = service[p].layout

\* What a process in the middle of an operation knows: its argument; that it has no
\* handle meanwhile; that only destroy removes; and that the file it has created is still
\* its own and empty when it comes to write it, unless the path was removed.
OperationsKnow ==
    \A p \in Process :
        /\ rpc[p] # "idle" => config[p] \in Config /\ service[p] = NoConfig
        /\ rpc[p] \in {"exists", "remove"} => op[p] = "destroy"
        /\ rpc[p] = "write" /\ p \notin overtaken => dir[At(p)] = [by |-> p, config |-> Empty]

(* The inductive invariant behind HandlesAgree; EmptyIsUnderway below is inductive given
   the types. *)
RegistryInv == RegistryTypeOK /\ OperationsKnow /\ HandlesAgree

\* The creator of x's file has still to write it.
Underway(x) == rpc[dir[x].by] = "write" /\ At(dir[x].by) = x

\* "Uses `O_CREAT | O_EXCL` for atomic creation - no TOCTOU race" (registry.rs:28): the
\* creation is atomic, the writing is not.  open and open_or_create report a service as
\* Corrupted exactly while the process that created its file is between the two, whatever
\* was destroyed and created anew meanwhile, and for good, until somebody destroys it, once
\* that process has died or failed there: nobody ever completes or replaces such a file.
EmptyIsUnderway ==
    \A x \in Path :
        /\ dir[x] # Absent => (dir[x].config = Empty <=> x \in left \/ Underway(x))
        /\ x \in left => dir[x] # Absent /\ ~Underway(x)

\* "Static configuration written once when a service is created" (config.rs:5): what a
\* file says never changes while it exists, and only one process ever writes to a path's
\* file.
WrittenOnce ==
    [][\A x \in Path :
          dir[x] # Absent /\ dir'[x] # Absent =>
              /\ dir'[x].by = dir[x].by
              /\ dir[x].config # Empty => dir'[x] = dir[x]]_registryVars
=============================================================================
