---------------------------- MODULE ServiceFiles ----------------------------
(***************************************************************************)
(* The service files on disk and the table the server makes of them:       *)
(* load_services and Services::update of src/server/service.rs over every  *)
(* small directory, in every order the directory walk can meet its files.  *)
(***************************************************************************)
EXTENDS Services, SequencesExt

CONSTANTS
    File,       \* the files that can be written: [alias, service] records
    MaxFiles    \* bound: files in the directory

(* An alias is a sequence, and Alias has every name a file defines, the     *)
(* virtual ones included.                                                   *)
ASSUME FilesAssumption ==
    /\ MaxFiles \in Nat
    /\ \A f \in File :
          /\ f.service \in Service
          /\ Len(f.alias) \in Nat
          /\ f.alias = [i \in 1 .. Len(f.alias) |-> f.alias[i]]
          /\ Range(GenerateAliasNames(f.alias, f.service.numprocs))
                \subseteq Alias

VARIABLES
    files,      \* the files, in the order the walk meets them
    held,       \* Services.services
    stopped,    \* the services an update has ever found gone
    removed,    \* those removed since an update last found them, see below
    current     \* the files held was last updated from

vars == <<files, held, stopped, removed, current>>

(* load_services: all the entries of all the files. *)
Load(fs) == LoadServices(FlattenSeq([i \in DOMAIN fs |-> FileEntries(fs[i])]))

(* Services::new: the server does not start if the files do not load.  The  *)
(* variables removed and current are history, for the properties.           *)
Init ==
    /\ files \in BoundedSeq(File, MaxFiles)
    /\ Load(files).ok
    /\ held = Load(files).table
    /\ stopped = {}
    /\ removed = {}
    /\ current = files

(* Somebody edits the directory. *)
Edit ==
    /\ files' \in BoundedSeq(File, MaxFiles)
    /\ UNCHANGED <<held, stopped, removed, current>>

(* Services::update; a load that fails leaves the table alone. *)
Update ==
    LET load == Load(files) IN
    /\ load.ok
    /\ held' = Updated(held, load.table)
    /\ stopped' = stopped \cup {ch.alias : ch \in
                      {c \in Changes(held, load.table) : c.act = "Stop"}}
    /\ removed' = {a \in removed : load.table[a] = NoService}
    /\ current' = files
    /\ UNCHANGED files

(* Services::remove, at the stop of a service that an update found gone or  *)
(* at the end of its job, whatever later updates have made of it.           *)
RemoveService ==
    /\ \E a \in stopped :
          /\ held' = [held EXCEPT ![a] = NoService]
          /\ removed' = removed \cup {a}
    /\ UNCHANGED <<files, stopped, current>>

Next == Edit \/ Update \/ RemoveService

Spec == Init /\ [][Next]_vars

-----------------------------------------------------------------------------
(* The names a file defines, and a reference definition of the table: the   *)
(* file that defines a name decides what the name is.                       *)
Names(f) == Range(GenerateAliasNames(f.alias, f.service.numprocs))

DefinedBy(fs, a) == {i \in DOMAIN fs : a \in Names(fs[i])}

Defined(fs, a) ==
    IF DefinedBy(fs, a) = {} THEN NoService
    ELSE LET f == fs[CHOOSE i \in DefinedBy(fs, a) : TRUE]
         IN  IF a = f.alias THEN f.service
                            ELSE [f.service EXCEPT !.numprocs = 1]

(* load_services refuses exactly the directories in which two files define  *)
(* one name, virtual names included, and otherwise builds the table of what *)
(* the files define, in whatever order the walk meets them.                 *)
LoadIsDeclared ==
    LET load == Load(files)
        unique == \A a \in Alias : Cardinality(DefinedBy(files, a)) <= 1
    IN  /\ load.ok <=> unique
        /\ unique => load.table = [a \in Alias |-> Defined(files, a)]

(* Services::update loses nothing and keeps what is still to be stopped: of *)
(* the services that were not removed since, the server holds those that    *)
(* the files of the last good update define, as they define them, and those *)
(* that have disappeared, whose processes may still run.                    *)
HeldIsCurrent ==
    \A a \in Alias :
        IF a \in removed THEN held[a] = NoService
        ELSE IF DefinedBy(current, a) # {} THEN held[a] = Defined(current, a)
        ELSE held[a] # NoService <=> a \in stopped

(* The start request of a service of several processes starts one job per   *)
(* name without looking whether the name is a service: every name of a held *)
(* service that the files still define is one, and is a single process,     *)
(* unless it was removed since, as an earlier stop of that name can do.     *)
GroupsAreWhole ==
    \A a \in Alias :
        held[a] # NoService /\ DefinedBy(current, a) # {} =>
            LET names == GenerateAliasNames(a, held[a].numprocs)
            IN  \A n \in 2 .. Len(names) :
                    names[n] \notin removed => /\ held[names[n]] # NoService
                                               /\ held[names[n]].numprocs = 1
=============================================================================
