------------------------------ MODULE Services ------------------------------
(***************************************************************************)
(* The service registry: src/server/service.rs.                            *)
(*                                                                         *)
(* A table of services is a total function on Alias whose value is         *)
(* NoService where the HashMap has no entry.  An alias is a sequence: the  *)
(* name written in a file is <<"web">>, and the virtual names the code     *)
(* formats as "web.1", "web.2" are <<"web", 1>>, <<"web", 2>>; the name    *)
(* "web.1" written in a file is therefore <<"web", 1>> as well.            *)
(***************************************************************************)
EXTENDS Integers, Sequences

CONSTANTS
    Alias,      \* the names services and jobs are known by
    NoService,  \* "no entry in the table"
    ExitCode,   \* the exit codes a process may end with
    U8,         \* size of the u8 that counts retries: 256 in the code
    Version     \* stands for the fields only compared: cmd, env, umask, file...

ASSUME ServicesAssumption ==
    /\ U8 \in Nat /\ U8 >= 2
    /\ ExitCode \subseteq Nat
    /\ 0 \in ExitCode
    /\ <<>> \notin Alias

NoAlias == <<>>

(* struct Service, without the fields no handler looks at; RestartOptions  *)
(* is the pair restart, retries.                                           *)
Service ==
    [numprocs  : Nat,
     restart   : {"Never", "Always", "Unexpected"},
     retries   : 0 .. U8 - 1,
     exitCodes : SUBSET ExitCode,
     startTime : Nat,
     stopWait  : Nat,
     version   : Version]

ASSUME NoServiceAssumption == NoService \notin Service

Table == [Alias -> Service \cup {NoService}]

NoTable == [a \in Alias |-> NoService]

(* generate_alias_names: the first process keeps the alias of the service. *)
GenerateAliasNames(alias, numprocs) ==
    [n \in 1 .. numprocs |-> IF n = 1 THEN alias ELSE Append(alias, n - 1)]

(* Variant of FileEntries: the virtual services keep numprocs. *)
FileEntriesAsWritten(file) ==
    LET names == GenerateAliasNames(file.alias, file.service.numprocs)
    IN  [n \in DOMAIN names |-> [alias |-> names[n], service |-> file.service]]

(* The entries one file contributes, in the order they are inserted: the   *)
(* service itself, then one single-process virtual service per further     *)
(* process.  A file is [alias |-> ..., service |-> ...].                   *)
FileEntries(file) ==
    LET names == GenerateAliasNames(file.alias, file.service.numprocs)
    IN  [n \in DOMAIN names |->
            [alias   |-> names[n],
             service |-> IF n = 1 THEN file.service
                                  ELSE [file.service EXCEPT !.numprocs = 1]]]

(* Variant of InsertService: the last definition of a name wins. *)
InsertOverwriting(acc, entry) ==
    [acc EXCEPT !.table[entry.alias] = entry.service]

(* insert_service: a name that is taken makes the whole load fail. *)
InsertService(acc, entry) ==
    IF acc.ok /\ acc.table[entry.alias] = NoService
    THEN [acc EXCEPT !.table[entry.alias] = entry.service]
    ELSE [acc EXCEPT !.ok = FALSE]

(* load_services over the entries of all the files, in the order the       *)
(* directory walk meets them.                                              *)
LoadServices(entries) ==
    LET load[n \in 0 .. Len(entries)] ==
            IF n = 0 THEN [ok |-> TRUE, table |-> NoTable]
                     ELSE InsertService(load[n - 1], entries[n])
    IN  load[Len(entries)]

-----------------------------------------------------------------------------
(* Services::update, given the table old the server holds and the table    *)
(* new it has just loaded.                                                 *)

Change == [act : {"Restart", "Stop"}, alias : Alias]

(* Variant of Changes: only some of the fields are compared. *)
ChangesOfVersion(old, new) ==
    {[act |-> IF new[a] = NoService THEN "Stop" ELSE "Restart", alias |-> a] :
        a \in {x \in Alias : /\ old[x] # NoService
                             /\ \/ new[x] = NoService
                                \/ old[x].version # new[x].version}}

(* Changed services are to be restarted; those that have disappeared from  *)
(* the files are to be stopped.  A service that is new yields nothing.     *)
Changes(old, new) ==
    {[act |-> "Restart", alias |-> a] :
        a \in {x \in Alias : old[x] # NoService /\ new[x] # NoService
                                                /\ old[x] # new[x]}}
    \cup
    {[act |-> "Stop", alias |-> a] :
        a \in {x \in Alias : old[x] # NoService /\ new[x] = NoService}}

(* Variant of Updated: the new table replaces the old one. *)
UpdatedToNew(old, new) == new

(* The new table, extended with the entries that have disappeared. *)
Updated(old, new) ==
    [a \in Alias |-> IF new[a] # NoService THEN new[a] ELSE old[a]]
=============================================================================
