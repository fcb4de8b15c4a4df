------------------------------ MODULE MCServer ------------------------------
(***************************************************************************)
(* Instances of the server for TLC.  Every table of a catalog is what      *)
(* load_services makes of some files.                                      *)
(***************************************************************************)
EXTENDS ServerProperties, TLC

Web == <<"web">>
Web1 == Append(Web, 1)

OneAlias == {Web}
GroupAliases == {Web, Web1}

WebFile(numprocs, restart, retries, startTime, stopWait, version) ==
    [alias   |-> Web,
     service |-> [numprocs |-> numprocs, restart |-> restart,
                  retries |-> retries, exitCodes |-> {0},
                  startTime |-> startTime, stopWait |-> stopWait,
                  version |-> version]]

Table1(file) == LoadServices(FileEntries(file)).table

(* With a stop_wait of zero the timer of a stop has run out at once. *)
Always == Table1(WebFile(1, "Always", 2, 1, 1, 1))
Unexpected == Table1(WebFile(1, "Unexpected", 1, 1, 0, 2))

StaticCatalog == {Always}
ReloadCatalog == {NoTable, Always, Unexpected}

(* Services of one or two processes without a start time: their timer has   *)
(* run out at once.                                                         *)
Single == Table1(WebFile(1, "Never", 0, 0, 1, 1))
Group == Table1(WebFile(2, "Never", 0, 0, 1, 1))

GroupCatalog == {Single, Group}

Perms == Permutations(Client)
=============================================================================
