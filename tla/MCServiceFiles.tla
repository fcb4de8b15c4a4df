--------------------------- MODULE MCServiceFiles ---------------------------
(***************************************************************************)
(* Directories of a service web of up to two processes, whose second name   *)
(* is web.1, and of a service that is written as web.1.                     *)
(***************************************************************************)
EXTENDS ServiceFiles

Web == <<"web">>
Web1 == Append(Web, 1)
MCAlias == {Web, Web1}

MCService ==
    [numprocs : 0 .. 2, restart : {"Never"}, retries : {0},
     exitCodes : {{0}}, startTime : {1}, stopWait : {1}, version : Version]

MCFile ==
    {f \in [alias : MCAlias, service : MCService] :
        f.alias = Web1 => f.service.numprocs = 1}
=============================================================================
