----------------------- MODULE ConnectionsProperties -----------------------
(***************************************************************************)
(* Properties of commands and their answers.                               *)
(***************************************************************************)
EXTENDS Connections

Part ==
    [kind : {"Stream"}, of : Id]
    \union [kind : {"Final"}, of : Id \union {NoId}]

(* Inputs, and the commands that reach the orchestrator, are of clients.    *)
Message ==
    [from : Client, kind : Kind \union {"input"}, id : Id \union {NoId}]
    \union {Request(Main, "start", NoId), Request(Sighup, "reload", NoId),
            Request(Watcher, "finished", NoId)}

User == [pc : {"prompt", "reading", "joining"}, id : Id \union {NoId}]

Handler == {Free, Waiting} \union [pc : {"answered"}, id : Id \union {NoId}]

(* Every variable has its type and the stdin of the process its bound; the  *)
(* orchestrator's channel carries actions, never a word that is no command  *)
(* (main.rs:86-119).                                                        *)
TypeOK ==
    /\ main \in {"starting", "waiting", "started", "serving", "down"}
    /\ commands \in Seq([client : Client, kind : Kind])
    /\ Len(commands) <= MaxCommands
    /\ user \in [Client -> User]
    /\ typing \in [Client -> {"off", "check", "read"}]
    /\ up \in [Client -> Seq(Message)]
    /\ down \in [Client -> Seq(Part)]
    /\ handler \in [Client -> Handler]
    /\ outbox \in [Id -> Seq(Part)]
    /\ stream \in [Id -> {"none", "open", "refused", "released",
                         "stopping", "done"}]
    /\ queue \in Seq(Message)
    /\ \A i \in DOMAIN queue : queue[i].kind # "unknown"
    /\ orch \in Client \union {NoClient}
    /\ process \in {"none", "alive", "exited", "reported", "finished"}
    /\ pipe \in 0 .. PipeSize
    /\ flag \in BOOLEAN /\ sighup \in {"polling", "waiting", "answered"}
    /\ unheard \in BOOLEAN
    /\ failed \subseteq Client

-----------------------------------------------------------------------------
EndsCommand(c) == user[c].pc = "reading" /\ user'[c].pc # "reading"

(* A client takes for the end of a command only the answer to that command, *)
(* although nothing in an answer says to which command it belongs, a        *)
(* stream is written by a thread of its own, and inputs travel between the  *)
(* commands: that rests on "While streaming do not send any response"       *)
(* (orchestrate.rs:292 and 301).  An input that fails is answered all the   *)
(* same, and is excepted; the run answers_shift shows why.                  *)
AnswersMatchUnlessFailed ==
    [][\A c \in Client :
          EndsCommand(c) /\ c \notin failed
              => Head(down[c]).of = user[c].id]_vars

(* The same of every command ("Return true when the response is a streaming *)
(* message and false for any other message", connection.rs:44: any other    *)
(* message is taken for the end of the command).                            *)
AnswersMatch ==
    [][\A c \in Client :
          EndsCommand(c) => Head(down[c]).of = user[c].id]_vars

-----------------------------------------------------------------------------
(* The orchestrator waits for a process that does not read (jobs.rs:398). *)
Blocked == orch # NoClient /\ process = "alive" /\ pipe = PipeSize

(* The client waits, and not for the end of a process or a detach. *)
Due(c) ==
    \/ user[c].pc = "joining"
    \/ /\ user[c].pc = "reading"
       /\ KindOf(c) = "attach" => stream[user[c].id] \notin {"none", "open"}

(* The prompt comes back: every command is answered, an attach when it is   *)
(* refused or its stream ends, and the thread that forwards stdin is joined *)
(* (connection.rs:132-141); unless the orchestrator waits for ever for a    *)
(* process that does not read its stdin.                                    *)
PromptReturns ==
    \/ <>[]Blocked
    \/ \A c \in Client : Due(c) ~> user[c].pc = "prompt"

(* A SIGHUP is followed by a reload that reads the service files as they    *)
(* were when it came, or later, although the flag forgets how many came and *)
(* one may come while a reload is under way (main.rs:57).                   *)
SignalsAreHeard ==
    \/ <>[]Blocked
    \/ unheard ~> ~unheard
=============================================================================
