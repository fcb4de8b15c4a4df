------------------------ MODULE ConnectionsProofs ------------------------
(***************************************************************************)
(* Proofs about commands and their answers, for every set of clients and   *)
(* every bound.                                                            *)
(***************************************************************************)
EXTENDS ConnectionsProperties, SequenceTheorems, TLAPS

LEMMA MessageHead ==
    ASSUME NEW S, NEW s \in Seq(S), s # <<>>
    PROVE  /\ Head(s) \in S /\ Tail(s) \in Seq(S)
           /\ 1 \in DOMAIN s /\ Head(s) = s[1]
           /\ Len(Tail(s)) = Len(s) - 1
           /\ \A i \in DOMAIN Tail(s) :
                 i + 1 \in DOMAIN s /\ Tail(s)[i] = s[i + 1]
           /\ \A i \in DOMAIN s :
                 i = 1 \/ (i - 1 \in DOMAIN Tail(s) /\ Tail(s)[i - 1] = s[i])
  BY HeadTailProperties

LEMMA AppendElements ==
    ASSUME NEW S, NEW s \in Seq(S), NEW e \in S
    PROVE  /\ Append(s, e) \in Seq(S)
           /\ Len(Append(s, e)) = Len(s) + 1
           /\ Append(s, e)[Len(s) + 1] = e
           /\ \A i \in DOMAIN s : i \in DOMAIN Append(s, e) /\ Append(s, e)[i] = s[i]
           /\ \A i \in DOMAIN Append(s, e) :
                 \/ i \in DOMAIN s /\ Append(s, e)[i] = s[i]
                 \/ i = Len(s) + 1 /\ Append(s, e)[i] = e
  BY AppendProperties

LEMMA MessageTypes ==
    /\ \A c \in Client, k \in Kind \union {"input"}, n \in Id \union {NoId} :
          Request(c, k, n) \in Message
    /\ Request(Main, "start", NoId) \in Message
    /\ Request(Sighup, "reload", NoId) \in Message
    /\ Request(Watcher, "finished", NoId) \in Message
    /\ \A n \in Id : Streamed(n) \in Part
    /\ \A n \in Id \union {NoId} : Final(n) \in Part
  BY DEF Request, Message, Streamed, Final, Part

LEMMA HandlerTypes ==
    /\ Free \in Handler /\ Waiting \in Handler
    /\ \A n \in Id \union {NoId} : Answered(n) \in Handler
    /\ \A h \in Handler : h.pc = "answered" => h.id \in Id \union {NoId}
  BY DEF Free, Waiting, Answered, Handler

LEMMA MessageShape ==
    ASSUME NEW m \in Message
    PROVE  /\ m.id \in Id \union {NoId}
           /\ m.kind \in Kind \union {"input"} => m.from \in Client
                 \/ m = Request(Main, "start", NoId)
           /\ m.kind \in {"input", "attach", "detach", "unknown"}
                 => m.from \in Client
  BY DEF Message, Request, Kind

LEMMA NewCommand ==
    ASSUME TypeOK, NEW c \in Client, NEW kind \in Kind, SendCommand(c, kind)
    PROVE  /\ Len(commands) + 1 \in Id
           /\ commands' \in Seq([client : Client, kind : Kind])
           /\ Len(commands') <= MaxCommands
           /\ DOMAIN commands' = DOMAIN commands \union {Len(commands) + 1}
           /\ \A n \in DOMAIN commands : commands'[n] = commands[n]
           /\ commands'[Len(commands) + 1] = [client |-> c, kind |-> kind]
  <1>1. [client |-> c, kind |-> kind] \in [client : Client, kind : Kind]
    OBVIOUS
  <1>2. commands \in Seq([client : Client, kind : Kind]) /\ MaxCommands \in Nat
    BY ConnectionsAssumption DEF TypeOK
  <1>3. commands' = Append(commands, [client |-> c, kind |-> kind])
        /\ Len(commands) < MaxCommands
    BY DEF SendCommand
  <1> QED BY <1>1, <1>2, <1>3, AppendProperties DEF Id

-----------------------------------------------------------------------------
(* The variables keep their types. *)
LEMMA TypeStep ==
    ASSUME TypeOK, [Next]_vars
    PROVE  TypeOK'
  <1> USE DEF TypeOK, NoAction
  <1> DEFINE Sendable(m) ==
               /\ Append(queue, m) \in Seq(Message)
               /\ \A i \in DOMAIN Append(queue, m) : Append(queue, m)[i].kind # "unknown"
  <1>1. CASE UNCHANGED vars
    BY <1>1 DEF vars
  <1>2. ASSUME NEW c \in Client, NEW kind \in Kind, SendCommand(c, kind)
        PROVE  TypeOK'
    <2>1. Request(c, kind, Len(commands) + 1) \in Message
      BY <1>2, NewCommand, MessageTypes
    <2> DEFINE m == Request(c, kind, Len(commands) + 1)
    <2>2. Append(up[c], m) \in Seq(Message)
      BY <2>1, AppendElements
    <2>3. up' = [up EXCEPT ![c] = Append(up[c], m)]
      BY <1>2 DEF SendCommand
    <2>4. up' \in [Client -> Seq(Message)]
      BY <2>2, <2>3
    <2>5. [pc |-> "reading", id |-> Len(commands) + 1] \in User
      BY <1>2, NewCommand DEF User
    <2>6. user' \in [Client -> User]
      BY <1>2, <2>5 DEF SendCommand
    <2>7. typing' \in [Client -> {"off", "check", "read"}]
      BY <1>2 DEF SendCommand
    <2> QED
      BY <1>2, <2>4, <2>6, <2>7, NewCommand DEF SendCommand, jobVars, signalVars
  <1>3. ASSUME NEW c \in Client, LineLoop(c)
        PROVE  TypeOK'
    <2>1. CASE ReadResponse(c)
      <3>1. Tail(down[c]) \in Seq(Part)
        BY <2>1, MessageHead DEF ReadResponse
      <3>2. \A pc \in {"prompt", "joining"} :
               [user[c] EXCEPT !.pc = pc] \in User
        BY DEF User
      <3>3. user' \in [Client -> User]
        BY <2>1, <3>2 DEF ReadResponse
      <3> QED BY <2>1, <3>1, <3>3 DEF ReadResponse, jobVars, signalVars
    <2>2. CASE Join(c)
      <3>1. [user[c] EXCEPT !.pc = "prompt"] \in User
        BY ZenonT(60) DEF User
      <3>2. user' \in [Client -> User]
        BY <2>2, <3>1 DEF Join
      <3> QED BY <2>2, <3>2 DEF Join, jobVars, signalVars
    <2> QED BY <1>3, <2>1, <2>2 DEF LineLoop
  <1>4. ASSUME NEW c \in Client, Typing(c)
        PROVE  TypeOK'
    BY <1>4, ZenonT(60) DEF Typing, CheckStop, ReadNothing, ReadEof, jobVars, signalVars
  <1>5. ASSUME NEW c \in Client, ReadInput(c)
        PROVE  TypeOK'
    <2>1. Append(up[c], Request(c, "input", NoId)) \in Seq(Message)
      BY MessageTypes, AppendElements
    <2> QED BY <1>5, <2>1 DEF ReadInput, jobVars, signalVars
  <1>6. ASSUME NEW c \in Client, Connection(c)
        PROVE  TypeOK'
    <2>1. CASE ProcessRequest(c)
      <3> DEFINE req == Head(up[c])
      <3>1. req \in Message /\ Tail(up[c]) \in Seq(Message)
        BY <2>1, MessageHead DEF ProcessRequest
      <3>2. Append(queue, req) \in Seq(Message)
        BY <3>1, AppendElements
      <3>3. Append(down[c], Final(req.id)) \in Seq(Part)
        <4>1. Final(req.id) \in Part
          BY <3>1, MessageTypes, MessageShape
        <4> QED BY <4>1, AppendElements
      <3>4. handler' \in [Client -> Handler]
        BY <2>1, HandlerTypes DEF ProcessRequest
      <3>5. up' \in [Client -> Seq(Message)]
        BY <2>1, <3>1 DEF ProcessRequest
      <3>6. down' \in [Client -> Seq(Part)]
        BY <2>1, <3>3 DEF ProcessRequest
      <3>7. /\ queue' \in Seq(Message)
            /\ \A i \in DOMAIN queue' : queue'[i].kind # "unknown"
        <4>1. CASE NoAction(req)
          BY <2>1, <4>1 DEF ProcessRequest
        <4>2. CASE ~NoAction(req)
          <5>1. queue' = Append(queue, req)
            BY <2>1, <4>2 DEF ProcessRequest
          <5> QED BY <3>1, <3>2, <4>2, <5>1, AppendElements
        <4> QED BY <4>1, <4>2
      <3> QED
        BY <2>1, <3>4, <3>5, <3>6, <3>7
        DEF ProcessRequest, clientVars, jobVars, signalVars
    <2>2. CASE WriteResponse(c)
      <3>1. Append(down[c], Final(handler[c].id)) \in Seq(Part)
        <4>1. Final(handler[c].id) \in Part
          BY <2>2, MessageTypes, HandlerTypes DEF WriteResponse
        <4> QED BY <4>1, AppendElements
      <3> QED
        BY <2>2, <3>1, HandlerTypes
        DEF WriteResponse, clientVars, jobVars, signalVars
    <2> QED BY <1>6, <2>1, <2>2 DEF Connection
  <1>7. ASSUME NEW n \in Id, WritePart(n)
        PROVE  TypeOK'
    <2>1. Head(outbox[n]) \in Part /\ Tail(outbox[n]) \in Seq(Part)
      BY <1>7, MessageHead DEF WritePart
    <2>2. \A c \in Client : Append(down[c], Head(outbox[n])) \in Seq(Part)
      BY <2>1, AppendElements
    <2> QED BY <1>7, <2>1, <2>2 DEF WritePart, clientVars, jobVars, signalVars
  <1>8. ASSUME NEW n \in Id, Output(n)
        PROVE  TypeOK'
    <2>1. Append(outbox[n], Streamed(n)) \in Seq(Part)
      BY MessageTypes, AppendElements
    <2> QED BY <1>8, <2>1 DEF Output, clientVars, jobVars, signalVars
  <1>9. ASSUME NEW n \in Id, Forwarder(n)
        PROVE  TypeOK'
    <2>1. Append(outbox[n], Final(n)) \in Seq(Part)
      BY MessageTypes, AppendElements
    <2> QED
      BY <1>9, <2>1, ZenonT(60)
      DEF Forwarder, EndOfStream, StopOwn, Stopped, Open, clientVars, jobVars,
          signalVars
  <1>10. CASE ReadStdin \/ Exit
    BY <1>10, ConnectionsAssumption, SMTT(30) DEF ReadStdin, Exit, clientVars, signalVars
  <1>11. CASE Report
    <2>1. Sendable(Request(Watcher, "finished", NoId))
      BY MessageTypes, AppendElements DEF Request
    <2> QED BY <1>11, <2>1 DEF Report, clientVars, signalVars
  <1>12. CASE DetachByOther
    BY <1>12 DEF DetachByOther, Stopped, Open, clientVars, jobVars, signalVars
  <1>13. CASE Orchestrator
    <2>1. ASSUME NEW kind, Receive(kind)
          PROVE  /\ queue' \in Seq(Message) /\ Head(queue) \in Message
                 /\ \A i \in DOMAIN queue' : queue'[i].kind # "unknown"
                 /\ Head(queue).id \in Id \union {NoId}
      <3>1. queue # <<>> /\ queue' = Tail(queue)
        BY <2>1 DEF Receive
      <3> QED BY <3>1, MessageHead, MessageShape
    <2>2. ASSUME NEW c, NEW n \in Id \union {NoId}, Respond(c, n)
          PROVE  handler' \in [Client -> Handler]
      BY <2>2, HandlerTypes DEF Respond
    <2>3. CASE HandleDetach
      <3>1. Receive("detach") /\ Respond(Requester, Head(queue).id)
        BY <2>3 DEF HandleDetach
      <3> QED BY <2>3, <3>1, <2>1, <2>2
            DEF HandleDetach, Stopped, Open, clientVars, jobVars, signalVars
    <2>4. CASE HandleStart
      <3>1. Receive("start") /\ Head(queue).id \in Id \union {NoId}
        BY <2>4, <2>1 DEF HandleStart
      <3>2. handler' \in [Client -> Handler]
        BY <2>4, <3>1, <2>2 DEF HandleStart
      <3>3. process' \in {"none", "alive", "exited", "reported", "finished"}
            /\ pipe' \in 0 .. PipeSize
        BY <2>4, ConnectionsAssumption DEF HandleStart, Spawn, jobVars
      <3>4. main' \in {"starting", "waiting", "started", "serving", "down"}
        BY <2>4 DEF HandleStart
      <3> QED BY <2>4, <3>1, <3>2, <3>3, <3>4, <2>1
            DEF HandleStart, clientVars, signalVars
    <2>5. CASE HandleAttach
      <3>1. Receive("attach") /\ Head(queue).id \in Id \union {NoId}
        BY <2>5, <2>1 DEF HandleAttach
      <3> DEFINE n == Head(queue).id
      <3>2. \A k \in Id : Append(outbox[k], Final(n)) \in Seq(Part)
        BY <3>1, MessageTypes, AppendElements
      <3>3. outbox' \in [Id -> Seq(Part)]
        <4>1. CASE outbox' = outbox
          BY <4>1
        <4>2. CASE outbox' = [outbox EXCEPT ![n] = Append(outbox[n], Final(n))]
          <5>1. \A k \in Id :
                   outbox'[k] = outbox[k] \/ outbox'[k] = Append(outbox[k], Final(n))
            BY <4>2
          <5>2. \A k \in Id : outbox'[k] \in Seq(Part)
            BY <5>1, <3>2
          <5> QED BY <4>2, <5>2
        <4> QED BY <2>5, <4>1, <4>2 DEF HandleAttach
      <3>4. stream' \in [Id -> {"none", "open", "refused", "released",
                                "stopping", "done"}]
        <4>1. \/ stream' = [stream EXCEPT ![n] = "open"]
              \/ stream' = [stream EXCEPT ![n] = "refused"]
          BY <2>5 DEF HandleAttach
        <4> QED BY <4>1
      <3> QED BY <2>5, <3>1, <3>3, <3>4, <2>1
            DEF HandleAttach, clientVars, jobVars, signalVars
    <2>6. CASE HandleInput
      <3>1. Receive("input")
        BY <2>6 DEF HandleInput
      <3>2. Requester \in Client
        BY <3>1, <2>1, MessageShape DEF Receive, Requester
      <3>3. orch' \in Client \union {NoClient}
            /\ handler' \in [Client -> Handler]
        BY <2>6, <3>2, HandlerTypes DEF HandleInput
      <3> QED BY <2>6, <3>1, <3>3, <2>1
            DEF HandleInput, clientVars, jobVars, signalVars
    <2>7. CASE WriteStdin
      BY <2>7, HandlerTypes, ConnectionsAssumption
      DEF WriteStdin, Room, InputDone, clientVars, signalVars
    <2>8. CASE WriteStdinFails
      <3>1. Respond(orch, NoId) /\ orch \in Client
        BY <2>8 DEF WriteStdinFails
      <3> QED BY <2>8, <3>1, <2>2
            DEF WriteStdinFails, clientVars, jobVars, signalVars
    <2>9. CASE HandleFinished
      <3>1. Receive("finished")
        BY <2>9 DEF HandleFinished
      <3>2. process' \in {"none", "alive", "exited", "reported", "finished"}
            /\ pipe' \in 0 .. PipeSize
        BY <2>9, ConnectionsAssumption DEF HandleFinished, Spawn
      <3> QED BY <2>9, <3>1, <3>2, <2>1
            DEF HandleFinished, Stopped, Open, clientVars, signalVars
    <2>10. CASE HandleReload
      <3>1. Receive("reload")
        BY <2>10 DEF HandleReload
      <3> QED BY <2>10, <3>1, <2>1 DEF HandleReload, clientVars, jobVars
    <2> QED BY <1>13, <2>3, <2>4, <2>5, <2>6, <2>7, <2>8, <2>9, <2>10
          DEF Orchestrator
  <1>14. CASE StartUp
    <2>1. Sendable(Request(Main, "start", NoId))
      BY MessageTypes, AppendElements DEF Request
    <2> QED BY <1>14, <2>1 DEF StartUp, clientVars, jobVars, signalVars
  <1>15. CASE Listen \/ Signal \/ PollAgain
    BY <1>15 DEF Listen, Signal, PollAgain, clientVars, jobVars, signalVars
  <1>16. CASE SendReload
    <2>1. Sendable(Request(Sighup, "reload", NoId))
      BY MessageTypes, AppendElements DEF Request
    <2> QED BY <1>16, <2>1 DEF SendReload, clientVars, jobVars
  <1> QED
    BY <1>1, <1>2, <1>3, <1>4, <1>5, <1>6, <1>7, <1>8, <1>9, <1>10, <1>11,
       <1>12, <1>13, <1>14, <1>15, <1>16
    DEF Next

LEMMA TypeInit == Init => TypeOK
  <1> SUFFICES ASSUME Init PROVE TypeOK
    OBVIOUS
  <1>1. \A S : <<>> \in Seq(S) /\ Len(<<>>) = 0
    OBVIOUS
  <1>2. commands \in Seq([client : Client, kind : Kind]) /\ Len(commands) <= MaxCommands
    BY <1>1, ConnectionsAssumption DEF Init
  <1>3. user \in [Client -> User]
    BY DEF Init, User
  <1>4. /\ up \in [Client -> Seq(Message)] /\ down \in [Client -> Seq(Part)]
        /\ outbox \in [Id -> Seq(Part)] /\ queue \in Seq(Message)
    BY <1>1 DEF Init
  <1>5. handler \in [Client -> Handler]
    BY HandlerTypes DEF Init
  <1>6. pipe \in 0 .. PipeSize
    BY ConnectionsAssumption DEF Init
  <1>7. \A i \in DOMAIN queue : queue[i].kind # "unknown"
    BY DEF Init
  <1> QED
    BY <1>7, <1>2, <1>3, <1>4, <1>5, <1>6 DEF Init, TypeOK

(* The queues, the sockets and what the threads keep of them have their     *)
(* types (connection.rs, main.rs), and the stdin of the process its bound.  *)
THEOREM TypeCorrect == Spec => []TypeOK
  BY TypeInit, TypeStep, PTL DEF Spec

-----------------------------------------------------------------------------
(* The positions in s of the commands of c. *)
Commands(s, c) == {i \in DOMAIN s : s[i].from = c /\ s[i].kind # "input"}

(* No command of c but n is in s, and n once. *)
OnlyCommand(s, c, n) ==
    \A i, j \in Commands(s, c) : s[i].id = n /\ i = j

NoFinal(parts) == \A i \in DOMAIN parts : parts[i].kind = "Stream"

(* The parts are of the answer to n, its end is the last. *)
OnlyAnswer(parts, n) ==
    \A i \in DOMAIN parts :
        parts[i].of = n /\ (parts[i].kind = "Final" => i = Len(parts))

Owned(c) == {n \in Id : n \in DOMAIN commands /\ commands[n].client = c}

(* Where the command a client is in, or its answer, can be. *)
Sent(c) == Commands(up[c], c) # {}
Queued(c) == Commands(queue, c) # {}
Ready(c) == handler[c].pc = "answered"
Streaming(c) == \E n \in Owned(c) : stream[n] \in {"open", "released"}
Boxed(c) == \E n \in Owned(c) : outbox[n] # <<>>
Arriving(c) == down[c] # <<>>

(* It is in one place; only the parts of a stream are in several. *)
Staged(c) ==
    /\ Sent(c) => ~Queued(c)
    /\ Sent(c) \/ Queued(c) => ~Ready(c)
    /\ Sent(c) \/ Queued(c) \/ Ready(c)
          => ~Streaming(c) /\ ~Boxed(c) /\ ~Arriving(c)
    /\ Streaming(c) =>
          NoFinal(down[c]) /\ \A n \in Owned(c) : NoFinal(outbox[n])
    /\ ~NoFinal(down[c]) => ~Boxed(c)

(* It is nowhere unless the client reads. *)
Quiet(c) ==
    user[c].pc # "reading" =>
        /\ ~Sent(c) /\ ~Queued(c) /\ ~Ready(c)
        /\ ~Streaming(c) /\ ~Boxed(c) /\ ~Arriving(c)

(* And there is no other. *)
OfCommand(c) ==
    LET n == user[c].id IN
    /\ OnlyCommand(up[c], c, n) /\ OnlyCommand(queue, c, n)
    /\ Ready(c) => handler[c].id = n
    /\ \A k \in Owned(c) : OnlyAnswer(outbox[k], k)
    /\ \A k \in Owned(c) \ {n} :
          stream[k] \notin {"open", "released"} /\ outbox[k] = <<>>
    /\ OnlyAnswer(down[c], n)

Matched(c) == Staged(c) /\ Quiet(c) /\ OfCommand(c)

(* Requests are of commands that were sent, and so are their streams. *)
RequestsOwned(s) ==
    \A i \in DOMAIN s :
        s[i].from \in Client /\ s[i].kind # "input" => s[i].id \in Owned(s[i].from)

QueueOwned == RequestsOwned(queue)
UpOwned ==
    \A c \in Client :
        RequestsOwned(up[c]) /\ \A i \in DOMAIN up[c] : up[c][i].from = c
BoxesOwned ==
    \A n \in Id :
        /\ \A i \in DOMAIN outbox[n] : outbox[n][i].of = n
        /\ n \notin DOMAIN commands => stream[n] = "none" /\ outbox[n] = <<>>

AnswersOwned == QueueOwned /\ UpOwned /\ BoxesOwned

Answering == AnswersOwned /\ \A c \in Client \ failed : Matched(c)

-----------------------------------------------------------------------------
(* What the ends of a channel do to the commands in it. *)

LEMMA AppendOther ==
    ASSUME NEW s \in Seq(Message), NEW m \in Message, NEW c, NEW n,
           m.from # c \/ m.kind = "input"
    PROVE  /\ Commands(Append(s, m), c) = Commands(s, c)
           /\ OnlyCommand(s, c, n) => OnlyCommand(Append(s, m), c, n)
  BY AppendElements DEF Commands, OnlyCommand

LEMMA AppendCommand ==
    ASSUME NEW s \in Seq(Message), NEW m \in Message, NEW c, NEW n,
           Commands(s, c) = {}, m.kind # "input" => m.id = n
    PROVE  OnlyCommand(Append(s, m), c, n)
  BY AppendElements DEF Commands, OnlyCommand

LEMMA TailCommands ==
    ASSUME NEW s \in Seq(Message), s # <<>>, NEW c, NEW n
    PROVE  /\ Commands(s, c) = {} => Commands(Tail(s), c) = {}
           /\ Head(s).from # c \/ Head(s).kind = "input" =>
                 (Commands(Tail(s), c) = {} => Commands(s, c) = {})
           /\ OnlyCommand(s, c, n) => OnlyCommand(Tail(s), c, n)
  <1>1. \A i \in Commands(Tail(s), c) :
           i + 1 \in Commands(s, c) /\ Tail(s)[i] = s[i + 1]
    BY MessageHead DEF Commands
  <1>2. \A i \in Commands(s, c) : i = 1 \/ i - 1 \in Commands(Tail(s), c)
    BY MessageHead DEF Commands
  <1>3. Commands(s, c) = {} => Commands(Tail(s), c) = {}
    BY <1>1
  <1>4. Head(s).from # c \/ Head(s).kind = "input" => 1 \notin Commands(s, c)
    BY MessageHead DEF Commands
  <1>5. OnlyCommand(s, c, n) => OnlyCommand(Tail(s), c, n)
    BY <1>1 DEF OnlyCommand, Commands
  <1> QED BY <1>2, <1>3, <1>4, <1>5

LEMMA HeadCommand ==
    ASSUME NEW s \in Seq(Message), s # <<>>, NEW c, NEW n,
           OnlyCommand(s, c, n), Head(s).from = c, Head(s).kind # "input"
    PROVE  Commands(s, c) # {} /\ Head(s).id = n /\ Commands(Tail(s), c) = {}
  BY MessageHead DEF Commands, OnlyCommand

LEMMA AppendPart ==
    ASSUME NEW parts \in Seq(Part), NEW p \in Part
    PROVE  /\ Append(parts, p) # <<>>
           /\ NoFinal(parts) /\ p.kind = "Stream" => NoFinal(Append(parts, p))
           /\ \A n : NoFinal(parts) /\ OnlyAnswer(parts, n) /\ p.of = n
                 => OnlyAnswer(Append(parts, p), n)
  BY AppendElements DEF NoFinal, OnlyAnswer, Part

LEMMA TailParts ==
    ASSUME NEW parts \in Seq(Part), parts # <<>>, NEW n, OnlyAnswer(parts, n)
    PROVE  /\ Head(parts) \in Part /\ Tail(parts) \in Seq(Part)
           /\ Head(parts).of = n
           /\ OnlyAnswer(Tail(parts), n)
           /\ NoFinal(parts) => NoFinal(Tail(parts))
                                /\ Head(parts).kind = "Stream"
           /\ Head(parts).kind = "Final" => Tail(parts) = <<>>
           /\ Head(parts).kind = "Stream" /\ NoFinal(Tail(parts))
                 => NoFinal(parts)
  <1>1. /\ Head(parts) \in Part /\ Tail(parts) \in Seq(Part)
        /\ 1 \in DOMAIN parts /\ Head(parts) = parts[1]
        /\ Len(Tail(parts)) = Len(parts) - 1
        /\ \A i \in DOMAIN Tail(parts) :
              i + 1 \in DOMAIN parts /\ Tail(parts)[i] = parts[i + 1]
        /\ \A i \in DOMAIN parts :
              i = 1 \/ (i - 1 \in DOMAIN Tail(parts)
                           /\ Tail(parts)[i - 1] = parts[i])
    BY MessageHead
  <1>2. Head(parts).of = n
    BY <1>1 DEF OnlyAnswer
  <1>3. OnlyAnswer(Tail(parts), n)
    BY <1>1 DEF OnlyAnswer
  <1>4. NoFinal(parts) => NoFinal(Tail(parts)) /\ Head(parts).kind = "Stream"
    BY <1>1 DEF NoFinal
  <1>5. Head(parts).kind = "Final" => Tail(parts) = <<>>
    BY <1>1 DEF OnlyAnswer
  <1>6. Head(parts).kind = "Stream" /\ NoFinal(Tail(parts)) => NoFinal(parts)
    BY <1>1 DEF NoFinal
  <1> QED BY <1>1, <1>2, <1>3, <1>4, <1>5, <1>6

LEMMA EmptyParts == NoFinal(<<>>) /\ \A n : OnlyAnswer(<<>>, n)
  BY DEF NoFinal, OnlyAnswer

-----------------------------------------------------------------------------
(* Requests and streams stay those of commands that were sent. *)

LEMMA SameOwned ==
    ASSUME UNCHANGED commands
    PROVE  \A c : Owned(c)' = Owned(c)
  BY DEF Owned

LEMMA OwnedKept ==
    ASSUME TypeOK, AnswersOwned, UNCHANGED commands
    PROVE  /\ UNCHANGED queue => QueueOwned'
           /\ UNCHANGED up => UpOwned'
           /\ UNCHANGED <<stream, outbox>> => BoxesOwned'
           /\ queue # <<>> /\ queue' = Tail(queue) => QueueOwned'
  <1>1. UNCHANGED queue => QueueOwned'
    BY SameOwned DEF AnswersOwned, QueueOwned, RequestsOwned
  <1>2. UNCHANGED up => UpOwned'
    BY SameOwned DEF AnswersOwned, UpOwned, RequestsOwned
  <1>3. UNCHANGED <<stream, outbox>> => BoxesOwned'
    BY DEF AnswersOwned, BoxesOwned
  <1>4. ASSUME queue # <<>>, queue' = Tail(queue)
        PROVE  QueueOwned'
    BY <1>4, SameOwned, MessageHead
    DEF AnswersOwned, QueueOwned, RequestsOwned, TypeOK
  <1> QED BY <1>1, <1>2, <1>3, <1>4

LEMMA OwnedQueued ==
    ASSUME TypeOK, AnswersOwned, UNCHANGED commands, NEW m \in Message,
           queue' = Append(queue, m),
           m.from \in Client /\ m.kind # "input" => m.id \in Owned(m.from)
    PROVE  QueueOwned'
  BY SameOwned, AppendElements DEF AnswersOwned, QueueOwned, RequestsOwned, TypeOK

LEMMA OwnedReceived ==
    ASSUME TypeOK, AnswersOwned, UNCHANGED <<commands, up>>,
           NEW kind, Receive(kind), BoxesOwned'
    PROVE  AnswersOwned'
  BY OwnedKept DEF AnswersOwned, Receive

LEMMA OwnedStreams ==
    ASSUME TypeOK, AnswersOwned, UNCHANGED <<commands, outbox>>,
           \A k \in Id : k \notin DOMAIN commands => stream'[k] = "none"
    PROVE  BoxesOwned'
  BY DEF AnswersOwned, BoxesOwned

LEMMA StoppedOwned ==
    ASSUME TypeOK, AnswersOwned
    PROVE  /\ \A k \in Id : k \notin DOMAIN commands => Stopped[k] = "none"
           /\ Stopped \in [Id -> {"none", "open", "refused", "released",
                                  "stopping", "done"}]
           /\ \A k \in Id : Stopped[k] \in {"open", "released"}
                  <=> stream[k] \in {"open", "released"}
  BY DEF AnswersOwned, BoxesOwned, Stopped, Open, TypeOK

LEMMA OwnedBoxed ==
    ASSUME TypeOK, AnswersOwned, UNCHANGED commands, NEW n \in Id,
           n \in DOMAIN commands, NEW p \in Part, p.of = n,
           outbox' = [outbox EXCEPT ![n] = Append(outbox[n], p)],
           \A k \in Id : k \notin DOMAIN commands => stream'[k] = "none"
    PROVE  BoxesOwned'
  <1>1. outbox[n] \in Seq(Part) /\ outbox'[n] = Append(outbox[n], p)
    BY DEF TypeOK
  <1>2. \A i \in DOMAIN outbox'[n] : outbox'[n][i].of = n
    BY <1>1, AppendElements DEF AnswersOwned, BoxesOwned
  <1>3. \A k \in Id \ {n} : outbox'[k] = outbox[k]
    BY DEF TypeOK
  <1> QED BY <1>2, <1>3 DEF AnswersOwned, BoxesOwned

(* A client's commands are those it was the owner of, and the new one. *)
LEMMA NewOwned ==
    ASSUME TypeOK, NEW c \in Client, NEW kind \in Kind, SendCommand(c, kind)
    PROVE  /\ Owned(c)' = Owned(c) \union {Len(commands) + 1}
           /\ \A d \in Client \ {c} : Owned(d)' = Owned(d)
           /\ Len(commands) + 1 \notin DOMAIN commands
  <1>1. Len(commands) + 1 \notin DOMAIN commands
    BY DEF TypeOK
  <1> DEFINE n == Len(commands) + 1
  <1>2. n \in Id
    BY NewCommand
  <1>3. \A k : k \in DOMAIN commands' <=> k \in DOMAIN commands \/ k = n
    BY NewCommand
  <1>4. \A k \in DOMAIN commands : commands'[k] = commands[k]
    BY NewCommand
  <1>5. commands'[n] = [client |-> c, kind |-> kind]
    BY NewCommand
  <1>6. commands'[n].client = c
    BY <1>5
  <1>7. ASSUME NEW d, NEW k
        PROVE  k \in Owned(d)' <=> k \in Owned(d) \/ (k = n /\ d = c)
    <2>1. CASE k = n
      BY <2>1, <1>1, <1>2, <1>3, <1>6 DEF Owned
    <2>2. CASE k # n
      BY <2>2, <1>3, <1>4 DEF Owned
    <2> QED BY <2>1, <2>2
  <1>8. Owned(c)' = Owned(c) \union {n}
    BY <1>7
  <1>9. ASSUME NEW d \in Client \ {c}
        PROVE  Owned(d)' = Owned(d)
    <2>1. \A k : k \in Owned(d)' <=> k \in Owned(d)
      BY <1>7
    <2> QED BY <2>1
  <1> QED BY <1>1, <1>8, <1>9

LEMMA OwnedSent ==
    ASSUME TypeOK, AnswersOwned, NEW c \in Client, NEW kind \in Kind,
           SendCommand(c, kind)
    PROVE  AnswersOwned'
  <1> DEFINE n == Len(commands) + 1
             m == Request(c, kind, n)
  <1>1. \A d \in Client : Owned(d) \subseteq Owned(d)'
    BY NewOwned
  <1>2. QueueOwned'
    BY <1>1 DEF SendCommand, AnswersOwned, QueueOwned, RequestsOwned
  <1>3. BoxesOwned'
    BY NewCommand
    DEF SendCommand, AnswersOwned, BoxesOwned
  <1>4. UpOwned'
    <2>1. m \in Message /\ m.from = c /\ m.id = n /\ n \in Owned(c)'
      BY NewCommand, NewOwned, MessageTypes DEF Request
    <2>2. up[c] \in Seq(Message) /\ up' = [up EXCEPT ![c] = Append(up[c], m)]
      BY DEF SendCommand, TypeOK
    <2>3. \A d \in Client \ {c} : up'[d] = up[d]
      BY <2>2 DEF TypeOK
    <2>4. up'[c] = Append(up[c], m)
      BY <2>2 DEF TypeOK
    <2>5. \A i \in DOMAIN up'[c] :
             \/ i \in DOMAIN up[c] /\ up'[c][i] = up[c][i]
             \/ up'[c][i] = m
      BY <2>1, <2>2, <2>4, AppendElements
    <2> QED
      BY <1>1, <2>1, <2>3, <2>5 DEF AnswersOwned, UpOwned, RequestsOwned
  <1> QED BY <1>2, <1>3, <1>4 DEF AnswersOwned

(* What is known of a request that the orchestrator takes. *)
LEMMA ReceivedShape ==
    ASSUME TypeOK, AnswersOwned, NEW kind, Receive(kind)
    PROVE  /\ queue # <<>> /\ queue' = Tail(queue) /\ queue \in Seq(Message)
           /\ Head(queue) \in Message /\ Head(queue).kind = kind
           /\ Requester \in Client /\ kind # "input"
                 => Head(queue).id \in Owned(Requester)
           /\ kind \in {"input", "attach", "detach", "unknown"}
                 => Requester \in Client
           /\ kind = "start" => Requester \in Client \/ Requester = Main
           /\ kind \in {"finished", "reload"} => Requester \notin Client
  <1>1. queue # <<>> /\ queue' = Tail(queue) /\ queue \in Seq(Message)
        /\ Head(queue).kind = kind
    BY DEF Receive, TypeOK
  <1>2. Head(queue) \in Message /\ 1 \in DOMAIN queue /\ Head(queue) = queue[1]
    BY <1>1, MessageHead
  <1>3. Requester \in Client /\ kind # "input" => Head(queue).id \in Owned(Requester)
    BY <1>1, <1>2 DEF AnswersOwned, QueueOwned, RequestsOwned, Requester
  <1>4. kind \in {"input", "attach", "detach", "unknown"} => Requester \in Client
    BY <1>1, <1>2, MessageShape DEF Requester
  <1>5. /\ kind = "start" => Requester \in Client \/ Requester = Main
        /\ kind \in {"finished", "reload"} => Requester \notin Client
    BY <1>1, <1>2, ConnectionsAssumption DEF Message, Request, Requester, Kind
  <1> QED BY <1>1, <1>2, <1>3, <1>4, <1>5

LEMMA OwnedStep ==
    ASSUME TypeOK, AnswersOwned, [Next]_vars
    PROVE  AnswersOwned'
  <1> USE OwnedKept DEF AnswersOwned
  <1>1. CASE UNCHANGED vars
    BY <1>1 DEF vars
  <1>2. ASSUME NEW c \in Client, NEW kind \in Kind, SendCommand(c, kind)
        PROVE  AnswersOwned'
    BY <1>2, OwnedSent
  <1>3. ASSUME NEW c \in Client, LineLoop(c) \/ Typing(c)
        PROVE  AnswersOwned'
    BY <1>3
    DEF LineLoop, ReadResponse, Join, Typing, CheckStop, ReadNothing, ReadEof
  <1>4. ASSUME NEW c \in Client, ReadInput(c)
        PROVE  AnswersOwned'
    <2> DEFINE m == Request(c, "input", NoId)
    <2>1. m \in Message /\ m.from = c /\ m.kind = "input"
      BY MessageTypes DEF Request
    <2>2. up[c] \in Seq(Message) /\ up' = [up EXCEPT ![c] = Append(up[c], m)]
      BY <1>4 DEF ReadInput, TypeOK
    <2>3. \A d \in Client \ {c} : up'[d] = up[d]
      BY <2>2 DEF TypeOK
    <2>4. up'[c] = Append(up[c], m)
      BY <2>2 DEF TypeOK
    <2>5. \A i \in DOMAIN up'[c] :
             \/ i \in DOMAIN up[c] /\ up'[c][i] = up[c][i]
             \/ up'[c][i] = m
      BY <2>1, <2>2, <2>4, AppendElements
    <2>6. UNCHANGED <<commands, queue, stream, outbox>>
      BY <1>4 DEF ReadInput
    <2>7. UpOwned'
      BY <2>1, <2>3, <2>5, <2>6, SameOwned DEF UpOwned, RequestsOwned
    <2> QED BY <2>6, <2>7
  <1>5. ASSUME NEW c \in Client, ProcessRequest(c)
        PROVE  AnswersOwned'
    <2> DEFINE m == Head(up[c])
    <2>1. /\ up[c] \in Seq(Message) /\ up[c] # <<>>
          /\ up' = [up EXCEPT ![c] = Tail(up[c])]
          /\ queue' = queue \/ queue' = Append(queue, m)
          /\ UNCHANGED <<commands, stream, outbox>>
      BY <1>5 DEF ProcessRequest, TypeOK, clientVars
    <2>2. m \in Message /\ 1 \in DOMAIN up[c] /\ m = up[c][1]
      BY <2>1, MessageHead
    <2>3. m.from = c /\ (m.kind # "input" => m.id \in Owned(c))
      BY <2>2 DEF UpOwned, RequestsOwned
    <2>4. QueueOwned'
      BY <2>1, <2>2, <2>3, OwnedQueued
    <2>5. up'[c] = Tail(up[c]) /\ \A d \in Client \ {c} : up'[d] = up[d]
      BY <2>1 DEF TypeOK
    <2>6. \A i \in DOMAIN up'[c] : i + 1 \in DOMAIN up[c] /\ up'[c][i] = up[c][i + 1]
      <3>1. \A i \in DOMAIN Tail(up[c]) :
               i + 1 \in DOMAIN up[c] /\ Tail(up[c])[i] = up[c][i + 1]
        BY <2>1, MessageHead
      <3> QED BY <3>1, <2>5
    <2>7. UpOwned'
      BY <2>1, <2>5, <2>6, SameOwned DEF UpOwned, RequestsOwned
    <2> QED BY <2>1, <2>4, <2>7
  <1>6. ASSUME NEW c \in Client, WriteResponse(c)
        PROVE  AnswersOwned'
    BY <1>6 DEF WriteResponse, clientVars
  <1>7. ASSUME NEW n \in Id, WritePart(n)
        PROVE  AnswersOwned'
    <2>1. /\ outbox[n] # <<>> /\ outbox[n] \in Seq(Part)
          /\ outbox' = [outbox EXCEPT ![n] = Tail(outbox[n])]
          /\ UNCHANGED <<commands, up, queue, stream>>
      BY <1>7 DEF WritePart, TypeOK, clientVars
    <2>2. /\ outbox'[n] = Tail(outbox[n])
          /\ \A k \in Id \ {n} : outbox'[k] = outbox[k]
      BY <2>1 DEF TypeOK
    <2>3. \A i \in DOMAIN outbox'[n] : outbox'[n][i].of = n
      BY <2>1, <2>2, MessageHead DEF BoxesOwned
    <2>4. n \in DOMAIN commands
      BY <2>1 DEF BoxesOwned
    <2>5. BoxesOwned'
      BY <2>1, <2>2, <2>3, <2>4 DEF BoxesOwned
    <2> QED BY <2>1, <2>5
  <1>8. ASSUME NEW n \in Id, Output(n)
        PROVE  AnswersOwned'
    <2>1. n \in DOMAIN commands
      BY <1>8 DEF Output, Open, BoxesOwned
    <2>2. Streamed(n) \in Part /\ Streamed(n).of = n
      BY MessageTypes DEF Streamed
    <2>3. /\ outbox' = [outbox EXCEPT ![n] = Append(outbox[n], Streamed(n))]
          /\ UNCHANGED <<commands, up, queue, stream>>
      BY <1>8 DEF Output, clientVars
    <2>4. BoxesOwned'
      BY <2>1, <2>2, <2>3, OwnedBoxed DEF BoxesOwned
    <2> QED BY <2>3, <2>4
  <1>9. ASSUME NEW n \in Id, EndOfStream(n)
        PROVE  AnswersOwned'
    <2>1. n \in DOMAIN commands
      BY <1>9 DEF EndOfStream, BoxesOwned
    <2>2. Final(n) \in Part /\ Final(n).of = n
      BY MessageTypes DEF Final
    <2>3. /\ outbox' = [outbox EXCEPT ![n] = Append(outbox[n], Final(n))]
          /\ stream' = [stream EXCEPT ![n] = "stopping"]
          /\ UNCHANGED <<commands, up, queue>>
      BY <1>9 DEF EndOfStream, clientVars
    <2>4. \A k \in Id : k \notin DOMAIN commands => stream'[k] = "none"
      BY <2>1, <2>3 DEF BoxesOwned, TypeOK
    <2>5. BoxesOwned'
      BY <2>1, <2>2, <2>3, <2>4, OwnedBoxed
    <2> QED BY <2>3, <2>5
  <1>10. ASSUME NEW n \in Id, StopOwn(n)
         PROVE  AnswersOwned'
    <2>1. n \in DOMAIN commands
      BY <1>10 DEF StopOwn, BoxesOwned
    <2>2. stream' = [Stopped EXCEPT ![n] = "done"]
          /\ UNCHANGED <<commands, up, queue, outbox>>
      BY <1>10 DEF StopOwn, clientVars
    <2>3. \A k \in Id : k \notin DOMAIN commands => stream'[k] = "none"
      BY <2>1, <2>2, StoppedOwned
    <2> QED BY <2>2, <2>3, OwnedStreams
  <1>11. CASE ReadStdin \/ Exit \/ Listen \/ Signal \/ PollAgain
    BY <1>11 DEF ReadStdin, Exit, Listen, Signal, PollAgain, clientVars
  <1>12. CASE Report \/ StartUp \/ SendReload
    <2>1. PICK m \in {Request(Watcher, "finished", NoId), Request(Main, "start", NoId),
                      Request(Sighup, "reload", NoId)} :
             queue' = Append(queue, m)
      BY <1>12 DEF Report, StartUp, SendReload
    <2>2. UNCHANGED <<commands, up, stream, outbox>>
      BY <1>12 DEF Report, StartUp, SendReload, clientVars
    <2>3. m \in Message /\ m.from \notin Client
      BY MessageTypes, ConnectionsAssumption DEF Request
    <2> QED BY <2>1, <2>2, <2>3, OwnedQueued
  <1>13. CASE DetachByOther
    <2>1. stream' = Stopped /\ UNCHANGED <<commands, up, queue, outbox>>
      BY <1>13 DEF DetachByOther, clientVars
    <2> QED BY <2>1, StoppedOwned, OwnedStreams
  <1>14. CASE Orchestrator
    <2>1. CASE HandleDetach \/ HandleFinished
      <3>1. /\ stream' = Stopped /\ UNCHANGED <<commands, up, outbox>>
            /\ Receive("detach") \/ Receive("finished")
        BY <2>1 DEF HandleDetach, HandleFinished, clientVars
      <3>2. BoxesOwned'
        BY <3>1, StoppedOwned, OwnedStreams
      <3> QED BY <3>1, <3>2, OwnedReceived
    <2>2. CASE HandleStart \/ HandleInput \/ HandleReload
      <3>1. /\ UNCHANGED <<commands, up, stream, outbox>>
            /\ Receive("start") \/ Receive("input") \/ Receive("reload")
        BY <2>2 DEF HandleStart, HandleInput, HandleReload, clientVars
      <3> QED BY <3>1, OwnedReceived
    <2>3. CASE HandleAttach
      <3> DEFINE n == Head(queue).id
      <3>1. Receive("attach") /\ UNCHANGED <<commands, up>>
        BY <2>3 DEF HandleAttach, clientVars
      <3>2. n \in Id /\ n \in DOMAIN commands
        BY <3>1, ReceivedShape DEF Owned
      <3>3. Final(n) \in Part /\ Final(n).of = n
        BY <3>2, MessageTypes DEF Final
      <3>4. /\ \/ stream' = [stream EXCEPT ![n] = "open"]
               \/ stream' = [stream EXCEPT ![n] = "refused"]
            /\ \/ UNCHANGED outbox
               \/ outbox' = [outbox EXCEPT ![n] = Append(outbox[n], Final(n))]
        BY <2>3 DEF HandleAttach
      <3>5. \A k \in Id : k \notin DOMAIN commands => stream'[k] = "none"
        BY <3>2, <3>4 DEF BoxesOwned, TypeOK
      <3>6. BoxesOwned'
        BY <3>1, <3>2, <3>3, <3>4, <3>5, OwnedBoxed, OwnedStreams
      <3> QED BY <3>1, <3>6, OwnedReceived
    <2>4. CASE WriteStdin \/ WriteStdinFails
      BY <2>4 DEF WriteStdin, WriteStdinFails, clientVars
    <2> QED BY <1>14, <2>1, <2>2, <2>3, <2>4 DEF Orchestrator
  <1> QED
    BY <1>1, <1>2, <1>3, <1>4, <1>5, <1>6, <1>7, <1>8, <1>9, <1>10, <1>11,
       <1>12, <1>13, <1>14
    DEF Next, Connection, Forwarder

-----------------------------------------------------------------------------
(* A command and its answer stay in one place. *)

(* The step takes no command of c and no part of an answer any further,     *)
(* but may take something away.                                             *)
QueueKept(c) ==
    /\ Queued(c)' => Queued(c)
    /\ \A n : OnlyCommand(queue, c, n) => OnlyCommand(queue', c, n)

StreamsKept(c) ==
    \A n \in Owned(c) :
        stream'[n] \in {"open", "released"} => stream[n] \in {"open", "released"}

Untouched(c) ==
    /\ Owned(c)' = Owned(c)
    /\ user'[c] = user[c] /\ up'[c] = up[c] /\ down'[c] = down[c]
    /\ Ready(c)' => handler'[c] = handler[c]
    /\ \A n \in Owned(c) : outbox'[n] = outbox[n]
    /\ StreamsKept(c) /\ QueueKept(c)

LEMMA UntouchedMatched ==
    ASSUME NEW c \in Client, Matched(c), Untouched(c)
    PROVE  Matched(c)'
  <1>1. /\ Sent(c)' <=> Sent(c)
        /\ Queued(c)' => Queued(c)
        /\ Ready(c)' => Ready(c)
        /\ Streaming(c)' => Streaming(c)
        /\ Boxed(c)' <=> Boxed(c)
        /\ Arriving(c)' <=> Arriving(c)
    BY DEF Untouched, StreamsKept, QueueKept, Sent, Ready, Streaming, Boxed, Arriving
  <1>2. /\ NoFinal(down[c])' <=> NoFinal(down[c])
        /\ \A n \in Owned(c) : NoFinal(outbox'[n]) <=> NoFinal(outbox[n])
        /\ Owned(c)' = Owned(c)
    BY DEF Untouched, NoFinal
  <1>3. Staged(c)'
    BY <1>1, <1>2 DEF Matched, Staged, NoFinal
  <1>4. Quiet(c)'
    BY <1>1 DEF Matched, Quiet, Untouched
  <1>5. OfCommand(c)'
    BY DEF Matched, OfCommand, Untouched, StreamsKept, QueueKept, Ready, OnlyAnswer,
           OnlyCommand, Commands
  <1> QED BY <1>3, <1>4, <1>5 DEF Matched

LEMMA QueueSteps ==
    ASSUME TypeOK, NEW c
    PROVE  /\ UNCHANGED queue => QueueKept(c)
           /\ queue # <<>> /\ queue' = Tail(queue) => QueueKept(c)
           /\ \A m \in Message :
                 /\ m.from # c \/ m.kind = "input"
                 /\ queue' = Append(queue, m)
                 => QueueKept(c)
  <1>1. queue \in Seq(Message)
    BY DEF TypeOK
  <1>2. UNCHANGED queue => QueueKept(c)
    BY DEF QueueKept, Queued, Commands
  <1>3. ASSUME queue # <<>>, queue' = Tail(queue)
        PROVE  QueueKept(c)
    BY <1>1, <1>3, TailCommands DEF QueueKept, Queued
  <1>4. ASSUME NEW m \in Message, m.from # c \/ m.kind = "input",
               queue' = Append(queue, m)
        PROVE  QueueKept(c)
    BY <1>1, <1>4, AppendOther DEF QueueKept, Queued
  <1> QED BY <1>2, <1>3, <1>4

Nowhere(c) ==
    /\ ~Sent(c) /\ ~Queued(c) /\ ~Ready(c)
    /\ ~Streaming(c) /\ ~Boxed(c) /\ ~Arriving(c)

LEMMA SentMatched ==
    ASSUME TypeOK, AnswersOwned, NEW c \in Client, Matched(c),
           NEW kind \in Kind, SendCommand(c, kind)
    PROVE  Matched(c)'
  <1> DEFINE n == Len(commands) + 1
             m == Request(c, kind, n)
  <1>1. Nowhere(c)
    BY DEF SendCommand, Matched, Quiet, Nowhere
  <1>2. /\ up' = [up EXCEPT ![c] = Append(up[c], m)]
        /\ user' = [user EXCEPT ![c] = [pc |-> "reading", id |-> n]]
        /\ UNCHANGED <<down, handler, outbox, stream, queue>>
    BY DEF SendCommand
  <1>3. up[c] \in Seq(Message) /\ m \in Message /\ m.id = n
    BY NewCommand, MessageTypes DEF TypeOK, Request
  <1>4. up'[c] = Append(up[c], m) /\ user'[c].id = n /\ user'[c].pc = "reading"
    BY <1>2 DEF TypeOK
  <1>5. OnlyCommand(up'[c], c, n)
    BY <1>1, <1>3, <1>4, AppendCommand DEF Nowhere, Sent
  <1>6. \A k \in Owned(c)' : stream[k] \notin {"open", "released"} /\ outbox[k] = <<>>
    <2>1. n \in Id /\ stream[n] = "none" /\ outbox[n] = <<>>
      BY NewCommand, NewOwned DEF AnswersOwned, BoxesOwned
    <2> QED BY <1>1, <2>1, NewOwned DEF Nowhere, Streaming, Boxed
  <1>7. ~Queued(c)' /\ ~Ready(c)' /\ ~Streaming(c)' /\ ~Boxed(c)' /\ ~Arriving(c)'
    BY <1>1, <1>2, <1>6
    DEF Nowhere, Queued, Ready, Streaming, Boxed, Arriving, Commands
  <1>8. Staged(c)' /\ Quiet(c)'
    BY <1>4, <1>7, EmptyParts DEF Staged, Quiet, Arriving
  <1>9. OfCommand(c)'
    <2>1. OnlyCommand(queue', c, n)
      BY <1>7 DEF Queued, OnlyCommand
    <2>2. \A k \in Owned(c)' : OnlyAnswer(outbox'[k], k)
      BY <1>2, <1>6, EmptyParts
    <2> QED BY <1>2, <1>4, <1>5, <1>6, <1>7, <2>1, <2>2, EmptyParts DEF OfCommand, Arriving
  <1> QED BY <1>8, <1>9 DEF Matched

LEMMA PlacesKept ==
    ASSUME NEW c, UNCHANGED commands
    PROVE  /\ Owned(c)' = Owned(c)
           /\ UNCHANGED up => (Sent(c)' => Sent(c))
           /\ UNCHANGED queue => (Queued(c)' => Queued(c))
           /\ UNCHANGED handler => (Ready(c)' => Ready(c))
           /\ UNCHANGED stream => (Streaming(c)' => Streaming(c))
           /\ UNCHANGED outbox => (Boxed(c)' => Boxed(c))
           /\ UNCHANGED down => (Arriving(c)' => Arriving(c))
  <1>1. Owned(c)' = Owned(c)
    BY SameOwned
  <1>2. UNCHANGED up => (Sent(c)' => Sent(c))
    BY DEF Sent, Commands
  <1>3. UNCHANGED queue => (Queued(c)' => Queued(c))
    BY DEF Queued, Commands
  <1>4. UNCHANGED handler => (Ready(c)' => Ready(c))
    BY DEF Ready
  <1>5. UNCHANGED stream => (Streaming(c)' => Streaming(c))
    BY <1>1 DEF Streaming
  <1>6. UNCHANGED outbox => (Boxed(c)' => Boxed(c))
    BY <1>1 DEF Boxed
  <1>7. UNCHANGED down => (Arriving(c)' => Arriving(c))
    BY DEF Arriving
  <1> QED BY <1>1, <1>2, <1>3, <1>4, <1>5, <1>6, <1>7

LEMMA ReadMatched ==
    ASSUME TypeOK, NEW c \in Client, Matched(c), ReadResponse(c)
    PROVE  Matched(c)'
  <1> DEFINE n == user[c].id
  <1>1. /\ down[c] # <<>> /\ down[c] \in Seq(Part) /\ OnlyAnswer(down[c], n)
        /\ down'[c] = Tail(down[c]) /\ user'[c].id = n
        /\ UNCHANGED <<commands, up, handler, outbox, stream, queue>>
    BY DEF ReadResponse, TypeOK, Matched, OfCommand, User
  <1>2. Arriving(c)
    BY <1>1 DEF Arriving
  <1>3. OnlyAnswer(down'[c], n) /\ (NoFinal(down[c]) => NoFinal(down'[c]))
    BY <1>1, TailParts
  <1>4. /\ Owned(c)' = Owned(c)
        /\ (Sent(c)' => Sent(c)) /\ (Queued(c)' => Queued(c))
        /\ (Ready(c)' => Ready(c))
        /\ (Streaming(c)' => Streaming(c))
        /\ (Boxed(c)' => Boxed(c))
    BY <1>1, PlacesKept
  <1>5. OfCommand(c)'
    BY <1>1, <1>3, <1>4
    DEF Matched, OfCommand, OnlyCommand, OnlyAnswer, Commands, Ready
  <1>6. Staged(c)'
    <2>1. \A k \in Owned(c) : NoFinal(outbox[k])' <=> NoFinal(outbox[k])
      BY <1>1 DEF NoFinal
    <2>2. ~NoFinal(down[c])' => ~NoFinal(down[c])
      BY <1>3 DEF NoFinal
    <2> QED BY <1>2, <1>4, <2>1, <2>2 DEF Matched, Staged
  <1>7. Quiet(c)'
    <2>1. CASE Head(down[c]).kind = "Stream"
      BY <2>1, <1>1, <1>2 DEF ReadResponse, Matched, Quiet
    <2>2. CASE Head(down[c]).kind # "Stream"
      <3>1. Head(down[c]).kind = "Final" /\ down'[c] = <<>> /\ ~NoFinal(down[c])
        BY <1>1, <2>2, TailParts DEF Part
      <3>2. ~Streaming(c) /\ ~Boxed(c) /\ ~Sent(c) /\ ~Queued(c) /\ ~Ready(c)
        BY <1>2, <3>1 DEF Matched, Staged
      <3>3. ~Arriving(c)'
        BY <3>1 DEF Arriving
      <3> QED BY <1>4, <3>2, <3>3 DEF Quiet
    <2> QED BY <2>1, <2>2
  <1> QED BY <1>5, <1>6, <1>7 DEF Matched

LEMMA WriteMatched ==
    ASSUME TypeOK, NEW c \in Client, Matched(c), WriteResponse(c)
    PROVE  Matched(c)'
  <1> DEFINE n == user[c].id
             p == Final(handler[c].id)
  <1>1. Ready(c) /\ handler[c].id = n
    BY DEF WriteResponse, Matched, OfCommand, Ready
  <1>2. ~Sent(c) /\ ~Queued(c) /\ ~Streaming(c) /\ ~Boxed(c) /\ down[c] = <<>>
        /\ user[c].pc = "reading"
    BY <1>1 DEF Matched, Staged, Quiet, Arriving
  <1>3. /\ down[c] \in Seq(Part) /\ down'[c] = Append(down[c], p)
        /\ handler'[c] = Free
        /\ UNCHANGED <<commands, user, up, outbox, stream, queue>>
    BY DEF WriteResponse, TypeOK, clientVars
  <1>4. p \in Part /\ p.of = n
    BY <1>1, MessageTypes DEF Final, TypeOK, User
  <1>5. OnlyAnswer(down'[c], n)
    BY <1>2, <1>3, <1>4, AppendPart, EmptyParts
  <1>6. /\ Owned(c)' = Owned(c)
        /\ ~Sent(c)' /\ ~Queued(c)' /\ ~Streaming(c)' /\ ~Boxed(c)' /\ ~Ready(c)'
    BY <1>2, <1>3 DEF Owned, Sent, Queued, Ready, Streaming, Boxed, Commands, Free
  <1>7. Staged(c)' /\ Quiet(c)'
    BY <1>2, <1>3, <1>6 DEF Staged, Quiet
  <1>8. OfCommand(c)'
    BY <1>3, <1>5, <1>6 DEF Matched, OfCommand, OnlyCommand, OnlyAnswer, Commands
  <1> QED BY <1>7, <1>8 DEF Matched

(* A request that is an input leaves everything of a command where it is.   *)
LEMMA ProcessedMatched ==
    ASSUME TypeOK, AnswersOwned, NEW c \in Client, Matched(c), ProcessRequest(c)
    PROVE  Matched(c)'
  <1> DEFINE n == user[c].id
             m == Head(up[c])
  <1>1. /\ up[c] # <<>> /\ up[c] \in Seq(Message) /\ up'[c] = Tail(up[c])
        /\ OnlyCommand(up[c], c, n) /\ OnlyCommand(queue, c, n)
        /\ queue \in Seq(Message) /\ down[c] \in Seq(Part)
        /\ UNCHANGED <<commands, user, outbox, stream>>
    BY DEF ProcessRequest, TypeOK, Matched, OfCommand, clientVars
  <1>2. m \in Message /\ m.from = c
    BY <1>1, MessageHead DEF AnswersOwned, UpOwned
  <1>3. /\ OnlyCommand(up'[c], c, n)
        /\ Sent(c)' => Sent(c)
    BY <1>1, TailCommands DEF Sent
  <1>4. Ready(c)' => FALSE
    BY DEF ProcessRequest, Ready, TypeOK, Free, Waiting
  <1>5. Owned(c)' = Owned(c) /\ (Streaming(c)' => Streaming(c)) /\ (Boxed(c)' => Boxed(c))
    BY <1>1, PlacesKept
  <1>6. CASE m.kind = "unknown"
    <2>1. /\ down'[c] = Append(down[c], Final(m.id))
          /\ UNCHANGED queue
      BY <1>6 DEF ProcessRequest, NoAction, TypeOK
    <2>2. Sent(c) /\ m.id = n /\ ~Sent(c)'
      <3>1. m.kind # "input"
        BY <1>6
      <3>2. Commands(up[c], c) # {} /\ m.id = n /\ Commands(Tail(up[c]), c) = {}
        BY <1>1, <1>2, <3>1, HeadCommand
      <3> QED BY <1>1, <3>2 DEF Sent
    <2>3. ~Queued(c) /\ ~Streaming(c) /\ ~Boxed(c) /\ down[c] = <<>>
          /\ user[c].pc = "reading"
      BY <2>2 DEF Matched, Staged, Quiet, Arriving
    <2>4. Final(m.id) \in Part /\ Final(m.id).of = n
      BY <1>2, <2>2, MessageShape, MessageTypes DEF Final
    <2>5. OnlyAnswer(down'[c], n)
      BY <1>1, <2>1, <2>3, <2>4, AppendPart, EmptyParts
    <2>6. ~Queued(c)' /\ ~Streaming(c)' /\ ~Boxed(c)'
      BY <1>1, <1>5, <2>1, <2>3, PlacesKept
    <2>7. Staged(c)' /\ Quiet(c)'
      BY <1>1, <1>4, <2>2, <2>3, <2>6 DEF Staged, Quiet
    <2>8. OfCommand(c)'
      BY <1>1, <1>3, <1>4, <1>5, <2>1, <2>5
      DEF Matched, OfCommand, OnlyAnswer, OnlyCommand, Commands
    <2> QED BY <2>7, <2>8 DEF Matched
  <1>7. CASE m.kind # "unknown"
    <2>1. queue' = Append(queue, m) /\ UNCHANGED down
      BY <1>7 DEF ProcessRequest, NoAction
    <2>2. Arriving(c)' => Arriving(c)
      BY <1>1, <2>1, PlacesKept
    <2>3. CASE m.kind = "input"
      <3>1. QueueKept(c)
        BY <1>2, <2>1, <2>3, QueueSteps
      <3>2. Staged(c)' /\ Quiet(c)'
        <4>1. /\ NoFinal(down[c])' <=> NoFinal(down[c])
              /\ \A k \in Owned(c) : NoFinal(outbox[k])' <=> NoFinal(outbox[k])
          BY <1>1, <2>1 DEF NoFinal
        <4>2. Queued(c)' => Queued(c)
          BY <3>1 DEF QueueKept
        <4> QED
          BY <1>1, <1>3, <1>4, <1>5, <2>2, <4>1, <4>2 DEF Matched, Staged, Quiet
      <3>3. OfCommand(c)'
        <4>1. OnlyCommand(queue', c, n)
          BY <1>1, <3>1 DEF QueueKept
        <4> QED
          BY <1>1, <1>3, <1>4, <1>5, <2>1, <4>1
          DEF Matched, OfCommand, OnlyAnswer, OnlyCommand, Commands
      <3> QED BY <3>2, <3>3 DEF Matched
    <2>4. CASE m.kind # "input"
      <3>1. Sent(c) /\ m.id = n /\ ~Sent(c)'
        BY <1>1, <1>2, <2>4, HeadCommand DEF Sent
      <3>2. /\ ~Queued(c) /\ ~Streaming(c) /\ ~Boxed(c) /\ ~Arriving(c)
            /\ user[c].pc = "reading"
        BY <3>1 DEF Matched, Staged, Quiet
      <3>3. OnlyCommand(queue', c, n)
        BY <1>1, <1>2, <2>1, <3>1, <3>2, AppendCommand DEF Queued
      <3>4. Staged(c)' /\ Quiet(c)'
        BY <1>1, <1>4, <1>5, <2>1, <2>2, <3>1, <3>2, EmptyParts
        DEF Staged, Quiet, Arriving
      <3>5. OfCommand(c)'
        BY <1>1, <1>3, <1>4, <1>5, <2>1, <3>3
        DEF Matched, OfCommand, OnlyAnswer, OnlyCommand, Commands
      <3> QED BY <3>4, <3>5 DEF Matched
    <2> QED BY <2>3, <2>4
  <1> QED BY <1>6, <1>7

LEMMA WrittenMatched ==
    ASSUME TypeOK, AnswersOwned, NEW c \in Client, Matched(c),
           NEW k \in Owned(c), WritePart(k)
    PROVE  Matched(c)'
  <1> DEFINE n == user[c].id
             p == Head(outbox[k])
  <1>1. /\ k \in Id /\ commands[k].client = c
        /\ outbox[k] # <<>> /\ outbox[k] \in Seq(Part) /\ down[c] \in Seq(Part)
        /\ outbox' = [outbox EXCEPT ![k] = Tail(outbox[k])]
        /\ down' = [down EXCEPT ![c] = Append(down[c], p)]
        /\ UNCHANGED <<commands, user, up, queue, handler, stream>>
    BY DEF WritePart, TypeOK, clientVars, Owned
  <1>2. Boxed(c)
    BY <1>1 DEF Boxed
  <1>3. k = n /\ OnlyAnswer(outbox[n], n) /\ OnlyAnswer(down[c], n)
    BY <1>1 DEF Matched, OfCommand
  <1>4. /\ ~Sent(c) /\ ~Queued(c) /\ ~Ready(c) /\ NoFinal(down[c])
        /\ user[c].pc = "reading"
    BY <1>2 DEF Matched, Staged, Quiet
  <1>5. /\ outbox'[n] = Tail(outbox[n]) /\ down'[c] = Append(down[c], p)
        /\ \A j \in Owned(c) \ {n} : outbox'[j] = <<>>
    BY <1>1, <1>3 DEF TypeOK, Owned, Matched, OfCommand
  <1>6. /\ p \in Part /\ p.of = n /\ OnlyAnswer(outbox'[n], n)
        /\ NoFinal(outbox[n]) => NoFinal(outbox'[n]) /\ p.kind = "Stream"
        /\ p.kind = "Final" => outbox'[n] = <<>>
    <2>1. outbox[n] # <<>> /\ outbox[n] \in Seq(Part) /\ p = Head(outbox[n])
      BY <1>1, <1>3
    <2> HIDE DEF p
    <2> QED BY <1>3, <1>5, <2>1, TailParts
  <1>7. /\ OnlyAnswer(down'[c], n)
        /\ p.kind = "Stream" => NoFinal(down'[c])
    BY <1>1, <1>3, <1>4, <1>5, <1>6, AppendPart
  <1>8. /\ Owned(c)' = Owned(c)
        /\ ~Sent(c)' /\ ~Queued(c)' /\ ~Ready(c)'
        /\ Streaming(c)' => Streaming(c)
    BY <1>1, <1>4, PlacesKept
  <1>9. ~NoFinal(down'[c]) => ~Boxed(c)'
    <2>1. p.kind \in {"Stream", "Final"}
      BY <1>6 DEF Part
    <2> QED BY <1>5, <1>6, <1>7, <1>8, <2>1 DEF Boxed
  <1>10. Streaming(c)' =>
            NoFinal(down'[c]) /\ \A j \in Owned(c) : NoFinal(outbox'[j])
    <2>1. ASSUME Streaming(c)
          PROVE  NoFinal(outbox[n])
      BY <1>3, <2>1 DEF Matched, Staged
    <2> QED BY <1>5, <1>6, <1>7, <1>8, <2>1, EmptyParts
  <1>11. Staged(c)' /\ Quiet(c)'
    BY <1>1, <1>4, <1>8, <1>9, <1>10 DEF Staged, Quiet, NoFinal
  <1>12. OfCommand(c)'
    <2>1. \A j \in Owned(c) : OnlyAnswer(outbox'[j], j)
      BY <1>5, <1>6, EmptyParts
    <2> QED
      BY <1>1, <1>5, <1>7, <1>8, <2>1
      DEF Matched, OfCommand, OnlyAnswer, OnlyCommand, Commands
  <1> QED BY <1>11, <1>12 DEF Matched

(* A part is put into the channel of a stream that is not at its end. *)
LEMMA BoxedMatched ==
    ASSUME TypeOK, NEW c \in Client, Matched(c), NEW k \in Owned(c),
           stream[k] \in {"open", "released"},
           NEW p \in Part, p.of = k,
           outbox' = [outbox EXCEPT ![k] = Append(outbox[k], p)],
           UNCHANGED <<commands, user, up, down, handler, queue>>,
           StreamsKept(c),
           p.kind = "Final" => stream'[k] \notin {"open", "released"}
    PROVE  Matched(c)'
  <1> DEFINE n == user[c].id
  <1>1. Streaming(c)
    BY DEF Streaming
  <1>2. /\ k = n /\ k \in Id /\ OnlyAnswer(outbox[n], n)
        /\ \A j \in Owned(c) \ {n} :
              stream[j] \notin {"open", "released"} /\ outbox[j] = <<>>
    BY DEF Matched, OfCommand, Owned
  <1>3. /\ ~Sent(c) /\ ~Queued(c) /\ ~Ready(c)
        /\ NoFinal(down[c]) /\ NoFinal(outbox[n])
        /\ user[c].pc = "reading"
    BY <1>1, <1>2 DEF Matched, Staged, Quiet
  <1>4. /\ outbox'[n] = Append(outbox[n], p) /\ outbox[n] \in Seq(Part)
        /\ \A j \in Owned(c) \ {n} : outbox'[j] = <<>>
    BY <1>2 DEF TypeOK, Owned
  <1>5. /\ OnlyAnswer(outbox'[n], n)
        /\ p.kind = "Stream" => NoFinal(outbox'[n])
    BY <1>2, <1>3, <1>4, AppendPart
  <1>6. /\ Owned(c)' = Owned(c)
        /\ ~Sent(c)' /\ ~Queued(c)' /\ ~Ready(c)'
    BY <1>3, PlacesKept
  <1>7. NoFinal(down'[c])
    BY <1>3
  <1>8. Streaming(c)' => \A j \in Owned(c) : NoFinal(outbox'[j])
    <2>1. p.kind \in {"Stream", "Final"}
      BY DEF Part
    <2>2. \A j \in Owned(c) \ {n} : stream'[j] \notin {"open", "released"}
      BY <1>2 DEF StreamsKept
    <2>3. Streaming(c)' => p.kind = "Stream"
      BY <1>2, <1>6, <2>1, <2>2 DEF Streaming
    <2> QED BY <1>4, <1>5, <2>3, EmptyParts
  <1>9. Staged(c)' /\ Quiet(c)'
    BY <1>3, <1>6, <1>7, <1>8 DEF Staged, Quiet, NoFinal
  <1>10. OfCommand(c)'
    <2>1. \A j \in Owned(c) : OnlyAnswer(outbox'[j], j)
      BY <1>4, <1>5, EmptyParts
    <2>2. \A j \in Owned(c) \ {n} : stream'[j] \notin {"open", "released"}
      BY <1>2 DEF StreamsKept
    <2> QED
      BY <1>4, <1>6, <2>1, <2>2
      DEF Matched, OfCommand, OnlyAnswer, OnlyCommand, Commands
  <1> QED BY <1>9, <1>10 DEF Matched

(* What is taken from the head of the orchestrator's channel is the command *)
(* the client is in, and nothing else of it is anywhere.                    *)
LEMMA TakenNowhere ==
    ASSUME TypeOK, AnswersOwned, NEW c \in Client, Matched(c),
           NEW kind, kind # "input", Receive(kind), Requester = c,
           UNCHANGED <<commands, user, up, down>>
    PROVE  /\ Head(queue).id = user[c].id
           /\ user[c].pc = "reading"
           /\ ~Sent(c)' /\ ~Queued(c)' /\ ~Arriving(c)'
           /\ ~Ready(c) /\ ~Streaming(c) /\ ~Boxed(c)
  <1>1. /\ queue # <<>> /\ queue' = Tail(queue) /\ queue \in Seq(Message)
        /\ Head(queue).from = c /\ Head(queue).kind # "input"
        /\ OnlyCommand(queue, c, user[c].id)
    BY ReceivedShape DEF Requester, Matched, OfCommand
  <1>2. /\ Commands(queue, c) # {} /\ Head(queue).id = user[c].id
        /\ Commands(Tail(queue), c) = {}
    BY <1>1, HeadCommand
  <1>3. Queued(c) /\ ~Queued(c)'
    BY <1>1, <1>2 DEF Queued
  <1>4. /\ ~Sent(c) /\ ~Ready(c) /\ ~Streaming(c) /\ ~Boxed(c) /\ ~Arriving(c)
        /\ user[c].pc = "reading"
    BY <1>3 DEF Matched, Staged, Quiet
  <1>5. ~Sent(c)' /\ ~Arriving(c)'
    BY <1>4, PlacesKept
  <1> QED BY <1>2, <1>3, <1>4, <1>5

LEMMA AnsweredMatched ==
    ASSUME TypeOK, AnswersOwned, NEW c \in Client, Matched(c),
           NEW kind, kind # "input", Receive(kind), Requester = c,
           UNCHANGED <<commands, user, up, down, outbox>>,
           StreamsKept(c),
           handler' = [handler EXCEPT ![c] = Answered(Head(queue).id)]
    PROVE  Matched(c)'
  <1> DEFINE n == user[c].id
  <1>1. /\ Head(queue).id = n /\ user[c].pc = "reading"
        /\ ~Sent(c)' /\ ~Queued(c)' /\ ~Arriving(c)'
        /\ ~Streaming(c) /\ ~Boxed(c)
    BY TakenNowhere
  <1>2. handler'[c].id = n
    BY <1>1 DEF TypeOK, Answered
  <1>3. Owned(c)' = Owned(c) /\ ~Boxed(c)'
    BY <1>1, PlacesKept
  <1>4. ~Streaming(c)'
    BY <1>1, <1>3 DEF Streaming, StreamsKept
  <1>5. Staged(c)' /\ Quiet(c)'
    BY <1>1, <1>3, <1>4, EmptyParts DEF Staged, Quiet, Arriving
  <1>6. OnlyCommand(queue', c, n)
    BY <1>1 DEF Queued, OnlyCommand
  <1>7. OfCommand(c)'
    BY <1>2, <1>3, <1>4, <1>6
    DEF Matched, OfCommand, OnlyAnswer, OnlyCommand, Commands, Streaming
  <1> QED BY <1>5, <1>7 DEF Matched

LEMMA AttachedMatched ==
    ASSUME TypeOK, AnswersOwned, NEW c \in Client, Matched(c),
           HandleAttach, Requester = c
    PROVE  Matched(c)'
  <1> DEFINE n == user[c].id
  <1>1. Receive("attach") /\ UNCHANGED <<commands, user, up, down, handler>>
    BY DEF HandleAttach, clientVars
  <1>2. /\ Head(queue).id = n /\ user[c].pc = "reading"
        /\ ~Sent(c)' /\ ~Queued(c)' /\ ~Arriving(c)'
        /\ ~Ready(c) /\ ~Streaming(c) /\ ~Boxed(c)
    BY <1>1, TakenNowhere
  <1>3. n \in Owned(c) /\ n \in Id
    BY <1>1, <1>2, ReceivedShape DEF Owned
  <1>4. /\ Owned(c)' = Owned(c) /\ ~Ready(c)'
        /\ \A j \in Owned(c) : stream[j] \notin {"open", "released"} /\ outbox[j] = <<>>
    BY <1>1, <1>2, PlacesKept DEF Streaming, Boxed
  <1>5. \A j \in Owned(c) \ {n} :
           stream'[j] \notin {"open", "released"} /\ outbox'[j] = <<>>
    BY <1>2, <1>4 DEF HandleAttach, TypeOK, Owned
  <1>6. \/ outbox'[n] = <<>>
        \/ /\ stream'[n] \notin {"open", "released"}
           /\ OnlyAnswer(outbox'[n], n)
    <2>1. CASE outbox' = outbox
      BY <2>1, <1>3, <1>4
    <2>2. CASE /\ stream' = [stream EXCEPT ![n] = "refused"]
               /\ outbox' = [outbox EXCEPT ![n] = Append(outbox[n], Final(n))]
      <3>1. /\ stream'[n] = "refused" /\ outbox'[n] = Append(outbox[n], Final(n))
            /\ outbox[n] \in Seq(Part) /\ outbox[n] = <<>>
        BY <1>3, <1>4, <2>2 DEF TypeOK
      <3>2. Final(n) \in Part /\ Final(n).of = n
        BY <1>3, MessageTypes DEF Final
      <3>3. OnlyAnswer(outbox'[n], n)
        BY <3>1, <3>2, AppendPart, EmptyParts
      <3> QED BY <3>1, <3>3
    <2> QED BY <1>2, <2>1, <2>2 DEF HandleAttach
  <1>7. Streaming(c)' => \A j \in Owned(c) : outbox'[j] = <<>>
    BY <1>4, <1>5, <1>6 DEF Streaming
  <1>8. down'[c] = <<>>
    BY <1>2 DEF Arriving
  <1>9. Staged(c)' /\ Quiet(c)'
    BY <1>1, <1>2, <1>4, <1>7, <1>8, EmptyParts DEF Staged, Quiet, Arriving
  <1>10. OfCommand(c)'
    <2>1. \A j \in Owned(c) : OnlyAnswer(outbox'[j], j)
      BY <1>5, <1>6, EmptyParts
    <2>2. OnlyCommand(queue', c, n)
      BY <1>2 DEF Queued, OnlyCommand
    <2> QED
      BY <1>1, <1>4, <1>5, <2>1, <2>2
      DEF Matched, OfCommand, OnlyAnswer, OnlyCommand, Commands
  <1> QED BY <1>9, <1>10 DEF Matched

(* Steps of others, and steps that concern no command of c. *)
LEMMA OtherMatched ==
    ASSUME TypeOK, NEW c \in Client, Matched(c), UNCHANGED commands,
           user'[c] = user[c], up'[c] = up[c], down'[c] = down[c],
           handler'[c] = handler[c] \/ handler'[c] = Free,
           \A n \in Owned(c) : outbox'[n] = outbox[n],
           StreamsKept(c), QueueKept(c)
    PROVE  Matched(c)'
  <1>1. Ready(c)' => handler'[c] = handler[c]
    BY DEF Ready, Free
  <1> QED BY <1>1, SameOwned, UntouchedMatched DEF Untouched

LEMMA StreamSteps ==
    ASSUME TypeOK, AnswersOwned, NEW c
    PROVE  /\ UNCHANGED stream => StreamsKept(c)
           /\ stream' = Stopped => StreamsKept(c)
           /\ \A n \in Id : stream' = [stream EXCEPT ![n] = "stopping"] => StreamsKept(c)
           /\ \A n \in Id : stream' = [Stopped EXCEPT ![n] = "done"] => StreamsKept(c)
           /\ \A n \in Id \ Owned(c) : \A st :
                 stream' = [stream EXCEPT ![n] = st] => StreamsKept(c)
  BY StoppedOwned DEF StreamsKept, TypeOK, Owned

LEMMA MatchedStep ==
    ASSUME TypeOK, AnswersOwned, [Next]_vars,
           NEW c \in Client, c \notin failed', Matched(c)
    PROVE  Matched(c)'
  <1> USE QueueSteps, StreamSteps, OtherMatched
  <1>1. CASE UNCHANGED vars
    BY <1>1 DEF vars
  <1>2. ASSUME NEW d \in Client, NEW kind \in Kind, SendCommand(d, kind)
        PROVE  Matched(c)'
    <2>1. CASE d = c
      BY <1>2, <2>1, SentMatched
    <2>2. CASE d # c
      <3>1. Owned(c)' = Owned(c)
        BY <1>2, <2>2, NewOwned
      <3>2. user'[c] = user[c] /\ up'[c] = up[c]
            /\ UNCHANGED <<down, handler, outbox, stream, queue>>
        BY <1>2, <2>2 DEF SendCommand, TypeOK
      <3>3. Untouched(c)
        BY <3>1, <3>2 DEF Untouched
      <3> QED BY <3>3, UntouchedMatched
    <2> QED BY <2>1, <2>2
  <1>3. ASSUME NEW d \in Client, LineLoop(d)
        PROVE  Matched(c)'
    <2>1. CASE ReadResponse(d)
      <3>1. CASE d = c
        BY <2>1, <3>1, ReadMatched
      <3>2. CASE d # c
        BY <2>1, <3>2 DEF ReadResponse, TypeOK
      <3> QED BY <3>1, <3>2
    <2>2. CASE Join(d)
      <3>1. /\ UNCHANGED <<commands, up, down, handler, outbox, stream, queue>>
            /\ user' = [user EXCEPT ![d].pc = "prompt"]
            /\ user[d].pc = "joining"
        BY <2>2 DEF Join
      <3>2. CASE d # c
        BY <3>1, <3>2 DEF TypeOK
      <3>3. CASE d = c
        <4>1. user'[c].id = user[c].id
          BY <3>1, <3>3 DEF TypeOK, User
        <4>2. Nowhere(c)
          BY <3>1, <3>3 DEF Matched, Quiet, Nowhere
        <4>3. Nowhere(c)'
          BY <3>1, <4>2, PlacesKept DEF Nowhere
        <4>4. Staged(c)' /\ Quiet(c)'
          BY <4>3, EmptyParts DEF Nowhere, Staged, Quiet, Arriving
        <4>5. OfCommand(c)'
          BY <3>1, <4>1, SameOwned
          DEF Matched, OfCommand, OnlyAnswer, OnlyCommand, Commands, Ready
        <4> QED BY <4>4, <4>5 DEF Matched
      <3> QED BY <3>2, <3>3
    <2> QED BY <1>3, <2>1, <2>2 DEF LineLoop
  <1>4. ASSUME NEW d \in Client, Typing(d)
        PROVE  Matched(c)'
    BY <1>4 DEF Typing, CheckStop, ReadNothing, ReadEof
  <1>5. ASSUME NEW d \in Client, ReadInput(d)
        PROVE  Matched(c)'
    <2> DEFINE m == Request(d, "input", NoId)
    <2>1. /\ UNCHANGED <<commands, user, down, handler, outbox, stream, queue>>
          /\ up' = [up EXCEPT ![d] = Append(up[d], m)]
      BY <1>5 DEF ReadInput
    <2>2. CASE d # c
      BY <2>1, <2>2 DEF TypeOK
    <2>3. CASE d = c
      <3>1. m \in Message /\ m.kind = "input" /\ up[c] \in Seq(Message)
            /\ up'[c] = Append(up[c], m)
        BY <2>1, <2>3, MessageTypes DEF Request, TypeOK
      <3>2. /\ Sent(c)' => Sent(c)
            /\ \A n : OnlyCommand(up[c], c, n) => OnlyCommand(up'[c], c, n)
        BY <3>1, AppendOther DEF Sent
      <3>3. /\ Owned(c)' = Owned(c)
            /\ Queued(c)' => Queued(c)
            /\ Ready(c)' => Ready(c)
            /\ Streaming(c)' => Streaming(c)
            /\ Boxed(c)' => Boxed(c)
            /\ Arriving(c)' => Arriving(c)
        BY <2>1, PlacesKept
      <3>4. /\ NoFinal(down[c])' <=> NoFinal(down[c])
            /\ \A n \in Owned(c) : NoFinal(outbox[n])' <=> NoFinal(outbox[n])
        BY <2>1 DEF NoFinal
      <3>5. Staged(c)' /\ Quiet(c)'
        BY <2>1, <3>2, <3>3, <3>4 DEF Matched, Staged, Quiet
      <3>6. OfCommand(c)'
        <4>1. OnlyCommand(up'[c], c, user[c].id)
          BY <3>2 DEF Matched, OfCommand
        <4> QED
          BY <2>1, <3>3, <4>1
          DEF Matched, OfCommand, OnlyAnswer, OnlyCommand, Commands, Ready
      <3> QED BY <3>5, <3>6 DEF Matched
    <2> QED BY <2>2, <2>3
  <1>6. ASSUME NEW d \in Client, Connection(d)
        PROVE  Matched(c)'
    <2>1. CASE d = c
      BY <1>6, <2>1, ProcessedMatched, WriteMatched DEF Connection
    <2>2. CASE d # c /\ ProcessRequest(d)
      <3> DEFINE m == Head(up[d])
      <3>1. /\ up'[c] = up[c] /\ down'[c] = down[c] /\ handler'[c] = handler[c]
            /\ UNCHANGED <<commands, user, outbox, stream>>
            /\ UNCHANGED queue \/ queue' = Append(queue, m)
        BY <2>2 DEF ProcessRequest, TypeOK, clientVars
      <3>2. m \in Message /\ m.from = d
        BY <2>2, MessageHead
        DEF ProcessRequest, TypeOK, AnswersOwned, UpOwned
      <3>3. QueueKept(c)
        BY <2>2, <3>1, <3>2
      <3> QED BY <3>1, <3>3
    <2>3. CASE d # c /\ WriteResponse(d)
      BY <2>3 DEF WriteResponse, TypeOK, clientVars
    <2> QED BY <1>6, <2>1, <2>2, <2>3 DEF Connection
  <1>7. ASSUME NEW n \in Id, WritePart(n)
        PROVE  Matched(c)'
    <2>1. CASE n \in Owned(c)
      BY <1>7, <2>1, WrittenMatched
    <2>2. CASE n \notin Owned(c)
      <3> DEFINE d == commands[n].client
      <3>1. n \in DOMAIN commands /\ d # c
        BY <1>7, <2>2 DEF WritePart, AnswersOwned, BoxesOwned, Owned
      <3>2. /\ outbox' = [outbox EXCEPT ![n] = Tail(outbox[n])]
            /\ down' = [down EXCEPT ![d] = Append(down[d], Head(outbox[n]))]
            /\ UNCHANGED <<commands, user, up, handler, stream, queue>>
        BY <1>7 DEF WritePart, clientVars
      <3>3. down'[c] = down[c] /\ \A k \in Owned(c) : outbox'[k] = outbox[k]
        BY <2>2, <3>1, <3>2 DEF TypeOK, Owned
      <3> QED BY <3>2, <3>3
    <2> QED BY <2>1, <2>2
  <1>8. ASSUME NEW n \in Id, NEW p \in Part, p.of = n,
               stream[n] \in {"open", "released"},
               outbox' = [outbox EXCEPT ![n] = Append(outbox[n], p)],
               UNCHANGED <<commands, user, up, down, handler, queue>>,
               StreamsKept(c),
               p.kind = "Final" => stream'[n] \notin {"open", "released"}
        PROVE  Matched(c)'
    <2>1. CASE n \in Owned(c)
      BY <1>8, <2>1, BoxedMatched
    <2>2. CASE n \notin Owned(c)
      <3>1. \A k \in Owned(c) : outbox'[k] = outbox[k]
        BY <1>8, <2>2 DEF TypeOK, Owned
      <3> QED BY <1>8, <3>1
    <2> QED BY <2>1, <2>2
  <1>9. ASSUME NEW n \in Id, Output(n)
        PROVE  Matched(c)'
    <2>1. Streamed(n) \in Part /\ Streamed(n).of = n /\ Streamed(n).kind # "Final"
      BY MessageTypes DEF Streamed
    <2>2. /\ stream[n] = "open"
          /\ outbox' = [outbox EXCEPT ![n] = Append(outbox[n], Streamed(n))]
          /\ UNCHANGED <<commands, user, up, down, handler, queue, stream>>
      BY <1>9 DEF Output, Open, clientVars
    <2> QED BY <1>8, <2>1, <2>2
  <1>10. ASSUME NEW n \in Id, EndOfStream(n)
         PROVE  Matched(c)'
    <2>1. Final(n) \in Part /\ Final(n).of = n
      BY MessageTypes DEF Final
    <2>2. /\ stream[n] = "released"
          /\ stream' = [stream EXCEPT ![n] = "stopping"]
          /\ outbox' = [outbox EXCEPT ![n] = Append(outbox[n], Final(n))]
          /\ UNCHANGED <<commands, user, up, down, handler, queue>>
      BY <1>10 DEF EndOfStream, clientVars
    <2>3. StreamsKept(c) /\ stream'[n] = "stopping"
      BY <2>2 DEF TypeOK
    <2> QED BY <1>8, <2>1, <2>2, <2>3
  <1>11. ASSUME NEW n \in Id, StopOwn(n)
         PROVE  Matched(c)'
    <2>1. /\ stream' = [Stopped EXCEPT ![n] = "done"]
          /\ UNCHANGED <<commands, user, up, down, handler, queue, outbox>>
      BY <1>11 DEF StopOwn, clientVars
    <2> QED BY <2>1
  <1>12. CASE ReadStdin \/ Exit \/ Listen \/ Signal \/ PollAgain
    <2>1. UNCHANGED <<commands, user, up, down, handler, outbox, stream, queue>>
      BY <1>12 DEF ReadStdin, Exit, Listen, Signal, PollAgain, clientVars
    <2> QED BY <2>1
  <1>13. CASE Report \/ StartUp \/ SendReload
    <2>1. PICK m \in {Request(Watcher, "finished", NoId), Request(Main, "start", NoId),
                      Request(Sighup, "reload", NoId)} :
             queue' = Append(queue, m)
      BY <1>13 DEF Report, StartUp, SendReload
    <2>2. UNCHANGED <<commands, user, up, down, handler, stream, outbox>>
      BY <1>13 DEF Report, StartUp, SendReload, clientVars
    <2>3. m \in Message /\ m.from # c
      BY MessageTypes, ConnectionsAssumption DEF Request
    <2>4. QueueKept(c)
      BY <2>1, <2>3
    <2> QED BY <2>2, <2>4
  <1>14. CASE DetachByOther
    <2>1. stream' = Stopped /\ UNCHANGED <<commands, user, up, down, handler, outbox, queue>>
      BY <1>14 DEF DetachByOther, clientVars
    <2> QED BY <2>1
  <1>15. ASSUME NEW kind, Receive(kind)
         PROVE  QueueKept(c)
    BY <1>15 DEF Receive
  <1>16. CASE Orchestrator
    <2>1. CASE HandleDetach
      <3>1. /\ Receive("detach") /\ stream' = Stopped
            /\ handler' = [handler EXCEPT ![Requester] = Answered(Head(queue).id)]
            /\ UNCHANGED <<commands, user, up, down, outbox>>
        BY <2>1 DEF HandleDetach, Respond, clientVars
      <3>2. CASE Requester = c
        BY <3>1, <3>2, AnsweredMatched
      <3>3. CASE Requester # c
        BY <1>15, <3>1, <3>3 DEF TypeOK
      <3> QED BY <3>2, <3>3
    <2>2. CASE HandleStart
      <3>1. /\ Receive("start")
            /\ UNCHANGED <<commands, user, up, down, outbox, stream>>
            /\ \/ Requester = Main /\ UNCHANGED handler
               \/ handler' = [handler EXCEPT ![Requester] = Answered(Head(queue).id)]
        BY <2>2 DEF HandleStart, Respond, clientVars
      <3>2. CASE Requester = c
        <4>1. c # Main
          BY ConnectionsAssumption
        <4> QED BY <3>1, <3>2, <4>1, AnsweredMatched
      <3>3. CASE Requester # c
        BY <1>15, <3>1, <3>3 DEF TypeOK
      <3> QED BY <3>2, <3>3
    <2>3. CASE HandleAttach
      <3>1. CASE Requester = c
        BY <2>3, <3>1, AttachedMatched
      <3>2. CASE Requester # c
        <4> DEFINE n == Head(queue).id
        <4>1. /\ Receive("attach")
              /\ UNCHANGED <<commands, user, up, down, handler>>
              /\ \/ stream' = [stream EXCEPT ![n] = "open"]
                 \/ stream' = [stream EXCEPT ![n] = "refused"]
              /\ \/ UNCHANGED outbox
                 \/ outbox' = [outbox EXCEPT ![n] = Append(outbox[n], Final(n))]
          BY <2>3 DEF HandleAttach, clientVars
        <4>2. n \in Owned(Requester)
          BY <4>1, ReceivedShape
        <4>3. n \in Id \ Owned(c)
          BY <3>2, <4>2 DEF Owned
        <4>4. \A k \in Owned(c) : outbox'[k] = outbox[k]
          BY <4>1, <4>3 DEF TypeOK, Owned
        <4> QED BY <1>15, <4>1, <4>3, <4>4
      <3> QED BY <3>1, <3>2
    <2>4. CASE HandleInput
      <3>1. /\ Receive("input")
            /\ UNCHANGED <<commands, user, up, down, outbox, stream>>
            /\ UNCHANGED handler \/ handler' = [handler EXCEPT ![Requester] = Free]
        BY <2>4 DEF HandleInput, clientVars
      <3>2. handler'[c] = handler[c] \/ handler'[c] = Free
        BY <3>1 DEF TypeOK
      <3> QED BY <1>15, <3>1, <3>2
    <2>5. CASE WriteStdin
      <3>1. /\ UNCHANGED <<commands, user, up, down, outbox, stream, queue>>
            /\ handler' = [handler EXCEPT ![orch] = Free]
        BY <2>5 DEF WriteStdin, InputDone, clientVars
      <3>2. handler'[c] = handler[c] \/ handler'[c] = Free
        BY <3>1 DEF TypeOK
      <3> QED BY <3>1, <3>2
    <2>6. CASE WriteStdinFails
      <3>1. /\ UNCHANGED <<commands, user, up, down, outbox, stream, queue>>
            /\ handler' = [handler EXCEPT ![orch] = Answered(NoId)]
            /\ orch \in failed'
        BY <2>6 DEF WriteStdinFails, Respond, clientVars
      <3>2. handler'[c] = handler[c]
        BY <3>1 DEF TypeOK
      <3> QED BY <3>1, <3>2
    <2>7. CASE HandleFinished \/ HandleReload
      <3>1. /\ Receive("finished") \/ Receive("reload")
            /\ UNCHANGED <<commands, user, up, down, outbox, handler>>
            /\ UNCHANGED stream \/ stream' = Stopped
        BY <2>7, SMTT(30) DEF HandleFinished, HandleReload, clientVars
      <3> QED BY <1>15, <3>1
    <2> QED
      BY <1>16, <2>1, <2>2, <2>3, <2>4, <2>5, <2>6, <2>7 DEF Orchestrator
  <1> QED
    BY <1>1, <1>2, <1>3, <1>4, <1>5, <1>6, <1>7, <1>9, <1>10, <1>11, <1>12,
       <1>13, <1>14, <1>16
    DEF Next, Forwarder

-----------------------------------------------------------------------------
LEMMA FailedKept == [Next]_vars => failed \subseteq failed'
  BY DEF Next, vars, LineLoop, Typing, Connection, Forwarder, Orchestrator, SendCommand,
         ReadResponse, Join, CheckStop, ReadNothing, ReadEof, ReadInput, ProcessRequest,
         WriteResponse, WritePart, Output, EndOfStream, StopOwn, ReadStdin, Exit, Report,
         DetachByOther, HandleDetach, HandleStart, HandleAttach, HandleInput, WriteStdin,
         WriteStdinFails, HandleFinished, HandleReload, StartUp, Listen, Signal,
         SendReload, PollAgain

LEMMA AnsweringInit == Init => Answering
  <1> SUFFICES ASSUME Init PROVE Answering
    OBVIOUS
  <1>1. /\ commands = <<>> /\ queue = <<>>
        /\ \A c \in Client : /\ up[c] = <<>> /\ down[c] = <<>> /\ handler[c] = Free
                            /\ user[c] = [pc |-> "prompt", id |-> NoId]
        /\ \A n \in Id : outbox[n] = <<>> /\ stream[n] = "none"
    BY DEF Init
  <1>2. AnswersOwned
    BY <1>1 DEF AnswersOwned, QueueOwned, UpOwned, BoxesOwned, RequestsOwned
  <1>3. ASSUME NEW c \in Client
        PROVE  Matched(c)
    <2>1. Owned(c) = {} /\ Commands(up[c], c) = {} /\ Commands(queue, c) = {}
      BY <1>1 DEF Owned, Commands
    <2>2. Nowhere(c)
      BY <1>1, <2>1 DEF Nowhere, Sent, Queued, Ready, Streaming, Boxed, Arriving, Free
    <2>3. Staged(c) /\ Quiet(c)
      BY <1>1, <2>2, EmptyParts DEF Nowhere, Staged, Quiet, Arriving
    <2>4. OfCommand(c)
      BY <1>1, <2>1, <2>2, EmptyParts DEF Nowhere, OfCommand, OnlyCommand
    <2> QED BY <2>3, <2>4 DEF Matched
  <1> QED BY <1>2, <1>3 DEF Answering

LEMMA AnsweringStep == TypeOK /\ Answering /\ [Next]_vars => Answering'
  <1> SUFFICES ASSUME TypeOK, Answering, [Next]_vars PROVE Answering'
    OBVIOUS
  <1>1. AnswersOwned'
    BY OwnedStep DEF Answering
  <1>2. ASSUME NEW c \in Client \ failed'
        PROVE  Matched(c)'
    BY FailedKept, MatchedStep DEF Answering
  <1> QED BY <1>1, <1>2 DEF Answering

(* Everything on its way between a client and the orchestrator is of the    *)
(* command that the client is in, and the end of an answer is the last of   *)
(* it: the line loop, the connection's thread, the orchestrator's FIFO and  *)
(* the writer thread have it one after the other (main.rs, orchestrate.rs). *)
THEOREM AnsweringInvariant == Spec => []Answering
  <1>1. Init => Answering
    BY AnsweringInit
  <1> QED BY <1>1, AnsweringStep, TypeCorrect, PTL DEF Spec

LEMMA EndsItsCommand ==
    ASSUME TypeOK, Answering, Next, NEW c \in Client, EndsCommand(c), c \notin failed
    PROVE  Head(down[c]).of = user[c].id
  <1>1. down[c] # <<>>
    <2>1. ReadResponse(c)
      BY ZenonT(60) DEF EndsCommand, TypeOK, Next, LineLoop, Typing, Connection, Forwarder,
             Orchestrator, SendCommand, ReadResponse, Join, CheckStop, ReadNothing,
             ReadEof, ReadInput, ProcessRequest, WriteResponse, WritePart, Output,
             EndOfStream, StopOwn, ReadStdin, Exit, Report, DetachByOther, HandleDetach,
             HandleStart, HandleAttach, HandleInput, WriteStdin, WriteStdinFails,
             HandleFinished, HandleReload, StartUp, Listen, Signal, SendReload, PollAgain,
             clientVars
    <2> QED BY <2>1, SMTT(30) DEF ReadResponse
  <1>2. down[c] \in Seq(Part) /\ OnlyAnswer(down[c], user[c].id)
    BY DEF TypeOK, Answering, Matched, OfCommand
  <1> QED BY <1>1, <1>2, TailParts

(* A client whose inputs did not fail takes for the end of a command only   *)
(* the answer to that command, whatever the other clients, the processes    *)
(* and the SIGHUP thread do in the meantime (connection.rs:44).             *)
THEOREM AnswersMatched == Spec => AnswersMatchUnlessFailed
  <1>1. TypeOK /\ Answering /\ [Next]_vars
           => [\A c \in Client : EndsCommand(c) /\ c \notin failed
                  => Head(down[c]).of = user[c].id]_vars
    BY EndsItsCommand
  <1> QED
    BY <1>1, TypeCorrect, AnsweringInvariant, PTL DEF Spec, AnswersMatchUnlessFailed
=============================================================================
