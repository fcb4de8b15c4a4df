---------------------------- MODULE RouterProofs ----------------------------
(***************************************************************************)
(* Proofs about the I/O router, its requests and the sessions, for every   *)
(* set of aliases and sessions and every bound.                            *)
(***************************************************************************)
EXTENDS IoRouterProperties, SequenceTheorems, TLAPS

AtWork ==
    /\ router.pc = "drain" => tees[router.alias].tx # NoSession
    /\ router.pc = "poll" =>
          HasTee(router.alias) /\ \A a \in router.todo : HasTee(a)

(* The Tee with the channel to a session is of the run that the session is  *)
(* attached to; the session has not been detached.                          *)
Held ==
    \A a \in Alias : tees[a].tx # NoSession =>
        LET s == tees[a].tx IN
        /\ HasTee(a)
        /\ att[s].alias = a /\ att[s].run = tees[a].run
        /\ att[s].end = "none"

(* What the orchestrator has asked last is behind everything else it has    *)
(* sent, and it waits for the answer.                                       *)
Last(i) ==
    \A j \in DOMAIN requests : i < j => requests[j].kind = "StopForwarding"

Waits ==
    /\ \A i \in DOMAIN requests :
          /\ requests[i].kind = "StartForwarding" =>
                /\ orch = [pc |-> "attach", session |-> requests[i].session]
                /\ reply = "none" /\ Last(i)
          /\ requests[i].kind = "ReadBuff" =>
                orch = [pc |-> "status"] /\ reply = "none" /\ Last(i)
    /\ reply # "none" => orch.pc \in {"attach", "status"}

(* How far a session is. *)
Stage(s) ==
    /\ forwarder[s] = "asking" => orch = [pc |-> "attach", session |-> s]
    /\ forwarder[s] \in {"none", "refused"} => ~Attached(s)
    /\ forwarder[s] \in {"running", "ending", "done"} => Attached(s)
    /\ ~Attached(s) => got[s] = <<>> /\ chan[s] = <<>>
    /\ s \in gone => forwarder[s] \in {"running", "ending", "done"}
    /\ forwarder[s] \in {"ending", "done"} /\ s \notin gone =>
          chan[s] = <<>> /\ tees[att[s].alias].tx # s

Sessions ==
    /\ orch.pc = "attach" =>
          /\ forwarder[orch.session] = "asking"
          /\ Attached(orch.session) <=> reply = "Ok"
    /\ \A s \in Session : Stage(s)

(* Nothing has reached a session that the router has not read. *)
Routed ==
    \A s \in Session :
        /\ \A i \in DOMAIN got[s] :
              got[s][i].n <= read[got[s][i].run][got[s][i].stream]
        /\ \A i \in DOMAIN chan[s] :
              chan[s][i].n <= read[chan[s][i].run][chan[s][i].stream]

(* A Remove is between two Creates of an alias. *)
Following(a) ==
    /\ Changes("Remove", a) = {} => tees[a].run \in {job[a], NoRun}
    /\ \A i \in Changes("Create", a) :
          /\ tees[a].run = NoRun \/ \E j \in Changes("Remove", a) : j < i
          /\ \/ requests[i].run = job[a]
             \/ \E j \in Changes("Remove", a) : i < j
          /\ \A k \in Changes("Create", a) : i < k =>
                \E j \in Changes("Remove", a) : i < j /\ j < k

TeesFollow == \A a \in Alias : Following(a)

RouterInv ==
    TypeOK /\ AtWork /\ Held /\ Waits /\ Sessions /\ Routed
    /\ TeesFollow /\ AttachedToCurrent

-----------------------------------------------------------------------------
(* Sequences *)

LEMMA HeadElements ==
    ASSUME NEW S, NEW s \in Seq(S), s # <<>>
    PROVE  /\ Head(s) \in S /\ Tail(s) \in Seq(S)
           /\ 1 \in DOMAIN s /\ Head(s) = s[1]
           /\ Len(Tail(s)) = Len(s) - 1
           /\ \A i \in DOMAIN Tail(s) :
                 i + 1 \in DOMAIN s /\ Tail(s)[i] = s[i + 1]
           /\ \A i \in DOMAIN s :
                 i = 1 \/ (i - 1 \in DOMAIN Tail(s) /\ Tail(s)[i - 1] = s[i])
  BY HeadTailProperties

LEMMA AppendElements ==
    ASSUME NEW S, NEW s \in Seq(S), NEW e \in S
    PROVE  /\ Append(s, e) \in Seq(S)
           /\ Len(Append(s, e)) = Len(s) + 1
           /\ Append(s, e)[Len(s) + 1] = e
           /\ Len(s) + 1 \in DOMAIN Append(s, e)
           /\ \A i \in DOMAIN s : i \in DOMAIN Append(s, e) /\ Append(s, e)[i] = s[i]
           /\ \A i \in DOMAIN Append(s, e) :
                 \/ i \in DOMAIN s /\ Append(s, e)[i] = s[i]
                 \/ i = Len(s) + 1 /\ Append(s, e)[i] = e
  BY AppendProperties

LEMMA HeadMoves ==
    ASSUME NEW S, NEW g \in Seq(S), NEW c \in Seq(S), c # <<>>
    PROVE  Append(g, Head(c)) \o Tail(c) = g \o c
  <1>1. /\ Head(c) \in S /\ Tail(c) \in Seq(S) /\ Head(c) = c[1]
        /\ Len(Tail(c)) = Len(c) - 1 /\ Len(c) \in Nat \ {0}
        /\ \A i \in 1 .. Len(Tail(c)) : Tail(c)[i] = c[i + 1]
    BY HeadTailProperties, EmptySeq
  <1>2. /\ Append(g, Head(c)) \in Seq(S) /\ Len(Append(g, Head(c))) = Len(g) + 1
        /\ Len(g) \in Nat
        /\ \A i \in 1 .. Len(g) : Append(g, Head(c))[i] = g[i]
        /\ Append(g, Head(c))[Len(g) + 1] = c[1]
    BY <1>1, AppendProperties
  <1> DEFINE u == Append(g, Head(c)) \o Tail(c)
             v == g \o c
  <1>3. /\ u \in Seq(S) /\ v \in Seq(S) /\ Len(u) = Len(g) + Len(c) /\ Len(v) = Len(g) + Len(c)
    BY <1>1, <1>2, ConcatProperties
  <1>4. ASSUME NEW i \in 1 .. Len(u)
        PROVE  u[i] = v[i]
    <2>1. u[i] = IF i <= Len(g) + 1 THEN Append(g, Head(c))[i] ELSE Tail(c)[i - (Len(g) + 1)]
      BY <1>1, <1>2, <1>3, ConcatProperties
    <2>2. v[i] = IF i <= Len(g) THEN g[i] ELSE c[i - Len(g)]
      BY <1>3, ConcatProperties
    <2>3. CASE i <= Len(g)
      BY <1>2, <2>1, <2>2, <2>3
    <2>4. CASE i = Len(g) + 1
      BY <1>2, <2>1, <2>2, <2>4
    <2>5. CASE i > Len(g) + 1
      BY <1>1, <1>2, <1>3, <2>1, <2>2, <2>5
    <2> QED BY <1>2, <1>3, <2>3, <2>4, <2>5
  <1> QED BY <1>3, <1>4, SeqEqual

LEMMA AppendBehind ==
    ASSUME NEW S, NEW g \in Seq(S), NEW c \in Seq(S), NEW e \in S
    PROVE  g \o Append(c, e) = Append(g \o c, e)
  <1>1. Append(c, e) = c \o <<e>> /\ <<e>> \in Seq(S) /\ g \o c \in Seq(S)
    BY AppendIsConcat, ConcatProperties
  <1>2. Append(g \o c, e) = (g \o c) \o <<e>>
    BY <1>1, AppendIsConcat
  <1> QED BY <1>1, <1>2, ConcatAssociative

LEMMA ChunkBehind ==
    \A g, c \in Seq(Chunk), e \in Chunk : g \o Append(c, e) = Append(g \o c, e)
  BY AppendBehind

-----------------------------------------------------------------------------
(* Types *)

LEMMA RequestTypes ==
    ASSUME NEW a \in Alias
    PROVE  /\ \A r \in Run : CreateMsg(a, r) \in Request
           /\ RemoveMsg(a) \in Request /\ ReadBuffMsg(a) \in Request
           /\ \A s \in Session : StartForwardingMsg(a, s) \in Request
           /\ \A by \in Requester : StopForwardingMsg(a, by) \in Request
  BY DEF Request, CreateMsg, RemoveMsg, ReadBuffMsg, StartForwardingMsg,
         StopForwardingMsg

LEMMA RequestShape ==
    ASSUME NEW m \in Request
    PROVE  /\ m.alias \in Alias
           /\ m.kind = "Create" => m.run \in Run
           /\ m.kind = "StartForwarding" => m.session \in Session
           /\ m.kind = "StopForwarding" => m.by \in Requester
  BY DEF Request

LEMMA RouterTypes ==
    /\ AtRequests \in RouterState
    /\ \A a \in Alias, st \in Stream :
          /\ \A by \in Requester : AtDrain(a, st, by) \in RouterState
          /\ \A todo \in SUBSET Alias : AtPoll(a, st, todo) \in RouterState
  BY RouterAssumption DEF RouterState, AtRequests, AtDrain, AtPoll

LEMMA RouterShape ==
    ASSUME NEW r \in RouterState
    PROVE  /\ r.pc \in {"drain", "poll"} => r.alias \in Alias /\ r.stream \in Stream
           /\ r.pc = "drain" =>
                 /\ r.left \in 0 .. DrainTimes + 1 /\ r.by \in Requester
                 /\ r.left > 0 => [r EXCEPT !.left = @ - 1] \in RouterState
           /\ r.pc = "poll" => r.todo \in SUBSET Alias
  BY RouterAssumption DEF RouterState, AtRequests

LEMMA OrchTypes ==
    /\ Idle \in OrchState /\ [pc |-> "status"] \in OrchState
    /\ \A a \in Alias : [pc |-> "remove", alias |-> a] \in OrchState
    /\ \A s \in Session : [pc |-> "attach", session |-> s] \in OrchState
    /\ \A o \in OrchState :
          /\ o.pc = "attach" => o.session \in Session /\ o = [pc |-> "attach", session |-> o.session]
          /\ o.pc = "remove" => o.alias \in Alias
          /\ o.pc = "status" => o = [pc |-> "status"]
  BY DEF OrchState, Idle

LEMMA NextRequest ==
    ASSUME TypeOK, NEW kind, Receive(kind)
    PROVE  /\ Head(requests) \in Request /\ requests' \in Seq(Request)
           /\ Head(requests).kind = kind /\ Head(requests).alias \in Alias
           /\ router = AtRequests
  BY HeadElements, RequestShape DEF TypeOK, Receive

LEMMA TeeTypes ==
    /\ NoTee \in Tee
    /\ \A r \in Run : [run |-> r, tx |-> NoSession] \in Tee
    /\ \A t \in Tee :
          /\ t.run \in Run \union {NoRun} /\ t.tx \in Session \union {NoSession}
          /\ \A x \in Session \union {NoSession} : [t EXCEPT !.tx = x] \in Tee
  BY DEF Tee, NoTee

LEMMA RunOfTee ==
    ASSUME TypeOK, NEW a \in Alias
    PROVE  /\ tees[a] \in Tee
           /\ tees[a].run \in Run \union {NoRun}
           /\ HasTee(a) => tees[a].run \in Run
           /\ tees[a].tx \in Session \union {NoSession}
           /\ tees[a].tx # NoSession => tees[a].tx \in Session
  BY TeeTypes DEF TypeOK, HasTee

LEMMA HistoryTypes ==
    /\ \A h \in History :
          /\ h.alias \in Alias \union {"none"} /\ h.run \in Run \union {NoRun}
          /\ h.first \in [Stream -> 0 .. MaxChunks]
          /\ \A by \in Requester :
                /\ [h EXCEPT !.end = by] \in History
                /\ [h EXCEPT !.end = by].alias = h.alias
                /\ [h EXCEPT !.end = by].run = h.run
                /\ [h EXCEPT !.end = by].first = h.first
                /\ [h EXCEPT !.end = by].end = by
    /\ \A a \in Alias, r \in Run, f \in [Stream -> 0 .. MaxChunks] :
          [alias |-> a, run |-> r, first |-> f, end |-> "none"] \in History
  BY SMTT(30) DEF History

(* A read takes the next chunk of a pipe and sends it to whoever has the    *)
(* Tee's channel.                                                           *)
LEMMA ForwardTypes ==
    ASSUME TypeOK, NEW a \in Alias, NEW st \in Stream, HasTee(a),
           Forward(a, st)
    PROVE  /\ read' \in [Run -> [Stream -> 0 .. MaxChunks]]
           /\ \A r \in Run, s \in Stream : written[r][s] - read'[r][s] \in 0 .. PipeSize
           /\ chan' \in [Session -> Seq(Chunk)]
           /\ \A s \in Session : Len(chan'[s]) <= Capacity
  <1> DEFINE r == tees[a].run
             s == tees[a].tx
             n == read[r][st]
             c == [run |-> r, stream |-> st, n |-> n + 1]
  <1>1. /\ r \in Run /\ n \in 0 .. MaxChunks /\ written[r][st] \in 0 .. MaxChunks
        /\ MaxChunks \in Nat /\ n < written[r][st] /\ PipeSize \in Nat /\ Capacity \in Nat
        /\ read' = [read EXCEPT ![r][st] = n + 1]
    BY RouterAssumption, RunOfTee DEF TypeOK, Forward, Unread
  <1>2. read' \in [Run -> [Stream -> 0 .. MaxChunks]]
    BY <1>1 DEF TypeOK
  <1>3. \A q \in Run, z \in Stream : written[q][z] - read'[q][z] \in 0 .. PipeSize
    <2> SUFFICES ASSUME NEW q \in Run, NEW z \in Stream
                 PROVE  written[q][z] - read'[q][z] \in 0 .. PipeSize
      OBVIOUS
    <2>1. written[q][z] - read[q][z] \in 0 .. PipeSize
      BY DEF TypeOK
    <2>2. read'[q][z] = IF q = r /\ z = st THEN n + 1 ELSE read[q][z]
      BY <1>1 DEF TypeOK
    <2> QED BY <1>1, <2>1, <2>2
  <1>4. CASE UNCHANGED chan
    BY <1>2, <1>3, <1>4 DEF TypeOK
  <1>5. CASE s # NoSession /\ Room(s) /\ chan' = [chan EXCEPT ![s] = Append(@, c)]
    <2>1. s \in Session /\ chan[s] \in Seq(Chunk)
      BY <1>5, RunOfTee DEF TypeOK
    <2>2. c \in Chunk
      BY <1>1 DEF Chunk
    <2>3. Append(chan[s], c) \in Seq(Chunk) /\ Len(Append(chan[s], c)) = Len(chan[s]) + 1
      BY <2>1, <2>2, AppendElements
    <2>4. Len(chan[s]) < Capacity /\ Len(chan[s]) \in Nat
      BY <1>5, <2>1 DEF Room
    <2>5. chan' \in [Session -> Seq(Chunk)]
      BY <1>5, <2>3 DEF TypeOK
    <2>6. \A t \in Session : Len(chan'[t]) <= Capacity
      BY <1>1, <1>5, <2>1, <2>3, <2>4 DEF TypeOK
    <2> QED BY <1>2, <1>3, <2>5, <2>6
  <1> QED BY <1>4, <1>5 DEF Forward

LEMMA PollTypes ==
    ASSUME NEW todo \in SUBSET Alias, PollAnyOf(todo)
    PROVE  router' \in RouterState
  BY RouterTypes DEF PollAnyOf, Stream

(* The variables keep their types. *)
LEMMA ProcessTypes ==
    ASSUME TypeOK, NEW r \in Run
    PROVE  /\ Exit(r) => TypeOK'
           /\ \A st \in Stream : Write(r, st) => TypeOK'
  <1>1. ASSUME Exit(r)
        PROVE  TypeOK'
    BY <1>1 DEF Exit, TypeOK, Attached
  <1>2. ASSUME NEW st \in Stream, Write(r, st)
        PROVE  TypeOK'
    <2>1. /\ written[r] \in [Stream -> 0 .. MaxChunks] /\ MaxChunks \in Nat /\ PipeSize \in Nat
          /\ \A z \in Stream : written[r][z] \in 0 .. MaxChunks /\ read[r][z] \in 0 .. MaxChunks
          /\ written[r][st] - read[r][st] \in 0 .. PipeSize
      BY RouterAssumption DEF TypeOK
    <2>2. written[r][st] < MaxChunks
      BY <1>2, <2>1 DEF Write, Stream
    <2>3. written' = [written EXCEPT ![r][st] = written[r][st] + 1]
      BY <1>2 DEF Write
    <2>4. written' \in [Run -> [Stream -> 0 .. MaxChunks]]
      BY <2>1, <2>2, <2>3 DEF TypeOK
    <2>5. \A q \in Run, z \in Stream : written'[q][z] - read[q][z] \in 0 .. PipeSize
      <3> SUFFICES ASSUME NEW q \in Run, NEW z \in Stream
                   PROVE  written'[q][z] - read[q][z] \in 0 .. PipeSize
        OBVIOUS
      <3>1. written'[q][z] = IF q = r /\ z = st THEN written[r][st] + 1 ELSE written[q][z]
        BY <2>3 DEF TypeOK
      <3>2. written[q][z] - read[q][z] \in 0 .. PipeSize
        BY DEF TypeOK
      <3>3. written[r][st] - read[r][st] < PipeSize
        BY <1>2 DEF Write
      <3> QED BY <2>1, <3>1, <3>2, <3>3
    <2> QED BY <1>2, <2>4, <2>5 DEF Write, TypeOK, Attached
  <1> QED BY <1>1, <1>2

LEMMA OrchestratorTypes ==
    ASSUME TypeOK, Orchestrator
    PROVE  TypeOK'
  <1>1. ASSUME NEW m \in Request
        PROVE  Append(requests, m) \in Seq(Request)
    BY AppendElements DEF TypeOK
  <1>2. ASSUME NEW a \in Alias, StartJob(a)
        PROVE  TypeOK'
    BY <1>1, <1>2, RequestTypes DEF StartJob, TypeOK, Attached
  <1>3. ASSUME NEW a \in Alias, FinishJob(a)
        PROVE  TypeOK'
    <2>1. StopForwardingMsg(a, FinishedBy(a)) \in Request
      BY RequestTypes DEF Requester, FinishedBy
    <2>2. commands' \in Nat
      BY <1>3 DEF FinishJob, TypeOK
    <2> QED BY <1>1, <1>3, <2>1, <2>2, OrchTypes DEF FinishJob, TypeOK, Attached
  <1>4. ASSUME NEW a \in Alias, Detach(a)
        PROVE  TypeOK'
    <2>1. StopForwardingMsg(a, "detach") \in Request
      BY RequestTypes DEF Requester
    <2>2. commands' \in Nat
      BY <1>4 DEF Detach, TypeOK
    <2> QED BY <1>1, <1>4, <2>1, <2>2 DEF Detach, TypeOK, Attached
  <1>5. ASSUME NEW a \in Alias, Status(a)
        PROVE  TypeOK'
    <2>1. commands' \in Nat
      BY <1>5 DEF Status, TypeOK
    <2> QED BY <1>1, <1>5, <2>1, RequestTypes, OrchTypes DEF Status, TypeOK, Attached
  <1>6. ASSUME NEW s \in Session, NEW a \in Alias, Attach(s, a)
        PROVE  TypeOK'
    BY <1>1, <1>6, RequestTypes, OrchTypes DEF Attach, TypeOK, Attached
  <1>7. CASE RemoveJob
    <2>1. orch.alias \in Alias
      BY <1>7, OrchTypes DEF RemoveJob, TypeOK
    <2> QED BY <1>1, <1>7, <2>1, RequestTypes, OrchTypes DEF RemoveJob, TypeOK, Attached
  <1>8. CASE AttachReturns
    BY <1>8, OrchTypes DEF AttachReturns, TypeOK, Attached
  <1>9. CASE StatusReturns
    BY <1>9, OrchTypes DEF StatusReturns, TypeOK, Attached
  <1> QED BY <1>2, <1>3, <1>4, <1>5, <1>6, <1>7, <1>8, <1>9 DEF Orchestrator

LEMMA RouterTypeStep ==
    ASSUME TypeOK, AtWork, Held, Router
    PROVE  TypeOK'
  <1>1. CASE HandleCreate
    <2>1. Head(requests).run \in Run
      BY <1>1, NextRequest, RequestShape DEF HandleCreate
    <2>2. tees' \in [Alias -> Tee]
      BY <1>1, <2>1, NextRequest, TeeTypes DEF HandleCreate, TypeOK
    <2> QED BY <1>1, <2>2, NextRequest DEF HandleCreate, TypeOK, Attached
  <1>2. CASE HandleRemove
    <2>1. tees' \in [Alias -> Tee]
      BY <1>2, NextRequest, TeeTypes DEF HandleRemove, TypeOK
    <2> QED BY <1>2, <2>1, NextRequest DEF HandleRemove, TypeOK, Attached
  <1>3. CASE HandleReadBuff
    BY <1>3, NextRequest DEF HandleReadBuff, TypeOK, Attached
  <1>4. CASE HandleStartForwarding
    <2> DEFINE a == Head(requests).alias
               s == Head(requests).session
               h == [alias |-> a, run |-> tees[a].run, first |-> read[tees[a].run], end |-> "none"]
    <2>1. a \in Alias /\ s \in Session /\ requests' \in Seq(Request)
      BY <1>4, NextRequest, RequestShape DEF HandleStartForwarding
    <2>2. CASE MayForward(a)
      <3>1. tees[a].run \in Run
        BY <2>1, <2>2, RunOfTee DEF MayForward
      <3>2. tees' = [tees EXCEPT ![a].tx = s] /\ att' = [att EXCEPT ![s] = h] /\ reply' = "Ok"
            /\ UNCHANGED <<process, job, written, read, router, orch, chan, forwarder, got, gone, commands>>
        BY <1>4, <2>2 DEF HandleStartForwarding
      <3>3. tees' \in [Alias -> Tee]
        BY <2>1, <3>2, TeeTypes DEF TypeOK
      <3>4. read[tees[a].run] \in [Stream -> 0 .. MaxChunks]
        BY <3>1 DEF TypeOK
      <3>5. h \in History /\ h.alias \in Alias
        BY <2>1, <3>1, <3>4, HistoryTypes
      <3>6. att' \in [Session -> History]
            /\ \A t \in Session : att'[t].run # NoRun => att'[t].alias \in Alias
        BY <2>1, <3>2, <3>5 DEF TypeOK, Attached
      <3> QED BY <2>1, <3>2, <3>3, <3>6 DEF TypeOK, Attached
    <2>3. CASE ~MayForward(a)
      BY <1>4, <2>1, <2>3 DEF HandleStartForwarding, TypeOK, Attached, Refusal
    <2> QED BY <2>2, <2>3
  <1>5. CASE HandleStopForwarding
    <2>1. router' \in RouterState
      BY <1>5, NextRequest, RequestShape, RouterTypes DEF HandleStopForwarding, Stream
    <2> QED BY <1>5, <2>1, NextRequest DEF HandleStopForwarding, TypeOK, Attached
  <1>6. CASE DrainRead
    <2>1. router \in RouterState /\ router.pc = "drain" /\ router.left > 0
          /\ router' = [router EXCEPT !.left = @ - 1] /\ Forward(router.alias, router.stream)
      BY <1>6 DEF DrainRead, TypeOK
    <2>2. router.alias \in Alias /\ router.stream \in Stream /\ router' \in RouterState
      BY <2>1, RouterShape
    <2>3. HasTee(router.alias)
      BY <2>1, <2>2 DEF AtWork, Held
    <2> QED BY <1>6, <2>1, <2>2, <2>3, ForwardTypes DEF DrainRead, TypeOK, Attached
  <1>7. CASE DrainStderr
    <2>1. router' \in RouterState
      BY <1>7, RouterShape, RouterTypes DEF DrainStderr, DrainedStream, TypeOK, Stream
    <2> QED BY <1>7, <2>1 DEF DrainStderr, TypeOK, Attached
  <1>8. CASE Release
    <2> DEFINE a == router.alias
               s == tees[a].tx
    <2>1. a \in Alias /\ router.by \in Requester /\ s \in Session
      BY <1>8, RouterShape, RunOfTee DEF Release, DrainedStream, TypeOK, AtWork
    <2>2. tees' = [tees EXCEPT ![a].tx = NoSession] /\ att' = [att EXCEPT ![s].end = router.by]
      BY <1>8 DEF Release
    <2>3. tees' \in [Alias -> Tee]
      BY <2>1, <2>2, TeeTypes DEF TypeOK
    <2>4. att' \in [Session -> History]
          /\ \A t \in Session : att'[t].run # NoRun => att'[t].alias \in Alias
      BY <2>1, <2>2, HistoryTypes DEF TypeOK, Attached
    <2> QED BY <1>8, <2>3, <2>4, RouterTypes DEF Release, TypeOK, Attached
  <1>9. CASE BeginPoll
    <2>1. router' \in RouterState
      BY <1>9, PollTypes DEF BeginPoll
    <2> QED BY <1>9, <2>1 DEF BeginPoll, TypeOK, Attached
  <1>10. CASE Poll
    <2>1. /\ router.alias \in Alias /\ router.stream \in Stream /\ HasTee(router.alias)
          /\ router.todo \in SUBSET Alias
      BY <1>10, RouterShape DEF Poll, AtWork, TypeOK
    <2>2. router' \in RouterState
      BY <1>10, <2>1, PollTypes, RouterTypes DEF Poll, Stream
    <2> QED BY <1>10, <2>1, <2>2, ForwardTypes DEF Poll, TypeOK, Attached
  <1> QED
    BY <1>1, <1>2, <1>3, <1>4, <1>5, <1>6, <1>7, <1>8, <1>9, <1>10 DEF Router

LEMMA ForwarderTypes ==
    ASSUME TypeOK, Sessions, NEW s \in Session, Forwarder(s) \/ Disconnect(s)
    PROVE  TypeOK'
  <1>1. CASE ForwardData(s)
    <2>1. Head(chan[s]) \in Chunk /\ Tail(chan[s]) \in Seq(Chunk)
          /\ Len(Tail(chan[s])) = Len(chan[s]) - 1 /\ Len(chan[s]) \in Nat
      BY <1>1, HeadElements DEF ForwardData, TypeOK
    <2>2. Append(got[s], Head(chan[s])) \in Seq(Chunk)
      BY <2>1, AppendElements DEF TypeOK
    <2>3. chan' \in [Session -> Seq(Chunk)] /\ got' \in [Session -> Seq(Chunk)]
      BY <1>1, <2>1, <2>2 DEF ForwardData, TypeOK
    <2>4. \A t \in Session : Len(chan'[t]) <= Capacity
      BY <1>1, <2>1, RouterAssumption DEF ForwardData, TypeOK
    <2> QED BY <1>1, <2>3, <2>4 DEF ForwardData, TypeOK, Attached
  <1>2. CASE ForwardFails(s)
    <2>1. Tail(chan[s]) \in Seq(Chunk)
          /\ Len(Tail(chan[s])) = Len(chan[s]) - 1 /\ Len(chan[s]) \in Nat
      BY <1>2, HeadElements DEF ForwardFails, TypeOK
    <2>2. chan' \in [Session -> Seq(Chunk)]
      BY <1>2, <2>1 DEF ForwardFails, TypeOK
    <2>3. \A t \in Session : Len(chan'[t]) <= Capacity
      BY <1>2, <2>1, RouterAssumption DEF ForwardFails, TypeOK
    <2> QED BY <1>2, <2>2, <2>3 DEF ForwardFails, TypeOK, Attached
  <1>3. CASE EndOfStream(s)
    BY <1>3 DEF EndOfStream, TypeOK, Attached
  <1>4. CASE StopOwn(s)
    <2>1. att[s].alias \in Alias
      BY <1>4 DEF StopOwn, Sessions, Stage, TypeOK
    <2>2. StopForwardingMsg(att[s].alias, "forwarder") \in Request
      BY <2>1, RequestTypes DEF Requester
    <2>5. Append(requests, StopForwardingMsg(att[s].alias, "forwarder")) \in Seq(Request)
      BY <2>2, AppendElements DEF TypeOK
    <2>3. <<>> \in Seq(Chunk) /\ Len(<<>>) = 0
      OBVIOUS
    <2>4. chan' \in [Session -> Seq(Chunk)] /\ \A t \in Session : Len(chan'[t]) <= Capacity
      BY <1>4, <2>3, RouterAssumption DEF StopOwn, TypeOK
    <2> QED BY <1>4, <2>4, <2>5 DEF StopOwn, TypeOK, Attached
  <1>5. CASE Disconnect(s)
    BY <1>5 DEF Disconnect, TypeOK, Attached
  <1> QED BY <1>1, <1>2, <1>3, <1>4, <1>5 DEF Forwarder

LEMMA TypeStep ==
    ASSUME TypeOK, AtWork, Held, Sessions, [Next]_vars
    PROVE  TypeOK'
  <1>1. CASE UNCHANGED vars
    BY <1>1 DEF vars, TypeOK, Attached
  <1> QED
    BY <1>1, ProcessTypes, OrchestratorTypes, RouterTypeStep, ForwarderTypes
    DEF Next

LEMMA TypeInit == Init => TypeOK
  BY RouterAssumption DEF Init, TypeOK, Attached, RouterState, OrchState, Tee, NoTee, History, NotAttached, Idle

-----------------------------------------------------------------------------
(* The router's channel *)

LEMMA Dequeued ==
    ASSUME TypeOK, NEW kind, Receive(kind)
    PROVE  /\ Head(requests) \in Request
           /\ 1 \in DOMAIN requests /\ requests[1] = Head(requests)
           /\ requests[1].kind = kind /\ requests[1].alias \in Alias
           /\ \A i \in DOMAIN requests : i \in Nat \ {0}
           /\ \A i \in DOMAIN requests' :
                 /\ i \in Nat \ {0}
                 /\ i + 1 \in DOMAIN requests /\ requests'[i] = requests[i + 1]
           /\ \A i \in DOMAIN requests :
                 i = 1 \/ (i - 1 \in DOMAIN requests' /\ requests'[i - 1] = requests[i])
  <1>1. requests \in Seq(Request) /\ requests # <<>> /\ requests' = Tail(requests)
        /\ Head(requests).kind = kind
    BY DEF TypeOK, Receive
  <1>2. Tail(requests) \in Seq(Request)
    BY <1>1, HeadElements
  <1>3. \A q \in Seq(Request) : \A i \in DOMAIN q : i \in Nat \ {0}
    OBVIOUS
  <1> QED BY <1>1, <1>2, <1>3, HeadElements, RequestShape

LEMMA Enqueued ==
    ASSUME TypeOK, NEW m \in Request, requests' = Append(requests, m)
    PROVE  /\ Len(requests) \in Nat
           /\ \A i \in DOMAIN requests : i \in Nat /\ i < Len(requests) + 1
           /\ Len(requests) + 1 \in DOMAIN requests' /\ requests'[Len(requests) + 1] = m
           /\ \A i \in DOMAIN requests :
                 i \in DOMAIN requests' /\ requests'[i] = requests[i]
           /\ \A i \in DOMAIN requests' :
                 \/ i \in DOMAIN requests /\ requests'[i] = requests[i]
                 \/ i = Len(requests) + 1 /\ requests'[i] = m
  <1>1. requests \in Seq(Request)
    BY DEF TypeOK
  <1>2. \A i \in DOMAIN requests : i \in Nat /\ i < Len(requests) + 1
    BY <1>1
  <1> QED BY <1>1, <1>2, AppendElements

LEMMA Kinds ==
    ASSUME NEW a, NEW x
    PROVE  /\ CreateMsg(a, x).kind = "Create" /\ CreateMsg(a, x).alias = a /\ CreateMsg(a, x).run = x
           /\ RemoveMsg(a).kind = "Remove" /\ RemoveMsg(a).alias = a
           /\ ReadBuffMsg(a).kind = "ReadBuff" /\ ReadBuffMsg(a).alias = a
           /\ StartForwardingMsg(a, x).kind = "StartForwarding" /\ StartForwardingMsg(a, x).alias = a
           /\ StartForwardingMsg(a, x).session = x
           /\ StopForwardingMsg(a, x).kind = "StopForwarding" /\ StopForwardingMsg(a, x).alias = a
           /\ StopForwardingMsg(a, x).by = x
  BY DEF CreateMsg, RemoveMsg, ReadBuffMsg, StartForwardingMsg, StopForwardingMsg

(* Who writes what. *)
LEMMA OnlyRouter ==
    ASSUME [Next]_vars
    PROVE  Router \/ UNCHANGED <<tees, router, read, att>>
  BY DEF Next, Orchestrator, Forwarder, vars, Exit, Write, StartJob, FinishJob,
         Detach, Status, Attach, RemoveJob, AttachReturns, StatusReturns,
         ForwardData, ForwardFails, EndOfStream, StopOwn, Disconnect

-----------------------------------------------------------------------------
(* The orchestrator's waits *)

LEMMA NothingAsked ==
    ASSUME Waits, orch.pc \in {"recv", "remove"}
    PROVE  /\ reply = "none"
           /\ \A i \in DOMAIN requests :
                 requests[i].kind \notin {"StartForwarding", "ReadBuff"}
  BY DEF Waits

LEMMA WaitsSend ==
    ASSUME TypeOK, Waits, NEW m \in Request, requests' = Append(requests, m),
           reply' = reply,
           \/ orch' = orch /\ m.kind = "StopForwarding"
           \/ /\ orch.pc \in {"recv", "remove"}
              /\ m.kind = "StartForwarding" => orch' = [pc |-> "attach", session |-> m.session]
              /\ m.kind = "ReadBuff" => orch' = [pc |-> "status"]
    PROVE  Waits'
  <1>1. ASSUME NEW i \in DOMAIN requests, requests[i].kind \in {"StartForwarding", "ReadBuff"}
        PROVE  /\ m.kind = "StopForwarding" /\ orch' = orch
               /\ Last(i)'
    <2>1. m.kind = "StopForwarding" /\ orch' = orch /\ Last(i)
      BY <1>1, NothingAsked DEF Waits
    <2> QED BY <2>1, Enqueued DEF Last
  <1>2. \A i \in DOMAIN requests' : i = Len(requests) + 1 => Last(i)'
    BY Enqueued DEF Last
  <1>3. ASSUME m.kind \in {"StartForwarding", "ReadBuff"}
        PROVE  reply = "none"
    BY <1>3, NothingAsked
  <1>4. reply # "none" => orch' = orch
    BY NothingAsked
  <1>5. ASSUME NEW i \in DOMAIN requests',
               requests'[i].kind \in {"StartForwarding", "ReadBuff"}
        PROVE  /\ requests'[i].kind = "StartForwarding" =>
                     orch' = [pc |-> "attach", session |-> requests'[i].session]
               /\ requests'[i].kind = "ReadBuff" => orch' = [pc |-> "status"]
               /\ reply' = "none" /\ Last(i)'
    <2>1. CASE i \in DOMAIN requests /\ requests'[i] = requests[i]
      BY <1>1, <1>5, <2>1 DEF Waits
    <2>2. CASE i = Len(requests) + 1 /\ requests'[i] = m
      BY <1>2, <1>3, <1>5, <2>2
    <2> QED BY <2>1, <2>2, Enqueued
  <1> QED BY <1>4, <1>5 DEF Waits

LEMMA WaitsHandle ==
    ASSUME TypeOK, Waits, NEW kind, Receive(kind), orch' = orch,
           reply' = reply \/ kind \in {"StartForwarding", "ReadBuff"}
    PROVE  Waits'
  <1>1. \A i \in DOMAIN requests' : Last(i + 1) => Last(i)'
    BY Dequeued DEF Last
  <1>2. CASE reply' = reply
    BY <1>1, <1>2, Dequeued DEF Waits
  <1>3. CASE kind \in {"StartForwarding", "ReadBuff"}
    <2>1. Last(1) /\ orch.pc \in {"attach", "status"}
      BY <1>3, Dequeued DEF Waits
    <2>2. \A i \in DOMAIN requests' : requests'[i].kind = "StopForwarding"
      BY <2>1, Dequeued DEF Last
    <2> QED BY <2>1, <2>2 DEF Waits
  <1> QED BY <1>2, <1>3

LEMMA WaitsReturn ==
    ASSUME Waits, reply # "none", reply' = "none", orch' = Idle, requests' = requests
    PROVE  Waits'
  BY DEF Waits, Idle

LEMMA WaitsStay ==
    ASSUME Waits, UNCHANGED <<requests, orch, reply>>
    PROVE  Waits'
  BY DEF Waits, Last

LEMMA WaitsStep ==
    ASSUME TypeOK, Sessions, Waits, [Next]_vars
    PROVE  Waits'
  <1>1. ASSUME NEW a \in Alias, StartJob(a) \/ FinishJob(a) \/ Detach(a) \/ Status(a)
        PROVE  Waits'
    <2>1. orch.pc = "recv"
      BY <1>1 DEF StartJob, FinishJob, Detach, Status, Idle
    <2>2. CASE StartJob(a)
      BY <2>1, <2>2, RequestTypes, Kinds, WaitsSend DEF StartJob
    <2>3. CASE FinishJob(a)
      <3>1. StopForwardingMsg(a, FinishedBy(a)) \in Request
        BY RequestTypes DEF Requester, FinishedBy
      <3> QED BY <2>1, <2>3, <3>1, Kinds, WaitsSend DEF FinishJob
    <2>4. CASE Detach(a)
      <3>1. StopForwardingMsg(a, "detach") \in Request
        BY RequestTypes DEF Requester
      <3> QED BY <2>1, <2>4, <3>1, Kinds, WaitsSend DEF Detach
    <2>5. CASE Status(a)
      BY <2>1, <2>5, RequestTypes, Kinds, WaitsSend DEF Status
    <2> QED BY <1>1, <2>2, <2>3, <2>4, <2>5
  <1>2. ASSUME NEW s \in Session, NEW a \in Alias, Attach(s, a)
        PROVE  Waits'
    <2>1. orch.pc = "recv"
      BY <1>2 DEF Attach, Idle
    <2> QED BY <1>2, <2>1, RequestTypes, Kinds, WaitsSend DEF Attach
  <1>3. CASE RemoveJob
    <2>1. orch.alias \in Alias
      BY <1>3, OrchTypes DEF RemoveJob, TypeOK
    <2> QED BY <1>3, <2>1, RequestTypes, Kinds, WaitsSend DEF RemoveJob
  <1>4. CASE AttachReturns \/ StatusReturns
    BY <1>4, WaitsReturn DEF AttachReturns, StatusReturns
  <1>5. CASE HandleCreate \/ HandleRemove \/ HandleReadBuff \/ HandleStartForwarding \/ HandleStopForwarding
    BY <1>5, WaitsHandle DEF HandleCreate, HandleRemove, HandleReadBuff, HandleStartForwarding, HandleStopForwarding
  <1>6. CASE DrainRead \/ DrainStderr \/ Release \/ BeginPoll \/ Poll
    BY <1>6, WaitsStay DEF DrainRead, DrainStderr, Release, BeginPoll, Poll
  <1>7. ASSUME NEW s \in Session, StopOwn(s)
        PROVE  Waits'
    <2>1. att[s].alias \in Alias
      BY <1>7 DEF StopOwn, Sessions, Stage, TypeOK
    <2>2. StopForwardingMsg(att[s].alias, "forwarder") \in Request
      BY <2>1, RequestTypes DEF Requester
    <2> QED BY <1>7, <2>2, Kinds, WaitsSend DEF StopOwn
  <1>8. ASSUME NEW s \in Session, ForwardData(s) \/ ForwardFails(s) \/ EndOfStream(s) \/ Disconnect(s)
        PROVE  Waits'
    BY <1>8, WaitsStay DEF ForwardData, ForwardFails, EndOfStream, Disconnect
  <1>9. ASSUME NEW r \in Run, Exit(r) \/ \E st \in Stream : Write(r, st)
        PROVE  Waits'
    BY <1>9, WaitsStay DEF Exit, Write
  <1>10. CASE UNCHANGED vars
    BY <1>10, WaitsStay DEF vars
  <1> QED
    BY <1>1, <1>2, <1>3, <1>4, <1>5, <1>6, <1>7, <1>8, <1>9, <1>10
    DEF Next, Orchestrator, Router, Forwarder

-----------------------------------------------------------------------------
(* What the steps of the router do to its Tees, the pipes and the channels *)

LEMMA Changing ==
    ASSUME TypeOK, HandleCreate \/ HandleRemove
    PROVE  LET a == Head(requests).alias IN
           /\ a \in Alias
           /\ \A b \in Alias : b # a => tees'[b] = tees[b]
           /\ tees'[a].run # tees[a].run \/ tees'[a].tx # tees[a].tx => tees'[a].tx = NoSession
           /\ HandleRemove => tees'[a].run = NoRun
           /\ HandleCreate =>
                 \/ tees'[a].run = tees[a].run
                 \/ HasTee(a) = FALSE /\ tees'[a].run = Head(requests).run
  <1> DEFINE a == Head(requests).alias
  <1>1. a \in Alias /\ tees \in [Alias -> Tee]
    BY NextRequest DEF HandleCreate, HandleRemove, TypeOK
  <1>2. CASE HandleCreate /\ UNCHANGED tees
    BY <1>1, <1>2 DEF HandleCreate, HandleRemove, Receive
  <1>3. CASE HandleCreate /\ ~HasTee(a)
             /\ tees' = [tees EXCEPT ![a] = [run |-> Head(requests).run, tx |-> NoSession]]
    BY <1>1, <1>3 DEF HandleRemove, HandleCreate, Receive
  <1>4. CASE HandleRemove
    BY <1>1, <1>4 DEF HandleRemove, HandleCreate, Receive, NoTee
  <1> QED BY <1>2, <1>3, <1>4 DEF HandleCreate

LEMMA Granting ==
    ASSUME TypeOK, HandleStartForwarding
    PROVE  LET a == Head(requests).alias
               s == Head(requests).session
           IN /\ a \in Alias /\ s \in Session
              /\ \/ ~MayForward(a) /\ UNCHANGED <<tees, att>>
                    /\ reply' \in {"JobAlreadyAttached", "JobNotFound"}
                 \/ /\ HasTee(a) /\ tees[a].tx = NoSession /\ reply' = "Ok"
                    /\ tees[a].run \in Run
                    /\ \A b \in Alias : b # a => tees'[b] = tees[b]
                    /\ tees'[a].tx = s /\ tees'[a].run = tees[a].run
                    /\ \A t \in Session : t # s => att'[t] = att[t]
                    /\ att'[s].alias = a /\ att'[s].run = tees[a].run
                    /\ att'[s].first = read[tees[a].run] /\ att'[s].end = "none"
  <1> DEFINE a == Head(requests).alias
             s == Head(requests).session
  <1>1. a \in Alias /\ s \in Session
    BY NextRequest, RequestShape DEF HandleStartForwarding
  <1>2. CASE ~MayForward(a)
    BY <1>1, <1>2 DEF HandleStartForwarding, Refusal
  <1>3. CASE MayForward(a)
    <2>1. /\ tees' = [tees EXCEPT ![a].tx = s] /\ reply' = "Ok"
          /\ att' = [att EXCEPT ![s] = [alias |-> a, run |-> tees[a].run,
                                       first |-> read[tees[a].run], end |-> "none"]]
      BY <1>3 DEF HandleStartForwarding
    <2>2. HasTee(a) /\ tees[a].tx = NoSession
      BY <1>3 DEF MayForward
    <2>3. tees'[a] = [tees[a] EXCEPT !.tx = s] /\ \A b \in Alias : b # a => tees'[b] = tees[b]
      BY <1>1, <2>1 DEF TypeOK
    <2>4. tees'[a].tx = s /\ tees'[a].run = tees[a].run
      BY <1>1, <2>3, RunOfTee DEF Tee
    <2>5. /\ \A t \in Session : t # s => att'[t] = att[t]
          /\ att'[s] = [alias |-> a, run |-> tees[a].run, first |-> read[tees[a].run], end |-> "none"]
      BY <1>1, <2>1 DEF TypeOK
    <2> QED BY <1>1, <2>1, <2>2, <2>3, <2>4, <2>5, RunOfTee
  <1> QED BY <1>2, <1>3

LEMMA Releasing ==
    ASSUME TypeOK, AtWork, Release
    PROVE  LET a == router.alias
               s == tees[a].tx
           IN /\ a \in Alias /\ s \in Session /\ router.by \in Requester
              /\ \A b \in Alias : b # a => tees'[b] = tees[b]
              /\ tees'[a].tx = NoSession /\ tees'[a].run = tees[a].run
              /\ \A t \in Session :
                    /\ att'[t].alias = att[t].alias /\ att'[t].run = att[t].run
                    /\ att'[t].first = att[t].first
                    /\ att'[t].end = IF t = s THEN router.by ELSE att[t].end
  <1> DEFINE a == router.alias
             s == tees[a].tx
  <1>1. router \in RouterState /\ router.pc = "drain" /\ s # NoSession
    BY DEF Release, DrainedStream, TypeOK, AtWork
  <1>2. a \in Alias /\ router.by \in Requester
    BY <1>1, RouterShape
  <1>3. s \in Session
    BY <1>1, <1>2, RunOfTee
  <1>4. tees' = [tees EXCEPT ![a].tx = NoSession] /\ att' = [att EXCEPT ![s].end = router.by]
    BY DEF Release
  <1>5. tees'[a] = [tees[a] EXCEPT !.tx = NoSession] /\ \A b \in Alias : b # a => tees'[b] = tees[b]
    BY <1>2, <1>4 DEF TypeOK
  <1>6. tees'[a].tx = NoSession /\ tees'[a].run = tees[a].run
    BY <1>2, <1>5, RunOfTee DEF Tee
  <1>7. att'[s] = [att[s] EXCEPT !.end = router.by] /\ \A t \in Session : t # s => att'[t] = att[t]
    BY <1>3, <1>4 DEF TypeOK
  <1>8. att[s] \in History
    BY <1>3 DEF TypeOK
  <1>9. /\ att'[s].alias = att[s].alias /\ att'[s].run = att[s].run
        /\ att'[s].first = att[s].first /\ att'[s].end = router.by
    BY <1>2, <1>7, <1>8, HistoryTypes
  <1> QED BY <1>2, <1>3, <1>5, <1>6, <1>7, <1>9

LEMMA Reading ==
    ASSUME TypeOK, AtWork, Held, DrainRead \/ Poll
    PROVE  LET a == router.alias
               st == router.stream
               r == tees[a].run
               s == tees[a].tx
               c == [run |-> r, stream |-> st, n |-> read[r][st] + 1]
           IN /\ UNCHANGED <<process, job, written, requests, tees, orch, reply, forwarder, got, gone, commands, att>>
              /\ a \in Alias /\ st \in Stream /\ r \in Run
              /\ \/ UNCHANGED <<read, chan>>
                 \/ /\ read[r][st] < written[r][st]
                    /\ c \in Chunk
                    /\ \A q \in Run, z \in Stream :
                          read'[q][z] = IF q = r /\ z = st THEN read[r][st] + 1 ELSE read[q][z]
                    /\ \/ UNCHANGED chan /\ (s = NoSession \/ forwarder[s] = "done")
                       \/ /\ s \in Session /\ forwarder[s] # "done"
                          /\ chan'[s] = Append(chan[s], c)
                          /\ \A t \in Session : t # s => chan'[t] = chan[t]
  <1> DEFINE a == router.alias
             st == router.stream
             r == tees[a].run
             s == tees[a].tx
             c == [run |-> r, stream |-> st, n |-> read[r][st] + 1]
  <1>1. /\ router \in RouterState /\ router.pc \in {"drain", "poll"}
        /\ UNCHANGED <<process, job, written, requests, tees, orch, reply, forwarder, got, gone, commands, att>>
        /\ UNCHANGED <<read, chan>> \/ Forward(a, st)
    BY DEF DrainRead, Poll, TypeOK
  <1>2. a \in Alias /\ st \in Stream
    BY <1>1, RouterShape, Zenon
  <1>3. HasTee(a)
    BY <1>1, <1>2 DEF AtWork, Held
  <1>4. r \in Run
    BY <1>2, <1>3, RunOfTee
  <1>5. CASE Forward(a, st)
    <2>1. /\ read[r][st] \in 0 .. MaxChunks /\ written[r][st] \in 0 .. MaxChunks
          /\ MaxChunks \in Nat
      BY <1>2, <1>4, RouterAssumption, SMTT(30) DEF TypeOK
    <2>2. read[r][st] < written[r][st] /\ read' = [read EXCEPT ![r][st] = read[r][st] + 1]
      BY <1>5 DEF Forward, Unread
    <2>3. c \in Chunk
      BY <1>2, <1>4, <2>1, <2>2 DEF Chunk
    <2>4. \A q \in Run, z \in Stream :
             read'[q][z] = IF q = r /\ z = st THEN read[r][st] + 1 ELSE read[q][z]
      BY <1>2, <1>4, <2>2, SMTT(30) DEF TypeOK
    <2>5. \/ UNCHANGED chan /\ (s = NoSession \/ forwarder[s] = "done")
          \/ s # NoSession /\ forwarder[s] # "done" /\ chan' = [chan EXCEPT ![s] = Append(chan[s], c)]
      BY <1>5 DEF Forward
    <2>6. s # NoSession => s \in Session
      BY <1>2, RunOfTee, SMTT(30)
    <2>7. \/ UNCHANGED chan /\ (s = NoSession \/ forwarder[s] = "done")
          \/ /\ s \in Session /\ forwarder[s] # "done"
             /\ chan'[s] = Append(chan[s], c)
             /\ \A t \in Session : t # s => chan'[t] = chan[t]
      BY <2>5, <2>6 DEF TypeOK
    <2> QED BY <1>1, <1>2, <1>4, <2>2, <2>3, <2>4, <2>7, Zenon
  <1> QED BY <1>1, <1>2, <1>4, <1>5

-----------------------------------------------------------------------------
(* What the router holds and is at work on *)

LEMMA HeldStep ==
    ASSUME TypeOK, AtWork, Held, Waits, Sessions, [Next]_vars
    PROVE  Held'
  <1>1. CASE UNCHANGED <<tees, att>>
    BY <1>1 DEF Held, HasTee
  <1>2. CASE HandleCreate \/ HandleRemove
    <2>1. UNCHANGED att
      BY <1>2 DEF HandleCreate, HandleRemove
    <2>2. \A a \in Alias : \/ tees'[a].run = tees[a].run /\ tees'[a].tx = tees[a].tx
                          \/ tees'[a].tx = NoSession
      BY <1>2, Changing
    <2> QED BY <2>1, <2>2 DEF Held, HasTee
  <1>4. CASE HandleStartForwarding
    <2> DEFINE a == Head(requests).alias
               s == Head(requests).session
    <2>1. a \in Alias /\ s \in Session
      BY <1>4, Granting
    <2>2. ~Attached(s)
      <3>1. orch.pc = "attach" /\ orch.session = s /\ reply = "none"
        BY <1>4, Dequeued DEF HandleStartForwarding, Waits
      <3> QED BY <3>1 DEF Sessions
    <2>3. \A b \in Alias : tees[b].tx # s
      BY <2>1, <2>2, RouterAssumption DEF Held, HasTee, Attached
    <2> QED BY <1>1, <1>4, <2>1, <2>3, Granting, RunOfTee DEF Held, HasTee
  <1>5. CASE Release
    <2> DEFINE a == router.alias
               s == tees[a].tx
    <2>1. \A b \in Alias : b # a => tees[b].tx # s
      BY <1>5, Releasing, RouterAssumption DEF Held
    <2> QED BY <1>5, <2>1, Releasing, RunOfTee DEF Held, HasTee
  <1>6. CASE HandleReadBuff \/ HandleStopForwarding \/ DrainRead \/ DrainStderr \/ BeginPoll \/ Poll
    BY <1>1, <1>6 DEF HandleReadBuff, HandleStopForwarding, DrainRead, DrainStderr, BeginPoll, Poll
  <1> QED BY <1>1, <1>2, <1>4, <1>5, <1>6, OnlyRouter DEF Router

LEMMA AtWorkStep ==
    ASSUME TypeOK, AtWork, Held, [Next]_vars
    PROVE  AtWork'
  <1>1. CASE UNCHANGED <<tees, router>>
    BY <1>1 DEF AtWork, HasTee
  <1>2. CASE router' = AtRequests
    BY <1>2 DEF AtWork, AtRequests
  <1>3. ASSUME NEW todo \in SUBSET Alias, PollAnyOf(todo), UNCHANGED tees,
               \A a \in todo : HasTee(a)
        PROVE  AtWork'
    BY <1>3 DEF PollAnyOf, AtWork, HasTee, AtRequests, AtPoll
  <1>4. CASE HandleStopForwarding
    BY <1>2, <1>4 DEF HandleStopForwarding, AtWork, AtDrain
  <1>5. CASE DrainRead
    BY <1>5, RouterShape DEF DrainRead, AtWork, TypeOK
  <1>6. CASE DrainStderr
    BY <1>6 DEF DrainStderr, DrainedStream, AtWork, AtDrain
  <1>7. CASE BeginPoll
    BY <1>3, <1>7 DEF BeginPoll
  <1>8. CASE Poll
    <2>1. router.pc = "poll" /\ router.todo \in SUBSET Alias /\ UNCHANGED tees
          /\ HasTee(router.alias) /\ \A a \in router.todo : HasTee(a)
      BY <1>8, RouterShape DEF Poll, AtWork, TypeOK
    <2>2. CASE router' = AtPoll(router.alias, "stderr", router.todo)
      BY <2>1, <2>2 DEF AtWork, HasTee, AtPoll
    <2> QED BY <1>3, <1>8, <2>1, <2>2 DEF Poll
  <1>9. CASE HandleCreate \/ HandleRemove \/ HandleReadBuff \/ HandleStartForwarding \/ Release
    BY <1>2, <1>9 DEF HandleCreate, HandleRemove, HandleReadBuff, HandleStartForwarding, Release, Receive
  <1> QED
    BY <1>1, <1>4, <1>5, <1>6, <1>7, <1>8, <1>9, OnlyRouter DEF Router

-----------------------------------------------------------------------------
(* How far a session is *)

LEMMA RunIsNotNo == \A r \in Run : r # NoRun
  BY RouterAssumption DEF Run, NoRun

LEMMA StageKept ==
    ASSUME NEW s, Stage(s), UNCHANGED orch,
           forwarder'[s] = forwarder[s], got'[s] = got[s], chan'[s] = chan[s],
           s \in gone' => s \in gone, s \in gone => s \in gone',
           att'[s].run = att[s].run, att'[s].alias = att[s].alias,
           Attached(s) /\ tees'[att[s].alias].tx = s => tees[att[s].alias].tx = s
    PROVE  Stage(s)'
  BY DEF Stage, Attached

LEMMA SessionsStep ==
    ASSUME TypeOK, AtWork, Held, Waits, Sessions, [Next]_vars
    PROVE  Sessions'
  <1>1. CASE UNCHANGED <<orch, reply, forwarder, att, got, chan, gone, tees>>
    BY <1>1 DEF Sessions, Stage, Attached
  <1>2. ASSUME NEW s \in Session, NEW a \in Alias, Attach(s, a)
        PROVE  Sessions'
    BY <1>2, NothingAsked DEF Attach, Sessions, Stage, Attached, Idle, TypeOK
  <1>3. CASE AttachReturns
    BY <1>3, OrchTypes DEF AttachReturns, Sessions, Stage, Attached, Idle, TypeOK
  <1>4. CASE StatusReturns
    BY <1>4 DEF StatusReturns, Sessions, Stage, Attached, Idle
  <1>5. ASSUME NEW a \in Alias, StartJob(a) \/ FinishJob(a) \/ Detach(a) \/ Status(a)
        PROVE  Sessions'
    BY <1>5 DEF StartJob, FinishJob, Detach, Status, Sessions, Stage, Attached, Idle
  <1>6. CASE RemoveJob
    BY <1>6 DEF RemoveJob, Sessions, Stage, Attached, Idle
  <1>7. CASE HandleReadBuff
    <2>1. orch.pc = "status" /\ UNCHANGED <<orch, forwarder, att, got, chan, gone, tees>>
      BY <1>7, Dequeued DEF HandleReadBuff, Waits
    <2> QED BY <2>1 DEF Sessions, Stage, Attached
  <1>8. CASE HandleStartForwarding
    <2> DEFINE a == Head(requests).alias
    <2>5. PICK s \in Session : s = Head(requests).session
      BY <1>8, Granting
    <2>1. /\ orch = [pc |-> "attach", session |-> s] /\ reply = "none"
          /\ UNCHANGED <<orch, forwarder, got, chan, gone>> /\ s \in Session
      BY <1>8, <2>5, Dequeued DEF HandleStartForwarding, Waits
    <2>2. ~Attached(s) /\ forwarder[s] = "asking" /\ Stage(s)
      BY <2>1 DEF Sessions
    <2>3. CASE UNCHANGED <<tees, att>> /\ reply' \in {"JobAlreadyAttached", "JobNotFound"}
      BY <2>1, <2>2, <2>3 DEF Sessions, Stage, Attached
    <2>4. CASE /\ \A t \in Session : t # s => att'[t] = att[t]
               /\ att'[s].run \in Run /\ reply' = "Ok"
               /\ \A b \in Alias : tees'[b] = tees[b] \/ tees'[b].tx = s
      <3>1. Attached(s)'
        BY <2>4, RunIsNotNo DEF Attached
      <3>2. Stage(s)'
        BY <2>1, <2>2, <3>1 DEF Stage, Attached
      <3>3. ASSUME NEW t \in Session, t # s
            PROVE  Stage(t)'
        <4>1. Stage(t) /\ (Attached(t) => att[t].alias \in Alias)
          BY DEF Sessions, TypeOK
        <4>2. att'[t] = att[t]
          BY <2>4, <3>3
        <4>3. Attached(t) /\ tees'[att[t].alias].tx = t => tees[att[t].alias].tx = t
          BY <2>4, <3>3, <4>1
        <4> QED BY <2>1, <4>1, <4>2, <4>3, StageKept
      <3> QED BY <2>1, <2>2, <2>4, <3>1, <3>2, <3>3 DEF Sessions
    <2> QED BY <1>8, <2>3, <2>4, <2>5, Granting
  <1>9. CASE HandleCreate \/ HandleRemove \/ Release
    <2>1. /\ UNCHANGED <<orch, reply, forwarder, got, chan, gone>>
          /\ \A t \in Session : att'[t].run = att[t].run /\ att'[t].alias = att[t].alias
      BY <1>9, Releasing DEF HandleCreate, HandleRemove, Release
    <2>2. \A b \in Alias : tees'[b].tx = tees[b].tx \/ tees'[b].tx = NoSession
      BY <1>9, Changing, Releasing
    <2>3. ASSUME NEW t \in Session
          PROVE  Stage(t)'
      <3>1. Stage(t) /\ t # NoSession /\ (Attached(t) => att[t].alias \in Alias)
        BY RouterAssumption DEF Sessions, TypeOK
      <3> QED BY <2>1, <2>2, <3>1, StageKept
    <2>4. orch.pc = "attach" => orch.session \in Session
      BY OrchTypes DEF TypeOK
    <2> QED BY <2>1, <2>3, <2>4 DEF Sessions, Attached
  <1>10. CASE DrainRead \/ Poll
    <2>1. /\ UNCHANGED <<orch, reply, forwarder, att, got, gone, tees>>
          /\ router.alias \in Alias
          /\ \A t \in Session : t # tees[router.alias].tx => chan'[t] = chan[t]
          /\ UNCHANGED chan \/ tees[router.alias].tx \in Session
      BY <1>10, Reading
    <2>2. CASE UNCHANGED chan
      BY <1>1, <2>1, <2>2
    <2>3. ASSUME NEW s \in Session, s = tees[router.alias].tx
          PROVE  Sessions'
      <3>1. Attached(s) /\ att[s].alias = router.alias
        BY <2>1, <2>3, RouterAssumption DEF Held, HasTee, Attached
      <3>2. Stage(s)
        BY <2>3 DEF Sessions
      <3>5. forwarder[s] \in {"ending", "done"} => s \in gone
        BY <2>1, <2>3, <3>1, <3>2 DEF Stage
      <3>3. Stage(s)'
        BY <2>1, <3>1, <3>2, <3>5 DEF Stage, Attached
      <3>4. \A t \in Session : t # s => Stage(t)'
        BY <2>1, <2>3, StageKept DEF Sessions
      <3> QED BY <2>1, <3>3, <3>4 DEF Sessions, Attached
    <2> QED BY <2>1, <2>2, <2>3
  <1>11. CASE HandleStopForwarding \/ DrainStderr \/ BeginPoll
    BY <1>1, <1>11 DEF HandleStopForwarding, DrainStderr, BeginPoll
  <1>12. ASSUME NEW s \in Session, Forwarder(s) \/ Disconnect(s)
         PROVE  Sessions'
    <2>1. /\ UNCHANGED <<orch, reply, att, tees>>
          /\ forwarder[s] \in {"running", "ending"}
          /\ \A t \in Session : t # s =>
                /\ forwarder'[t] = forwarder[t] /\ (t \in gone' <=> t \in gone)
                /\ got'[t] = got[t] /\ chan'[t] = chan[t]
      BY <1>12 DEF Forwarder, ForwardData, ForwardFails, EndOfStream, StopOwn, Disconnect, TypeOK
    <2>2. Stage(s) /\ att[s].alias \in Alias
      BY <2>1 DEF Sessions, Stage, TypeOK
    <2>3. Stage(s)'
      <3>1. CASE ForwardData(s)
        BY <2>2, <3>1 DEF ForwardData, Stage, Attached
      <3>2. CASE ForwardFails(s)
        BY <2>2, <3>2 DEF ForwardFails, Stage, Attached, TypeOK
      <3>3. CASE EndOfStream(s)
        BY <2>2, <3>3 DEF EndOfStream, Stage, Attached, TypeOK
      <3>4. CASE StopOwn(s)
        BY <2>2, <3>4 DEF StopOwn, Stage, Attached, TypeOK
      <3>5. CASE Disconnect(s)
        BY <2>2, <3>5 DEF Disconnect, Stage, Attached
      <3> QED BY <1>12, <3>1, <3>2, <3>3, <3>4, <3>5 DEF Forwarder
    <2>4. \A t \in Session : t # s => Stage(t)'
      BY <2>1, StageKept DEF Sessions
    <2>5. orch.pc = "attach" => orch.session # s /\ orch.session \in Session
      BY <2>1, OrchTypes DEF Sessions, TypeOK
    <2> QED BY <2>1, <2>3, <2>4, <2>5 DEF Sessions, Attached
  <1>13. ASSUME NEW r \in Run, Exit(r) \/ \E st \in Stream : Write(r, st)
         PROVE  Sessions'
    BY <1>1, <1>13 DEF Exit, Write
  <1> QED
    BY <1>1, <1>2, <1>3, <1>4, <1>5, <1>6, <1>7, <1>8, <1>9, <1>10, <1>11, <1>12, <1>13
    DEF Next, Orchestrator, Router, vars

-----------------------------------------------------------------------------
(* What has been routed has been read *)

LEMMA RoutedStep ==
    ASSUME TypeOK, AtWork, Held, Routed, [Next]_vars
    PROVE  Routed'
  <1>1. CASE UNCHANGED <<read, chan, got>>
    BY <1>1 DEF Routed
  <1>2. CASE DrainRead \/ Poll
    <2>1. UNCHANGED got
      BY <1>2, Reading
    <2>6. \A q \in Run, z \in Stream : read[q][z] \in Nat
      BY RouterAssumption DEF TypeOK
    <2>7. \A q \in Run, z \in Stream : read'[q][z] = read[q][z] \/ read'[q][z] = read[q][z] + 1
      BY <1>2, Reading
    <2>2. \A q \in Run, z \in Stream : read[q][z] \in Nat /\ read'[q][z] \in Nat /\ read[q][z] <= read'[q][z]
      BY <2>6, <2>7
    <2>3. \A c \in Chunk : c.run \in Run /\ c.stream \in Stream /\ c.n \in Nat
      BY DEF Chunk
    <2>4. ASSUME NEW t \in Session, NEW i \in DOMAIN got[t]
          PROVE  got'[t][i].n <= read'[got'[t][i].run][got'[t][i].stream]
      <3>1. got[t][i] \in Chunk
        BY ElementOfSeq DEF TypeOK
      <3> QED BY <2>1, <2>2, <2>3, <3>1 DEF Routed
    <2>5. ASSUME NEW t \in Session, NEW i \in DOMAIN chan'[t]
          PROVE  chan'[t][i].n <= read'[chan'[t][i].run][chan'[t][i].stream]
      <3>1. CASE i \in DOMAIN chan[t] /\ chan'[t][i] = chan[t][i]
        <4>1. chan[t][i] \in Chunk
          BY <3>1, ElementOfSeq DEF TypeOK
        <4> QED BY <2>2, <2>3, <3>1, <4>1 DEF Routed
      <3>2. CASE ~(i \in DOMAIN chan[t] /\ chan'[t][i] = chan[t][i])
        <4> DEFINE r == tees[router.alias].run
                   st == router.stream
                   c == [run |-> r, stream |-> st, n |-> read[r][st] + 1]
        <4>3. chan'[t] # chan[t]
          BY <2>5, <3>2
        <4>4. t = tees[router.alias].tx
          BY <1>2, <4>3, Reading
        <4>1. chan'[t] = Append(chan[t], c) /\ c \in Chunk
              /\ r \in Run /\ st \in Stream /\ read'[r][st] = read[r][st] + 1
          BY <1>2, <4>3, <4>4, Reading
        <4>5. chan[t] \in Seq(Chunk)
          BY DEF TypeOK
        <4>2. chan'[t][i] = c
          BY <2>5, <3>2, <4>1, <4>5, AppendElements
        <4>6. c.n = read'[r][st] /\ c.run = r /\ c.stream = st /\ read'[r][st] \in Nat
          BY <2>2, <4>1
        <4> HIDE DEF c
        <4> QED BY <4>2, <4>6
      <3> QED BY <3>1, <3>2
    <2> QED BY <2>1, <2>4, <2>5 DEF Routed
  <1>3. ASSUME NEW s \in Session, ForwardData(s)
        PROVE  Routed'
    <2> DEFINE c == Head(chan[s])
    <2>1. chan[s] \in Seq(Chunk) /\ chan[s] # <<>> /\ got[s] \in Seq(Chunk)
      BY <1>3 DEF ForwardData, TypeOK
    <2>2. /\ UNCHANGED read
          /\ chan'[s] = Tail(chan[s]) /\ got'[s] = Append(got[s], c)
          /\ \A t \in Session : t # s => chan'[t] = chan[t] /\ got'[t] = got[t]
      BY <1>3 DEF ForwardData, TypeOK
    <2>3. c \in Chunk /\ c.n <= read[c.run][c.stream]
      BY <2>1, HeadElements DEF Routed
    <2>4. \A i \in DOMAIN chan'[s] : chan'[s][i].n <= read[chan'[s][i].run][chan'[s][i].stream]
      BY <2>1, <2>2, HeadElements DEF Routed
    <2>5. \A i \in DOMAIN got'[s] : got'[s][i].n <= read[got'[s][i].run][got'[s][i].stream]
      BY <2>1, <2>2, <2>3, AppendElements DEF Routed
    <2> QED BY <2>2, <2>4, <2>5 DEF Routed
  <1>4. ASSUME NEW s \in Session, ForwardFails(s) \/ StopOwn(s)
        PROVE  Routed'
    <2>1. /\ UNCHANGED <<read, got>>
          /\ chan'[s] = <<>> \/ (chan[s] # <<>> /\ chan'[s] = Tail(chan[s]))
          /\ \A t \in Session : t # s => chan'[t] = chan[t]
      BY <1>4 DEF ForwardFails, StopOwn, TypeOK
    <2>2. chan[s] \in Seq(Chunk)
      BY DEF TypeOK
    <2>3. \A i \in DOMAIN chan'[s] : \E j \in DOMAIN chan[s] : chan'[s][i] = chan[s][j]
      <3>1. CASE chan'[s] = <<>>
        BY <3>1
      <3>2. CASE chan[s] # <<>> /\ chan'[s] = Tail(chan[s])
        BY <2>2, <3>2, HeadElements
      <3> QED BY <2>1, <3>1, <3>2
    <2> QED BY <2>1, <2>3 DEF Routed
  <1> QED
    BY <1>1, <1>2, <1>3, <1>4
    DEF Next, vars, Orchestrator, Router, Forwarder, Exit, Write, StartJob, FinishJob,
        Detach, Status, Attach, RemoveJob, AttachReturns, StatusReturns,
        HandleCreate, HandleRemove, HandleReadBuff, HandleStartForwarding,
        HandleStopForwarding, DrainStderr, Release, BeginPoll, EndOfStream, Disconnect

-----------------------------------------------------------------------------
(* The Tees follow the jobs *)

(* The changes of an alias are the same, and as far ahead or one nearer. *)
LEMMA FollowingKept ==
    ASSUME NEW a \in Alias, Following(a), NEW d \in {0, 1},
           job'[a] = job[a], tees'[a].run = tees[a].run,
           \A kind \in {"Create", "Remove"} :
              /\ \A i \in Changes(kind, a)' : i \in Nat /\ i + d \in Changes(kind, a)
              /\ \A i \in Changes(kind, a) : i \in Nat /\ i - d \in Changes(kind, a)',
           \A i \in Changes("Create", a)' : requests'[i] = requests[i + d]
    PROVE  Following(a)'
  <1>1. Changes("Remove", a)' = {} => Changes("Remove", a) = {}
    OBVIOUS
  <1>2. ASSUME NEW i \in Changes("Create", a)'
        PROVE  /\ tees'[a].run = NoRun \/ \E j \in Changes("Remove", a)' : j < i
               /\ \/ requests'[i].run = job'[a]
                  \/ \E j \in Changes("Remove", a)' : i < j
    <2>1. i \in Nat /\ i + d \in Changes("Create", a) /\ requests'[i] = requests[i + d]
      OBVIOUS
    <2>2. ASSUME NEW j \in Changes("Remove", a)
          PROVE  j \in Nat /\ j - d \in Changes("Remove", a)'
                 /\ (j < i + d => j - d < i) /\ (i + d < j => i < j - d)
      BY <2>1
    <2> QED BY <2>1, <2>2 DEF Following
  <1>3. ASSUME NEW i \in Changes("Create", a)', NEW k \in Changes("Create", a)', i < k
        PROVE  \E j \in Changes("Remove", a)' : i < j /\ j < k
    <2>1. i \in Nat /\ i + d \in Changes("Create", a) /\ k \in Nat /\ k + d \in Changes("Create", a)
      OBVIOUS
    <2>2. PICK j \in Changes("Remove", a) : i + d < j /\ j < k + d
      BY <1>3, <2>1 DEF Following
    <2>3. j \in Nat /\ j - d \in Changes("Remove", a)' /\ i < j - d /\ j - d < k
      BY <2>1, <2>2
    <2> QED BY <2>3
  <1> QED BY <1>1, <1>2, <1>3 DEF Following

LEMMA FollowingSend ==
    ASSUME TypeOK, NEW a \in Alias, Following(a), NEW m \in Request,
           requests' = Append(requests, m),
           m.kind \in {"Create", "Remove"} => m.alias # a,
           job'[a] = job[a], tees'[a].run = tees[a].run
    PROVE  Following(a)'
  <1>1. ASSUME NEW kind \in {"Create", "Remove"}
        PROVE  /\ \A i \in Changes(kind, a)' : i \in Nat /\ i \in Changes(kind, a)
               /\ \A i \in Changes(kind, a) : i \in Nat /\ i \in Changes(kind, a)'
    BY Enqueued DEF Changes
  <1>2. \A i \in Changes("Create", a)' : requests'[i] = requests[i]
    BY <1>1, Enqueued DEF Changes
  <1>3. \A i \in Nat : i + 0 = i /\ i - 0 = i
    OBVIOUS
  <1> QED BY <1>1, <1>2, <1>3, FollowingKept

LEMMA FollowingHandle ==
    ASSUME TypeOK, NEW a \in Alias, Following(a), NEW kind, Receive(kind),
           kind \in {"Create", "Remove"} => Head(requests).alias # a,
           job'[a] = job[a], tees'[a].run = tees[a].run
    PROVE  Following(a)'
  <1>1. ASSUME NEW k \in {"Create", "Remove"}
        PROVE  /\ \A i \in Changes(k, a)' : i \in Nat /\ i + 1 \in Changes(k, a)
               /\ \A i \in Changes(k, a) : i \in Nat /\ i - 1 \in Changes(k, a)'
    <2>1. \A i \in Changes(k, a)' : i \in Nat /\ i + 1 \in Changes(k, a)
      BY Dequeued DEF Changes
    <2>2. \A i \in Changes(k, a) : i \in Nat /\ i # 1
      BY Dequeued DEF Changes
    <2>3. \A i \in Changes(k, a) : i - 1 \in Changes(k, a)'
      BY <2>2, Dequeued DEF Changes
    <2> QED BY <2>1, <2>2, <2>3
  <1>2. \A i \in Changes("Create", a)' : requests'[i] = requests[i + 1]
    BY <1>1, Dequeued DEF Changes
  <1> QED BY <1>1, <1>2, FollowingKept

LEMMA FollowingStays ==
    ASSUME NEW a \in Alias, Following(a), UNCHANGED requests,
           job'[a] = job[a], tees'[a].run = tees[a].run
    PROVE  Following(a)'
  BY DEF Following, Changes

(* A Create goes behind the Remove of what was there. *)
LEMMA FollowingStart ==
    ASSUME TypeOK, NEW a \in Alias, Following(a), StartJob(a)
    PROVE  Following(a)'
  <1>1. PICK r \in Run : requests' = Append(requests, CreateMsg(a, r)) /\ job'[a] = r
    BY DEF StartJob, TypeOK
  <1>2. job[a] = NoRun /\ UNCHANGED tees /\ r # NoRun /\ CreateMsg(a, r) \in Request
    BY RunIsNotNo, RequestTypes DEF StartJob
  <1> DEFINE n == Len(requests) + 1
  <1>3. /\ \A i \in Changes("Remove", a)' : i \in Changes("Remove", a) /\ i < n
        /\ \A i \in Changes("Remove", a) : i \in Changes("Remove", a)' /\ i < n
        /\ \A i \in Changes("Create", a)' :
              \/ i = n /\ requests'[i] = CreateMsg(a, r)
              \/ i \in Changes("Create", a) /\ requests'[i] = requests[i] /\ i < n
    BY <1>1, <1>2, Enqueued, Kinds DEF Changes
  <1>4. \A i \in Changes("Create", a) : \E j \in Changes("Remove", a) : i < j
    <2>1. \A i \in Changes("Create", a) : requests[i].run # NoRun
      BY RequestShape, RunIsNotNo, ElementOfSeq DEF Changes, TypeOK
    <2> QED BY <1>2, <2>1 DEF Following
  <1>5. tees[a].run = NoRun \/ \E j \in Changes("Remove", a)' : j < n
    BY <1>2, <1>3 DEF Following
  <1>6. CreateMsg(a, r).run = job'[a]
    BY <1>1, Kinds
  <1>7. ASSUME NEW i \in Changes("Create", a)', i = n, requests'[i] = CreateMsg(a, r)
        PROVE  /\ tees'[a].run = NoRun \/ \E j \in Changes("Remove", a)' : j < i
               /\ requests'[i].run = job'[a]
    BY <1>2, <1>5, <1>6, <1>7
  <1>8. ASSUME NEW i \in Changes("Create", a)', i \in Changes("Create", a), i < n, requests'[i] = requests[i]
        PROVE  /\ tees'[a].run = NoRun \/ \E j \in Changes("Remove", a)' : j < i
               /\ \E j \in Changes("Remove", a)' : i < j
    <2>1. \E j \in Changes("Remove", a)' : i < j
      BY <1>3, <1>4, <1>8
    <2>2. tees[a].run = NoRun \/ \E j \in Changes("Remove", a) : j < i
      BY <1>8 DEF Following
    <2>3. tees'[a].run = NoRun \/ \E j \in Changes("Remove", a)' : j < i
      <3>1. CASE tees[a].run = NoRun
        BY <1>2, <3>1
      <3>2. CASE \E j \in Changes("Remove", a) : j < i
        BY <1>3, <3>2
      <3> QED BY <2>2, <3>1, <3>2
    <2> QED BY <2>1, <2>3
  <1>9. ASSUME NEW i \in Changes("Create", a)', NEW k \in Changes("Create", a)', i < k
        PROVE  \E j \in Changes("Remove", a)' : i < j /\ j < k
    <2>5. n \in Int /\ \A m \in DOMAIN requests' : m \in Int /\ m <= n
      BY <1>1, <1>2, Enqueued
    <2>6. i \in DOMAIN requests' /\ k \in DOMAIN requests'
      BY DEF Changes
    <2>1. n \in Int /\ i \in Int /\ k \in Int /\ ~(n < n) /\ ~(n < k)
      BY <2>5, <2>6
    <2>2. i \in Changes("Create", a) /\ i < n
      BY <1>3, <1>9, <2>1
    <2>3. CASE k = n
      BY <1>3, <1>4, <2>2, <2>3
    <2>4. CASE k \in Changes("Create", a)
      BY <1>3, <1>9, <2>2, <2>4 DEF Following
    <2> QED BY <1>3, <2>3, <2>4
  <1>10. Changes("Remove", a)' = {} => tees'[a].run \in {job'[a], NoRun}
    BY <1>2, <1>3 DEF Following
  <1> QED BY <1>3, <1>7, <1>8, <1>9, <1>10 DEF Following

LEMMA FollowingRemoveJob ==
    ASSUME TypeOK, NEW a \in Alias, Following(a), RemoveJob, orch.alias = a
    PROVE  Following(a)'
  <1> DEFINE n == Len(requests) + 1
  <1>1. requests' = Append(requests, RemoveMsg(a)) /\ UNCHANGED tees /\ RemoveMsg(a) \in Request
    BY RequestTypes DEF RemoveJob
  <1>2. /\ n \in Changes("Remove", a)'
        /\ \A i \in Changes("Remove", a) : i \in Changes("Remove", a)'
        /\ \A i \in Changes("Create", a)' : i \in Changes("Create", a) /\ i < n
    BY <1>1, Enqueued, Kinds DEF Changes
  <1> QED BY <1>1, <1>2 DEF Following

(* Nothing is thrown away: when a Create is handled the Tee is gone. *)
LEMMA FollowingCreate ==
    ASSUME TypeOK, NEW a \in Alias, Following(a), HandleCreate, Head(requests).alias = a
    PROVE  Following(a)' /\ tees[a].run = NoRun
  <1>1. Receive("Create") /\ job' = job
    BY DEF HandleCreate
  <1>2. 1 \in Changes("Create", a) /\ requests[1] = Head(requests)
    BY <1>1, Dequeued DEF Changes
  <1>3. /\ \A i \in Changes("Remove", a) : i \in Nat /\ 1 < i /\ i - 1 \in Changes("Remove", a)'
        /\ \A i \in Changes("Create", a)' :
              i \in Nat \ {0} /\ i + 1 \in Changes("Create", a) /\ requests'[i] = requests[i + 1]
    <2>1. \A i \in Changes("Remove", a) : i \in Nat /\ i # 0 /\ i # 1
      BY <1>1, Dequeued DEF Changes
    <2>2. \A i \in Changes("Remove", a) : i - 1 \in Changes("Remove", a)'
      BY <1>1, <2>1, Dequeued DEF Changes
    <2>3. \A i \in Changes("Create", a)' :
              i \in Nat \ {0} /\ i + 1 \in Changes("Create", a) /\ requests'[i] = requests[i + 1]
      BY <1>1, Dequeued DEF Changes
    <2> QED BY <2>1, <2>2, <2>3
  <1>4. tees[a].run = NoRun
    BY <1>2, <1>3 DEF Following
  <1>5. tees'[a].run \in {NoRun, requests[1].run}
    BY <1>2, <1>4, Changing
  <1>6. Changes("Remove", a)' = {} => tees'[a].run \in {job'[a], NoRun}
    BY <1>1, <1>2, <1>3, <1>5 DEF Following
  <1>7. ASSUME NEW i \in Changes("Create", a)'
        PROVE  /\ \E j \in Changes("Remove", a)' : j < i
               /\ \/ requests'[i].run = job'[a]
                  \/ \E j \in Changes("Remove", a)' : i < j
    <2>1. i \in Nat \ {0} /\ i + 1 \in Changes("Create", a) /\ requests'[i] = requests[i + 1] /\ 1 < i + 1
      BY <1>3
    <2>2. PICK j \in Changes("Remove", a) : 1 < j /\ j < i + 1
      BY <1>2, <2>1 DEF Following
    <2>3. \E l \in Changes("Remove", a)' : l < i
      BY <1>3, <2>1, <2>2
    <2>4. \A l \in Changes("Remove", a) : i + 1 < l => l - 1 \in Changes("Remove", a)' /\ i < l - 1
      BY <1>3, <2>1
    <2> QED BY <1>1, <2>1, <2>3, <2>4 DEF Following
  <1>8. ASSUME NEW i \in Changes("Create", a)', NEW k \in Changes("Create", a)', i < k
        PROVE  \E j \in Changes("Remove", a)' : i < j /\ j < k
    <2>1. i \in Nat /\ k \in Nat /\ i + 1 \in Changes("Create", a) /\ k + 1 \in Changes("Create", a)
      BY <1>3
    <2>2. PICK j \in Changes("Remove", a) : i + 1 < j /\ j < k + 1
      BY <1>8, <2>1 DEF Following
    <2>3. j \in Nat /\ j - 1 \in Changes("Remove", a)'
      BY <1>3
    <2> QED BY <2>1, <2>2, <2>3
  <1> QED BY <1>4, <1>6, <1>7, <1>8 DEF Following

LEMMA FollowingRemove ==
    ASSUME TypeOK, NEW a \in Alias, Following(a), HandleRemove, Head(requests).alias = a
    PROVE  Following(a)'
  <1>1. Receive("Remove") /\ job' = job /\ tees'[a].run = NoRun
    BY Changing DEF HandleRemove
  <1>2. \A i \in Changes("Create", a)' :
           i \in Nat \ {0} /\ i + 1 \in Changes("Create", a) /\ requests'[i] = requests[i + 1]
    BY <1>1, Dequeued DEF Changes
  <1>3. \A i \in Changes("Remove", a) : i \in Nat /\ (1 < i => i - 1 \in Changes("Remove", a)')
    BY <1>1, Dequeued DEF Changes
  <1>4. ASSUME NEW i \in Changes("Create", a)'
        PROVE  \/ requests'[i].run = job'[a]
               \/ \E j \in Changes("Remove", a)' : i < j
    <2>1. \A l \in Changes("Remove", a) : i + 1 < l => l - 1 \in Changes("Remove", a)' /\ i < l - 1
      BY <1>2, <1>3
    <2> QED BY <1>1, <1>2, <2>1 DEF Following
  <1>5. ASSUME NEW i \in Changes("Create", a)', NEW k \in Changes("Create", a)', i < k
        PROVE  \E j \in Changes("Remove", a)' : i < j /\ j < k
    <2>1. i \in Nat \ {0} /\ k \in Nat /\ i + 1 \in Changes("Create", a) /\ k + 1 \in Changes("Create", a)
      BY <1>2
    <2>2. PICK j \in Changes("Remove", a) : i + 1 < j /\ j < k + 1
      BY <1>5, <2>1 DEF Following
    <2>3. j \in Nat /\ j - 1 \in Changes("Remove", a)'
      BY <1>3, <2>1, <2>2
    <2> QED BY <2>1, <2>2, <2>3
  <1> QED BY <1>1, <1>4, <1>5 DEF Following

LEMMA FollowStep ==
    ASSUME TypeOK, AtWork, Held, Sessions, TeesFollow, [Next]_vars
    PROVE  TeesFollow'
  <1> SUFFICES ASSUME NEW a \in Alias, Following(a)
               PROVE  Following(a)'
    BY DEF TeesFollow
  <1>1. CASE UNCHANGED <<requests, job, tees>>
    BY <1>1, FollowingStays
  <1>2. ASSUME NEW b \in Alias, StartJob(b)
        PROVE  Following(a)'
    <2>1. CASE a = b
      BY <1>2, <2>1, FollowingStart
    <2>2. CASE a # b
      <3>1. PICK r \in Run : requests' = Append(requests, CreateMsg(b, r)) /\ job'[a] = job[a]
        BY <1>2, <2>2 DEF StartJob, TypeOK
      <3> QED BY <1>2, <2>2, <3>1, RequestTypes, Kinds, FollowingSend DEF StartJob
    <2> QED BY <2>1, <2>2
  <1>3. ASSUME NEW b \in Alias, FinishJob(b) \/ Detach(b) \/ Status(b)
        PROVE  Following(a)'
    <2>1. /\ ReadBuffMsg(b) \in Request /\ StopForwardingMsg(b, FinishedBy(b)) \in Request
          /\ StopForwardingMsg(b, "detach") \in Request
      BY RequestTypes DEF Requester, FinishedBy
    <2> QED BY <1>3, <2>1, Kinds, FollowingSend DEF FinishJob, Detach, Status
  <1>4. ASSUME NEW s \in Session, NEW b \in Alias, Attach(s, b)
        PROVE  Following(a)'
    BY <1>4, RequestTypes, Kinds, FollowingSend DEF Attach
  <1>5. CASE RemoveJob
    <2>1. CASE orch.alias = a
      BY <1>5, <2>1, FollowingRemoveJob
    <2>2. CASE orch.alias # a
      <3>1. orch.alias \in Alias
        BY <1>5, OrchTypes DEF RemoveJob, TypeOK
      <3>2. job'[a] = job[a]
        BY <1>5, <2>2 DEF RemoveJob, TypeOK
      <3>3. RemoveMsg(orch.alias) \in Request /\ RemoveMsg(orch.alias).alias # a
        BY <2>2, <3>1, RequestTypes, Kinds
      <3>4. requests' = Append(requests, RemoveMsg(orch.alias)) /\ UNCHANGED tees
        BY <1>5 DEF RemoveJob
      <3> QED BY <3>2, <3>3, <3>4, FollowingSend
    <2> QED BY <2>1, <2>2
  <1>6. ASSUME NEW s \in Session, StopOwn(s)
        PROVE  Following(a)'
    <2>1. att[s].alias \in Alias
      BY <1>6 DEF StopOwn, Sessions, Stage, TypeOK
    <2>2. StopForwardingMsg(att[s].alias, "forwarder") \in Request
      BY <2>1, RequestTypes DEF Requester
    <2> QED BY <1>6, <2>2, Kinds, FollowingSend DEF StopOwn
  <1>7. CASE HandleCreate
    <2>1. Receive("Create") /\ job' = job
      BY <1>7 DEF HandleCreate
    <2>2. CASE Head(requests).alias = a
      BY <1>7, <2>2, FollowingCreate
    <2>3. CASE Head(requests).alias # a
      BY <1>7, <2>1, <2>3, Changing, FollowingHandle
    <2> QED BY <2>2, <2>3
  <1>8. CASE HandleRemove
    <2>1. Receive("Remove") /\ job' = job
      BY <1>8 DEF HandleRemove
    <2>2. CASE Head(requests).alias = a
      BY <1>8, <2>2, FollowingRemove
    <2>3. CASE Head(requests).alias # a
      BY <1>8, <2>1, <2>3, Changing, FollowingHandle
    <2> QED BY <2>2, <2>3
  <1>9. CASE HandleStartForwarding
    <2>1. tees'[a].run = tees[a].run
      BY <1>9, Granting
    <2> QED BY <1>9, <2>1, FollowingHandle DEF HandleStartForwarding
  <1>10. CASE HandleReadBuff \/ HandleStopForwarding
    BY <1>10, FollowingHandle DEF HandleReadBuff, HandleStopForwarding
  <1>11. CASE Release
    <2>1. tees'[a].run = tees[a].run
      BY <1>11, Releasing
    <2> QED BY <1>11, <2>1, FollowingStays DEF Release
  <1> QED
    BY <1>1, <1>2, <1>3, <1>4, <1>5, <1>6, <1>7, <1>8, <1>9, <1>10, <1>11
    DEF Next, vars, Orchestrator, Router, Forwarder, Exit, Write, AttachReturns,
        StatusReturns, DrainRead, DrainStderr, BeginPoll, Poll, ForwardData,
        ForwardFails, EndOfStream, Disconnect

-----------------------------------------------------------------------------
(* A session is attached to the process of the job *)

LEMMA CurrentStep ==
    ASSUME TypeOK, AtWork, Waits, Sessions, TeesFollow, AttachedToCurrent, [Next]_vars
    PROVE  AttachedToCurrent'
  <1>1. CASE UNCHANGED <<orch, reply, att, job>>
    BY <1>1 DEF AttachedToCurrent
  <1>2. CASE orch'.pc # "attach" \/ reply' # "Ok"
    BY <1>2 DEF AttachedToCurrent
  <1>3. CASE HandleStartForwarding
    <2> DEFINE a == Head(requests).alias
               s == Head(requests).session
    <2>1. /\ orch = [pc |-> "attach", session |-> s] /\ UNCHANGED <<orch, job>>
          /\ Last(1) /\ Head(requests).kind = "StartForwarding" /\ 1 \in DOMAIN requests
          /\ requests[1] = Head(requests)
      BY <1>3, Dequeued DEF HandleStartForwarding, Waits, Receive
    <2>2. Changes("Remove", a) = {}
      BY <1>3, <2>1, Dequeued DEF Changes, Last, HandleStartForwarding
    <2>3. tees[a].run \in {job[a], NoRun} /\ a \in Alias
      BY <1>3, <2>2, Granting DEF TeesFollow, Following
    <2>4. CASE reply' = "Ok"
      <3>1. att'[s].run = tees[a].run /\ tees[a].run \in Run /\ att'[s].alias = a
        BY <1>3, <2>4, Granting
      <3> QED BY <2>1, <2>3, <3>1, RunIsNotNo DEF AttachedToCurrent
    <2> QED BY <1>2, <2>4
  <1>4. CASE Release
    <2>1. UNCHANGED <<orch, reply, job>>
      BY <1>4 DEF Release
    <2>2. orch.pc = "attach" => orch.session \in Session
      BY OrchTypes DEF TypeOK
    <2> QED BY <1>4, <2>1, <2>2, Releasing DEF AttachedToCurrent
  <1>5. CASE HandleReadBuff
    BY <1>2, <1>5, Dequeued DEF HandleReadBuff, Waits
  <1>6. ASSUME NEW s \in Session, NEW a \in Alias, Attach(s, a)
        PROVE  AttachedToCurrent'
    <2>1. reply' = "none"
      BY <1>6, NothingAsked DEF Attach, Idle
    <2> QED BY <1>2, <2>1
  <1> QED
    BY <1>1, <1>2, <1>3, <1>4, <1>5, <1>6
    DEF Next, vars, Orchestrator, Router, Forwarder, Exit, Write, StartJob, FinishJob,
        Detach, Status, RemoveJob, AttachReturns, StatusReturns, Idle,
        HandleCreate, HandleRemove, HandleStopForwarding, DrainRead, DrainStderr,
        BeginPoll, Poll, ForwardData, ForwardFails, EndOfStream, StopOwn, Disconnect

-----------------------------------------------------------------------------
LEMMA RouterInvInit == Init => RouterInv
  <1> SUFFICES ASSUME Init PROVE RouterInv
    OBVIOUS
  <1>1. AtWork /\ Held /\ Waits
    BY DEF Init, AtWork, Held, Waits, AtRequests, Idle, NoTee
  <1>2. Sessions /\ Routed /\ AttachedToCurrent
    BY DEF Init, Sessions, Stage, Routed, AttachedToCurrent, Attached, NotAttached, Idle
  <1>3. TeesFollow
    <2>3. DOMAIN requests = {}
      BY DEF Init
    <2>1. ASSUME NEW kind, NEW a
          PROVE  Changes(kind, a) = {}
      BY <2>3 DEF Changes
    <2>2. \A a \in Alias : tees[a].run = NoRun
      BY DEF Init, NoTee
    <2> QED BY <2>1, <2>2 DEF TeesFollow, Following
  <1> QED BY <1>1, <1>2, <1>3, TypeInit DEF RouterInv

LEMMA RouterInvStep == RouterInv /\ [Next]_vars => RouterInv'
  BY TypeStep, AtWorkStep, HeldStep, WaitsStep, SessionsStep, RoutedStep,
     FollowStep, CurrentStep DEF RouterInv

(* The inductive invariant.  What relates the router's Tees to the          *)
(* orchestrator's jobs is in the channel between them, so most of it is     *)
(* about the order of the requests there (io_router.rs:140).                *)
THEOREM RouterInvariant == Spec => []RouterInv
  BY RouterInvInit, RouterInvStep, PTL DEF Spec

(* Every variable keeps its type.  What matters of it: a pipe never holds   *)
(* more than PipeSize chunks and the channel to a forwarder never more than *)
(* Capacity (sync_channel, jobs.rs:348), and the router's loops only look   *)
(* at aliases that have a Tee.                                              *)
THEOREM RouterTypeOK == Spec => []TypeOK
  <1>1. RouterInv => TypeOK
    BY DEF RouterInv
  <1> QED BY <1>1, RouterInvariant, PTL

LEMMA TeesFollowInv == TeesFollow => TeesFollowJobs
  BY DEF TeesFollow, Following, TeesFollowJobs

(* The router ends up with the pipes of the process that the orchestrator   *)
(* has for an alias, and or_insert (io_router.rs:206) never drops the pipes *)
(* of a new process in favour of an old one: between two Creates of an      *)
(* alias there is always a Remove.                                          *)
THEOREM TeesFollowTheJobs == Spec => []TeesFollowJobs
  <1>1. RouterInv => TeesFollowJobs
    BY TeesFollowInv DEF RouterInv
  <1> QED BY <1>1, RouterInvariant, PTL

(* A client that is told it is attached (jobs.rs:353) is attached to the    *)
(* process that the job has at that moment: the orchestrator sends nothing  *)
(* while it waits, so every Remove has been handled before.                 *)
THEOREM ClientsGetTheCurrentRun == Spec => []AttachedToCurrent
  <1>1. RouterInv => AttachedToCurrent
    BY DEF RouterInv
  <1> QED BY <1>1, RouterInvariant, PTL
=============================================================================
