---------------------------- MODULE StreamProofs ----------------------------
(***************************************************************************)
(* A client gets the output of its job whole, for every number of chunks,  *)
(* clients and runs; and the router, its requests and the forwarders       *)
(* implement Attachment, for every set of aliases and sessions.            *)
(***************************************************************************)
EXTENDS RouterProofs

(* A run is started once, for one alias, and the router only ever has the   *)
(* pipes of an alias under its name.                                        *)
Owns(a, r) == process[r].alias = a /\ process[r].state # "unborn"

OfAlias ==
    \A a \in Alias :
        /\ tees[a].run # NoRun => Owns(a, tees[a].run)
        /\ job[a] # NoRun => Owns(a, job[a])
        /\ \A i \in Changes("Create", a) : Owns(a, requests[i].run)

Exited(r) == process[r].state = "exited"

(* When the router comes to a StopForwarding of an ended process, it holds  *)
(* the pipes of that process or of none.                                    *)
Finishes(a) ==
    {i \in Changes("StopForwarding", a) : requests[i].by = "finish"}

Ending(a) ==
    \A i \in Finishes(a) :
        /\ \/ tees[a].run = NoRun \/ Exited(tees[a].run)
           \/ \E j \in Changes("Remove", a) : j < i
        /\ \A k \in Changes("Create", a) : k < i =>
              \/ Exited(requests[k].run)
              \/ \E j \in Changes("Remove", a) : k < j /\ j < i

(* The drain that follows has as many reads left as there is to read.       *)
Draining ==
    router.pc = "drain" /\ router.by = "finish" =>
        LET r == tees[router.alias].run
            st == router.stream
        IN /\ Exited(r)
           /\ written[r][st] - read[r][st] <= router.left
           /\ st = "stderr" => read[r]["stdout"] = written[r]["stdout"]

Finished ==
    \A s \in Session : att[s].end = "finish" => Attached(s) /\ Exited(att[s].run)

Complete(s, st) ==
    Attached(s) /\ s \notin gone =>
        LET r == att[s].run  first == att[s].first[st] IN
        \E last \in first .. written[r][st] :
            /\ Whole(got[s] \o chan[s], r, st, first, last)
            /\ tees[att[s].alias].tx = s => last = read[r][st]
            /\ att[s].end = "finish" => last = written[r][st]

StreamInv ==
    /\ RouterInv /\ OfAlias
    /\ \A a \in Alias : Ending(a)
    /\ Draining /\ Finished
    /\ StreamIsWhole

-----------------------------------------------------------------------------
(* Sequences *)

LEMMA WholeEmpty ==
    ASSUME NEW r, NEW st, NEW n \in Nat
    PROVE  Whole(<<>>, r, st, n, n)
  BY DEF Whole

(* The next chunk of the stream, or a chunk of the other. *)
LEMMA WholeAppend ==
    ASSUME NEW q \in Seq(Chunk), NEW c \in Chunk, NEW r, NEW st,
           NEW first \in Nat, NEW last \in Nat, first <= last,
           Whole(q, r, st, first, last)
    PROVE  /\ c.stream = st /\ c.run = r /\ c.n = last + 1 =>
                 Whole(Append(q, c), r, st, first, last + 1)
           /\ c.stream # st => Whole(Append(q, c), r, st, first, last)
  <1> DEFINE p == Append(q, c)
             m == Len(q) + 1
  <1>1. /\ \A i \in DOMAIN q : i \in DOMAIN p /\ p[i] = q[i] /\ i \in Nat /\ i < m
        /\ m \in DOMAIN p /\ p[m] = c /\ m \in Nat
        /\ \A i \in DOMAIN p : i = m \/ (i \in DOMAIN q /\ p[i] = q[i] /\ i < m /\ i \in Nat)
    <2>1. \A i \in DOMAIN q : i \in Nat /\ i < m
      OBVIOUS
    <2> QED BY <2>1, AppendElements
  <1>2. /\ \A i \in DOMAIN q : q[i].stream = st =>
              q[i].run = r /\ q[i].n \in first + 1 .. last
        /\ \A n \in first + 1 .. last : \E i \in DOMAIN q : q[i].stream = st /\ q[i].n = n
        /\ \A i, j \in DOMAIN q : q[i].stream = st /\ q[j].stream = st /\ i < j => q[i].n < q[j].n
    BY DEF Whole
  <1> HIDE DEF p, m
  <1>3. ASSUME c.stream = st, c.run = r, c.n = last + 1
        PROVE  Whole(p, r, st, first, last + 1)
    <2>1. \A i \in DOMAIN p : p[i].stream = st =>
              p[i].run = r /\ p[i].n \in first + 1 .. last + 1
      BY <1>1, <1>2, <1>3
    <2>2. ASSUME NEW n \in first + 1 .. last + 1
          PROVE  \E i \in DOMAIN p : p[i].stream = st /\ p[i].n = n
      <3>1. CASE n = last + 1
        BY <1>1, <1>3, <3>1
      <3>2. CASE n \in first + 1 .. last
        BY <1>1, <1>2, <3>2
      <3> QED BY <3>1, <3>2
    <2>3. ASSUME NEW i \in DOMAIN p, NEW j \in DOMAIN p, p[i].stream = st, p[j].stream = st, i < j
          PROVE  p[i].n < p[j].n
      <3>1. i \in DOMAIN q /\ p[i] = q[i]
        BY <1>1, <2>3
      <3>2. CASE j = m
        <4>1. q[i].n \in first + 1 .. last
          BY <1>2, <2>3, <3>1
        <4> QED BY <1>1, <1>3, <3>1, <3>2, <4>1
      <3>3. CASE j \in DOMAIN q /\ p[j] = q[j]
        BY <1>2, <2>3, <3>1, <3>3
      <3> QED BY <1>1, <3>2, <3>3
    <2> QED BY <2>1, <2>2, <2>3 DEF Whole
  <1>4. ASSUME c.stream # st
        PROVE  Whole(p, r, st, first, last)
    <2>1. \A i \in DOMAIN p : p[i].stream = st => i \in DOMAIN q /\ p[i] = q[i]
      BY <1>1, <1>4
    <2> QED BY <1>1, <1>2, <2>1 DEF Whole
  <1> QED BY <1>3, <1>4 DEF p

-----------------------------------------------------------------------------
(* The processes *)

(* A run that has been started keeps its alias, and one that has ended      *)
(* writes no more.                                                          *)
LEMMA RunsLast ==
    ASSUME TypeOK, [Next]_vars, NEW r \in Run
    PROVE  /\ \A a : Owns(a, r) => Owns(a, r)'
           /\ Exited(r) => Exited(r)' /\ written'[r] = written[r]
           /\ \A st \in Stream : written'[r][st] = written[r][st] \/ written'[r][st] = written[r][st] + 1
  <1>1. CASE UNCHANGED <<process, written>>
    BY <1>1 DEF Owns, Exited
  <1>2. ASSUME NEW q \in Run, Exit(q)
        PROVE  process'[r].alias = process[r].alias
               /\ (process'[r].state = process[r].state \/ (process'[r].state = "exited" /\ process[r].state = "alive"))
               /\ UNCHANGED written
    BY <1>2 DEF Exit, TypeOK
  <1>3. ASSUME NEW q \in Run, NEW z \in Stream, Write(q, z)
        PROVE  /\ UNCHANGED process /\ (Exited(r) => written'[r] = written[r])
               /\ \A st \in Stream : written'[r][st] = written[r][st] \/ written'[r][st] = written[r][st] + 1
    <2>1. written' = [written EXCEPT ![q][z] = written[q][z] + 1] /\ ~Exited(q) /\ UNCHANGED process
      BY <1>3 DEF Write, Exited
    <2>2. Exited(r) => written'[r] = written[r]
      BY <2>1 DEF TypeOK
    <2>3. \A st \in Stream : written'[r][st] = IF r = q /\ st = z THEN written[q][z] + 1 ELSE written[r][st]
      BY <2>1 DEF TypeOK
    <2> QED BY <2>1, <2>2, <2>3
  <1>4. ASSUME NEW a \in Alias, StartJob(a)
        PROVE  /\ process[r].state # "unborn" => process'[r] = process[r]
               /\ UNCHANGED written
    BY <1>4 DEF StartJob, TypeOK
  <1>5. CASE \E q \in Run : Exit(q)
    BY <1>2, <1>5 DEF Owns, Exited
  <1>6. CASE \E q \in Run, z \in Stream : Write(q, z)
    BY <1>3, <1>6 DEF Owns, Exited
  <1>7. CASE \E a \in Alias : StartJob(a)
    BY <1>4, <1>7 DEF Owns, Exited
  <1> QED
    BY <1>1, <1>5, <1>6, <1>7
    DEF Next, vars, Orchestrator, Router, Forwarder, FinishJob, Detach, Status,
        Attach, RemoveJob, AttachReturns, StatusReturns, HandleCreate,
        HandleRemove, HandleReadBuff, HandleStartForwarding,
        HandleStopForwarding, DrainRead, DrainStderr, Release, BeginPoll, Poll,
        ForwardData, ForwardFails, EndOfStream, StopOwn, Disconnect

(* Where the pipes of a Tee come from, and the process of a job. *)
LEMMA TeeFrom ==
    ASSUME TypeOK, AtWork, [Next]_vars, NEW a \in Alias
    PROVE  \/ tees'[a].run \in {tees[a].run, NoRun}
           \/ HandleCreate /\ Head(requests).alias = a /\ tees'[a].run = Head(requests).run
  <1>1. CASE UNCHANGED tees
    BY <1>1
  <1>2. CASE HandleCreate \/ HandleRemove
    BY <1>2, Changing
  <1>3. CASE HandleStartForwarding
    BY <1>3, Granting
  <1>4. CASE Release
    BY <1>4, Releasing
  <1> QED
    BY <1>1, <1>2, <1>3, <1>4, OnlyRouter
    DEF Router, HandleReadBuff, HandleStopForwarding, DrainRead, DrainStderr, BeginPoll, Poll

LEMMA JobFrom ==
    ASSUME TypeOK, [Next]_vars, NEW a \in Alias
    PROVE  \/ job'[a] \in {job[a], NoRun}
           \/ StartJob(a)
  <1>1. ASSUME NEW b \in Alias, StartJob(b)
        PROVE  job'[a] = job[a] \/ b = a
    BY <1>1 DEF StartJob, TypeOK
  <1>2. CASE RemoveJob
    BY <1>2 DEF RemoveJob, TypeOK
  <1>3. CASE \E b \in Alias : StartJob(b)
    BY <1>1, <1>3
  <1> QED
    BY <1>2, <1>3
    DEF Next, vars, Orchestrator, Router, Forwarder, Exit, Write, FinishJob, Detach, Status,
        Attach, AttachReturns, StatusReturns, HandleCreate,
        HandleRemove, HandleReadBuff, HandleStartForwarding,
        HandleStopForwarding, DrainRead, DrainStderr, Release, BeginPoll, Poll,
        ForwardData, ForwardFails, EndOfStream, StopOwn, Disconnect

(* What the router's channel carries: a Create of a process that has just   *)
(* been started, a StopForwarding of one that has ended.                    *)
LEMMA Traffic ==
    ASSUME TypeOK, Sessions, [Next]_vars
    PROVE  \/ UNCHANGED requests
           \/ \E kind : Receive(kind)
           \/ \E m \in Request :
                 /\ requests' = Append(requests, m)
                 /\ m.kind = "Create" => StartJob(m.alias) /\ job'[m.alias] = m.run
                 /\ m.kind = "StopForwarding" /\ m.by = "finish" => FinishEnded(m.alias)
  <1>1. ASSUME NEW a \in Alias, StartJob(a)
        PROVE  \E m \in Request :
                 /\ requests' = Append(requests, m) /\ m.kind = "Create"
                 /\ StartJob(m.alias) /\ job'[m.alias] = m.run
    <2>1. PICK r \in Run : requests' = Append(requests, CreateMsg(a, r)) /\ job'[a] = r
      BY <1>1 DEF StartJob, TypeOK
    <2> QED BY <1>1, <2>1, RequestTypes, Kinds
  <1>2. ASSUME NEW a \in Alias, FinishJob(a)
        PROVE  \E m \in Request :
                 /\ requests' = Append(requests, m) /\ m.kind = "StopForwarding"
                 /\ m.by = "finish" => FinishEnded(m.alias)
    <2>1. StopForwardingMsg(a, FinishedBy(a)) \in Request
      BY RequestTypes DEF Requester, FinishedBy
    <2>2. requests' = Append(requests, StopForwardingMsg(a, FinishedBy(a)))
      BY <1>2 DEF FinishJob
    <2>3. FinishedBy(a) = "finish" => FinishEnded(a)
      BY <1>2 DEF FinishEnded
    <2> QED BY <2>1, <2>2, <2>3, Kinds
  <1>3. ASSUME NEW a \in Alias, Detach(a)
        PROVE  \E m \in Request :
                 /\ requests' = Append(requests, m) /\ m.kind = "StopForwarding" /\ m.by # "finish"
    <2>1. StopForwardingMsg(a, "detach") \in Request
      BY RequestTypes DEF Requester
    <2> QED BY <1>3, <2>1, Kinds DEF Detach
  <1>4. ASSUME NEW a \in Alias, Status(a)
        PROVE  \E m \in Request : requests' = Append(requests, m) /\ m.kind = "ReadBuff"
    BY <1>4, RequestTypes, Kinds, ZenonT(60) DEF Status
  <1>5. ASSUME NEW s \in Session, NEW a \in Alias, Attach(s, a)
        PROVE  \E m \in Request : requests' = Append(requests, m) /\ m.kind = "StartForwarding"
    BY <1>5, RequestTypes, Kinds DEF Attach
  <1>6. CASE RemoveJob
    <2>1. orch.alias \in Alias
      BY <1>6, OrchTypes DEF RemoveJob, TypeOK
    <2>2. \E m \in Request : requests' = Append(requests, m) /\ m.kind = "Remove"
      BY <1>6, <2>1, RequestTypes, Kinds, ZenonT(60) DEF RemoveJob
    <2> QED BY <2>2
  <1>7. ASSUME NEW s \in Session, StopOwn(s)
        PROVE  \E m \in Request :
                 /\ requests' = Append(requests, m) /\ m.kind = "StopForwarding"
                 /\ m.by # "finish"
    <2>1. att[s].alias \in Alias
      BY <1>7 DEF StopOwn, Sessions, Stage, TypeOK
    <2>2. StopForwardingMsg(att[s].alias, "forwarder") \in Request
      BY <2>1, RequestTypes DEF Requester
    <2> QED BY <1>7, <2>2, Kinds DEF StopOwn
  <1>8. CASE HandleCreate \/ HandleRemove \/ HandleReadBuff \/ HandleStartForwarding \/ HandleStopForwarding
    <2>1. \/ Receive("Create") \/ Receive("Remove") \/ Receive("ReadBuff")
          \/ Receive("StartForwarding") \/ Receive("StopForwarding")
      BY <1>8 DEF HandleCreate, HandleRemove, HandleReadBuff, HandleStartForwarding, HandleStopForwarding
    <2> QED BY <2>1
  <1>9. CASE \E a \in Alias : StartJob(a) \/ FinishJob(a) \/ Detach(a) \/ Status(a)
    BY <1>1, <1>2, <1>3, <1>4, <1>9
  <1>10. CASE UNCHANGED requests
    BY <1>10
  <1> QED
    BY <1>5, <1>6, <1>7, <1>8, <1>9, <1>10
    DEF Next, vars, Orchestrator, Router, Forwarder, Exit, Write, AttachReturns,
        StatusReturns, DrainRead, DrainStderr, Release, BeginPoll, Poll,
        ForwardData, ForwardFails, EndOfStream, Disconnect

LEMMA OfAliasStep ==
    ASSUME TypeOK, AtWork, Sessions, OfAlias, [Next]_vars
    PROVE  OfAlias'
  <1> SUFFICES ASSUME NEW a \in Alias
               PROVE  /\ tees'[a].run # NoRun => Owns(a, tees[a].run)'
                      /\ job'[a] # NoRun => Owns(a, job[a])'
                      /\ \A i \in Changes("Create", a)' : Owns(a, requests[i].run)'
    BY DEF OfAlias
  <1>1. \A r \in Run : Owns(a, r) => Owns(a, r)'
    BY RunsLast
  <1>2. \A i \in Changes("Create", a) : requests[i].run \in Run /\ Owns(a, requests[i].run)
    BY ElementOfSeq, RequestShape DEF OfAlias, Changes, TypeOK
  <1>3. ASSUME StartJob(a)
        PROVE  job'[a] \in Run /\ Owns(a, job[a])'
    BY <1>3 DEF StartJob, Owns, TypeOK
  <1>4. ASSUME tees'[a].run # NoRun
        PROVE  Owns(a, tees[a].run)'
    <2>1. CASE tees'[a].run = tees[a].run
      BY <1>1, <1>4, <2>1, RunOfTee DEF OfAlias
    <2>2. CASE HandleCreate /\ Head(requests).alias = a /\ tees'[a].run = Head(requests).run
      <3>1. 1 \in Changes("Create", a) /\ requests[1] = Head(requests)
        BY <2>2, Dequeued DEF Changes, HandleCreate
      <3> QED BY <1>1, <1>2, <2>2, <3>1
    <2> QED BY <1>4, <2>1, <2>2, TeeFrom
  <1>5. ASSUME job'[a] # NoRun
        PROVE  Owns(a, job[a])'
    <2>1. CASE job'[a] = job[a]
      <3>1. job[a] \in Run
        BY <1>5, <2>1 DEF TypeOK
      <3> QED BY <1>1, <1>5, <2>1, <3>1 DEF OfAlias
    <2> QED BY <1>3, <1>5, <2>1, JobFrom
  <1>6. ASSUME NEW i \in Changes("Create", a)'
        PROVE  Owns(a, requests[i].run)'
    <2>1. CASE UNCHANGED requests
      BY <1>1, <1>2, <1>6, <2>1 DEF Changes
    <2>2. ASSUME NEW kind, Receive(kind)
          PROVE  Owns(a, requests[i].run)'
      <3>1. i + 1 \in Changes("Create", a) /\ requests'[i] = requests[i + 1]
        BY <1>6, <2>2, Dequeued DEF Changes
      <3> QED BY <1>1, <1>2, <3>1
    <2>3. ASSUME NEW m \in Request, requests' = Append(requests, m),
                 m.kind = "Create" => StartJob(m.alias) /\ job'[m.alias] = m.run
          PROVE  Owns(a, requests[i].run)'
      <3>1. CASE i \in DOMAIN requests /\ requests'[i] = requests[i]
        <4>1. i \in Changes("Create", a)
          BY <1>6, <3>1 DEF Changes
        <4> QED BY <1>1, <1>2, <3>1, <4>1
      <3>2. CASE requests'[i] = m
        <4>1. m.kind = "Create" /\ m.alias = a
          BY <1>6, <3>2 DEF Changes
        <4> QED BY <1>3, <2>3, <3>2, <4>1
      <3> QED BY <1>6, <2>3, <3>1, <3>2, Enqueued DEF Changes
    <2> QED BY <2>1, <2>2, <2>3, Traffic
  <1> QED BY <1>4, <1>5, <1>6

-----------------------------------------------------------------------------
(* The end of a process *)

(* The requests about an alias are the same and as far ahead, or one nearer; *)
(* a new Create is behind every StopForwarding.                             *)
LEMMA EndingKept ==
    ASSUME TypeOK, [Next]_vars, NEW a \in Alias, Ending(a), NEW d \in {0, 1},
           tees'[a].run = tees[a].run,
           \A i \in Finishes(a)' : i \in Nat /\ i + d \in Finishes(a),
           \A j \in Changes("Remove", a) : j \in Nat /\ j - d \in Changes("Remove", a)',
           \A k \in Changes("Create", a)' :
              /\ k \in Nat
              /\ \/ k + d \in Changes("Create", a) /\ requests'[k] = requests[k + d]
                 \/ \A i \in Finishes(a)' : i < k
    PROVE  Ending(a)'
  <1> SUFFICES ASSUME NEW i \in Finishes(a)'
               PROVE  /\ \/ tees'[a].run = NoRun \/ Exited(tees[a].run)'
                         \/ \E j \in Changes("Remove", a)' : j < i
                      /\ \A k \in Changes("Create", a)' : k < i =>
                            \/ Exited(requests[k].run)'
                            \/ \E j \in Changes("Remove", a)' : k < j /\ j < i
    BY DEF Ending
  <1>1. i \in Nat /\ i + d \in Finishes(a) /\ d \in Nat
    OBVIOUS
  <1>2. \A r \in Run : Exited(r) => Exited(r)'
    BY RunsLast
  <1>3. \A j \in Changes("Remove", a) : j < i + d => j - d \in Changes("Remove", a)' /\ j - d < i
    BY <1>1
  <1>4. \/ tees'[a].run = NoRun \/ Exited(tees[a].run)'
        \/ \E j \in Changes("Remove", a)' : j < i
    <2>1. CASE tees[a].run = NoRun \/ Exited(tees[a].run)
      BY <1>2, <2>1, RunOfTee
    <2>2. CASE \E j \in Changes("Remove", a) : j < i + d
      BY <1>3, <2>2
    <2> QED BY <1>1, <2>1, <2>2 DEF Ending
  <1>5. ASSUME NEW k \in Changes("Create", a)', k < i
        PROVE  \/ Exited(requests[k].run)'
               \/ \E j \in Changes("Remove", a)' : k < j /\ j < i
    <2>1. k \in Nat /\ k + d \in Changes("Create", a) /\ requests'[k] = requests[k + d] /\ k + d < i + d
      BY <1>1, <1>5
    <2>2. CASE Exited(requests[k + d].run)
      <3>1. requests[k + d].run \in Run
        BY <2>1, ElementOfSeq, RequestShape DEF Changes, TypeOK
      <3> QED BY <1>2, <2>1, <2>2, <3>1
    <2>3. CASE \E j \in Changes("Remove", a) : k + d < j /\ j < i + d
      <3>1. PICK j \in Changes("Remove", a) : k + d < j /\ j < i + d
        BY <2>3
      <3>2. j - d \in Changes("Remove", a)' /\ k < j - d /\ j - d < i
        BY <1>1, <2>1, <3>1
      <3> QED BY <3>2
    <2> QED BY <1>1, <2>1, <2>2, <2>3 DEF Ending
  <1> QED BY <1>4, <1>5

LEMMA EndingSend ==
    ASSUME TypeOK, [Next]_vars, NEW a \in Alias, Ending(a), tees'[a].run = tees[a].run,
           NEW m \in Request, requests' = Append(requests, m),
           m.kind = "StopForwarding" /\ m.by = "finish" => m.alias # a
    PROVE  Ending(a)'
  <1>1. \A i \in Finishes(a)' : i \in Nat /\ i \in Finishes(a) /\ i < Len(requests) + 1
    BY Enqueued DEF Finishes, Changes
  <1>2. \A j \in Changes("Remove", a) : j \in Nat /\ j \in Changes("Remove", a)'
    BY Enqueued DEF Changes
  <1>3. \A k \in Changes("Create", a)' :
              /\ k \in Nat
              /\ \/ k \in Changes("Create", a) /\ requests'[k] = requests[k]
                 \/ k = Len(requests) + 1
    BY Enqueued DEF Changes
  <1>4. \A i \in Nat : i + 0 = i /\ i - 0 = i
    OBVIOUS
  <1> QED BY <1>1, <1>2, <1>3, <1>4, EndingKept

LEMMA EndingHandle ==
    ASSUME TypeOK, [Next]_vars, NEW a \in Alias, Ending(a), tees'[a].run = tees[a].run,
           NEW kind, Receive(kind), kind = "Remove" => Head(requests).alias # a
    PROVE  Ending(a)'
  <1>1. \A i \in Finishes(a)' : i \in Nat /\ i + 1 \in Finishes(a)
    BY Dequeued DEF Finishes, Changes
  <1>2. \A j \in Changes("Remove", a) : j \in Nat /\ j # 1
    BY Dequeued DEF Changes
  <1>3. \A j \in Changes("Remove", a) : j - 1 \in Changes("Remove", a)'
    BY <1>2, Dequeued DEF Changes
  <1>4. \A k \in Changes("Create", a)' :
           k \in Nat /\ k + 1 \in Changes("Create", a) /\ requests'[k] = requests[k + 1]
    BY Dequeued DEF Changes
  <1> QED BY <1>1, <1>2, <1>3, <1>4, EndingKept

(* The process has ended, and everything in the channel about another one   *)
(* of the alias is done with before the new request.                        *)
LEMMA EndingFinish ==
    ASSUME TypeOK, [Next]_vars, NEW a \in Alias, Ending(a), Following(a), FinishEnded(a)
    PROVE  Ending(a)'
  <1> DEFINE n == Len(requests) + 1
             m == StopForwardingMsg(a, "finish")
  <1>1. /\ m \in Request /\ requests' = Append(requests, m) /\ UNCHANGED <<tees, job, process>>
        /\ job[a] # NoRun /\ Exited(job[a])
    BY RequestTypes DEF FinishEnded, FinishedBy, FinishJob, Requester, Exited
  <1>2. /\ \A i \in Finishes(a)' : i \in Finishes(a) \/ i = n
        /\ \A j \in Changes("Remove", a) : j \in Changes("Remove", a)' /\ j < n
        /\ \A k \in Changes("Create", a)' : k \in Changes("Create", a) /\ requests'[k] = requests[k]
    <2>1. m.kind = "StopForwarding"
      BY Kinds
    <2> QED BY <1>1, <2>1, Enqueued DEF Finishes, Changes
  <1>3. ASSUME NEW i \in Finishes(a)'
        PROVE  \/ tees'[a].run = NoRun \/ Exited(tees[a].run)'
               \/ \E j \in Changes("Remove", a)' : j < i
    <2>1. CASE i \in Finishes(a)
      BY <1>1, <1>2, <2>1 DEF Ending, Exited
    <2>2. CASE i = n
      <3>1. CASE Changes("Remove", a) = {}
        BY <1>1, <3>1 DEF Following, Exited
      <3>2. CASE Changes("Remove", a) # {}
        BY <1>2, <2>2, <3>2
      <3> QED BY <3>1, <3>2
    <2> QED BY <1>2, <2>1, <2>2
  <1>4. ASSUME NEW i \in Finishes(a)', NEW k \in Changes("Create", a)', k < i
        PROVE  \/ Exited(requests[k].run)'
               \/ \E j \in Changes("Remove", a)' : k < j /\ j < i
    <2>1. CASE i \in Finishes(a)
      BY <1>1, <1>2, <1>4, <2>1 DEF Ending, Exited
    <2>2. CASE i = n
      BY <1>1, <1>2, <2>2 DEF Following, Exited
    <2> QED BY <1>2, <2>1, <2>2
  <1> QED BY <1>3, <1>4 DEF Ending

LEMMA EndingChange ==
    ASSUME TypeOK, [Next]_vars, NEW a \in Alias, Ending(a), Following(a),
           HandleCreate \/ HandleRemove, Head(requests).alias = a
    PROVE  Ending(a)'
  <1>1. (Receive("Create") \/ Receive("Remove")) /\ UNCHANGED process
    BY DEF HandleCreate, HandleRemove
  <1>2. /\ \A i \in Finishes(a)' : i \in Nat \ {0} /\ i + 1 \in Finishes(a)
        /\ \A j \in Changes("Remove", a) : j \in Nat /\ (1 < j => j - 1 \in Changes("Remove", a)')
        /\ \A k \in Changes("Create", a)' :
              k \in Nat \ {0} /\ k + 1 \in Changes("Create", a) /\ requests'[k] = requests[k + 1]
    BY <1>1, Dequeued DEF Finishes, Changes
  <1>3. ASSUME NEW i \in Finishes(a)'
        PROVE  \/ tees'[a].run = NoRun \/ Exited(tees[a].run)'
               \/ \E j \in Changes("Remove", a)' : j < i
    <2>1. CASE HandleRemove
      BY <2>1, Changing
    <2>2. CASE HandleCreate
      <3>1. tees[a].run = NoRun
        BY <2>2, FollowingCreate
      <3>2. 1 \in Changes("Create", a) /\ requests[1] = Head(requests)
        BY <2>2, Dequeued DEF Changes, HandleCreate
      <3>3. tees'[a].run \in {NoRun, requests[1].run}
        BY <2>2, <3>1, <3>2, Changing
      <3>4. i \in Nat \ {0} /\ i + 1 \in Finishes(a) /\ 1 < i + 1
        BY <1>2
      <3>5. CASE Exited(requests[1].run)
        BY <1>1, <3>3, <3>5 DEF Exited
      <3>6. CASE \E j \in Changes("Remove", a) : 1 < j /\ j < i + 1
        <4>1. PICK j \in Changes("Remove", a) : 1 < j /\ j < i + 1
          BY <3>6
        <4>2. j - 1 \in Changes("Remove", a)' /\ j - 1 < i
          BY <1>2, <3>4, <4>1
        <4> QED BY <4>2
      <3> QED BY <3>2, <3>4, <3>5, <3>6 DEF Ending
    <2> QED BY <2>1, <2>2
  <1>4. ASSUME NEW i \in Finishes(a)', NEW k \in Changes("Create", a)', k < i
        PROVE  \/ Exited(requests[k].run)'
               \/ \E j \in Changes("Remove", a)' : k < j /\ j < i
    <2>1. /\ i \in Nat /\ k \in Nat \ {0} /\ i + 1 \in Finishes(a) /\ k + 1 < i + 1
          /\ k + 1 \in Changes("Create", a) /\ requests'[k] = requests[k + 1]
      BY <1>2, <1>4
    <2>2. CASE Exited(requests[k + 1].run)
      BY <1>1, <2>1, <2>2 DEF Exited
    <2>3. CASE \E j \in Changes("Remove", a) : k + 1 < j /\ j < i + 1
      <3>1. PICK j \in Changes("Remove", a) : k + 1 < j /\ j < i + 1
        BY <2>3
      <3>2. j - 1 \in Changes("Remove", a)' /\ k < j - 1 /\ j - 1 < i
        BY <1>2, <2>1, <3>1
      <3> QED BY <3>2
    <2> QED BY <2>1, <2>2, <2>3 DEF Ending
  <1> QED BY <1>3, <1>4 DEF Ending

LEMMA OnlyReceivers ==
    ASSUME TypeOK, [Next]_vars, NEW kind, Receive(kind)
    PROVE  Router
  <1>1. requests \in Seq(Request) /\ requests # <<>> /\ requests' = Tail(requests)
    BY DEF TypeOK, Receive
  <1>2. Len(requests') = Len(requests) - 1 /\ Len(requests) \in Nat
    BY <1>1, HeadElements
  <1>3. requests' # requests
    BY <1>2
  <1>4. ASSUME NEW m, requests' = Append(requests, m)
        PROVE  FALSE
    BY <1>1, <1>2, <1>4
  <1> QED
    BY <1>3, <1>4
    DEF Next, vars, Orchestrator, Forwarder, Exit, Write, StartJob, FinishJob,
        Detach, Status, Attach, RemoveJob, AttachReturns, StatusReturns,
        ForwardData, ForwardFails, EndOfStream, StopOwn, Disconnect

LEMMA EndingStep ==
    ASSUME TypeOK, AtWork, Sessions, TeesFollow, [Next]_vars, NEW a \in Alias, Ending(a)
    PROVE  Ending(a)'
  <1>1. Following(a)
    BY DEF TeesFollow
  <1>2. CASE (HandleCreate \/ HandleRemove) /\ Head(requests).alias = a
    BY <1>1, <1>2, EndingChange
  <1>3. CASE (HandleCreate \/ HandleRemove) /\ Head(requests).alias # a
    <2>1. tees'[a].run = tees[a].run
      BY <1>3, Changing
    <2>2. Receive("Create") \/ Receive("Remove")
      BY <1>3 DEF HandleCreate, HandleRemove
    <2> QED BY <1>3, <2>1, <2>2, EndingHandle
  <1>4. CASE ~HandleCreate /\ ~HandleRemove
    <2>1. tees'[a].run = tees[a].run
      <3>1. CASE HandleStartForwarding
        BY <3>1, Granting
      <3>2. CASE Release
        BY <3>2, Releasing
      <3> QED
        BY <1>4, <3>1, <3>2, OnlyRouter
        DEF Router, HandleReadBuff, HandleStopForwarding, DrainRead, DrainStderr, BeginPoll, Poll
    <2>2. CASE UNCHANGED requests
      <3>1. requests \in Seq(Request)
        BY DEF TypeOK
      <3>2. \A i \in DOMAIN requests : i \in Nat /\ i + 0 = i /\ i - 0 = i
        BY <3>1
      <3> QED BY <2>1, <2>2, <3>2, EndingKept DEF Finishes, Changes
    <2>3. ASSUME NEW kind, Receive(kind)
          PROVE  Ending(a)'
      <3>1. Router
        BY <2>3, OnlyReceivers
      <3>2. kind # "Remove"
        BY <1>4, <2>3, <3>1
        DEF Router, HandleReadBuff, HandleStartForwarding, HandleStopForwarding,
            DrainRead, DrainStderr, Release, DrainedStream, BeginPoll, Poll, Receive, AtRequests
      <3> QED BY <2>1, <2>3, <3>2, EndingHandle
    <2>4. ASSUME NEW m \in Request, requests' = Append(requests, m),
                 m.kind = "StopForwarding" /\ m.by = "finish" => FinishEnded(m.alias)
          PROVE  Ending(a)'
      <3>1. CASE m.kind = "StopForwarding" /\ m.by = "finish" /\ m.alias = a
        BY <1>1, <2>4, <3>1, EndingFinish
      <3>2. CASE ~(m.kind = "StopForwarding" /\ m.by = "finish" /\ m.alias = a)
        BY <2>1, <2>4, <3>2, EndingSend
      <3> QED BY <3>1, <3>2
    <2> QED BY <2>2, <2>3, <2>4, Traffic
  <1> QED BY <1>2, <1>3, <1>4

LEMMA DrainingStep ==
    ASSUME TypeOK, AtWork, Held, Sessions, \A a \in Alias : Ending(a), Draining, [Next]_vars
    PROVE  Draining'
  <1>1. \A r \in Run : Exited(r) => Exited(r)' /\ written'[r] = written[r]
    BY RunsLast
  <1>2. ASSUME UNCHANGED <<read, tees, router>>
        PROVE  Draining'
    <2> SUFFICES ASSUME router.pc = "drain", router.by = "finish"
                 PROVE  Draining'
      BY <1>2 DEF Draining
    <2>1. router.alias \in Alias
      BY RouterShape DEF TypeOK
    <2>2. HasTee(router.alias)
      BY <2>1 DEF AtWork, Held
    <2>3. tees[router.alias].run \in Run
      BY <2>1, <2>2, RunOfTee
    <2> QED BY <1>1, <1>2, <2>3 DEF Draining, Exited
  <1>3. CASE router'.pc # "drain"
    BY <1>3 DEF Draining
  <1>4. CASE HandleStopForwarding
    <2> SUFFICES ASSUME router'.pc = "drain", router'.by = "finish"
                 PROVE  Draining'
      BY DEF Draining
    <2>1. PICK a \in Alias : a = Head(requests).alias
      BY <1>4, NextRequest DEF HandleStopForwarding
    <2>2. tees[a].tx # NoSession /\ router' = AtDrain(a, "stdout", Head(requests).by)
      BY <1>4, <2>1 DEF HandleStopForwarding, AtRequests
    <2>3. Head(requests).by = "finish" /\ router'.alias = a /\ router'.stream = "stdout"
          /\ router'.left = DrainTimes + 1
      BY <2>2 DEF AtDrain
    <2>4. HasTee(a) /\ tees[a].run \in Run
      BY <2>2, RunOfTee DEF Held
    <2>5. 1 \in Finishes(a) /\ \A j \in Changes("Remove", a) : ~(j < 1)
      BY <1>4, <2>1, <2>3, Dequeued DEF Finishes, Changes, HandleStopForwarding
    <2>6. Exited(tees[a].run)
      BY <2>4, <2>5 DEF Ending, HasTee
    <2>7. written[tees[a].run]["stdout"] - read[tees[a].run]["stdout"] <= DrainTimes + 1
      <3>1. written[tees[a].run]["stdout"] - read[tees[a].run]["stdout"] \in 0 .. PipeSize
        BY <2>4 DEF TypeOK, Stream
      <3> QED BY <3>1, DrainAssumption, RouterAssumption
    <2>8. UNCHANGED <<written, read, tees, process>>
      BY <1>4 DEF HandleStopForwarding
    <2> QED BY <2>3, <2>6, <2>7, <2>8 DEF Draining, Exited
  <1>5. CASE DrainRead
    <2> SUFFICES ASSUME router'.pc = "drain", router'.by = "finish"
                 PROVE  Draining'
      BY DEF Draining
    <2> DEFINE r == tees[router.alias].run
               st == router.stream
    <2>1. /\ router.pc = "drain" /\ router \in RouterState /\ UNCHANGED <<written, tees, process>>
          /\ router' = [router EXCEPT !.left = router.left - 1] /\ Unread(router.alias, st)
          /\ read' = [read EXCEPT ![r][st] = read[r][st] + 1]
      BY <1>5 DEF DrainRead, Forward, TypeOK
    <2>2. /\ router.alias \in Alias /\ st \in Stream /\ router.left \in Int
          /\ router'.alias = router.alias /\ router'.by = router.by
          /\ router'.stream = st /\ router'.left = router.left - 1
      BY <2>1, RouterAssumption DEF RouterState, AtRequests
    <2>3. r \in Run
      BY <2>1, <2>2, RunOfTee DEF AtWork, Held
    <2>4. /\ written[r][st] \in Int /\ read[r][st] \in Int
          /\ read'[r][st] = read[r][st] + 1
          /\ st = "stderr" => read'[r]["stdout"] = read[r]["stdout"]
      BY <2>1, <2>2, <2>3 DEF TypeOK, Stream
    <2>5. /\ Exited(r) /\ written[r][st] - read[r][st] <= router.left
          /\ st = "stderr" => read[r]["stdout"] = written[r]["stdout"]
      BY <2>1, <2>2 DEF Draining
    <2>6. written[r][st] - read'[r][st] <= router.left - 1
      BY <2>2, <2>4, <2>5
    <2>7. tees'[router'.alias].run = r /\ written' = written /\ process' = process
      BY <2>1, <2>2
    <2>8. Exited(r) /\ written[r][st] - read'[r][st] <= router'.left
          /\ (st = "stderr" => read'[r]["stdout"] = written[r]["stdout"])
      BY <2>2, <2>4, <2>5, <2>6
    <2> HIDE DEF r, st
    <2> QED BY <2>2, <2>7, <2>8 DEF Draining, Exited
  <1>6. CASE DrainStderr
    <2> SUFFICES ASSUME router'.pc = "drain", router'.by = "finish"
                 PROVE  Draining'
      BY DEF Draining
    <2> DEFINE r == tees[router.alias].run
    <2>1. /\ router.pc = "drain" /\ router.stream = "stdout" /\ UNCHANGED <<written, read, tees, process>>
          /\ router.left = 0 \/ ~Unread(router.alias, "stdout")
          /\ router' = AtDrain(router.alias, "stderr", router.by)
      BY <1>6 DEF DrainStderr, DrainedStream
    <2>2. /\ router'.alias = router.alias /\ router'.by = router.by
          /\ router'.stream = "stderr" /\ router'.left = DrainTimes + 1
          /\ router.alias \in Alias
      BY <2>1, RouterShape DEF AtDrain, TypeOK
    <2>3. r \in Run
      BY <2>1, <2>2, RunOfTee DEF AtWork, Held
    <2>4. Exited(r) /\ written[r]["stdout"] - read[r]["stdout"] <= router.left
      BY <2>1, <2>2 DEF Draining
    <2>5. /\ written[r]["stdout"] \in Int /\ read[r]["stdout"] \in Int
          /\ written[r]["stdout"] - read[r]["stdout"] \in 0 .. PipeSize
          /\ written[r]["stderr"] - read[r]["stderr"] \in 0 .. PipeSize
      BY <2>3 DEF TypeOK, Stream
    <2>6. read[r]["stdout"] = written[r]["stdout"]
      BY <2>1, <2>4, <2>5, RouterAssumption DEF Unread
    <2>7. written[r]["stderr"] - read[r]["stderr"] <= DrainTimes + 1
      BY <2>5, DrainAssumption, RouterAssumption
    <2>8. tees'[router'.alias].run = r /\ written' = written /\ process' = process /\ read' = read
      BY <2>1, <2>2
    <2> HIDE DEF r
    <2> QED BY <2>2, <2>4, <2>6, <2>7, <2>8 DEF Draining, Exited
  <1>7. ASSUME NEW todo, PollAnyOf(todo)
        PROVE  router'.pc # "drain"
    BY <1>7 DEF PollAnyOf, AtPoll, AtRequests
  <1>8. CASE BeginPoll \/ Poll
    BY <1>3, <1>7, <1>8 DEF BeginPoll, Poll, AtPoll
  <1>9. CASE HandleCreate \/ HandleRemove \/ HandleReadBuff \/ HandleStartForwarding \/ Release
    BY <1>3, <1>9
    DEF HandleCreate, HandleRemove, HandleReadBuff, HandleStartForwarding, Release, Receive, AtRequests
  <1> QED BY <1>2, <1>4, <1>5, <1>6, <1>8, <1>9, OnlyRouter DEF Router

LEMMA FinishedStep ==
    ASSUME TypeOK, AtWork, Held, Draining, Finished, [Next]_vars
    PROVE  Finished'
  <1> SUFFICES ASSUME NEW s \in Session, att'[s].end = "finish"
               PROVE  Attached(s)' /\ Exited(att[s].run)'
    BY DEF Finished
  <1>1. ASSUME att'[s].run = att[s].run, att[s].end = "finish"
        PROVE  Attached(s)' /\ Exited(att[s].run)'
    <2>1. Attached(s) /\ Exited(att[s].run)
      BY <1>1 DEF Finished
    <2>2. att[s].run \in Run
      BY <2>1, HistoryTypes DEF TypeOK, Attached
    <2> QED BY <1>1, <2>1, <2>2, RunsLast DEF Attached
  <1>2. CASE HandleStartForwarding
    BY <1>1, <1>2, Granting
  <1>3. CASE Release
    <2>1. PICK a \in Alias : a = router.alias /\ tees[a].tx \in Session
      BY <1>3, Releasing
    <2>2. CASE s = tees[a].tx
      <3>1. router.by = "finish" /\ router.pc = "drain"
        BY <1>3, <2>1, <2>2, Releasing DEF Release, DrainedStream
      <3>2. att[s].run = tees[a].run /\ HasTee(a) /\ Exited(tees[a].run)
        BY <2>1, <2>2, <3>1, RouterAssumption DEF Held, Draining
      <3>3. att'[s].run = att[s].run /\ UNCHANGED process
        BY <1>3, Releasing DEF Release
      <3> QED BY <3>2, <3>3 DEF Attached, HasTee, Exited
    <2>3. CASE s # tees[a].tx
      BY <1>1, <1>3, <2>1, <2>3, Releasing
    <2> QED BY <2>2, <2>3
  <1> QED
    BY <1>1, <1>2, <1>3, OnlyRouter
    DEF Router, HandleCreate, HandleRemove, HandleReadBuff, HandleStopForwarding, DrainRead,
        DrainStderr, BeginPoll, Poll

-----------------------------------------------------------------------------
(* What a client gets is whole *)

LEMMA AttachedTo ==
    ASSUME TypeOK, NEW s \in Session, Attached(s)
    PROVE  /\ att[s].run \in Run /\ att[s].alias \in Alias
           /\ \A st \in Stream :
                 /\ att[s].first[st] \in Nat
                 /\ read[att[s].run][st] \in Nat /\ written[att[s].run][st] \in Nat
                 /\ read[att[s].run][st] <= written[att[s].run][st]
  <1>1. att[s] \in History /\ att[s].alias \in Alias
    BY DEF TypeOK
  <1>2. att[s].run \in Run /\ att[s].first \in [Stream -> 0 .. MaxChunks]
    BY <1>1, HistoryTypes DEF Attached
  <1>3. ASSUME NEW st \in Stream
        PROVE  /\ read[att[s].run][st] \in Nat /\ written[att[s].run][st] \in Nat
               /\ read[att[s].run][st] <= written[att[s].run][st]
    <2>1. /\ written[att[s].run][st] - read[att[s].run][st] \in 0 .. PipeSize
          /\ read[att[s].run][st] \in 0 .. MaxChunks /\ written[att[s].run][st] \in 0 .. MaxChunks
      BY <1>2 DEF TypeOK
    <2> QED BY <2>1, RouterAssumption
  <1> QED BY <1>1, <1>2, <1>3, RouterAssumption

(* Nothing new for the session. *)
LEMMA CompleteKept ==
    ASSUME TypeOK, Finished, [Next]_vars, NEW s \in Session, NEW st \in Stream, Complete(s, st),
           /\ att'[s].run = att[s].run /\ att'[s].alias = att[s].alias
           /\ att'[s].first = att[s].first /\ att'[s].end = att[s].end,
           s \notin gone' =>
              /\ s \notin gone
              /\ got'[s] \o chan'[s] = got[s] \o chan[s]
              /\ Attached(s) /\ tees'[att[s].alias].tx = s =>
                    /\ tees[att[s].alias].tx = s
                    /\ read'[att[s].run][st] = read[att[s].run][st]
    PROVE  Complete(s, st)'
  <1> SUFFICES ASSUME Attached(s), s \notin gone'
               PROVE  Complete(s, st)'
    BY DEF Complete, Attached
  <1> DEFINE r == att[s].run
             first == att[s].first[st]
  <1>1. PICK last \in first .. written[r][st] :
            /\ Whole(got[s] \o chan[s], r, st, first, last)
            /\ tees[att[s].alias].tx = s => last = read[r][st]
            /\ att[s].end = "finish" => last = written[r][st]
    BY DEF Complete
  <1>2. r \in Run /\ first \in Nat /\ written[r][st] \in Nat
    BY AttachedTo
  <1>3. written'[r][st] = written[r][st] \/ written'[r][st] = written[r][st] + 1
    BY <1>2, RunsLast
  <1>4. last \in first .. written'[r][st]
    BY <1>1, <1>2, <1>3
  <1>5. att[s].end = "finish" => written'[r][st] = written[r][st]
    BY <1>2, RunsLast DEF Finished
  <1>6. Whole(got'[s] \o chan'[s], r, st, first, last)
    BY <1>1
  <1>7. tees'[att'[s].alias].tx = s => last = read'[r][st]
    BY <1>1
  <1>8. att'[s].end = "finish" => last = written'[r][st]
    BY <1>1, <1>5
  <1>9. att'[s].run = r /\ att'[s].first[st] = first
    OBVIOUS
  <1> HIDE DEF r, first
  <1> QED BY <1>4, <1>6, <1>7, <1>8, <1>9 DEF Complete

(* A client that attaches has got nothing yet. *)
LEMMA CompleteGrant ==
    ASSUME RouterInv, NEW st \in Stream, HandleStartForwarding, NEW s \in Session,
           s = Head(requests).session, reply' = "Ok"
    PROVE  Complete(s, st)'
  <1> USE DEF RouterInv
  <1>1. PICK a \in Alias : a = Head(requests).alias
    BY Granting
  <1>2. /\ tees[a].run \in Run /\ tees'[a].tx = s /\ att'[s].alias = a
        /\ att'[s].run = tees[a].run /\ att'[s].first = read[tees[a].run]
        /\ att'[s].end = "none"
    BY <1>1, Granting
  <1> DEFINE r == tees[a].run
             n == read[r][st]
  <1>3. orch.pc = "attach" /\ orch.session = s /\ reply = "none"
    BY Dequeued DEF HandleStartForwarding, Waits
  <1>4. ~Attached(s) /\ got[s] = <<>> /\ chan[s] = <<>>
    BY <1>3 DEF Sessions, Stage
  <1>5. UNCHANGED <<read, written, got, chan, gone>>
    BY DEF HandleStartForwarding
  <1>6. n \in Nat /\ written[r][st] \in Nat /\ n \in n .. written[r][st]
    <2>1. n \in 0 .. MaxChunks /\ written[r][st] \in 0 .. MaxChunks
          /\ written[r][st] - n \in 0 .. PipeSize
      BY <1>2 DEF TypeOK
    <2> QED BY <2>1, RouterAssumption
  <1>7. got'[s] \o chan'[s] = <<>>
    BY <1>4, <1>5
  <1>8. Whole(got'[s] \o chan'[s], r, st, n, n)
    BY <1>6, <1>7, WholeEmpty
  <1>9. att'[s].run = r /\ att'[s].first[st] = n /\ written'[r][st] = written[r][st] /\ read'[r][st] = n
    BY <1>2, <1>5, SMTT(30)
  <1> HIDE DEF r, n
  <1> QED BY <1>2, <1>6, <1>8, <1>9 DEF Complete

(* When the end of a process ends the forwarding, all of it has been read.  *)
LEMMA CompleteRelease ==
    ASSUME TypeOK, AtWork, Held, Draining, NEW st \in Stream, Release, NEW s \in Session,
           s = tees[router.alias].tx, Complete(s, st)
    PROVE  Complete(s, st)'
  <1>1. PICK a \in Alias : a = router.alias
    BY Releasing
  <1>2. /\ att[s].alias = a /\ att[s].run = tees[a].run /\ Attached(s)
        /\ tees[a].tx = s
    BY <1>1, RouterAssumption DEF Held, HasTee, Attached
  <1>3. /\ att'[s].run = att[s].run /\ att'[s].alias = a /\ att'[s].first = att[s].first
        /\ att'[s].end = router.by /\ tees'[a].tx = NoSession /\ s # NoSession
    BY <1>1, <1>2, Releasing, RouterAssumption
  <1>4. UNCHANGED <<read, written, got, chan, gone>>
    BY SMTT(30) DEF Release
  <1> SUFFICES ASSUME s \notin gone
               PROVE  Complete(s, st)'
    BY <1>4, Zenon DEF Complete
  <1> DEFINE r == att[s].run
             first == att[s].first[st]
  <1>5. PICK last \in first .. written[r][st] :
            /\ Whole(got[s] \o chan[s], r, st, first, last)
            /\ tees[att[s].alias].tx = s => last = read[r][st]
    BY <1>2 DEF Complete
  <1>6. ASSUME router.by = "finish"
        PROVE  last = written[r][st]
    <2>1. /\ router.pc = "drain" /\ router.stream = "stderr"
          /\ router.left = 0 \/ ~Unread(a, "stderr")
      BY <1>1 DEF Release, DrainedStream
    <2>2. /\ written[r]["stderr"] - read[r]["stderr"] <= router.left
          /\ read[r]["stdout"] = written[r]["stdout"]
      BY <1>1, <1>2, <1>6, <2>1 DEF Draining
    <2>3. /\ read[r]["stderr"] \in Nat /\ written[r]["stderr"] \in Nat
          /\ read[r]["stderr"] <= written[r]["stderr"]
      BY <1>2, AttachedTo DEF Stream
    <2>4. read[r]["stderr"] = written[r]["stderr"]
      BY <1>2, <2>1, <2>2, <2>3 DEF Unread
    <2>5. last = read[r][st]
      BY <1>2, <1>5
    <2> QED BY <2>2, <2>4, <2>5 DEF Stream
  <1>7. Whole(got'[s] \o chan'[s], r, st, first, last)
    BY <1>4, <1>5
  <1>8. /\ att'[s].run = r /\ att'[s].first[st] = first /\ written'[r][st] = written[r][st]
        /\ tees'[att'[s].alias].tx # s
        /\ att'[s].end = "finish" => last = written[r][st]
    BY <1>3, <1>4, <1>6, SMTT(30)
  <1> HIDE DEF r, first
  <1> QED BY <1>5, <1>7, <1>8, Zenon DEF Complete

(* One more chunk for the client that has the Tee. *)
LEMMA CompleteRead ==
    ASSUME RouterInv, NEW st \in Stream, DrainRead \/ Poll, NEW s \in Session,
           s = tees[router.alias].tx, Complete(s, st), s \notin gone, ~UNCHANGED <<read, chan>>
    PROVE  Complete(s, st)'
  <1>0. TypeOK /\ AtWork /\ Held /\ Sessions
    BY DEF RouterInv
  <1>1. PICK a \in Alias, z \in Stream : a = router.alias /\ z = router.stream
    BY <1>0, Reading
  <1>2. /\ att[s].alias = a /\ att[s].run = tees[a].run /\ Attached(s) /\ att[s].end = "none"
        /\ tees[a].tx = s
    BY <1>0, <1>1, RouterAssumption DEF Held, HasTee, Attached
  <1> DEFINE r == att[s].run
             first == att[s].first[st]
             c == [run |-> r, stream |-> z, n |-> read[r][z] + 1]
  <1>3. s # NoSession /\ forwarder[s] # "done"
    BY <1>0, <1>2, RouterAssumption DEF Sessions, Stage
  <1>4. r \in Run /\ tees[router.alias].run = r /\ router.stream = z
    BY <1>0, <1>1, <1>2, AttachedTo
  <1>5. UNCHANGED <<written, tees, got, gone, att>>
    BY <1>0, Reading
  <1>6. /\ read[r][z] < written[r][z] /\ c \in Chunk
        /\ read'[r][st] = IF st = z THEN read[r][z] + 1 ELSE read[r][st]
    <2> HIDE DEF r
    <2> QED BY <1>0, <1>4, Reading
  <1>7. chan'[s] = Append(chan[s], c)
    <2>1. s = NoSession \/ forwarder[s] = "done" \/ chan'[s] = Append(chan[s], c)
      <3> HIDE DEF r
      <3> QED BY <1>0, <1>4, Reading
    <2> QED BY <1>3, <2>1, Zenon
  <1>8. /\ Whole(got[s] \o chan[s], r, st, first, read[r][st])
        /\ read[r][st] \in first .. written[r][st]
    BY <1>2 DEF Complete
  <1>9. /\ first \in Nat /\ read[r][st] \in Nat /\ written[r][st] \in Nat
        /\ first <= read[r][st]
    <2>1. /\ first \in Nat /\ read[r][st] \in Nat /\ written[r][st] \in Nat
      BY <1>0, <1>2, AttachedTo
    <2> HIDE DEF r, first
    <2> QED BY <1>8, <2>1
  <1>10. got'[s] \o chan'[s] = Append(got[s] \o chan[s], c) /\ got[s] \o chan[s] \in Seq(Chunk)
    <2>1. got[s] \in Seq(Chunk) /\ chan[s] \in Seq(Chunk)
      BY <1>0 DEF TypeOK
    <2>2. got'[s] = got[s]
      BY <1>5
    <2>3. PICK g \in Seq(Chunk), k \in Seq(Chunk), e \in Chunk :
              g = got[s] /\ k = chan[s] /\ e = c
      BY <1>6, <2>1, Zenon
    <2>4. g \o Append(k, e) = Append(g \o k, e) /\ g \o k \in Seq(Chunk)
      BY ChunkBehind, ConcatProperties
    <2> QED BY <1>7, <2>2, <2>3, <2>4, Zenon
  <1>11. /\ att'[s].run = r /\ att'[s].first[st] = first /\ written'[r][st] = written[r][st]
         /\ att'[s].end = "none" /\ read'[r][st] \in first .. written[r][st]
    <2>1. /\ att'[s].run = r /\ att'[s].first[st] = first /\ written'[r][st] = written[r][st]
          /\ att'[s].end = "none"
      BY <1>2, <1>5
    <2>2. read'[r][st] \in first .. written[r][st]
      <3> HIDE DEF r, first, c
      <3> QED BY <1>6, <1>8, <1>9
    <2> QED BY <2>1, <2>2
  <1>12. Whole(got'[s] \o chan'[s], r, st, first, read'[r][st])
    <2> DEFINE q == got[s] \o chan[s]
               last == read[r][st]
    <2>1. c.run = r /\ c.stream = z /\ c.n = read[r][z] + 1
      OBVIOUS
    <2>2. q \in Seq(Chunk) /\ got'[s] \o chan'[s] = Append(q, c)
      BY <1>10, Zenon
    <2> HIDE DEF c, r, first, q
    <2>3. CASE st = z
      <3>1. c.n = last + 1 /\ read'[r][st] = last + 1
        BY <1>6, <2>1, <2>3
      <3> HIDE DEF last
      <3>2. Whole(Append(q, c), r, st, first, last + 1)
        BY <1>6, <1>8, <1>9, <2>1, <2>2, <2>3, <3>1, WholeAppend, Zenon DEF last, q
      <3> QED BY <2>2, <3>1, <3>2, Zenon
    <2>4. CASE st # z
      <3>1. read'[r][st] = last
        BY <1>6, <2>4
      <3>2. Whole(Append(q, c), r, st, first, last)
        BY <1>6, <1>8, <1>9, <2>1, <2>2, <2>4, WholeAppend, Zenon DEF last, q
      <3> QED BY <2>2, <3>1, <3>2, Zenon
    <2> QED BY <2>3, <2>4
  <1> HIDE DEF r, first, c
  <1> QED BY <1>11, <1>12 DEF Complete

LEMMA CompleteStep ==
    ASSUME StreamInv, [Next]_vars, NEW s \in Session, NEW st \in Stream
    PROVE  Complete(s, st)'
  <1> USE DEF StreamInv, RouterInv
  <1>1. Complete(s, st)
    BY DEF Complete, StreamIsWhole
  <1>2. CASE UNCHANGED <<read, tees, att, got, chan>> /\ (s \notin gone' => s \notin gone)
    BY <1>1, <1>2, CompleteKept
  <1>3. CASE HandleCreate \/ HandleRemove
    <2>1. UNCHANGED <<read, att, got, chan, gone>>
      BY <1>3 DEF HandleCreate, HandleRemove
    <2>2. \A b \in Alias : tees'[b].tx = tees[b].tx \/ tees'[b].tx = NoSession
      BY <1>3, Changing
    <2>3. Attached(s) => att[s].alias \in Alias
      BY DEF TypeOK
    <2> QED BY <1>1, <2>1, <2>2, <2>3, CompleteKept, RouterAssumption
  <1>4. CASE HandleStartForwarding
    <2>1. PICK t \in Session : t = Head(requests).session
      BY <1>4, Granting
    <2>2. UNCHANGED <<read, got, chan, gone>>
      BY <1>4 DEF HandleStartForwarding
    <2>3. CASE UNCHANGED <<tees, att>>
      BY <1>2, <2>2, <2>3
    <2>4. CASE s = t /\ reply' = "Ok"
      BY <1>4, <2>1, <2>4, CompleteGrant
    <2>5. CASE s # t /\ reply' = "Ok"
      <3>1. att'[s] = att[s] /\ \A b \in Alias : tees'[b].tx = tees[b].tx \/ tees'[b].tx = t
        BY <1>4, <2>1, <2>5, Granting
      <3>2. Attached(s) => att[s].alias \in Alias
        BY DEF TypeOK
      <3> QED BY <1>1, <2>2, <2>5, <3>1, <3>2, CompleteKept
    <2> QED BY <1>4, <2>1, <2>3, <2>4, <2>5, Granting
  <1>5. CASE Release
    <2>1. PICK t \in Session : t = tees[router.alias].tx
      BY <1>5, Releasing
    <2>2. CASE s = t
      BY <1>1, <1>5, <2>1, <2>2, CompleteRelease
    <2>3. CASE s # t
      <3>1. UNCHANGED <<read, got, chan, gone>>
        BY <1>5 DEF Release
      <3>2. /\ att'[s].run = att[s].run /\ att'[s].alias = att[s].alias
            /\ att'[s].first = att[s].first /\ att'[s].end = att[s].end
        BY <1>5, <2>1, <2>3, Releasing
      <3>3. \A b \in Alias : tees'[b].tx = tees[b].tx \/ tees'[b].tx = NoSession
        BY <1>5, Releasing
      <3>4. Attached(s) => att[s].alias \in Alias
        BY DEF TypeOK
      <3> QED BY <1>1, <3>1, <3>2, <3>3, <3>4, CompleteKept, RouterAssumption
    <2> QED BY <2>2, <2>3
  <1>6. CASE DrainRead \/ Poll
    <2>1. UNCHANGED <<tees, att, got, gone>>
      BY <1>6, Reading
    <2>2. CASE s = tees[router.alias].tx /\ ~UNCHANGED <<read, chan>> /\ s \notin gone
      BY <1>1, <1>6, <2>2, CompleteRead
    <2>3. CASE UNCHANGED <<read, chan>> \/ s \in gone
      BY <1>1, <2>1, <2>3, CompleteKept
    <2>4. CASE s # tees[router.alias].tx
      <3>1. chan'[s] = chan[s]
        BY <1>6, <2>4, Reading
      <3>2. ASSUME Attached(s), tees[att[s].alias].tx = s
            PROVE  read'[att[s].run][st] = read[att[s].run][st]
        <4>1. PICK a \in Alias : a = att[s].alias
          BY <3>2 DEF TypeOK
        <4>2. PICK b \in Alias : b = router.alias
          BY <1>6, Reading
        <4>3. tees[a].tx # NoSession /\ att[s].run = tees[a].run /\ HasTee(a) /\ a # b
          BY <2>4, <3>2, <4>1, <4>2, RouterAssumption DEF Held
        <4>4. tees[b].run \in Run
          BY <1>6, <4>2, Reading
        <4>5. tees[a].run # tees[b].run
          BY <4>3, <4>4, RunIsNotNo DEF OfAlias, Owns, HasTee
        <4>6. tees[a].run \in Run
          BY <4>3, RunOfTee
        <4> QED BY <1>6, <4>2, <4>3, <4>5, <4>6, Reading
      <3> QED BY <1>1, <2>1, <3>1, <3>2, CompleteKept
    <2> QED BY <2>2, <2>3, <2>4
  <1>7. ASSUME NEW t \in Session, Forwarder(t) \/ Disconnect(t)
        PROVE  Complete(s, st)'
    <2>1. UNCHANGED <<read, tees, att>> /\ gone \subseteq gone'
      BY <1>7 DEF Forwarder, ForwardData, ForwardFails, EndOfStream, StopOwn, Disconnect
    <2>2. s \notin gone' => got'[s] \o chan'[s] = got[s] \o chan[s]
      <3>1. got[s] \in Seq(Chunk) /\ chan[s] \in Seq(Chunk) /\ Stage(s)
        BY DEF TypeOK, Sessions
      <3>2. CASE got'[s] = got[s] /\ chan'[s] = chan[s]
        BY <3>2
      <3>3. CASE s = t /\ ForwardData(t)
        <4>1. chan[s] # <<>> /\ got'[s] = Append(got[s], Head(chan[s])) /\ chan'[s] = Tail(chan[s])
          BY <3>3 DEF ForwardData, TypeOK
        <4> QED BY <3>1, <4>1, HeadMoves
      <3>4. CASE s = t /\ ForwardFails(t)
        BY <2>1, <3>4 DEF ForwardFails
      <3>5. CASE s = t /\ StopOwn(t)
        <4>1. UNCHANGED <<got, gone>> /\ chan'[s] = <<>> /\ forwarder[s] = "ending"
          BY <3>5 DEF StopOwn, TypeOK
        <4> QED BY <3>1, <4>1 DEF Stage
      <3> QED
        BY <1>7, <3>2, <3>3, <3>4, <3>5
        DEF Forwarder, ForwardData, ForwardFails, EndOfStream, StopOwn, Disconnect, TypeOK
    <2> QED BY <1>1, <2>1, <2>2, CompleteKept
  <1> QED
    BY <1>2, <1>3, <1>4, <1>5, <1>6, <1>7
    DEF Next, vars, Orchestrator, Router, Exit, Write, StartJob, FinishJob,
        Detach, Status, Attach, RemoveJob, AttachReturns, StatusReturns,
        HandleReadBuff, HandleStopForwarding, DrainStderr, BeginPoll

-----------------------------------------------------------------------------
LEMMA StreamInvInit == Init => StreamInv
  <1> SUFFICES ASSUME Init PROVE StreamInv
    OBVIOUS
  <1>1. DOMAIN requests = {} /\ \A a \in Alias : tees[a].run = NoRun /\ job[a] = NoRun
    BY DEF Init, NoTee
  <1>2. OfAlias /\ \A a \in Alias : Ending(a)
    BY <1>1 DEF OfAlias, Ending, Finishes, Changes
  <1>3. Draining /\ Finished /\ StreamIsWhole
    BY DEF Init, AtRequests, Draining, Finished, StreamIsWhole, Attached, NotAttached
  <1> QED BY <1>2, <1>3, RouterInvInit DEF StreamInv

LEMMA StreamInvStep == StreamInv /\ [Next]_vars => StreamInv'
  <1> SUFFICES ASSUME StreamInv, [Next]_vars
               PROVE  StreamInv'
    OBVIOUS
  <1>1. RouterInv' /\ OfAlias' /\ (\A a \in Alias : Ending(a))' /\ Draining' /\ Finished'
    BY RouterInvStep, OfAliasStep, EndingStep, DrainingStep, FinishedStep
    DEF StreamInv, RouterInv
  <1>2. \A s \in Session, st \in Stream : Complete(s, st)'
    BY CompleteStep
  <1>3. StreamIsWhole'
    BY <1>2 DEF StreamIsWhole, Complete
  <1> QED BY <1>1, <1>3 DEF StreamInv

(* A client sees each stream of its job without a gap, a repetition or a    *)
(* change of order, from the first read after its attach to the last one    *)
(* while it is attached; and to the last chunk the process wrote if the end *)
(* of the process ended the forwarding: "First drain all the pipes"         *)
(* (io_router.rs:186).                                                      *)
THEOREM StreamsAreWhole == Spec => []StreamIsWhole
  <1>1. StreamInv => StreamIsWhole
    BY DEF StreamInv
  <1> QED BY <1>1, StreamInvInit, StreamInvStep, PTL DEF Spec

-----------------------------------------------------------------------------
(* Attachment: the refinement, step by step. *)

(* The chunks routed to a session, as the refinement mapping counts them. *)
Sent(s) == IF s \in gone THEN got[s] ELSE got[s] \o chan[s]

(* What a step leaves alone: the sessions that hold jobs, and how far all   *)
(* sessions but some are.                                                   *)
SameHolders == \A a \in Alias : tees'[a].tx = tees[a].tx
SamePhases(but) == \A t \in Session \ but : Phase(t)' = Phase(t)
SameSent(but) == \A t \in Session \ but : Sent(t)' = Sent(t)

-----------------------------------------------------------------------------
(* Steps of Attachment, session by session *)

LEMMA Stutters ==
    ASSUME SameHolders, SamePhases({}), SameSent({}), UNCHANGED got
    PROVE  UNCHANGED Attachments!vars
  BY DEF Attachments!vars, SameHolders, SamePhases, SameSent, Sent

LEMMA Moves ==
    ASSUME NEW s \in Session, SamePhases({s})
    PROVE  \A from, to : Phase(s) = from /\ Phase(s)' = to => Attachments!Move(s, from, to)
  BY DEF Attachments!Move, SamePhases

LEMMA SentStays ==
    ASSUME SameSent({})
    PROVE  [s \in Session |-> IF s \in gone' THEN got'[s] ELSE got'[s] \o chan'[s]]
            = [s \in Session |-> IF s \in gone THEN got[s] ELSE got[s] \o chan[s]]
  BY DEF SameSent, Sent

LEMMA HoldersStay ==
    ASSUME SameHolders
    PROVE  [a \in Alias |-> tees'[a].tx] = [a \in Alias |-> tees[a].tx]
  BY DEF SameHolders

LEMMA HolderChanges ==
    ASSUME NEW a \in Alias, NEW s, tees'[a].tx = s,
           \A b \in Alias \ {a} : tees'[b].tx = tees[b].tx
    PROVE  [b \in Alias |-> tees'[b].tx] = [[b \in Alias |-> tees[b].tx] EXCEPT ![a] = s]
  OBVIOUS

LEMMA Asks ==
    ASSUME NEW s \in Session, Phase(s) = "new", Phase(s)' = "asking",
           SameHolders, SamePhases({s}), SameSent({}), UNCHANGED got
    PROVE  Attachments!Next
  <1>1. Attachments!Ask(s)
    BY Moves, SentStays, HoldersStay DEF Attachments!Ask
  <1> QED BY <1>1 DEF Attachments!Next

LEMMA Refuses ==
    ASSUME NEW s \in Session, Phase(s) = "asking", Phase(s)' = "refused",
           SameHolders, SamePhases({s}), SameSent({}), UNCHANGED got
    PROVE  Attachments!Next
  <1>1. Attachments!Refuse(s)
    BY Moves, SentStays, HoldersStay DEF Attachments!Refuse
  <1> QED BY <1>1 DEF Attachments!Next

LEMMA Grants ==
    ASSUME NEW s \in Session, NEW a \in Alias, Phase(s) = "asking", Phase(s)' = "attached",
           tees[a].tx = NoSession, tees'[a].tx = s,
           \A b \in Alias \ {a} : tees'[b].tx = tees[b].tx,
           SamePhases({s}), SameSent({}), UNCHANGED got
    PROVE  Attachments!Next
  <1>1. Attachments!Grant(s, a)
    BY Moves, SentStays, HolderChanges DEF Attachments!Grant
  <1> QED BY <1>1 DEF Attachments!Next

LEMMA Releases ==
    ASSUME NEW s \in Session, NEW a \in Alias, tees[a].tx = s, tees'[a].tx = NoSession,
           \A b \in Alias \ {a} : tees'[b].tx = tees[b].tx,
           \/ Phase(s) = "attached" /\ Phase(s)' = "released"
           \/ Phase(s) = "broken" /\ Phase(s)' = "broken",
           SamePhases({s}), SameSent({}), UNCHANGED got
    PROVE  Attachments!Next
  <1>1. CASE Phase(s) = "attached" /\ Phase(s)' = "released"
    <2>1. Attachments!Release(s, a)
      BY <1>1, Moves, SentStays, HolderChanges DEF Attachments!Release
    <2> QED BY <2>1 DEF Attachments!Next
  <1>2. CASE Phase(s) = "broken" /\ Phase(s)' = "broken"
    <2>1. [t \in Session |-> Phase(t)'] = [t \in Session |-> Phase(t)]
      BY <1>2 DEF SamePhases
    <2>2. Attachments!ReleaseBroken(s, a)
      BY <1>2, <2>1, SentStays, HolderChanges DEF Attachments!ReleaseBroken
    <2> QED BY <2>2 DEF Attachments!Next
  <1> QED BY <1>1, <1>2

LEMMA Routes ==
    ASSUME NEW s \in Session, NEW c \in Chunk, Phase(s) = "attached",
           \A t \in Session : \A i \in DOMAIN Sent(t) : Sent(t)[i] # c,
           Sent(s)' = Append(Sent(s), c),
           SameHolders, SamePhases({}), SameSent({s}), UNCHANGED got
    PROVE  Attachments!Next
  <1>1. [t \in Session |-> Phase(t)'] = [t \in Session |-> Phase(t)]
    BY DEF SamePhases
  <1>2. [t \in Session |-> Sent(t)'] = [[t \in Session |-> Sent(t)] EXCEPT ![s] = Append(@, c)]
    BY DEF SameSent
  <1>3. \A t \in Session : c \notin Attachments!Range(Sent(t))
    BY DEF Attachments!Range
  <1>4. Attachments!Route(s, c)
    BY <1>1, <1>2, <1>3, HoldersStay DEF Attachments!Route, Sent
  <1> QED BY <1>4 DEF Attachments!Next

LEMMA Delivers ==
    ASSUME NEW s \in Session, Phase(s) \in {"attached", "released"},
           Len(got[s]) < Len(Sent(s)),
           got' = [got EXCEPT ![s] = Append(@, Sent(s)[Len(@) + 1])],
           SameHolders, SamePhases({}), SameSent({})
    PROVE  Attachments!Next
  <1>1. [t \in Session |-> Phase(t)'] = [t \in Session |-> Phase(t)]
    BY DEF SamePhases
  <1>2. Attachments!Deliver(s)
    BY <1>1, HoldersStay, SentStays DEF Attachments!Deliver, Sent
  <1> QED BY <1>2 DEF Attachments!Next

LEMMA Ends ==
    ASSUME NEW s \in Session, Phase(s) = "released", Phase(s)' = "ended", got[s] = Sent(s),
           SameHolders, SamePhases({s}), SameSent({}), UNCHANGED got
    PROVE  Attachments!Next
  <1>1. Attachments!End(s)
    BY Moves, SentStays, HoldersStay DEF Attachments!End, Sent
  <1> QED BY <1>1 DEF Attachments!Next

LEMMA Breaks ==
    ASSUME NEW s \in Session, Phase(s) \in {"attached", "released"}, Phase(s)' = "broken",
           Sent(s)' = got[s],
           SameHolders, SamePhases({s}), SameSent({s}), UNCHANGED got
    PROVE  Attachments!Next
  <1>1. [t \in Session |-> Phase(t)'] = [[t \in Session |-> Phase(t)] EXCEPT ![s] = "broken"]
    BY DEF SamePhases
  <1>2. [t \in Session |-> Sent(t)'] = [[t \in Session |-> Sent(t)] EXCEPT ![s] = got[s]]
    BY DEF SameSent
  <1>3. Attachments!Break(s)
    BY <1>1, <1>2, HoldersStay DEF Attachments!Break, Sent
  <1> QED BY <1>3 DEF Attachments!Next

-----------------------------------------------------------------------------
(* How far a session is *)

LEMMA PhaseKept ==
    ASSUME NEW t, forwarder'[t] = forwarder[t], Refused(t)' <=> Refused(t),
           att'[t].run = att[t].run, att'[t].alias = att[t].alias, t \in gone' <=> t \in gone,
           Attached(t) => (tees'[att[t].alias].tx = t <=> tees[att[t].alias].tx = t)
    PROVE  Phase(t)' = Phase(t)
  BY DEF Phase, Attached

(* The thread of an attached session runs or will be started. *)
LEMMA Running ==
    ASSUME Sessions, TypeOK, NEW s \in Session,
           forwarder[s] \in {"running", "ending", "done"}
    PROVE  /\ Attached(s) /\ ~Refused(s) /\ att[s].alias \in Alias
           /\ Phase(s) = IF s \in gone THEN "broken"
                         ELSE IF tees[att[s].alias].tx = s THEN "attached"
                         ELSE IF forwarder[s] = "running" THEN "released" ELSE "ended"
  <1>1. Attached(s) /\ att[s].alias \in Alias
    BY DEF Sessions, Stage, TypeOK
  <1>2. ~Refused(s)
    BY DEF Refused, Sessions
  <1> QED BY <1>1, <1>2 DEF Phase

LEMMA Holding ==
    ASSUME Sessions, Held, TypeOK, NEW a \in Alias, NEW s \in Session, tees[a].tx = s
    PROVE  /\ Attached(s) /\ ~Refused(s) /\ att[s].alias = a
           /\ Phase(s) = IF s \in gone THEN "broken" ELSE "attached"
           /\ s \notin gone => forwarder[s] \in {"asking", "running"}
           /\ forwarder[s] # "none"
  <1>1. Attached(s) /\ att[s].alias = a
    BY RouterAssumption DEF Held, HasTee, Attached
  <1>2. Stage(s) /\ forwarder[s] \notin {"none", "refused"}
    BY <1>1 DEF Sessions, Stage
  <1>3. ~Refused(s)
    BY <1>1, <1>2 DEF Refused, Sessions
  <1>4. s \notin gone => forwarder[s] \in {"asking", "running"}
    BY <1>1, <1>2 DEF Stage, TypeOK
  <1> QED BY <1>1, <1>2, <1>3, <1>4 DEF Phase

(* A session other than the one that asks is not refused. *)
LEMMA RefusedKept ==
    ASSUME NEW t, forwarder'[t] = forwarder[t],
           orch.pc # "attach" \/ orch.session # t \/ reply \in {"none", "Ok"},
           orch'.pc # "attach" \/ orch'.session # t \/ reply' \in {"none", "Ok"}
    PROVE  Refused(t)' <=> Refused(t)
  BY DEF Refused

(* Nothing a session is about changes. *)
LEMMA Quiet ==
    ASSUME UNCHANGED <<forwarder, att, gone, tees, got, chan>>,
           \A t \in Session : Refused(t)' <=> Refused(t)
    PROVE  UNCHANGED Attachments!vars
  <1>1. SamePhases({})
    BY PhaseKept DEF SamePhases
  <1>2. SameHolders /\ SameSent({})
    BY DEF SameHolders, SameSent, Sent
  <1> QED BY <1>1, <1>2, Stutters

(* Steps of the processes and the orchestrator's waits. *)
LEMMA QuietSteps ==
    ASSUME RouterInv,
           \/ UNCHANGED vars
           \/ \E r \in Run : Exit(r) \/ \E st \in Stream : Write(r, st)
           \/ \E a \in Alias : StartJob(a) \/ FinishJob(a) \/ Detach(a) \/ Status(a)
           \/ RemoveJob \/ StatusReturns
           \/ HandleReadBuff \/ HandleStopForwarding \/ DrainStderr \/ BeginPoll
    PROVE  UNCHANGED Attachments!vars
  <1>1. UNCHANGED <<forwarder, att, gone, tees, got, chan>>
    BY DEF vars, Exit, Write, StartJob, FinishJob, Detach, Status, RemoveJob, StatusReturns,
           HandleReadBuff, HandleStopForwarding, DrainStderr, BeginPoll
  <1>2. CASE UNCHANGED <<orch, reply, forwarder>>
    BY <1>1, <1>2, Quiet DEF Refused
  <1>3. CASE orch.pc # "attach" /\ orch'.pc # "attach"
    BY <1>1, <1>3, Quiet DEF Refused
  <1>4. CASE HandleReadBuff
    <2>1. orch.pc = "status" /\ UNCHANGED orch
      BY <1>4, Dequeued DEF HandleReadBuff, RouterInv, Waits
    <2> QED BY <1>3, <2>1
  <1> QED
    BY <1>2, <1>3, <1>4
    DEF vars, Exit, Write, StartJob, FinishJob, Detach, Status, RemoveJob, StatusReturns,
        HandleStopForwarding, DrainStderr, BeginPoll, Idle

LEMMA AttachStep ==
    ASSUME RouterInv, NEW s \in Session, NEW a \in Alias, Attach(s, a)
    PROVE  Attachments!Next
  <1> USE DEF RouterInv
  <1>1. /\ forwarder[s] = "none" /\ forwarder' = [forwarder EXCEPT ![s] = "asking"]
        /\ orch.pc = "recv" /\ orch' = [pc |-> "attach", session |-> s]
        /\ UNCHANGED <<tees, reply, chan, got, gone, att>>
    BY DEF Attach, Idle
  <1>2. reply = "none"
    BY <1>1, NothingAsked
  <1>3. Phase(s) = "new"
    BY <1>1 DEF Phase
  <1>4. ~Attached(s) /\ forwarder'[s] = "asking"
    BY <1>1 DEF Sessions, Stage, TypeOK
  <1>5. Phase(s)' = "asking"
    BY <1>1, <1>2, <1>4 DEF Phase, Refused, Attached
  <1>6. SamePhases({s})
    <2> SUFFICES ASSUME NEW t \in Session, t # s
                 PROVE  Phase(t)' = Phase(t)
      BY DEF SamePhases
    <2>1. forwarder'[t] = forwarder[t]
      BY <1>1 DEF TypeOK
    <2> QED BY <1>1, <1>2, <2>1, RefusedKept, PhaseKept
  <1>7. SameHolders /\ SameSent({})
    BY <1>1 DEF SameHolders, SameSent, Sent
  <1> QED BY <1>1, <1>3, <1>5, <1>6, <1>7, Asks

LEMMA AttachReturnsStep ==
    ASSUME RouterInv, AttachReturns
    PROVE  UNCHANGED Attachments!vars
  <1> USE DEF RouterInv
  <1>1. PICK s \in Session : s = orch.session
    BY OrchTypes DEF AttachReturns, TypeOK
  <1>2. /\ orch.pc = "attach" /\ orch.session = s /\ orch'.pc = "recv" /\ reply # "none"
        /\ forwarder' = [forwarder EXCEPT ![s] = IF reply = "Ok" THEN "running" ELSE "refused"]
        /\ UNCHANGED <<tees, chan, got, gone, att>>
    BY <1>1 DEF AttachReturns, Idle
  <1>3. forwarder[s] = "asking" /\ (Attached(s) <=> reply = "Ok") /\ s \notin gone
    BY <1>2 DEF Sessions, Stage
  <1>4. forwarder'[s] = IF reply = "Ok" THEN "running" ELSE "refused"
    BY <1>2 DEF TypeOK
  <1>5. Phase(s)' = Phase(s)
    <2>1. CASE reply = "Ok"
      BY <1>2, <1>3, <1>4, <2>1 DEF Phase, Refused, Attached
    <2>2. CASE reply # "Ok"
      BY <1>2, <1>3, <1>4, <2>2 DEF Phase, Refused
    <2> QED BY <2>1, <2>2
  <1>6. ASSUME NEW t \in Session, t # s
        PROVE  Phase(t)' = Phase(t)
    <2>1. forwarder'[t] = forwarder[t]
      BY <1>2, <1>6 DEF TypeOK
    <2> QED BY <1>2, <1>6, <2>1, RefusedKept, PhaseKept
  <1>7. SamePhases({})
    BY <1>5, <1>6 DEF SamePhases
  <1>8. SameHolders /\ SameSent({})
    BY <1>2 DEF SameHolders, SameSent, Sent
  <1> QED BY <1>2, <1>7, <1>8, Stutters

LEMMA GrantStep ==
    ASSUME RouterInv, HandleStartForwarding
    PROVE  Attachments!Next
  <1> USE DEF RouterInv
  <1>1. PICK s \in Session, a \in Alias : s = Head(requests).session /\ a = Head(requests).alias
    BY Granting
  <1>2. /\ orch.pc = "attach" /\ orch.session = s /\ reply = "none"
        /\ UNCHANGED <<orch, forwarder, chan, got, gone>>
    BY <1>1, Dequeued DEF HandleStartForwarding, Waits
  <1>3. forwarder[s] = "asking" /\ ~Attached(s) /\ s \notin gone
    BY <1>2 DEF Sessions, Stage
  <1>4. Phase(s) = "asking"
    BY <1>2, <1>3 DEF Phase, Refused
  <1>5. SameSent({})
    BY <1>2 DEF SameSent, Sent
  <1>6. CASE UNCHANGED <<tees, att>> /\ reply' \in {"JobAlreadyAttached", "JobNotFound"}
    <2>1. Phase(s)' = "refused"
      BY <1>2, <1>3, <1>6 DEF Phase, Refused
    <2>2. SamePhases({s})
      BY <1>2, <1>6, RefusedKept, PhaseKept DEF SamePhases
    <2>3. SameHolders
      BY <1>6 DEF SameHolders
    <2> QED BY <1>2, <1>4, <1>5, <2>1, <2>2, <2>3, Refuses
  <1>7. CASE reply' = "Ok"
    <2>1. /\ tees[a].tx = NoSession /\ tees'[a].tx = s /\ tees[a].run \in Run
          /\ \A b \in Alias : b # a => tees'[b] = tees[b]
          /\ \A t \in Session : t # s => att'[t] = att[t]
          /\ att'[s].alias = a /\ att'[s].run = tees[a].run
      BY <1>1, <1>7, Granting
    <2>2. Phase(s)' = "attached"
      <3>1. Attached(s)'
        BY <2>1, RunIsNotNo DEF Attached
      <3> QED BY <1>2, <1>3, <1>7, <2>1, <3>1 DEF Phase, Refused
    <2>3. SamePhases({s})
      <3> SUFFICES ASSUME NEW t \in Session, t # s
                   PROVE  Phase(t)' = Phase(t)
        BY DEF SamePhases
      <3>1. Attached(t) => att[t].alias \in Alias
        BY DEF TypeOK
      <3>2. Attached(t) => (tees'[att[t].alias].tx = t <=> tees[att[t].alias].tx = t)
        BY <2>1, <3>1, RouterAssumption
      <3>3. att'[t] = att[t]
        BY <2>1
      <3> QED BY <1>2, <1>7, <3>2, <3>3, RefusedKept, PhaseKept
    <2> QED BY <1>2, <1>4, <1>5, <2>1, <2>2, <2>3, Grants
  <1> QED BY <1>1, <1>6, <1>7, Granting

(* The router drops the channel to a session, or has had none. *)
LEMMA Dropping ==
    ASSUME RouterInv, NEW a \in Alias, tees'[a].tx = NoSession,
           \A b \in Alias \ {a} : tees'[b].tx = tees[b].tx,
           UNCHANGED <<orch, reply, forwarder, chan, got, gone>>,
           \A t \in Session : att'[t].run = att[t].run /\ att'[t].alias = att[t].alias
    PROVE  Attachments!Next \/ UNCHANGED Attachments!vars
  <1> USE DEF RouterInv
  <1>1. SameSent({}) /\ \A t \in Session : Refused(t)' <=> Refused(t)
    BY DEF SameSent, Sent, Refused
  <1>2. ASSUME NEW t \in Session, t # tees[a].tx
        PROVE  Phase(t)' = Phase(t)
    <2>1. Attached(t) => att[t].alias \in Alias /\ t # NoSession
      BY RouterAssumption DEF TypeOK
    <2>2. Attached(t) => (tees'[att[t].alias].tx = t <=> tees[att[t].alias].tx = t)
      BY <1>2, <2>1
    <2> QED BY <1>1, <2>2, PhaseKept
  <1>3. CASE tees[a].tx = NoSession
    <2>1. SamePhases({})
      BY <1>2, <1>3, RouterAssumption DEF SamePhases
    <2>2. SameHolders
      BY <1>3 DEF SameHolders
    <2> QED BY <1>1, <2>1, <2>2, Stutters
  <1>4. CASE tees[a].tx # NoSession
    <2>1. PICK s \in Session : tees[a].tx = s
      BY <1>4, RunOfTee
    <2>2. SamePhases({s})
      BY <1>2, <2>1 DEF SamePhases
    <2>3. /\ Attached(s) /\ ~Refused(s) /\ att[s].alias = a
          /\ Phase(s) = IF s \in gone THEN "broken" ELSE "attached"
          /\ s \notin gone => forwarder[s] \in {"asking", "running"}
          /\ forwarder[s] # "none"
      BY <2>1, Holding
    <2>4. Attached(s)' /\ ~Refused(s)' /\ att'[s].alias = a /\ s # NoSession
      BY <1>1, <2>3, RouterAssumption DEF Attached
    <2>5. Phase(s)' = IF s \in gone THEN "broken" ELSE "released"
      BY <2>3, <2>4 DEF Phase
    <2> QED BY <1>1, <2>1, <2>2, <2>3, <2>5, Releases
  <1> QED BY <1>3, <1>4

LEMMA DropStep ==
    ASSUME RouterInv, HandleCreate \/ HandleRemove \/ Release
    PROVE  Attachments!Next \/ UNCHANGED Attachments!vars
  <1> USE DEF RouterInv
  <1>1. CASE HandleCreate \/ HandleRemove
    <2>1. PICK a \in Alias : a = Head(requests).alias
      BY <1>1, Changing
    <2>2. UNCHANGED <<orch, reply, forwarder, chan, got, gone, att>>
      BY <1>1 DEF HandleCreate, HandleRemove
    <2>3. \A b \in Alias \ {a} : tees'[b].tx = tees[b].tx
      BY <1>1, <2>1, Changing
    <2>4. CASE tees'[a].tx = NoSession
      BY <2>2, <2>3, <2>4, Dropping
    <2>5. CASE tees'[a].tx # NoSession
      <3>1. UNCHANGED tees
        BY <1>1, <2>1, <2>5 DEF HandleCreate, HandleRemove, NoTee, TypeOK
      <3> QED BY <2>2, <3>1, Quiet DEF Refused
    <2> QED BY <2>4, <2>5
  <1>2. CASE Release
    <2>1. PICK a \in Alias : a = router.alias
      BY <1>2, Releasing
    <2>2. UNCHANGED <<orch, reply, forwarder, chan, got, gone>>
      BY <1>2 DEF Release
    <2>3. /\ tees'[a].tx = NoSession /\ \A b \in Alias : b # a => tees'[b] = tees[b]
          /\ \A t \in Session : att'[t].run = att[t].run /\ att'[t].alias = att[t].alias
      BY <1>2, <2>1, Releasing
    <2> QED BY <2>2, <2>3, Dropping
  <1> QED BY <1>1, <1>2

(* The next chunk of a pipe has not been routed before. *)
LEMMA IsNew ==
    ASSUME TypeOK, Routed, NEW c \in Chunk, c.n = read[c.run][c.stream] + 1,
           NEW t \in Session
    PROVE  \A i \in DOMAIN Sent(t) : Sent(t)[i] # c
  <1>1. read[c.run][c.stream] \in Nat
    <2>1. c.run \in Run /\ c.stream \in Stream
      BY DEF Chunk
    <2> QED BY <2>1, RouterAssumption DEF TypeOK
  <1>2. \A i \in DOMAIN got[t] : got[t][i] # c
    BY <1>1 DEF Routed
  <1>3. \A i \in DOMAIN chan[t] : chan[t][i] # c
    BY <1>1 DEF Routed
  <1>4. PICK g \in Seq(Chunk), k \in Seq(Chunk) : g = got[t] /\ k = chan[t]
    BY DEF TypeOK
  <1>5. \A i \in DOMAIN (g \o k) :
           \/ i \in DOMAIN g /\ (g \o k)[i] = g[i]
           \/ i - Len(g) \in DOMAIN k /\ (g \o k)[i] = k[i - Len(g)]
    BY ConcatProperties
  <1>6. \A i \in DOMAIN (g \o k) : (g \o k)[i] # c
    BY <1>2, <1>3, <1>4, <1>5
  <1> QED BY <1>2, <1>4, <1>6 DEF Sent

LEMMA ReadStep ==
    ASSUME RouterInv, DrainRead \/ Poll
    PROVE  Attachments!Next \/ UNCHANGED Attachments!vars
  <1> USE DEF RouterInv
  <1>1. UNCHANGED <<orch, reply, tees, forwarder, got, gone, att>>
    BY Reading
  <1>2. SamePhases({}) /\ SameHolders
    BY <1>1 DEF SamePhases, SameHolders, Phase, Refused, Attached
  <1>3. CASE UNCHANGED chan
    BY <1>1, <1>3, Quiet DEF Refused
  <1>4. CASE ~UNCHANGED chan
    <2> DEFINE c == [run |-> tees[router.alias].run, stream |-> router.stream,
                     n |-> read[tees[router.alias].run][router.stream] + 1]
    <2>1. /\ tees[router.alias].tx \in Session /\ router.alias \in Alias /\ c \in Chunk
          /\ chan'[tees[router.alias].tx] = Append(chan[tees[router.alias].tx], c)
          /\ \A t \in Session : t # tees[router.alias].tx => chan'[t] = chan[t]
      BY <1>4, Reading, SMTT(30)
    <2>2. PICK a \in Alias, s \in Session, d \in Chunk :
              a = router.alias /\ s = tees[a].tx /\ d = c
      BY <2>1
    <2>3. d.n = read[d.run][d.stream] + 1
      BY <2>2
    <2>4. \A t \in Session : \A i \in DOMAIN Sent(t) : Sent(t)[i] # d
      BY <2>3, IsNew, SMTT(30)
    <2>5. chan'[s] = Append(chan[s], d) /\ \A t \in Session : t # s => chan'[t] = chan[t]
      BY <2>1, <2>2
    <2>6. SameSent({s})
      BY <1>1, <2>5 DEF SameSent, Sent
    <2>7. CASE s \in gone
      <3>1. SameSent({})
        BY <1>1, <2>6, <2>7 DEF SameSent, Sent
      <3> QED BY <1>1, <1>2, <3>1, Stutters
    <2>8. CASE s \notin gone
      <3>1. Phase(s) = "attached"
        BY <2>2, <2>8, Holding
      <3>2. PICK g \in Seq(Chunk), k \in Seq(Chunk) : g = got[s] /\ k = chan[s]
        BY DEF TypeOK
      <3>3. g \o Append(k, d) = Append(g \o k, d)
        BY ChunkBehind
      <3>4. Sent(s)' = Append(Sent(s), d)
        BY <1>1, <2>5, <2>8, <3>2, <3>3 DEF Sent
      <3> QED BY <1>1, <1>2, <2>4, <2>6, <3>1, <3>4, Routes
    <2> QED BY <2>7, <2>8
  <1> QED BY <1>3, <1>4

(* The steps of one session's threads leave the other sessions alone. *)
LEMMA OfOneSession ==
    ASSUME TypeOK, NEW s \in Session, Forwarder(s) \/ Disconnect(s)
    PROVE  /\ UNCHANGED <<orch, reply, tees, att>> /\ SameHolders
           /\ SamePhases({s}) /\ SameSent({s})
  <1>1. /\ UNCHANGED <<orch, reply, tees, att>>
        /\ \A t \in Session : t # s =>
              /\ forwarder'[t] = forwarder[t] /\ (t \in gone' <=> t \in gone)
              /\ got'[t] = got[t] /\ chan'[t] = chan[t]
    BY DEF Forwarder, ForwardData, ForwardFails, EndOfStream, StopOwn, Disconnect, TypeOK
  <1>2. SamePhases({s})
    BY <1>1 DEF SamePhases, Phase, Refused, Attached
  <1>3. SameSent({s}) /\ SameHolders
    BY <1>1 DEF SameSent, Sent, SameHolders
  <1> QED BY <1>1, <1>2, <1>3

LEMMA SessionStep ==
    ASSUME RouterInv, NEW s \in Session, Forwarder(s) \/ Disconnect(s)
    PROVE  Attachments!Next \/ UNCHANGED Attachments!vars
  <1> USE DEF RouterInv
  <1>1. /\ UNCHANGED <<orch, reply, tees, att>> /\ SameHolders
        /\ SamePhases({s}) /\ SameSent({s})
    BY OfOneSession
  <1>2. /\ forwarder[s] \in {"running", "ending"}
        /\ got[s] \in Seq(Chunk) /\ chan[s] \in Seq(Chunk) /\ Stage(s)
    BY DEF Forwarder, ForwardData, ForwardFails, EndOfStream, StopOwn, Disconnect, TypeOK, Sessions
  <1>3. /\ Attached(s) /\ ~Refused(s) /\ att[s].alias \in Alias
        /\ Phase(s) = IF s \in gone THEN "broken"
                      ELSE IF tees[att[s].alias].tx = s THEN "attached"
                      ELSE IF forwarder[s] = "running" THEN "released" ELSE "ended"
    BY <1>2, Running
  <1>4. ~Refused(s)'
    <2>1. forwarder'[s] # "refused"
      BY DEF Forwarder, ForwardData, ForwardFails, EndOfStream, StopOwn, Disconnect, TypeOK
    <2> QED BY <1>1, <1>3, <2>1 DEF Refused
  <1>5. Attached(s)' /\ att'[s].alias = att[s].alias
    BY <1>1, <1>3 DEF Attached
  <1>6. Phase(s)' = Phase(s) => SamePhases({})
    BY <1>1 DEF SamePhases
  <1>7. Sent(s)' = Sent(s) => SameSent({})
    BY <1>1 DEF SameSent
  <1>8. CASE ForwardData(s)
    <2>1. /\ forwarder[s] = "running" /\ s \notin gone /\ chan[s] # <<>> /\ UNCHANGED <<forwarder, gone>>
          /\ got' = [got EXCEPT ![s] = Append(got[s], Head(chan[s]))]
          /\ chan'[s] = Tail(chan[s]) /\ got'[s] = Append(got[s], Head(chan[s]))
      BY <1>8 DEF ForwardData, TypeOK
    <2>2. Phase(s)' = Phase(s) /\ Phase(s) \in {"attached", "released"}
      BY <1>1, <1>3, <1>4, <1>5, <2>1 DEF Phase
    <2>3. Sent(s) = got[s] \o chan[s] /\ Sent(s)' = got'[s] \o chan'[s]
      BY <2>1 DEF Sent
    <2>4. Sent(s)' = Sent(s)
      BY <1>2, <2>1, <2>3, HeadMoves
    <2>5. PICK g \in Seq(Chunk), k \in Seq(Chunk) : g = got[s] /\ k = chan[s] /\ k # <<>>
      BY <1>2, <2>1
    <2>6. Len(g) < Len(g \o k) /\ (g \o k)[Len(g) + 1] = Head(k)
      <3>1. Len(k) \in Nat \ {0} /\ Head(k) = k[1] /\ Len(g) \in Nat
        BY <2>5, HeadTailProperties, EmptySeq
      <3>2. Len(g \o k) = Len(g) + Len(k) /\ Len(g) + 1 \in 1 .. Len(g \o k)
        BY <3>1, ConcatProperties
      <3>3. (g \o k)[Len(g) + 1] = k[Len(g) + 1 - Len(g)]
        BY <3>1, <3>2, ConcatProperties
      <3> QED BY <3>1, <3>2, <3>3
    <2>7. Len(got[s]) < Len(Sent(s)) /\ Sent(s)[Len(got[s]) + 1] = Head(chan[s])
      BY <2>3, <2>5, <2>6
    <2>8. got' = [got EXCEPT ![s] = Append(@, Sent(s)[Len(@) + 1])]
      BY <2>1, <2>7
    <2> QED BY <1>1, <1>6, <1>7, <2>2, <2>4, <2>7, <2>8, Delivers
  <1>9. CASE ForwardFails(s) \/ StopOwn(s)
    <2>1. /\ UNCHANGED <<gone, got>> /\ forwarder'[s] \in {"ending", "done"}
          /\ s \notin gone => forwarder[s] = "ending" /\ chan'[s] = <<>>
      BY <1>9 DEF ForwardFails, StopOwn, TypeOK
    <2>2. s \notin gone => chan[s] = <<>> /\ tees[att[s].alias].tx # s
      BY <1>2, <2>1 DEF Stage
    <2>3. Phase(s)' = Phase(s)
      BY <1>1, <1>3, <1>4, <1>5, <2>1, <2>2 DEF Phase
    <2>4. Sent(s)' = Sent(s)
      BY <2>1, <2>2 DEF Sent
    <2> QED BY <1>1, <1>6, <1>7, <2>1, <2>3, <2>4, Stutters
  <1>10. CASE EndOfStream(s)
    <2>1. /\ forwarder[s] = "running" /\ forwarder'[s] = "ending" /\ UNCHANGED <<gone, got, chan>>
          /\ chan[s] = <<>> /\ tees[att[s].alias].tx # s
      BY <1>3, <1>10 DEF EndOfStream, TypeOK
    <2>2. Sent(s)' = Sent(s)
      BY <2>1 DEF Sent
    <2>3. CASE s \in gone
      <3>1. Phase(s)' = Phase(s)
        BY <1>1, <1>3, <1>4, <1>5, <2>1, <2>3 DEF Phase
      <3> QED BY <1>1, <1>6, <1>7, <2>1, <2>2, <3>1, Stutters
    <2>4. CASE s \notin gone
      <3>1. Phase(s) = "released" /\ Phase(s)' = "ended"
        BY <1>1, <1>3, <1>4, <1>5, <2>1, <2>4 DEF Phase
      <3>2. got[s] = Sent(s)
        <4>1. \A g \in Seq(Chunk) : g \o <<>> = g
          BY ConcatEmptySeq
        <4> QED BY <1>2, <2>1, <4>1 DEF Sent
      <3> QED BY <1>1, <1>7, <2>1, <2>2, <3>1, <3>2, Ends
    <2> QED BY <2>3, <2>4
  <1>11. CASE Disconnect(s)
    <2>1. /\ forwarder[s] = "running" /\ s \notin gone /\ s \in gone'
          /\ UNCHANGED <<forwarder, got, chan>>
      BY <1>11 DEF Disconnect
    <2>2. Phase(s) \in {"attached", "released"} /\ Phase(s)' = "broken"
      BY <1>1, <1>3, <1>4, <1>5, <2>1 DEF Phase
    <2>3. Sent(s)' = got[s]
      BY <2>1 DEF Sent
    <2> QED BY <1>1, <2>1, <2>2, <2>3, Breaks
  <1> QED BY <1>8, <1>9, <1>10, <1>11 DEF Forwarder

-----------------------------------------------------------------------------
LEMMA AttachmentInit == Init => Attachments!Init
  <1> SUFFICES ASSUME Init
               PROVE  Attachments!Init
    OBVIOUS
  <1>1. \A s \in Session : Phase(s) = "new" /\ got[s] = <<>> /\ chan[s] = <<>> /\ s \notin gone
    BY DEF Init, Phase
  <1>2. \A a \in Alias : tees[a].tx = NoSession
    BY DEF Init, NoTee
  <1>3. got = [s \in Session |-> <<>>]
    BY DEF Init
  <1>4. <<>> \o <<>> = <<>>
    OBVIOUS
  <1> QED BY <1>1, <1>2, <1>3, <1>4 DEF Attachments!Init

LEMMA AttachmentStep ==
    RouterInv /\ [Next]_vars => [Attachments!Next]_Attachments!vars
  <1> SUFFICES ASSUME RouterInv, [Next]_vars
               PROVE  Attachments!Next \/ UNCHANGED Attachments!vars
    OBVIOUS
  <1>1. CASE \E s \in Session, a \in Alias : Attach(s, a)
    BY <1>1, AttachStep
  <1>2. CASE AttachReturns
    BY <1>2, AttachReturnsStep
  <1>3. CASE HandleStartForwarding
    BY <1>3, GrantStep
  <1>4. CASE HandleCreate \/ HandleRemove \/ Release
    BY <1>4, DropStep
  <1>5. CASE DrainRead \/ Poll
    BY <1>5, ReadStep
  <1>6. CASE \E s \in Session : Forwarder(s) \/ Disconnect(s)
    BY <1>6, SessionStep
  <1>7. CASE \/ UNCHANGED vars
             \/ \E r \in Run : Exit(r) \/ \E st \in Stream : Write(r, st)
             \/ \E a \in Alias : StartJob(a) \/ FinishJob(a) \/ Detach(a) \/ Status(a)
             \/ RemoveJob \/ StatusReturns
             \/ HandleReadBuff \/ HandleStopForwarding \/ DrainStderr \/ BeginPoll
    BY <1>7, QuietSteps
  <1> QED
    BY <1>1, <1>2, <1>3, <1>4, <1>5, <1>6, <1>7 DEF Next, Orchestrator, Router

(* The router and the forwarder threads implement Attachment: one client at *)
(* a time holds a job, a chunk is routed once and to one client, and "End   *)
(* Of Stream" is told only to a client that has got all of it or whose      *)
(* connection has failed (jobs.rs:369).                                     *)
THEOREM RouterImplementsAttachment == Spec => ImplementsAttachment
  BY AttachmentInit, AttachmentStep, RouterInvariant, PTL
  DEF Spec, ImplementsAttachment, Attachments!Spec
=============================================================================
