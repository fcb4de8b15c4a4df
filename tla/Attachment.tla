----------------------------- MODULE Attachment -----------------------------
(***************************************************************************)
(* What attach and detach promise.  At most one session holds a job; what  *)
(* the job writes while it is held reaches that session and no other, in   *)
(* order; and a session is told that its stream has ended only when all of *)
(* it has arrived.  A session whose connection fails may lose the rest.    *)
(***************************************************************************)
EXTENDS Naturals, Sequences, Functions

CONSTANTS Alias, Session, NoSession, Chunk

VARIABLES
    holder,     \* the session that holds a job
    phase,      \* of a session
    sent,       \* the chunks routed to a session
    got         \* those that have arrived

vars == <<holder, phase, sent, got>>

Init ==
    /\ holder = [a \in Alias |-> NoSession]
    /\ phase = [s \in Session |-> "new"]
    /\ sent = [s \in Session |-> <<>>]
    /\ got = [s \in Session |-> <<>>]

Move(s, from, to) ==
    /\ phase[s] = from
    /\ phase' = [phase EXCEPT ![s] = to]

Ask(s) ==
    /\ Move(s, "new", "asking")
    /\ UNCHANGED <<holder, sent, got>>

(* A session gets a job that nobody holds. *)
Grant(s, a) ==
    /\ Move(s, "asking", "attached")
    /\ holder[a] = NoSession
    /\ holder' = [holder EXCEPT ![a] = s]
    /\ UNCHANGED <<sent, got>>

Refuse(s) ==
    /\ Move(s, "asking", "refused")
    /\ UNCHANGED <<holder, sent, got>>

(* A chunk is routed once, and to one session. *)
Route(s, c) ==
    /\ phase[s] = "attached"
    /\ \A t \in Session : c \notin Range(sent[t])
    /\ sent' = [sent EXCEPT ![s] = Append(@, c)]
    /\ UNCHANGED <<holder, phase, got>>

Deliver(s) ==
    /\ phase[s] \in {"attached", "released"}
    /\ Len(got[s]) < Len(sent[s])
    /\ got' = [got EXCEPT ![s] = Append(@, sent[s][Len(@) + 1])]
    /\ UNCHANGED <<holder, phase, sent>>

Release(s, a) ==
    /\ holder[a] = s
    /\ holder' = [holder EXCEPT ![a] = NoSession]
    /\ Move(s, "attached", "released")
    /\ UNCHANGED <<sent, got>>

End(s) ==
    /\ Move(s, "released", "ended")
    /\ got[s] = sent[s]
    /\ UNCHANGED <<holder, sent, got>>

(* The connection fails; a job it holds is released later. *)
Break(s) ==
    /\ phase[s] \in {"attached", "released"}
    /\ phase' = [phase EXCEPT ![s] = "broken"]
    /\ sent' = [sent EXCEPT ![s] = got[s]]
    /\ UNCHANGED <<holder, got>>

ReleaseBroken(s, a) ==
    /\ phase[s] = "broken"
    /\ holder[a] = s
    /\ holder' = [holder EXCEPT ![a] = NoSession]
    /\ UNCHANGED <<phase, sent, got>>

Next == \E s \in Session :
    \/ Ask(s) \/ Refuse(s) \/ Deliver(s) \/ End(s) \/ Break(s)
    \/ \E a \in Alias : Grant(s, a) \/ Release(s, a) \/ ReleaseBroken(s, a)
    \/ \E c \in Chunk : Route(s, c)

Spec == Init /\ [][Next]_vars
=============================================================================
