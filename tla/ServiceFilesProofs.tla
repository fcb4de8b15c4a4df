-------------------------- MODULE ServiceFilesProofs ------------------------
(***************************************************************************)
(* Proofs about the service files: what load_services makes of a directory *)
(* of any size, and that the table of the server keeps up with it.         *)
(*                                                                         *)
(* LoadServices and FlattenSeq are recursive functions, so the proofs are  *)
(* by induction on the number of entries and of files.                     *)
(***************************************************************************)
EXTENDS ServiceFiles, FiniteSetTheorems, SequenceTheorems, TLAPS

-----------------------------------------------------------------------------
(* Induction. The library states it with an operator as a parameter, which  *)
(* no backend here can instantiate. Stated of sets it follows from the fact *)
(* that strict inclusion of finite sets is well-founded: of the intervals 0 *)
(* .. n, n in T, one is minimal.                                            *)
LEMMA LeastElement ==
    ASSUME NEW T \in SUBSET Nat, T # {}
    PROVE  \E m \in T : \A n \in T : m <= n
<1> DEFINE Below == {0 .. n : n \in T}
           R == StrictSubsetOrdering(Nat)
<1>1. IsWellFoundedOn(R, FiniteSubsetsOf(Nat))
  BY FS_StrictSubsetOrderingWellFounded
<1>2. Below \subseteq FiniteSubsetsOf(Nat) /\ Below # {}
  <2>1. \A n \in T : IsFiniteSet(0 .. n) /\ 0 .. n \in SUBSET Nat
    BY FS_Interval
  <2> QED BY <2>1 DEF FiniteSubsetsOf
<1>3. PICK B \in Below : \A C \in Below : ~ (<<C, B>> \in R)
  <2> HIDE DEF Below, R
  <2> QED BY <1>1, <1>2, WFMin
<1>4. PICK m \in T : B = 0 .. m
  OBVIOUS
<1>5. ASSUME NEW n \in T, n < m PROVE FALSE
  <2>1. 0 .. n \subseteq 0 .. m /\ 0 .. n \in Below
    BY <1>5
  <2>2. m \in 0 .. m /\ m \notin 0 .. n
    BY <1>5
  <2>3. <<0 .. n, 0 .. m>> \in R
    BY <2>1, <2>2, <1>2 DEF StrictSubsetOrdering, FiniteSubsetsOf
  <2> QED BY <2>1, <2>3, <1>3, <1>4
<1> QED BY <1>5

(* A set with 0 that is closed under successor contains the naturals.       *)
LEMMA Induction ==
    ASSUME NEW S, 0 \in S, \A n \in Nat : n \in S => n + 1 \in S
    PROVE  \A n \in Nat : n \in S
<1> SUFFICES ASSUME Nat \ S # {} PROVE FALSE
  OBVIOUS
<1>1. PICK m \in Nat \ S : \A n \in Nat \ S : m <= n
  BY LeastElement
<1>2. m # 0 /\ m - 1 \in Nat /\ m - 1 \in S
  BY <1>1
<1> QED BY <1>1, <1>2

-----------------------------------------------------------------------------
(* load_services: the state of the loop before the first entry, and the     *)
(* loop over the first k entries as a function of the entries handled.      *)
Start == [ok |-> TRUE, table |-> NoTable]

IsLoad(load, entries, k) ==
    load = [n \in 0 .. k |->
                IF n = 0 THEN Start ELSE InsertService(load[n - 1], entries[n])]

(* The loop has a result for every number of entries.                       *)
LEMMA LoadExists ==
    ASSUME NEW entries
    PROVE  \A k \in Nat : \E load : IsLoad(load, entries, k)
<1> DEFINE S == {k \in Nat : \E load : IsLoad(load, entries, k)}
<1>1. 0 \in S
  <2> DEFINE first == [n \in 0 .. 0 |-> Start]
  <2>1. IsLoad(first, entries, 0)
    BY DEF IsLoad
  <2> QED BY <2>1
<1>2. ASSUME NEW k \in Nat, k \in S PROVE k + 1 \in S
  <2>1. PICK load : IsLoad(load, entries, k)
    BY <1>2
  <2> DEFINE more == [n \in 0 .. k + 1 |->
                         IF n <= k THEN load[n]
                                   ELSE InsertService(load[k], entries[k + 1])]
  <2>2. \A n \in 0 .. k : load[n] = IF n = 0 THEN Start
                                    ELSE InsertService(load[n - 1], entries[n])
    BY <2>1 DEF IsLoad
  <2>3. \A n \in 0 .. k + 1 :
            more[n] = IF n = 0 THEN Start
                      ELSE InsertService(more[n - 1], entries[n])
    <3> TAKE n \in 0 .. k + 1
    <3>1. CASE n = k + 1
      <4>1. more[n - 1] = load[k] /\ more[n] = InsertService(load[k], entries[k + 1])
        BY <3>1
      <4> QED BY <3>1, <4>1
    <3>2. CASE n \in 0 .. k
      <4>1. more[n] = load[n] /\ (n # 0 => more[n - 1] = load[n - 1])
        BY <3>2
      <4> QED BY <3>2, <4>1, <2>2
    <3> QED BY <3>1, <3>2
  <2>4. IsLoad(more, entries, k + 1)
    <3> DEFINE again == [n \in 0 .. k + 1 |->
                    IF n = 0 THEN Start ELSE InsertService(more[n - 1], entries[n])]
    <3>1. \A n \in 0 .. k + 1 : more[n] = again[n]
      BY <2>3
    <3>2. more = again
      <4>1. DOMAIN more = 0 .. k + 1 /\ DOMAIN again = 0 .. k + 1
        OBVIOUS
      <4> HIDE <2>3
      <4>2. more = [n \in 0 .. k + 1 |-> more[n]] /\ again = [n \in 0 .. k + 1 |-> again[n]]
        OBVIOUS
      <4> HIDE DEF more, again
      <4> QED BY <4>2, <3>1
    <3> QED BY <3>2 DEF IsLoad
  <2> QED BY <2>4
<1> HIDE DEF S
<1>3. \A k \in Nat : k \in S
  BY <1>1, <1>2, Induction
<1> QED BY <1>3 DEF S

(* LoadServices is that result: each entry is inserted into what has been   *)
(* made of the entries before it.                                           *)
LEMMA LoadIsFold ==
    ASSUME NEW entries, Len(entries) \in Nat
    PROVE  \E load : /\ IsLoad(load, entries, Len(entries))
                     /\ LoadServices(entries) = load[Len(entries)]
<1> DEFINE L == CHOOSE load : IsLoad(load, entries, Len(entries))
<1>1. IsLoad(L, entries, Len(entries))
  BY LoadExists
<1>2. LoadServices(entries) = L[Len(entries)]
  BY DEF LoadServices, IsLoad, Start
<1> QED BY <1>1, <1>2

-----------------------------------------------------------------------------
Entry == [alias : Alias, service : Service]

(* No two of the first k entries define one name.                           *)
Unique(entries, k) ==
    \A i, j \in 1 .. k : entries[i].alias = entries[j].alias => i = j

(* What has been made of the first k entries. *)
Loaded(acc, entries, k) ==
    /\ acc \in [ok : BOOLEAN, table : Table]
    /\ acc.ok <=> Unique(entries, k)
    /\ acc.ok => /\ \A i \in 1 .. k :
                        acc.table[entries[i].alias] = entries[i].service
                 /\ \A a \in Alias :
                        (\A i \in 1 .. k : entries[i].alias # a)
                            => acc.table[a] = NoService

(* One turn of the loop: an entry of a new name is added to the table, one  *)
(* of a name that is taken makes the load fail for good.                    *)
LEMMA InsertKeepsLoaded ==
    ASSUME NEW entries \in Seq(Entry), NEW k \in Nat, k + 1 <= Len(entries),
           NEW acc, Loaded(acc, entries, k)
    PROVE  Loaded(InsertService(acc, entries[k + 1]), entries, k + 1)
<1> DEFINE e == entries[k + 1]
           after == InsertService(acc, e)
<1>1. /\ acc \in [ok : BOOLEAN, table : Table]
      /\ acc.ok <=> Unique(entries, k)
  BY DEF Loaded
<1>2. \A i \in 1 .. k + 1 : /\ entries[i].alias \in Alias
                            /\ entries[i].service \in Service
                            /\ entries[i].service # NoService
  <2>1. \A i \in 1 .. k + 1 : entries[i] \in Entry
    OBVIOUS
  <2> QED BY <2>1, NoServiceAssumption DEF Entry
<1>3. ASSUME acc.ok
      PROVE  acc.table[e.alias] = NoService
                <=> \A i \in 1 .. k : entries[i].alias # e.alias
  BY <1>2, <1>3 DEF Loaded
<1>4. Unique(entries, k + 1) <=>
          Unique(entries, k) /\ \A i \in 1 .. k : entries[i].alias # e.alias
  <2>1. \A i \in 1 .. k + 1 : i \in 1 .. k \/ i = k + 1
    OBVIOUS
  <2>2. k + 1 \in 1 .. k + 1 /\ k + 1 \notin 1 .. k /\ 1 .. k \subseteq 1 .. k + 1
    OBVIOUS
  <2> QED BY <2>1, <2>2 DEF Unique
<1>5. CASE acc.ok /\ acc.table[e.alias] = NoService
  <2>1. after = [acc EXCEPT !.table[e.alias] = e.service]
    BY <1>5 DEF InsertService
  <2>2. /\ after \in [ok : BOOLEAN, table : Table]
        /\ after.ok = acc.ok
        /\ after.table = [acc.table EXCEPT ![e.alias] = e.service]
    BY <1>1, <1>2, <2>1 DEF Table
  <2>3. after.ok <=> Unique(entries, k + 1)
    BY <1>1, <1>3, <1>4, <1>5, <2>2
  <2>4. ASSUME NEW i \in 1 .. k + 1
        PROVE  after.table[entries[i].alias] = entries[i].service
    <3>1. CASE i = k + 1
      BY <1>1, <1>2, <2>2, <3>1 DEF Table
    <3>2. CASE i \in 1 .. k
      <4>1. entries[i].alias # e.alias
        BY <1>3, <1>5, <3>2
      <4>2. acc.table[entries[i].alias] = entries[i].service
        BY <1>5, <3>2 DEF Loaded
      <4> QED BY <1>1, <1>2, <2>2, <4>1, <4>2 DEF Table
    <3> QED BY <3>1, <3>2
  <2>5. ASSUME NEW a \in Alias, \A i \in 1 .. k + 1 : entries[i].alias # a
        PROVE  after.table[a] = NoService
    <3>1. a # e.alias /\ \A i \in 1 .. k : entries[i].alias # a
      BY <2>5
    <3>2. acc.table[a] = NoService
      BY <1>5, <3>1 DEF Loaded
    <3> QED BY <1>1, <2>2, <3>1, <3>2 DEF Table
  <2> QED BY <2>2, <2>3, <2>4, <2>5 DEF Loaded
<1>6. CASE ~ (acc.ok /\ acc.table[e.alias] = NoService)
  <2>1. after = [acc EXCEPT !.ok = FALSE]
    BY <1>6 DEF InsertService
  <2>2. after \in [ok : BOOLEAN, table : Table] /\ after.ok = FALSE
    BY <1>1, <2>1
  <2>3. ~ Unique(entries, k + 1)
    BY <1>1, <1>3, <1>4, <1>6
  <2> QED BY <2>2, <2>3 DEF Loaded
<1> QED BY <1>5, <1>6

(* The loop's result over all the entries, in whatever order they come.     *)
LEMMA LoadServicesLoads ==
    ASSUME NEW entries \in Seq(Entry)
    PROVE  Loaded(LoadServices(entries), entries, Len(entries))
<1>1. PICK load : /\ IsLoad(load, entries, Len(entries))
                  /\ LoadServices(entries) = load[Len(entries)]
  BY LoadIsFold
<1> DEFINE N == Len(entries)
           S == {k \in Nat : k <= N => Loaded(load[k], entries, k)}
<1>2. \A n \in 0 .. N : load[n] = IF n = 0 THEN Start
                                  ELSE InsertService(load[n - 1], entries[n])
  BY <1>1 DEF IsLoad
<1>3. 0 \in S
  <2>1. load[0] = Start
    BY <1>2
  <2>2. Start.table = NoTable /\ Start.ok = TRUE /\ NoTable \in Table
    BY DEF Start, NoTable, Table
  <2>3. Start \in [ok : BOOLEAN, table : Table]
    BY <2>2 DEF Start
  <2>4. \A a \in Alias : Start.table[a] = NoService
    BY <2>2 DEF NoTable
  <2>5. Loaded(Start, entries, 0)
    BY <2>2, <2>3, <2>4 DEF Loaded, Unique
  <2> QED BY <2>1, <2>5
<1>4. ASSUME NEW k \in Nat, k \in S PROVE k + 1 \in S
  <2> SUFFICES ASSUME k + 1 <= N PROVE Loaded(load[k + 1], entries, k + 1)
    OBVIOUS
  <2>1. Loaded(load[k], entries, k)
    BY <1>4
  <2>2. load[k + 1] = InsertService(load[k], entries[k + 1])
    BY <1>2
  <2> QED BY <2>1, <2>2, InsertKeepsLoaded
<1>5. \A k \in Nat : k \in S
  <2> HIDE DEF S
  <2> QED BY <1>3, <1>4, Induction
<1> QED BY <1>1, <1>5

-----------------------------------------------------------------------------
(* The entries of the files, one after the other: flat is FlattenSeq's      *)
(* function over the first k files.                                         *)
IsFlat(flat, seqs, k) ==
    flat = [i \in 1 .. k |-> IF i = 1 THEN seqs[i] ELSE flat[i - 1] \o seqs[i]]

(* Such a function exists for every number of files.                        *)
LEMMA FlatExists ==
    ASSUME NEW seqs
    PROVE  \A k \in Nat : \E flat : IsFlat(flat, seqs, k)
<1> DEFINE S == {k \in Nat : \E flat : IsFlat(flat, seqs, k)}
<1>1. 0 \in S
  <2> DEFINE none == [i \in 1 .. 0 |-> seqs]
  <2>1. IsFlat(none, seqs, 0)
    BY DEF IsFlat
  <2> QED BY <2>1
<1>2. ASSUME NEW k \in Nat, k \in S PROVE k + 1 \in S
  <2>1. PICK flat : IsFlat(flat, seqs, k)
    BY <1>2
  <2>2. \A i \in 1 .. k : flat[i] = IF i = 1 THEN seqs[i]
                                    ELSE flat[i - 1] \o seqs[i]
    BY <2>1 DEF IsFlat
  <2> DEFINE last == IF k = 0 THEN seqs[1] ELSE flat[k] \o seqs[k + 1]
             more == [i \in 1 .. k + 1 |-> IF i <= k THEN flat[i] ELSE last]
             again == [i \in 1 .. k + 1 |->
                           IF i = 1 THEN seqs[i] ELSE more[i - 1] \o seqs[i]]
  <2>3. ASSUME NEW i \in 1 .. k + 1 PROVE more[i] = again[i]
    <3>1. CASE i \in 1 .. k
      <4>1. more[i] = flat[i] /\ (i # 1 => more[i - 1] = flat[i - 1])
        BY <3>1
      <4> QED BY <3>1, <4>1, <2>2
    <3>2. CASE i = k + 1
      <4>1. more[i] = last /\ (i # 1 => more[i - 1] = flat[k])
        BY <3>2
      <4> QED BY <3>2, <4>1
    <3> QED BY <3>1, <3>2
  <2>4. more = again
    <3>1. /\ more = [i \in 1 .. k + 1 |-> more[i]]
          /\ again = [i \in 1 .. k + 1 |-> again[i]]
      OBVIOUS
    <3> HIDE DEF more, again
    <3> QED BY <2>3, <3>1
  <2>5. IsFlat(more, seqs, k + 1)
    BY <2>4 DEF IsFlat
  <2> QED BY <2>5
<1> HIDE DEF S
<1>3. \A k \in Nat : k \in S
  BY <1>1, <1>2, Induction
<1> QED BY <1>3 DEF S

(* FlattenSeq is its last value.                                            *)
LEMMA FlattenIsFold ==
    ASSUME NEW seqs, Len(seqs) \in Nat \ {0}
    PROVE  \E flat : /\ IsFlat(flat, seqs, Len(seqs))
                     /\ FlattenSeq(seqs) = flat[Len(seqs)]
<1> DEFINE L == CHOOSE flat : IsFlat(flat, seqs, Len(seqs))
<1>1. IsFlat(L, seqs, Len(seqs))
  BY FlatExists
<1>2. FlattenSeq(seqs) = L[Len(seqs)]
  BY DEF FlattenSeq, IsFlat
<1> QED BY <1>1, <1>2

(* The places of the elements of the first k sequences. *)
Places(seqs, k) ==
    {p \in (1 .. k) \X Nat : p[2] \in 1 .. Len(seqs[p[1]])}

(* s holds what the first k sequences hold, each element once: where says   *)
(* from which place an element comes.                                       *)
Gathers(s, seqs, k) ==
    \E where \in Bijection(1 .. Len(s), Places(seqs, k)) :
        \A x \in 1 .. Len(s) : s[x] = seqs[where[x][1]][where[x][2]]

(* Appending one more sequence gathers its elements too, once each.         *)
LEMMA GathersMore ==
    ASSUME NEW X, NEW seqs \in Seq(Seq(X)), NEW k \in Nat, k + 1 <= Len(seqs),
           NEW s \in Seq(X), Gathers(s, seqs, k)
    PROVE  Gathers(s \o seqs[k + 1], seqs, k + 1)
<1>1. PICK where \in Bijection(1 .. Len(s), Places(seqs, k)) :
          \A x \in 1 .. Len(s) : s[x] = seqs[where[x][1]][where[x][2]]
  BY DEF Gathers
<1> DEFINE t == seqs[k + 1]
           both == s \o t
           further == [x \in 1 .. Len(both) |->
                          IF x <= Len(s) THEN where[x] ELSE <<k + 1, x - Len(s)>>]
<1>2. t \in Seq(X) /\ Len(s) \in Nat /\ Len(t) \in Nat
  OBVIOUS
<1>3. /\ Len(both) = Len(s) + Len(t)
      /\ \A x \in 1 .. Len(s) : both[x] = s[x]
      /\ \A x \in 1 .. Len(both) : x > Len(s) => both[x] = t[x - Len(s)]
  BY <1>2
<1>4. /\ where \in [1 .. Len(s) -> Places(seqs, k)]
      /\ \A x, y \in 1 .. Len(s) : where[x] = where[y] => x = y
      /\ \A p \in Places(seqs, k) : \E x \in 1 .. Len(s) : where[x] = p
  BY <1>1 DEF Bijection, Injection, Surjection, IsInjective
<1>5. \A p : p \in Places(seqs, k + 1) <=>
                 \/ p \in Places(seqs, k)
                 \/ \E y \in 1 .. Len(t) : p = <<k + 1, y>>
  <2>1. ASSUME NEW p \in Places(seqs, k + 1), p \notin Places(seqs, k)
        PROVE  \E y \in 1 .. Len(t) : p = <<k + 1, y>>
    <3>1. p = <<p[1], p[2]>> /\ p[1] \in 1 .. k + 1 /\ p[2] \in 1 .. Len(seqs[p[1]])
      BY <2>1 DEF Places
    <3>2. p[1] = k + 1
      BY <2>1, <3>1 DEF Places
    <3> QED BY <3>1, <3>2
  <2>2. \A p \in Places(seqs, k) : p \in Places(seqs, k + 1)
    BY DEF Places
  <2>3. \A y \in 1 .. Len(t) : <<k + 1, y>> \in Places(seqs, k + 1)
    BY <1>2 DEF Places
  <2> QED BY <2>1, <2>2, <2>3
<1>6. further \in [1 .. Len(both) -> Places(seqs, k + 1)]
  BY <1>2, <1>3, <1>4, <1>5
<1>7. \A x \in 1 .. Len(s) : further[x] = where[x] /\ further[x][1] # k + 1
  <2> TAKE x \in 1 .. Len(s)
  <2>1. x \in 1 .. Len(both) /\ x <= Len(s)
    BY <1>2, <1>3
  <2>2. further[x] = where[x]
    BY <2>1
  <2>3. where[x] \in Places(seqs, k)
    BY <1>4
  <2>4. where[x][1] # k + 1
    BY <2>3 DEF Places
  <2> QED BY <2>2, <2>4
<1>8. \A x \in 1 .. Len(both) : x > Len(s) => further[x] = <<k + 1, x - Len(s)>>
  BY <1>2, <1>3
<1> HIDE DEF further, both
<1>9. ASSUME NEW x \in 1 .. Len(both), NEW y \in 1 .. Len(both),
             further[x] = further[y]
      PROVE  x = y
  <2>1. CASE x <= Len(s) /\ y <= Len(s)
    BY <1>2, <1>4, <1>7, <1>9, <2>1
  <2>2. CASE x > Len(s) /\ y > Len(s)
    <3>1. x - Len(s) = y - Len(s)
      BY <1>8, <1>9, <2>2
    <3> QED BY <3>1, <1>2, <1>3
  <2>3. CASE x > Len(s) /\ y <= Len(s)
    <3>1. further[x][1] = k + 1 /\ further[y][1] # k + 1
      BY <1>2, <1>7, <1>8, <2>3
    <3> QED BY <1>9, <3>1
  <2>4. CASE x <= Len(s) /\ y > Len(s)
    <3>1. further[y][1] = k + 1 /\ further[x][1] # k + 1
      BY <1>2, <1>7, <1>8, <2>4
    <3> QED BY <1>9, <3>1
  <2> QED BY <1>2, <1>3, <2>1, <2>2, <2>3, <2>4
<1>10. ASSUME NEW p \in Places(seqs, k + 1)
       PROVE  \E x \in 1 .. Len(both) : further[x] = p
  <2>1. CASE p \in Places(seqs, k)
    <3>1. PICK x \in 1 .. Len(s) : where[x] = p
      BY <1>4, <2>1
    <3> QED BY <3>1, <1>2, <1>3, <1>7
  <2>2. CASE \E y \in 1 .. Len(t) : p = <<k + 1, y>>
    <3>1. PICK y \in 1 .. Len(t) : p = <<k + 1, y>>
      BY <2>2
    <3>2. Len(s) + y \in 1 .. Len(both) /\ Len(s) + y > Len(s)
          /\ Len(s) + y - Len(s) = y
      BY <1>2, <1>3
    <3> QED BY <3>1, <3>2, <1>8
  <2> QED BY <1>5, <2>1, <2>2
<1>11. ASSUME NEW x \in 1 .. Len(both)
       PROVE  both[x] = seqs[further[x][1]][further[x][2]]
  <2>1. CASE x <= Len(s)
    <3>1. x \in 1 .. Len(s)
      BY <1>2, <1>3, <2>1
    <3>2. both[x] = s[x] /\ further[x] = where[x]
      BY <3>1, <1>3, <1>7
    <3> QED BY <3>1, <3>2, <1>1
  <2>2. CASE x > Len(s)
    BY <1>3, <1>8, <2>2
  <2> QED BY <1>2, <1>3, <2>1, <2>2
<1>12. further \in Bijection(1 .. Len(both), Places(seqs, k + 1))
  BY <1>6, <1>9, <1>10 DEF Bijection, Injection, Surjection, IsInjective
<1>13. Gathers(both, seqs, k + 1)
  BY <1>11, <1>12 DEF Gathers
<1> QED BY <1>13 DEF both

-----------------------------------------------------------------------------
(* FlattenSeq loses no entry of a file and repeats none.                    *)
LEMMA FlattenGathers ==
    ASSUME NEW X, NEW seqs \in Seq(Seq(X))
    PROVE  FlattenSeq(seqs) \in Seq(X) /\ Gathers(FlattenSeq(seqs), seqs, Len(seqs))
<1> DEFINE N == Len(seqs)
<1>1. N \in Nat /\ \A k \in 1 .. N : seqs[k] \in Seq(X)
  OBVIOUS
<1>2. <<>> \in Seq(X) /\ Gathers(<<>>, seqs, 0)
  <2> DEFINE nowhere == [x \in 1 .. 0 |-> x]
  <2>1. Places(seqs, 0) = {} /\ 1 .. Len(<<>>) = {} /\ 1 .. 0 = {}
    BY DEF Places
  <2>2. nowhere \in Bijection(1 .. Len(<<>>), Places(seqs, 0))
    BY <2>1 DEF Bijection, Injection, Surjection, IsInjective
  <2> QED BY <2>1, <2>2 DEF Gathers
<1>3. CASE N = 0
  <2>1. FlattenSeq(seqs) = seqs /\ seqs = <<>>
    BY <1>3 DEF FlattenSeq
  <2> QED BY <1>2, <1>3, <2>1
<1>4. CASE N # 0
  <2>1. PICK flat : IsFlat(flat, seqs, N) /\ FlattenSeq(seqs) = flat[N]
    BY <1>1, <1>4, FlattenIsFold
  <2>2. \A k \in 1 .. N : flat[k] = IF k = 1 THEN seqs[k]
                                    ELSE flat[k - 1] \o seqs[k]
    BY <2>1 DEF IsFlat
  <2> DEFINE Good == {k \in Nat : flat[k] \in Seq(X) /\ Gathers(flat[k], seqs, k)}
             S == {k \in Nat : k + 1 <= N => k + 1 \in Good}
  <2>3. 0 \in S
    <3>1. flat[1] = seqs[1] /\ seqs[1] = <<>> \o seqs[1]
      BY <1>1, <1>4, <2>2
    <3> DEFINE none == <<>>
    <3>2. none \in Seq(X) /\ Gathers(none, seqs, 0) /\ seqs[1] = none \o seqs[1]
      BY <1>2, <3>1
    <3> HIDE DEF none
    <3>3. \A k \in Nat : k = 0 => Gathers(none \o seqs[k + 1], seqs, k + 1)
      BY <1>1, <1>4, <3>2, GathersMore
    <3>4. Gathers(none \o seqs[1], seqs, 1)
      BY <3>3
    <3>5. flat[1] \in Seq(X) /\ Gathers(flat[1], seqs, 1)
      <4>1. flat[1] \in Seq(X)
        BY <1>1, <1>4, <3>1
      <4>2. flat[1] = none \o seqs[1]
        BY <3>1, <3>2
      <4> QED BY ONLY <3>4, <4>1, <4>2, Zenon
    <3>6. 1 \in Good
      BY <3>5
    <3> HIDE DEF Good
    <3> QED BY <3>6
  <2>4. ASSUME NEW k \in Nat, k \in S PROVE k + 1 \in S
    <3> SUFFICES ASSUME k + 1 + 1 <= N PROVE k + 1 + 1 \in Good
      OBVIOUS
    <3>1. PICK m \in Nat : m = k + 1
      OBVIOUS
    <3>2. m \in Good /\ m + 1 <= N
      BY <2>4, <1>1, <3>1
    <3>3. \A n \in 1 .. N : n # 1 => flat[n] = flat[n - 1] \o seqs[n]
      BY <2>2
    <3>4. m + 1 \in 1 .. N /\ m + 1 # 1 /\ m + 1 - 1 = m
      BY <1>1, <3>1, <3>2
    <3>5. flat[m + 1] = flat[m] \o seqs[m + 1]
      <4>1. PICK p \in 1 .. N : p = m + 1 /\ p # 1 /\ p - 1 = m
        BY <3>4
      <4>2. flat[p] = flat[p - 1] \o seqs[p]
        BY ONLY <3>3, <4>1, Zenon
      <4> QED BY ONLY <4>1, <4>2, Zenon
    <3>6. Gathers(flat[m] \o seqs[m + 1], seqs, m + 1)
      BY <1>1, <3>2, GathersMore
    <3>7. flat[m + 1] \in Seq(X)
      BY <1>1, <3>2, <3>4, <3>5
    <3>8. Gathers(flat[m + 1], seqs, m + 1)
      BY ONLY <3>5, <3>6, Zenon
    <3> QED BY <3>1, <3>7, <3>8
  <2>5. \A k \in Nat : k \in S
    <3> HIDE DEF S
    <3> QED BY <2>3, <2>4, Induction
  <2>6. N - 1 \in S /\ N - 1 + 1 = N
    <3> HIDE DEF S
    <3> QED BY <1>1, <1>4, <2>5
  <2> QED BY <1>1, <2>1, <2>6
<1> QED BY <1>3, <1>4

-----------------------------------------------------------------------------
(* What a file says of a name: the service as it is written under its own   *)
(* name, a single process under a virtual name.                             *)
DefinitionOf(f, a) ==
    IF a = f.alias THEN f.service ELSE [f.service EXCEPT !.numprocs = 1]

(* generate_alias_names yields numprocs different names, and only the first *)
(* is the name written in the file.                                         *)
LEMMA NamesDiffer ==
    ASSUME NEW f \in File
    PROVE  /\ f.service.numprocs \in Nat
           /\ Names(f) \subseteq Alias
           /\ LET names == GenerateAliasNames(f.alias, f.service.numprocs)
              IN  /\ DOMAIN names = 1 .. f.service.numprocs
                  /\ Len(names) = f.service.numprocs
                  /\ \A n \in 1 .. f.service.numprocs :
                        (names[n] = f.alias <=> n = 1)
                  /\ \A i, j \in 1 .. f.service.numprocs :
                        names[i] = names[j] => i = j
<1> DEFINE N == f.service.numprocs
           X == Nat \cup {f.alias[i] : i \in 1 .. Len(f.alias)}
           names == GenerateAliasNames(f.alias, N)
<1>1. N \in Nat /\ f.service \in Service
  BY FilesAssumption DEF Service
<1>2. Names(f) \subseteq Alias
  BY FilesAssumption DEF Names
<1>3. f.alias \in Seq(X)
  <2>1. /\ Len(f.alias) \in Nat
        /\ f.alias = [i \in 1 .. Len(f.alias) |-> f.alias[i]]
    BY FilesAssumption
  <2>2. f.alias \in [1 .. Len(f.alias) -> X]
    BY <2>1
  <2> QED BY <2>1, <2>2, SeqDef
<1>4. names = [n \in 1 .. N |-> IF n = 1 THEN f.alias ELSE Append(f.alias, n - 1)]
  BY DEF GenerateAliasNames
<1>5. DOMAIN names = 1 .. N /\ Len(names) = N
  BY <1>1 DEF GenerateAliasNames
<1>6. \A n \in 1 .. N : n # 1 => /\ n - 1 \in X
                                 /\ names[n] = Append(f.alias, n - 1)
                                 /\ Len(names[n]) = Len(f.alias) + 1
                                 /\ names[n][Len(f.alias) + 1] = n - 1
  <2> SUFFICES ASSUME NEW n \in 1 .. N, n # 1
               PROVE  /\ n - 1 \in X
                      /\ names[n] = Append(f.alias, n - 1)
                      /\ Len(names[n]) = Len(f.alias) + 1
                      /\ names[n][Len(f.alias) + 1] = n - 1
    OBVIOUS
  <2>1. n - 1 \in X
    BY <1>1
  <2>2. names[n] = Append(f.alias, n - 1)
    BY <1>4
  <2> HIDE DEF X, names
  <2> QED BY <1>3, <2>1, <2>2, AppendProperties
<1>7. Len(f.alias) \in Nat
  BY FilesAssumption
<1>8. \A n \in 1 .. N : names[n] = f.alias <=> n = 1
  <2> TAKE n \in 1 .. N
  <2>1. CASE n = 1
    BY <1>4, <2>1
  <2>2. CASE n # 1
    BY <1>6, <1>7, <2>2
  <2> QED BY <2>1, <2>2
<1>9. ASSUME NEW i \in 1 .. N, NEW j \in 1 .. N, names[i] = names[j]
      PROVE  i = j
  <2>1. CASE i = 1 \/ j = 1
    BY <1>8, <1>9, <2>1
  <2>2. CASE i # 1 /\ j # 1
    <3>1. i - 1 = j - 1
      BY <1>6, <1>9, <2>2
    <3> QED BY <1>1, <3>1
  <2> QED BY <2>1, <2>2
<1> QED BY <1>1, <1>2, <1>5, <1>8, <1>9

(* A file contributes one entry for each of its names, with the file's      *)
(* definition of that name.                                                 *)
LEMMA EntriesOfFile ==
    ASSUME NEW f \in File
    PROVE  /\ FileEntries(f) \in Seq(Entry)
           /\ \A n \in 1 .. Len(FileEntries(f)) :
                LET e == FileEntries(f)[n]
                IN  e.alias \in Names(f) /\ e.service = DefinitionOf(f, e.alias)
           /\ \A a \in Names(f) :
                \E n \in 1 .. Len(FileEntries(f)) : FileEntries(f)[n].alias = a
           /\ \A i, j \in 1 .. Len(FileEntries(f)) :
                FileEntries(f)[i].alias = FileEntries(f)[j].alias => i = j
<1> DEFINE N == f.service.numprocs
           names == GenerateAliasNames(f.alias, N)
           E == [n \in 1 .. N |->
                   [alias |-> names[n],
                    service |-> IF n = 1 THEN f.service
                                ELSE [f.service EXCEPT !.numprocs = 1]]]
<1>1. f.service \in Service /\ [f.service EXCEPT !.numprocs = 1] \in Service
  BY FilesAssumption DEF Service
<1>2. /\ N \in Nat /\ Names(f) \subseteq Alias /\ DOMAIN names = 1 .. N
      /\ \A n \in 1 .. N : names[n] = f.alias <=> n = 1
      /\ \A i, j \in 1 .. N : names[i] = names[j] => i = j
  BY NamesDiffer
<1>3. Names(f) = {names[n] : n \in 1 .. N}
  BY <1>2 DEF Names, Range
<1>4. FileEntries(f) = E
  BY <1>2 DEF FileEntries
<1> HIDE DEF names
<1>5. \A n \in 1 .. N : E[n] \in Entry
  BY <1>1, <1>2, <1>3 DEF Entry
<1>6. E \in Seq(Entry) /\ Len(E) = N
  <2>1. E \in [1 .. N -> Entry]
    BY <1>5
  <2> QED BY <1>2, <2>1, SeqDef
<1>7. \A n \in 1 .. N : E[n].alias = names[n] /\ E[n].service = DefinitionOf(f, names[n])
  BY <1>2 DEF DefinitionOf
<1> HIDE DEF E
<1> QED BY <1>2, <1>3, <1>4, <1>6, <1>7

-----------------------------------------------------------------------------
(* Every name is defined by one of the files at most.                       *)
Unequivocal(fs) == \A a \in Alias : \A i, j \in DefinedBy(fs, a) : i = j

(* What a file says of a name is a service.                                 *)
LEMMA DefinitionIsService ==
    ASSUME NEW f \in File, NEW a
    PROVE  DefinitionOf(f, a) \in Service /\ DefinitionOf(f, a) # NoService
<1>1. f.service \in Service /\ [f.service EXCEPT !.numprocs = 1] \in Service
  BY FilesAssumption DEF Service
<1>2. DefinitionOf(f, a) \in Service
  BY <1>1 DEF DefinitionOf
<1> QED BY <1>2, NoServiceAssumption

(* load_services over any directory: it succeeds exactly when no name is    *)
(* defined by two files, and then the table has each file's definition      *)
(* under each of its names, and nothing else.                               *)
LEMMA FilesLoad ==
    ASSUME NEW fs \in Seq(File)
    PROVE  /\ Load(fs).ok <=> Unequivocal(fs)
           /\ Load(fs).table \in Table
           /\ Load(fs).ok =>
                /\ \A a \in Alias : \A i \in DefinedBy(fs, a) :
                      Load(fs).table[a] = DefinitionOf(fs[i], a)
                /\ \A a \in Alias :
                      DefinedBy(fs, a) = {} => Load(fs).table[a] = NoService
<1> DEFINE seqs == [i \in DOMAIN fs |-> FileEntries(fs[i])]
           entries == FlattenSeq(seqs)
<1>1. Len(fs) \in Nat /\ DOMAIN fs = 1 .. Len(fs) /\ \A i \in 1 .. Len(fs) : fs[i] \in File
  OBVIOUS
<1>2. seqs \in Seq(Seq(Entry)) /\ Len(seqs) = Len(fs)
  <2>1. \A i \in 1 .. Len(fs) : FileEntries(fs[i]) \in Seq(Entry)
    BY <1>1, EntriesOfFile
  <2>2. seqs \in [1 .. Len(fs) -> Seq(Entry)]
    BY <1>1, <2>1
  <2> QED BY <1>1, <2>2, SeqDef
<1>3. \A i \in 1 .. Len(fs) : seqs[i] = FileEntries(fs[i])
  BY <1>1
<1> HIDE DEF seqs
<1>4. entries \in Seq(Entry) /\ Gathers(entries, seqs, Len(seqs))
  BY <1>2, FlattenGathers
<1> HIDE DEF entries
<1>5. PICK where \in Bijection(1 .. Len(entries), Places(seqs, Len(fs))) :
          \A x \in 1 .. Len(entries) : entries[x] = seqs[where[x][1]][where[x][2]]
  BY <1>2, <1>4 DEF Gathers
<1>6. /\ \A x \in 1 .. Len(entries) : where[x] \in Places(seqs, Len(fs))
      /\ \A x, y \in 1 .. Len(entries) : where[x] = where[y] => x = y
      /\ \A p \in Places(seqs, Len(fs)) : \E x \in 1 .. Len(entries) : where[x] = p
  BY <1>5 DEF Bijection, Injection, Surjection, IsInjective
<1>7. ASSUME NEW x \in 1 .. Len(entries)
      PROVE  /\ where[x] = <<where[x][1], where[x][2]>>
             /\ where[x][1] \in 1 .. Len(fs)
             /\ where[x][2] \in 1 .. Len(FileEntries(fs[where[x][1]]))
             /\ entries[x] = FileEntries(fs[where[x][1]])[where[x][2]]
             /\ entries[x].alias \in Names(fs[where[x][1]])
             /\ entries[x].alias \in Alias
             /\ where[x][1] \in DefinedBy(fs, entries[x].alias)
             /\ entries[x].service
                   = DefinitionOf(fs[where[x][1]], entries[x].alias)
  <2>1. /\ where[x] = <<where[x][1], where[x][2]>>
        /\ where[x][1] \in 1 .. Len(fs)
        /\ where[x][2] \in 1 .. Len(seqs[where[x][1]])
    BY <1>6 DEF Places
  <2>2. /\ where[x][2] \in 1 .. Len(FileEntries(fs[where[x][1]]))
        /\ entries[x] = FileEntries(fs[where[x][1]])[where[x][2]]
    BY <1>3, <1>5, <2>1
  <2>3. fs[where[x][1]] \in File
    BY <1>1, <2>1
  <2>4. /\ entries[x].alias \in Names(fs[where[x][1]])
        /\ entries[x].service = DefinitionOf(fs[where[x][1]], entries[x].alias)
    BY <2>2, <2>3, EntriesOfFile
  <2>5. entries[x].alias \in Alias
    BY <2>3, <2>4, NamesDiffer
  <2> QED BY <1>1, <2>1, <2>2, <2>4, <2>5 DEF DefinedBy
<1>8. ASSUME NEW a \in Alias, NEW i \in DefinedBy(fs, a)
      PROVE  \E x \in 1 .. Len(entries) : entries[x].alias = a /\ where[x][1] = i
  <2>1. i \in 1 .. Len(fs) /\ fs[i] \in File /\ a \in Names(fs[i])
    BY <1>1 DEF DefinedBy
  <2>2. PICK n \in 1 .. Len(FileEntries(fs[i])) : FileEntries(fs[i])[n].alias = a
    BY <2>1, EntriesOfFile
  <2>3. n \in Nat /\ <<i, n>> \in Places(seqs, Len(fs))
    <3>1. Len(FileEntries(fs[i])) \in Nat
      BY <2>1, EntriesOfFile
    <3> QED BY <1>3, <2>1, <3>1 DEF Places
  <2>4. PICK x \in 1 .. Len(entries) : where[x] = <<i, n>>
    BY <1>6, <2>3
  <2>5. where[x][1] = i /\ where[x][2] = n
    BY <2>4
  <2>6. entries[x] = FileEntries(fs[i])[n]
    BY <1>7, <2>5
  <2> QED BY <2>2, <2>5, <2>6
<1>9. Loaded(Load(fs), entries, Len(entries))
  BY <1>4, LoadServicesLoads DEF Load, entries, seqs
<1>10. Unique(entries, Len(entries)) <=> Unequivocal(fs)
  <2>1. ASSUME Unique(entries, Len(entries)),
               NEW a \in Alias, NEW i \in DefinedBy(fs, a), NEW j \in DefinedBy(fs, a)
        PROVE  i = j
    <3>1. PICK x \in 1 .. Len(entries) : entries[x].alias = a /\ where[x][1] = i
      BY <1>8
    <3>2. PICK y \in 1 .. Len(entries) : entries[y].alias = a /\ where[y][1] = j
      BY <1>8
    <3> QED BY <2>1, <3>1, <3>2 DEF Unique
  <2>2. ASSUME Unequivocal(fs),
               NEW x \in 1 .. Len(entries), NEW y \in 1 .. Len(entries),
               entries[x].alias = entries[y].alias
        PROVE  x = y
    <3>1. where[x][1] = where[y][1]
      BY <1>7, <2>2 DEF Unequivocal
    <3>2. fs[where[x][1]] \in File
      BY <1>1, <1>7
    <3>3. where[x][2] = where[y][2]
      <4> DEFINE E == FileEntries(fs[where[x][1]])
      <4>1. \A i, j \in 1 .. Len(E) : E[i].alias = E[j].alias => i = j
        BY <3>2, EntriesOfFile
      <4>2. /\ where[x][2] \in 1 .. Len(E) /\ entries[x] = E[where[x][2]]
            /\ where[y][2] \in 1 .. Len(E) /\ entries[y] = E[where[y][2]]
        BY <1>7, <3>1
      <4> HIDE DEF E
      <4> QED BY <2>2, <4>1, <4>2
    <3>4. where[x] = where[y]
      BY <1>7, <3>1, <3>3
    <3> QED BY <1>6, <3>4
  <2> QED BY <2>1, <2>2 DEF Unique, Unequivocal
<1>11. /\ Load(fs).ok \in BOOLEAN
       /\ Load(fs).table \in Table
       /\ Load(fs).ok <=> Unequivocal(fs)
  BY <1>9, <1>10 DEF Loaded
<1>12. ASSUME Load(fs).ok, NEW a \in Alias, NEW i \in DefinedBy(fs, a)
       PROVE  Load(fs).table[a] = DefinitionOf(fs[i], a)
  <2>1. PICK x \in 1 .. Len(entries) : entries[x].alias = a /\ where[x][1] = i
    BY <1>8
  <2>2. Load(fs).table[a] = entries[x].service
    BY <1>9, <1>12, <2>1 DEF Loaded
  <2> QED BY <1>7, <2>1, <2>2
<1>13. ASSUME Load(fs).ok, NEW a \in Alias, DefinedBy(fs, a) = {}
       PROVE  Load(fs).table[a] = NoService
  <2>1. \A x \in 1 .. Len(entries) : entries[x].alias # a
    BY <1>7, <1>13
  <2> QED BY <1>9, <1>13, <2>1 DEF Loaded
<1> QED BY <1>11, <1>12, <1>13

(* The reference definition of the table, without its CHOOSE.               *)
LEMMA DefinedIsDefinition ==
    ASSUME NEW fs \in Seq(File), NEW a \in Alias
    PROVE  /\ DefinedBy(fs, a) = {} => Defined(fs, a) = NoService
           /\ DefinedBy(fs, a) # {} =>
                \E i \in DefinedBy(fs, a) : Defined(fs, a) = DefinitionOf(fs[i], a)
           /\ Defined(fs, a) = NoService <=> DefinedBy(fs, a) = {}
<1>1. DefinedBy(fs, a) = {} => Defined(fs, a) = NoService
  BY DEF Defined
<1>2. ASSUME DefinedBy(fs, a) # {}
      PROVE  \E i \in DefinedBy(fs, a) : /\ Defined(fs, a) = DefinitionOf(fs[i], a)
                                         /\ fs[i] \in File
  <2> DEFINE i == CHOOSE i \in DefinedBy(fs, a) : TRUE
  <2>1. i \in DefinedBy(fs, a)
    BY <1>2
  <2>2. Defined(fs, a) = DefinitionOf(fs[i], a)
    BY <1>2 DEF Defined, DefinitionOf
  <2>3. fs[i] \in File
    BY <2>1 DEF DefinedBy
  <2> QED BY <2>1, <2>2, <2>3
<1> QED BY <1>1, <1>2, DefinitionIsService

(* Being defined once at most, counted and uncounted.                       *)
LEMMA FewDefinitions ==
    ASSUME NEW fs \in Seq(File), NEW a
    PROVE  Cardinality(DefinedBy(fs, a)) <= 1
              <=> \A i, j \in DefinedBy(fs, a) : i = j
<1> DEFINE D == DefinedBy(fs, a)
<1>1. D \in SUBSET (1 .. Len(fs)) /\ Len(fs) \in Nat
  BY DEF DefinedBy
<1>2. IsFiniteSet(D)
  <2>1. IsFiniteSet(1 .. Len(fs))
    BY <1>1, FS_Interval
  <2> HIDE DEF D
  <2> QED BY <1>1, <2>1, FS_Subset
<1>3. Cardinality(D) \in Nat
  BY <1>2, FS_CardinalityType
<1>4. Cardinality(D) <= 1 <=> Cardinality(D) = 0 \/ Cardinality(D) = 1
  BY <1>3
<1>5. Cardinality(D) = 0 <=> D = {}
  BY <1>2, FS_EmptySet
<1>6. Cardinality(D) = 1 <=> \E x : D = {x}
  BY <1>2, FS_Singleton
<1> HIDE DEF D
<1>7. (D = {} \/ \E x : D = {x}) <=> \A i, j \in D : i = j
  <2>1. ASSUME \A i, j \in D : i = j, D # {} PROVE \E x : D = {x}
    <3>1. PICK x \in D : TRUE
      BY <2>1
    <3>2. D = {x}
      BY <2>1, <3>1
    <3> QED BY <3>2
  <2> QED BY <2>1
<1> QED BY <1>4, <1>5, <1>6, <1>7 DEF D

-----------------------------------------------------------------------------
(* The inductive invariant. HeldIsCurrent is about the files of the last    *)
(* good update, which define no name twice: the file of a group then        *)
(* decides what each of its names is, as GroupsAreWhole says.               *)
FilesInv ==
    /\ files \in Seq(File)
    /\ current \in Seq(File)
    /\ held \in Table
    /\ stopped \subseteq Alias
    /\ Unequivocal(current)
    /\ HeldIsCurrent

LEMMA DirectoriesAreSequences ==
    ASSUME NEW fs \in BoundedSeq(File, MaxFiles)
    PROVE  fs \in Seq(File)
<1>1. MaxFiles \in Nat /\ fs \in UNION {[1 .. m -> File] : m \in 0 .. MaxFiles}
  BY FilesAssumption DEF BoundedSeq, SeqOf
<1> QED BY <1>1, SeqDef

(* The table of a load that succeeds is what the files define.              *)
LEMMA LoadIsDefined ==
    ASSUME NEW fs \in Seq(File), Load(fs).ok
    PROVE  /\ Unequivocal(fs) /\ Load(fs).table \in Table
           /\ \A a \in Alias :
                /\ Load(fs).table[a] = Defined(fs, a)
                /\ Load(fs).table[a] = NoService <=> DefinedBy(fs, a) = {}
BY FilesLoad, DefinedIsDefinition

(* Services::new: the server starts with what the files define.             *)
LEMMA InitFiles == Init => FilesInv
<1> SUFFICES ASSUME Init PROVE FilesInv
  OBVIOUS
<1>1. /\ files \in Seq(File) /\ Load(files).ok
      /\ held = Load(files).table /\ stopped = {} /\ removed = {}
      /\ current = files
  BY DirectoriesAreSequences DEF Init
<1>2. Unequivocal(current) /\ held \in Table
  BY <1>1, LoadIsDefined
<1>3. HeldIsCurrent
  BY <1>1, LoadIsDefined DEF HeldIsCurrent
<1> QED BY <1>1, <1>2, <1>3 DEF FilesInv

(* An edit of the directory changes neither the table nor the files it was  *)
(* made from.                                                               *)
LEMMA EditFiles == ASSUME FilesInv, Edit PROVE FilesInv'
<1>1. files' \in Seq(File)
  BY DirectoriesAreSequences DEF Edit
<1>2. HeldIsCurrent'
  BY DEF FilesInv, Edit, HeldIsCurrent
<1> QED BY <1>1, <1>2 DEF FilesInv, Edit, Unequivocal

(* Services::update: the services it finds gone are the ones that were held *)
(* and have no definition any more.                                         *)
LEMMA UpdateFiles == ASSUME FilesInv, Update PROVE FilesInv'
<1> DEFINE new == Load(files).table
<1>1. /\ Load(files).ok
      /\ held' = Updated(held, new)
      /\ stopped' = stopped \cup
                       {a \in Alias : held[a] # NoService /\ new[a] = NoService}
      /\ removed' = {a \in removed : new[a] = NoService}
      /\ current' = files
      /\ files' = files
  <2> DEFINE Stops == {c \in Changes(held, new) : c.act = "Stop"}
             Found == {c.alias : c \in Stops}
             Gone == {a \in Alias : held[a] # NoService /\ new[a] = NoService}
  <2>1. \A c : c \in Stops <=> \E a \in Gone : c = [act |-> "Stop", alias |-> a]
    BY DEF Changes
  <2> HIDE DEF Stops, Gone
  <2>2. ASSUME NEW x \in Found PROVE x \in Gone
    <3>1. PICK c \in Stops : x = c.alias
      OBVIOUS
    <3>2. PICK a \in Gone : c = [act |-> "Stop", alias |-> a]
      BY <2>1
    <3>3. x = a
      BY <3>1, <3>2
    <3> QED BY <3>3
  <2>3. ASSUME NEW x \in Gone PROVE x \in Found
    <3> DEFINE c == [act |-> "Stop", alias |-> x]
    <3>1. c \in Stops /\ c.alias = x
      BY <2>1
    <3> HIDE DEF c
    <3> QED BY <3>1
  <2>4. Found = Gone
    BY <2>2, <2>3
  <2>5. stopped' = stopped \cup Found
    BY DEF Update, Stops
  <2> QED BY <2>4, <2>5 DEF Update, Gone
<1>2. files \in Seq(File) /\ held \in Table /\ stopped \subseteq Alias
  BY DEF FilesInv
<1>3. /\ Unequivocal(files) /\ new \in Table
      /\ \A a \in Alias : /\ new[a] = Defined(files, a)
                          /\ new[a] = NoService <=> DefinedBy(files, a) = {}
  BY <1>1, <1>2, LoadIsDefined
<1> HIDE DEF new
<1>4. \A a \in Alias : held'[a] = IF new[a] # NoService THEN new[a] ELSE held[a]
  BY <1>1 DEF Updated
<1>5. held' \in Table
  BY <1>1, <1>2, <1>3 DEF Updated, Table
<1>6. ASSUME NEW a \in Alias
      PROVE  IF a \in removed' THEN held'[a] = NoService
             ELSE IF DefinedBy(files, a) # {} THEN held'[a] = Defined(files, a)
             ELSE held'[a] # NoService <=> a \in stopped'
  <2>1. /\ a \in removed' <=> a \in removed /\ new[a] = NoService
        /\ a \in stopped' <=>
             a \in stopped \/ (held[a] # NoService /\ new[a] = NoService)
    BY <1>1
  <2>2. /\ held'[a] = IF new[a] # NoService THEN new[a] ELSE held[a]
        /\ new[a] = Defined(files, a)
        /\ new[a] = NoService <=> DefinedBy(files, a) = {}
    BY <1>3, <1>4
  <2>3. CASE new[a] # NoService
    BY <2>1, <2>2, <2>3
  <2>4. CASE new[a] = NoService /\ a \in removed
    <3>1. held[a] = NoService
      BY <2>4 DEF FilesInv, HeldIsCurrent
    <3> QED BY <2>1, <2>2, <2>4, <3>1
  <2>5. CASE new[a] = NoService /\ a \notin removed
    <3>1. held[a] = NoService => a \notin stopped
      <4>1. Defined(current, a) = NoService <=> DefinedBy(current, a) = {}
        BY DefinedIsDefinition DEF FilesInv
      <4> QED BY <2>5, <4>1 DEF FilesInv, HeldIsCurrent
    <3> QED BY <2>1, <2>2, <2>5, <3>1
  <2> QED BY <2>3, <2>4, <2>5
<1>7. HeldIsCurrent'
  BY <1>1, <1>6 DEF HeldIsCurrent, DefinedBy, Defined
<1> QED BY <1>1, <1>2, <1>3, <1>5, <1>7 DEF FilesInv, Unequivocal, DefinedBy

(* Services::remove takes out what it is asked to, defined again or not.    *)
LEMMA RemoveServiceFiles == ASSUME FilesInv, RemoveService PROVE FilesInv'
<1>1. PICK a \in stopped : /\ held' = [held EXCEPT ![a] = NoService]
                           /\ removed' = removed \cup {a}
  BY DEF RemoveService
<1>2. UNCHANGED <<files, stopped, current>>
  BY DEF RemoveService
<1>3. /\ files \in Seq(File) /\ current \in Seq(File) /\ held \in Table
      /\ stopped \subseteq Alias /\ Unequivocal(current) /\ HeldIsCurrent
  BY DEF FilesInv
<1>4. held' \in Table /\ held'[a] = NoService
      /\ \A b \in Alias : b # a => held'[b] = held[b]
  BY <1>1, <1>3 DEF Table
<1>5. HeldIsCurrent'
  BY <1>1, <1>2, <1>3, <1>4 DEF HeldIsCurrent
<1>6. Unequivocal(current)'
  BY <1>2, <1>3 DEF Unequivocal
<1> QED BY <1>2, <1>3, <1>4, <1>5, <1>6 DEF FilesInv

(* The table, the services that an update found gone, those that were       *)
(* removed and the files of the last good update agree in every reachable   *)
(* state, for any set of files and directories of any size, and whenever a  *)
(* removal comes.                                                           *)
THEOREM FilesInvariant == Spec => []FilesInv
<1>1. FilesInv /\ [Next]_vars => FilesInv'
  <2> SUFFICES ASSUME FilesInv, [Next]_vars PROVE FilesInv'
    OBVIOUS
  <2>1. CASE Edit
    BY <2>1, EditFiles
  <2>2. CASE Update
    BY <2>2, UpdateFiles
  <2>3. CASE RemoveService
    BY <2>3, RemoveServiceFiles
  <2>4. CASE UNCHANGED vars
    <3>1. HeldIsCurrent'
      BY <2>4 DEF FilesInv, HeldIsCurrent, vars
    <3> QED BY <2>4, <3>1 DEF FilesInv, Unequivocal, vars
  <2> QED BY <2>1, <2>2, <2>3, <2>4 DEF Next
<1> QED BY <1>1, InitFiles, PTL DEF Spec

(* load_services refuses exactly the directories in which two files define  *)
(* one name, and otherwise builds the table the files declare, whatever the *)
(* order in which the walk meets them (server/service.rs, load_services and *)
(* insert_service).                                                         *)
THEOREM LoadsAreDeclared == Spec => []LoadIsDeclared
<1>1. FilesInv => LoadIsDeclared
  <2> SUFFICES ASSUME FilesInv PROVE LoadIsDeclared
    OBVIOUS
  <2>1. files \in Seq(File)
    BY DEF FilesInv
  <2>2. /\ Load(files).ok <=> Unequivocal(files)
        /\ Load(files).table \in Table
        /\ Load(files).ok =>
              /\ \A a \in Alias : \A i \in DefinedBy(files, a) :
                    Load(files).table[a] = DefinitionOf(files[i], a)
              /\ \A a \in Alias :
                    DefinedBy(files, a) = {} => Load(files).table[a] = NoService
    BY <2>1, FilesLoad
  <2>3. (\A a \in Alias : Cardinality(DefinedBy(files, a)) <= 1) <=> Unequivocal(files)
    BY <2>1, FewDefinitions DEF Unequivocal
  <2>4. ASSUME Unequivocal(files)
        PROVE  Load(files).table = [a \in Alias |-> Defined(files, a)]
    <3>1. \A a \in Alias : Load(files).table[a] = Defined(files, a)
      BY <2>1, <2>2, <2>4, DefinedIsDefinition
    <3>2. Load(files).table = [a \in Alias |-> Load(files).table[a]]
      BY <2>2 DEF Table
    <3> QED BY <3>1, <3>2
  <2> QED BY <2>2, <2>3, <2>4 DEF LoadIsDeclared
<1> QED BY <1>1, FilesInvariant, PTL

(* Services::update loses no definition: but for the services removed since *)
(* an update last defined them, the server holds what the files of the last *)
(* good update define, and those that have disappeared.                     *)
THEOREM TableIsCurrent == Spec => []HeldIsCurrent
<1>1. FilesInv => HeldIsCurrent
  BY DEF FilesInv
<1> QED BY <1>1, FilesInvariant, PTL

(* Every name that the start request of a held service asks for is a held   *)
(* service of a single process (start_request of server/jobs.rs starts one  *)
(* job per name without looking), while the files define the service and    *)
(* the name has not been removed since.                                     *)
THEOREM GroupsStayWhole == Spec => []GroupsAreWhole
<1>1. FilesInv => GroupsAreWhole
  <2> SUFFICES ASSUME FilesInv,
                      NEW a \in Alias, held[a] # NoService,
                      DefinedBy(current, a) # {},
                      NEW n \in 2 .. Len(GenerateAliasNames(a, held[a].numprocs)),
                      GenerateAliasNames(a, held[a].numprocs)[n] \notin removed
               PROVE  LET b == GenerateAliasNames(a, held[a].numprocs)[n]
                      IN  held[b] # NoService /\ held[b].numprocs = 1
    BY DEF GroupsAreWhole
  <2>1. current \in Seq(File) /\ Unequivocal(current) /\ HeldIsCurrent
    BY DEF FilesInv
  <2>2. held[a] = Defined(current, a)
    BY <2>1 DEF HeldIsCurrent
  <2>3. PICK i \in DefinedBy(current, a) : held[a] = DefinitionOf(current[i], a)
    BY <2>1, <2>2, DefinedIsDefinition
  <2> DEFINE f == current[i]
             N == f.service.numprocs
             names == GenerateAliasNames(f.alias, N)
  <2>4. f \in File
    BY <2>1 DEF DefinedBy
  <2>5. held[a].numprocs \in Nat
    BY <2>3, <2>4, DefinitionIsService DEF Service
  <2>6. Len(GenerateAliasNames(a, held[a].numprocs)) = held[a].numprocs
    BY <2>5 DEF GenerateAliasNames
  <2>7. held[a].numprocs # 1
    BY <2>5, <2>6
  <2>8. a = f.alias /\ held[a] = f.service
    <3>1. f.service \in Service
      BY <2>4, FilesAssumption
    <3> QED BY <2>3, <2>7, <3>1 DEF DefinitionOf, Service
  <2>9. /\ N \in Nat /\ Names(f) \subseteq Alias /\ DOMAIN names = 1 .. N
        /\ \A m \in 1 .. N : names[m] = f.alias <=> m = 1
    BY <2>4, NamesDiffer
  <2>10. n \in 1 .. N /\ n # 1
    BY <2>5, <2>6, <2>8
  <2> DEFINE b == names[n]
  <2>11. b \in Names(f) /\ b \in Alias /\ b # f.alias
    BY <2>9, <2>10 DEF Names, Range
  <2>12. i \in DefinedBy(current, b)
    BY <2>11 DEF DefinedBy
  <2>13. held[b] = Defined(current, b)
    BY <2>1, <2>8, <2>11, <2>12 DEF HeldIsCurrent
  <2>14. Defined(current, b) = DefinitionOf(f, b)
    <3>1. PICK j \in DefinedBy(current, b) :
              Defined(current, b) = DefinitionOf(current[j], b)
      BY <2>1, <2>11, <2>12, DefinedIsDefinition
    <3>2. j = i
      BY <2>1, <2>11, <2>12 DEF Unequivocal
    <3> QED BY <3>1, <3>2
  <2>15. DefinitionOf(f, b) # NoService /\ DefinitionOf(f, b).numprocs = 1
    <3>1. f.service \in Service
      BY <2>4, FilesAssumption
    <3>2. DefinitionOf(f, b) = [f.service EXCEPT !.numprocs = 1]
      BY <2>11 DEF DefinitionOf
    <3> QED BY <2>4, <3>1, <3>2, DefinitionIsService DEF Service
  <2> QED BY <2>8, <2>13, <2>14, <2>15
<1> QED BY <1>1, FilesInvariant, PTL

(* A table that load_services makes is one CatalogAssumption of the         *)
(* server's model (TaskState) allows: every name that a service of it       *)
(* generates is an alias. The catalogs of the server's runs and theorems    *)
(* are therefore tables the files can give, and not a choice of the model.  *)
THEOREM LoadedTablesFitTheCatalog ==
    ASSUME NEW fs \in Seq(File), Load(fs).ok
    PROVE  /\ Load(fs).table \in Table
           /\ \A a \in Alias :
                Load(fs).table[a] # NoService =>
                   GenerateAliasNames(a, Load(fs).table[a].numprocs) \in Seq(Alias)
<1> DEFINE table == Load(fs).table
<1>1. /\ table \in Table
      /\ \A a \in Alias : \A i \in DefinedBy(fs, a) : table[a] = DefinitionOf(fs[i], a)
      /\ \A a \in Alias : DefinedBy(fs, a) = {} => table[a] = NoService
  BY FilesLoad
<1> HIDE DEF table
<1>2. ASSUME NEW a \in Alias, table[a] # NoService
      PROVE  GenerateAliasNames(a, table[a].numprocs) \in Seq(Alias)
  <2>1. PICK i \in DefinedBy(fs, a) : table[a] = DefinitionOf(fs[i], a)
    BY <1>1, <1>2
  <2> DEFINE f == fs[i]
             names == GenerateAliasNames(a, table[a].numprocs)
  <2>2. f \in File /\ f.service \in Service
    <3>1. i \in DOMAIN fs
      BY DEF DefinedBy
    <3>2. f \in File
      BY <3>1
    <3> QED BY <3>2, FilesAssumption
  <2>3. CASE a = f.alias
    <3>1. table[a].numprocs = f.service.numprocs
      BY <2>1, <2>3 DEF DefinitionOf
    <3>2. f.service.numprocs \in Nat /\ Names(f) \subseteq Alias
      BY <2>2, NamesDiffer
    <3>3. names = [n \in 1 .. f.service.numprocs |-> names[n]]
      BY <3>1 DEF GenerateAliasNames
    <3>4. \A n \in 1 .. f.service.numprocs : names[n] \in Names(f)
      <4>1. DOMAIN GenerateAliasNames(f.alias, f.service.numprocs) = 1 .. f.service.numprocs
        BY <2>2, NamesDiffer
      <4> QED BY <2>3, <3>1, <4>1 DEF Names, Range
    <3> HIDE DEF names, f
    <3>5. names \in [1 .. f.service.numprocs -> Alias]
      BY <3>2, <3>3, <3>4
    <3>6. names \in Seq(Alias)
      BY <3>2, <3>5, SeqDef
    <3> QED BY <3>6 DEF names
  <2>4. CASE a # f.alias
    <3>1. table[a].numprocs = 1
      BY <2>1, <2>2, <2>4 DEF DefinitionOf, Service
    <3>2. names = <<a>>
      BY <3>1 DEF GenerateAliasNames
    <3> QED BY <3>2
  <2> QED BY <2>3, <2>4
<1> QED BY <1>1, <1>2 DEF table
=============================================================================
