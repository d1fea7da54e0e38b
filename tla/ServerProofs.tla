---------------------------- MODULE ServerProofs -----------------------------
(***************************************************************************)
(* Requests to a remote server are answered by their own responses and     *)
(* none is lost, for any number of requests, links and faults.             *)
(*                                                                         *)
(* A handler of server.cc runs to its end but calls others on the way, so  *)
(* the invariant must hold between any two steps of it.  ServerInv says    *)
(* which steps may be left (StepsInv), what a link that is being closed    *)
(* still waits for (FiniInv), how the tags of an open link lie against     *)
(* what its remote owes (PipesInv), and that a pending request is with one *)
(* tag or in one step (CarryInv).  These depend on a handler's own state   *)
(* alone and are HandlerInv; the lemmas carry it over each step, and the   *)
(* theorems at the end read the properties of Server off it.               *)
(***************************************************************************)
EXTENDS Server, FiniteSetTheorems, SequenceTheorems, WellFoundedInduction, TLAPS

-----------------------------------------------------------------------------
(***************************************************************************)
(* What Keep leaves of a sequence.                                         *)
(***************************************************************************)

\* A set of natural numbers which is not empty has a least member.
LEMMA Least ==
    ASSUME NEW T, T \subseteq Nat, T # {}
    PROVE  \E n \in T : \A m \in T : n <= m
  <1>1. PICK n \in T : \A m \in T : ~(<<m, n>> \in OpToRel(<, Nat))
    BY WFMin, NatLessThanWellFounded, Zenon
  <1>2. ASSUME NEW m \in T PROVE n <= m
    <2>1. ~(m < n)
      BY <1>1 DEF OpToRel
    <2> QED BY <2>1
  <1> QED BY <1>2

\* How many of the places I are not behind i.
Rank(I, i) == Cardinality({j \in I : j <= i})

\* The places up to i are a finite set, with one more than those up to i - 1
\* when i is one of them.
LEMMA RankFacts ==
    ASSUME NEW n \in Nat, NEW I, \A j \in I : j \in 1..n
    PROVE  /\ IsFiniteSet(I) /\ Cardinality(I) \in Nat
           /\ Rank(I, 0) = 0 /\ Rank(I, n) = Cardinality(I)
           /\ \A i \in Nat : Rank(I, i) \in Nat
           /\ \A i \in Nat : Rank(I, i + 1) = Rank(I, i) + (IF i + 1 \in I THEN 1 ELSE 0)
           /\ \A i, j \in Nat : i <= j => Rank(I, i) <= Rank(I, j)
  <1>0. \A j \in I : j \in Nat /\ 1 <= j /\ j <= n
    OBVIOUS
  <1>1. IsFiniteSet(1..n)
    BY FS_Interval
  <1>2. IsFiniteSet(I)
    BY <1>1, FS_Subset
  <1>3. Cardinality(I) \in Nat
    BY <1>2, FS_CardinalityType
  <1>4. ASSUME NEW i \in Nat
        PROVE  IsFiniteSet({j \in I : j <= i}) /\ Rank(I, i) \in Nat
    <2>1. IsFiniteSet({j \in I : j <= i})
      BY <1>2, FS_Subset
    <2> QED BY <2>1, FS_CardinalityType DEF Rank
  <1>5. Rank(I, 0) = 0
    <2>1. {j \in I : j <= 0} = {}
      BY <1>0
    <2> QED BY <2>1, FS_EmptySet DEF Rank
  <1>6. Rank(I, n) = Cardinality(I)
    <2>1. {j \in I : j <= n} = I
      BY <1>0
    <2> QED BY <2>1 DEF Rank
  <1>7. ASSUME NEW i \in Nat
        PROVE  Rank(I, i + 1) = Rank(I, i) + (IF i + 1 \in I THEN 1 ELSE 0)
    <2>1. CASE i + 1 \in I
      <3>1. {j \in I : j <= i + 1} = {j \in I : j <= i} \cup {i + 1}
        BY <1>0, <2>1
      <3>2. i + 1 \notin {j \in I : j <= i}
        OBVIOUS
      <3>3. Cardinality({j \in I : j <= i} \cup {i + 1}) = Cardinality({j \in I : j <= i}) + 1
        BY <1>4, <3>2, FS_AddElement
      <3> QED BY <2>1, <3>1, <3>3 DEF Rank
    <2>2. CASE i + 1 \notin I
      <3>1. {j \in I : j <= i + 1} = {j \in I : j <= i}
        BY <1>0, <2>2
      <3> QED BY <1>4, <2>2, <3>1 DEF Rank
    <2> QED BY <2>1, <2>2
  <1>8. ASSUME NEW i \in Nat, NEW j \in Nat, i <= j PROVE Rank(I, i) <= Rank(I, j)
    <2>1. {k \in I : k <= i} \subseteq {k \in I : k <= j}
      BY <1>0, <1>8
    <2> QED BY <1>4, <2>1, FS_Subset DEF Rank
  <1> QED BY <1>2, <1>3, <1>4, <1>5, <1>6, <1>7, <1>8

\* The k-th place is the one with rank k.
LEMMA PlaceFacts ==
    ASSUME NEW n \in Nat, NEW I, \A j \in I : j \in 1..n
    PROVE  /\ \A k \in 1..Cardinality(I) : Place(I, k) \in I /\ Rank(I, Place(I, k)) = k
           /\ \A i \in I : Rank(I, i) \in 1..Cardinality(I) /\ Place(I, Rank(I, i)) = i
           /\ \A j, k \in 1..Cardinality(I) : j < k => Place(I, j) < Place(I, k)
  <1>0. \A j \in I : j \in Nat /\ 1 <= j /\ j <= n
    OBVIOUS
  <1>r. /\ Rank(I, n) = Cardinality(I) /\ Cardinality(I) \in Nat
        /\ \A i \in Nat : Rank(I, i) \in Nat
        /\ \A i, j \in Nat : i <= j => Rank(I, i) <= Rank(I, j)
    BY RankFacts
  <1>s. ASSUME NEW i \in I PROVE i - 1 \in Nat /\ Rank(I, i) = Rank(I, i - 1) + 1
    <2>1. i - 1 \in Nat /\ (i - 1) + 1 = i
      BY <1>0
    <2>2. Rank(I, (i - 1) + 1) = Rank(I, i - 1) + (IF (i - 1) + 1 \in I THEN 1 ELSE 0)
      BY <2>1, RankFacts
    <2> QED BY <2>1, <2>2
  <1>1. ASSUME NEW k \in 1..Cardinality(I) PROVE \E i \in I : Rank(I, i) = k
    <2> DEFINE T == {i \in Nat : Rank(I, i) >= k}
    <2>1. n \in T
      BY RankFacts
    <2>2. PICK i \in T : \A m \in T : i <= m
      BY <2>1, Least
    <2>3. i # 0
      BY <2>2, RankFacts
    <2>4. i - 1 \in Nat /\ (i - 1) + 1 = i
      BY <2>2, <2>3
    <2>5. i - 1 \notin T
      BY <2>2, <2>4
    <2>6. Rank(I, i) = Rank(I, i - 1) + (IF i \in I THEN 1 ELSE 0)
      BY <2>4, RankFacts
    <2>7. /\ Rank(I, i) \in Nat /\ Rank(I, i - 1) \in Nat /\ k \in Nat
          /\ Rank(I, i) >= k /\ ~(Rank(I, i - 1) >= k)
      BY <2>2, <2>4, <2>5, RankFacts
    <2> QED BY <2>6, <2>7
  <1>2. ASSUME NEW i \in I, NEW j \in I, i < j PROVE Rank(I, i) < Rank(I, j)
    <2>1. i \in Nat /\ j - 1 \in Nat /\ i <= j - 1
      BY <1>0, <1>2
    <2>2. Rank(I, i) <= Rank(I, j - 1) /\ Rank(I, i) \in Nat /\ Rank(I, j - 1) \in Nat
      BY <1>r, <2>1
    <2> QED BY <1>s, <2>2
  <1>3. ASSUME NEW i \in I, NEW j \in I, Rank(I, i) = Rank(I, j) PROVE i = j
    <2>1. i \in Nat /\ j \in Nat /\ Rank(I, i) \in Nat
      BY <1>0, RankFacts
    <2> QED BY <1>2, <1>3, <2>1
  <1>4. ASSUME NEW k \in 1..Cardinality(I)
        PROVE  Place(I, k) \in I /\ Rank(I, Place(I, k)) = k
    BY <1>1 DEF Place, Rank
  <1>5. ASSUME NEW i \in I
        PROVE  Rank(I, i) \in 1..Cardinality(I) /\ Place(I, Rank(I, i)) = i
    <2>1. i \in Nat /\ i <= n
      BY <1>0
    <2>2. Rank(I, i) = Rank(I, i - 1) + 1 /\ Rank(I, i - 1) \in Nat
      BY <1>r, <1>s
    <2>3. Rank(I, i) <= Cardinality(I) /\ Cardinality(I) \in Nat
      BY <1>r, <2>1
    <2>4. Rank(I, i) \in 1..Cardinality(I)
      BY <2>2, <2>3
    <2> QED BY <1>3, <1>4, <2>4
  <1>6. ASSUME NEW j \in 1..Cardinality(I), NEW k \in 1..Cardinality(I), j < k
        PROVE  Place(I, j) < Place(I, k)
    <2>1. /\ Place(I, j) \in I /\ Place(I, k) \in I
          /\ Rank(I, Place(I, j)) = j /\ Rank(I, Place(I, k)) = k
      BY <1>4
    <2>2. Place(I, j) \in Nat /\ Place(I, k) \in Nat
      BY <1>0, <2>1
    <2>3. ~(k < j) /\ j # k
      BY <1>6
    <2>4. ~(Place(I, k) < Place(I, j))
      BY <1>2, <2>1, <2>3
    <2> QED BY <2>1, <2>2, <2>3, <2>4
  <1> QED BY <1>4, <1>5, <1>6

\* Keep(q, I) consists of the entries of q at I, in order, each once.
LEMMA KeepFacts ==
    ASSUME NEW S, NEW q \in Seq(S), NEW I, \A i \in I : i \in 1..Len(q)
    PROVE  /\ Keep(q, I) \in Seq(S) /\ Len(Keep(q, I)) = Cardinality(I)
           /\ Cardinality(I) \in Nat
           /\ \A k \in 1..Cardinality(I) : Place(I, k) \in I /\ Keep(q, I)[k] = q[Place(I, k)]
           /\ \A i \in I : \E k \in 1..Cardinality(I) : Place(I, k) = i
           /\ \A j, k \in 1..Cardinality(I) : j < k => Place(I, j) < Place(I, k)
           /\ \A j, k \in 1..Cardinality(I) : Place(I, j) = Place(I, k) => j = k
  <1>1. Len(q) \in Nat /\ \A i \in 1..Len(q) : q[i] \in S
    OBVIOUS
  <1>2. Cardinality(I) \in Nat
    BY <1>1, RankFacts
  <1>3. /\ \A k \in 1..Cardinality(I) : Place(I, k) \in I
        /\ \A i \in I : \E k \in 1..Cardinality(I) : Place(I, k) = i
        /\ \A j, k \in 1..Cardinality(I) : j < k => Place(I, j) < Place(I, k)
    BY <1>1, PlaceFacts
  <1>4. Keep(q, I) = [k \in 1..Cardinality(I) |-> q[Place(I, k)]]
    BY DEF Keep
  <1>5. \A k \in 1..Cardinality(I) : q[Place(I, k)] \in S
    BY <1>1, <1>3
  <1>6. Keep(q, I) \in Seq(S) /\ Len(Keep(q, I)) = Cardinality(I)
    BY <1>2, <1>4, <1>5
  <1>7. ASSUME NEW j \in 1..Cardinality(I), NEW k \in 1..Cardinality(I),
               Place(I, j) = Place(I, k)
        PROVE  j = k
    <2>1. Place(I, j) \in Nat /\ Place(I, k) \in Nat
      BY <1>1, <1>3
    <2>2. ~(Place(I, j) < Place(I, k)) /\ ~(Place(I, k) < Place(I, j))
      BY <1>7, <2>1
    <2> QED BY <1>2, <1>3, <2>2
  <1> QED BY <1>2, <1>3, <1>4, <1>6, <1>7

\* A set of places without a gap below them.
LEMMA PrefixCard ==
    ASSUME NEW n \in Nat, NEW I, \A j \in I : j \in 1..n,
           \A i \in 1..n, j \in I : i < j => i \in I
    PROVE  I = 1..Cardinality(I) /\ Cardinality(I) \in 0..n
  <1> DEFINE T == {i \in Nat : i + 1 \notin I}
  <1>1. n \in T
    OBVIOUS
  <1>2. PICK c \in T : \A m \in T : c <= m
    BY <1>1, Least
  <1>3. c \in Nat /\ c <= n
    BY <1>1, <1>2
  <1>4. I = 1..c
    <2>1. ASSUME NEW i \in 1..c PROVE i \in I
      <3>1. i - 1 \in Nat /\ i - 1 < c /\ (i - 1) + 1 = i
        BY <1>3
      <3>2. i - 1 \notin T
        BY <1>2, <1>3, <3>1
      <3> QED BY <3>1, <3>2
    <2>2. ASSUME NEW i \in I PROVE i \in 1..c
      <3>1. c + 1 \notin I
        BY <1>2
      <3>2. ~(c + 1 < i)
        BY <1>3, <3>1
      <3> QED BY <1>3, <3>1, <3>2
    <2> QED BY <2>1, <2>2
  <1>5. Cardinality(1..c) = c
    BY <1>3, FS_Interval
  <1> QED BY <1>3, <1>4, <1>5

\* Keep leaves what it keeps of the front in its place.
LEMMA KeepFront ==
    ASSUME NEW S, NEW q \in Seq(S), NEW I, \A i \in I : i \in 1..Len(q),
           NEW c \in Nat, 1..c \subseteq I
    PROVE  /\ c <= Cardinality(I)
           /\ \A i \in 1..c : Place(I, i) = i /\ Keep(q, I)[i] = q[i]
           /\ \A k \in 1..Cardinality(I) : k > c => Place(I, k) > c
  <1>1. /\ Len(q) \in Nat /\ Cardinality(I) \in Nat
        /\ \A j \in I : j \in Nat /\ 1 <= j /\ j <= Len(q)
    BY KeepFacts
  <1>2. ASSUME NEW i \in 1..c PROVE i \in 1..Cardinality(I) /\ Place(I, i) = i
    <2>1. {j \in I : j <= i} = 1..i
      BY <1>1
    <2>2. Cardinality(1..i) = i
      BY FS_Interval
    <2>3. Rank(I, i) = i /\ i \in I
      BY <2>1, <2>2 DEF Rank
    <2>4. Rank(I, i) \in 1..Cardinality(I) /\ Place(I, Rank(I, i)) = i
      BY <1>1, <2>3, PlaceFacts
    <2> QED BY <2>3, <2>4
  <1>3. c <= Cardinality(I)
    <2>1. CASE c = 0
      BY <1>1, <2>1
    <2>2. CASE c # 0
      <3>1. c \in 1..c
        BY <2>2
      <3> QED BY <1>1, <1>2, <3>1
    <2> QED BY <2>1, <2>2
  <1>4. ASSUME NEW k \in 1..Cardinality(I), k > c PROVE Place(I, k) > c
    <2>1. Place(I, k) \in Nat /\ 1 <= Place(I, k)
      BY <1>1, KeepFacts
    <2>2. ASSUME Place(I, k) <= c PROVE FALSE
      <3>1. Place(I, k) \in 1..c
        BY <1>1, <2>1, <2>2
      <3>2. Place(I, Place(I, k)) = Place(I, k) /\ Place(I, k) \in 1..Cardinality(I)
        BY <1>2, <3>1
      <3>3. Place(I, k) = k
        BY <3>2, KeepFacts
      <3> QED BY <1>1, <1>4, <2>2, <3>3
    <2> QED BY <1>1, <2>1, <2>2
  <1>5. \A i \in 1..c : Keep(q, I)[i] = q[i]
    BY <1>2, KeepFacts
  <1> QED BY <1>2, <1>3, <1>4, <1>5

-----------------------------------------------------------------------------
(***************************************************************************)
(* The inductive invariant, over the links ls of a peer, their states f,   *)
(* the steps td its handler has still to take, whether it is finishing, p, *)
(* and the results rs.                                                     *)
(***************************************************************************)

ToClose(td) == {td[i].l : i \in {j \in 1..Len(td) : td[j].do = "close"}}
ToShut(td) == {td[i].l : i \in {j \in 1..Len(td) : td[j].do = "shut"}}

\* A link is at most once in the peer, and fresh while it is not.
LinksInv(ls, f) ==
    /\ \A i, j \in 1..Len(ls) : ls[i] = ls[j] => i = j
    /\ \A l \in Links : l \notin Range(ls) => f[l] = NewLink

\* The steps other than submits are about different links of the peer; the
\* socket is shut after op_fini is set; a read goes on alone and has a tag.
StepsInv(ls, f, td, p) ==
    /\ \A i \in 1..Len(td) : td[i].do # "submit" =>
        /\ td[i].l \in Range(ls)
        /\ td[i].do = "shut" => "fini" \in f[td[i].l].op
        /\ td[i].do = "close" => p
        /\ td[i].do = "read" => /\ Len(td) = 1 /\ "fini" \notin f[td[i].l].op
                                /\ f[td[i].l].queue # <<>>
                                /\ ~Coalesce => td[i].overrun = <<>>
    /\ \A i, j \in 1..Len(td) :
        td[i].do # "submit" /\ td[j].do # "submit" /\ td[i].l = td[j].l => i = j

\* A link with op_fini is to be shut, or has no tags and a closed socket.
FiniAt(l, k, td) ==
    /\ "fini" \in k.op =>
        l \in ToShut(td) \/ (k.queue = <<>> /\ k.sock \in {"closing", "closed"})
    /\ k.sock \in {"closing", "closed"} => "fini" \in k.op

FiniInv(f, td) == \A l \in Links : FiniAt(l, f[l], td)

\* The responses the remote owes, and whose they are.
Owed(k) == Len(k.inbox) + Len(k.wire)
Owner(k, i) == IF i <= Len(k.inbox) THEN k.inbox[i][1] ELSE k.wire[i - Len(k.inbox)]

\* The written tags are in front of the queue; those in front are owed a
\* response, and if the remote does not coalesce, all, and their own.
PipeInv(k) ==
    /\ \A i, j \in 1..Len(k.queue) : i < j /\ Committed(k.queue[j]) => k.queue[i].w = "all"
    /\ \A i \in 1..Len(k.queue) : Committed(k.queue[i]) => i <= CommitMax
    /\ \A i \in 1..Owed(k) : i <= Len(k.queue) /\ k.queue[i].w = "all"
    /\ ~Coalesce =>
        /\ \A i \in 1..Len(k.inbox) : Len(k.inbox[i]) = 1
        /\ \A i \in 1..Len(k.queue) : k.queue[i].w = "all" =>
            i <= Owed(k) /\ k.queue[i].r = Owner(k, i)

PipeAt(l, k, td) == "fini" \notin k.op /\ l \notin ToClose(td) => PipeInv(k)

PipesInv(f, td) == \A l \in Links : PipeAt(l, f[l], td)

\* Tag i of link l, or step i, stands for r.
Holds(f, l, i, r) ==
    i \in 1..Len(f[l].queue) /\ f[l].queue[i].r = r /\ f[l].queue[i].req = "user"
Takes(td, i, r) == i \in 1..Len(td) /\ td[i].do = "submit" /\ td[i].r = r

\* One tag or step stands for a pending request, and none for another one.
CarryInv(f, td, rs) ==
    \A r \in Requests :
        /\ \A l, m \in Links : \A i \in 1..Len(f[l].queue), j \in 1..Len(f[m].queue) :
            Holds(f, l, i, r) /\ Holds(f, m, j, r) => l = m /\ i = j
        /\ \A i, j \in 1..Len(td) : Takes(td, i, r) /\ Takes(td, j, r) => i = j
        /\ \A l \in Links : \A i \in 1..Len(f[l].queue), j \in 1..Len(td) :
            ~(Holds(f, l, i, r) /\ Takes(td, j, r))
        /\ rs[r] = "pending" <=>
            \/ \E l \in Links : \E i \in 1..Len(f[l].queue) : Holds(f, l, i, r)
            \/ \E i \in 1..Len(td) : Takes(td, i, r)

\* No socket before the address is known, and nothing before the first request.
PeerInv ==
    /\ resolve # "done" => \A l \in Links : link[l].sock = "none"
    /\ resolve = "none" => links = <<>> /\ todo = <<>>

AnswerInv == ~Coalesce => OwnAnswer

HandlerInv(ls, f, td, p, rs) ==
    /\ ls \in Seq(Links) /\ f \in [Links -> LinkState] /\ td \in Seq(Step)
    /\ LinksInv(ls, f) /\ StepsInv(ls, f, td, p) /\ FiniInv(f, td)
    /\ PipesInv(f, td) /\ CarryInv(f, td, rs)

ServerInv ==
    /\ TypeOK /\ PeerInv /\ AnswerInv
    /\ HandlerInv(links, link, todo, fini, res)

-----------------------------------------------------------------------------
(***************************************************************************)
(* Requests keep their carriers.                                           *)
(***************************************************************************)

\* What CarryInv says of r, without the bounds of its quantifiers.
Carry(f, td, rs, r) ==
    /\ \A l, m \in Links : \A i, j :
        Holds(f, l, i, r) /\ Holds(f, m, j, r) => l = m /\ i = j
    /\ \A i, j : Takes(td, i, r) /\ Takes(td, j, r) => i = j
    /\ \A l \in Links : \A i, j : ~(Holds(f, l, i, r) /\ Takes(td, j, r))
    /\ rs[r] = "pending" <=> \/ \E l \in Links : \E i : Holds(f, l, i, r)
                             \/ \E i : Takes(td, i, r)

\* The bounds say nothing more.
LEMMA CarryEach ==
    ASSUME NEW f, NEW td, NEW rs
    PROVE  CarryInv(f, td, rs) <=> \A r \in Requests : Carry(f, td, rs, r)
  <1>1. \A l, i, r : Holds(f, l, i, r) => i \in 1..Len(f[l].queue)
    BY DEF Holds
  <1>2. \A i, r : Takes(td, i, r) => i \in 1..Len(td)
    BY DEF Takes
  <1>3. ASSUME NEW r \in Requests, CarryInv(f, td, rs) PROVE Carry(f, td, rs, r)
    BY <1>1, <1>2, <1>3, Zenon DEF CarryInv, Carry
  <1>4. ASSUME \A r \in Requests : Carry(f, td, rs, r) PROVE CarryInv(f, td, rs)
    BY <1>1, <1>2, <1>4, Zenon DEF CarryInv, Carry
  <1> QED BY <1>3, <1>4

\* The tags of f2 are tags of f, each at the place G tells; those which are gone
\* stood for the requests D, which are no longer pending.
LEMMA CarryMap ==
    ASSUME NEW f, NEW f2, NEW td, NEW rs, NEW rs2, NEW G, NEW D,
           CarryInv(f, td, rs),
           \A m \in Links, r \in Requests : \A i :
                Holds(f2, m, i, r) => r \notin D /\ Holds(f, m, G[m][i], r),
           \A m \in Links, r \in Requests : \A i, j :
                Holds(f2, m, i, r) /\ Holds(f2, m, j, r) /\ G[m][i] = G[m][j] => i = j,
           \A m \in Links, r \in Requests : \A i :
                Holds(f, m, i, r) /\ r \notin D => \E j : Holds(f2, m, j, r),
           \A r \in Requests : r \in D => \E m \in Links : \E i : Holds(f, m, i, r),
           \A r \in Requests : rs2[r] = "pending" <=> rs[r] = "pending" /\ r \notin D
    PROVE  CarryInv(f2, td, rs2)
  <1> SUFFICES ASSUME NEW r \in Requests PROVE Carry(f2, td, rs2, r)
    BY CarryEach
  <1> USE DEF Carry
  <1>1. Carry(f, td, rs, r)
    BY CarryEach
  <1>2. ASSUME NEW l \in Links, NEW m \in Links, NEW i, NEW j,
               Holds(f2, l, i, r), Holds(f2, m, j, r)
        PROVE  l = m /\ i = j
    <2>1. l = m /\ G[l][i] = G[m][j]
      BY <1>1, <1>2
    <2> QED BY <1>2, <2>1
  <1>3. ASSUME NEW l \in Links, NEW i, NEW j PROVE ~(Holds(f2, l, i, r) /\ Takes(td, j, r))
    BY <1>1
  <1>4. rs2[r] = "pending" <=> \/ \E l \in Links : \E i : Holds(f2, l, i, r)
                              \/ \E i : Takes(td, i, r)
    <2>1. CASE r \in D
      BY <1>1, <2>1
    <2>2. CASE r \notin D
      BY <1>1, <2>2
    <2> QED BY <2>1, <2>2
  <1> QED BY <1>1, <1>2, <1>3, <1>4

-----------------------------------------------------------------------------
(***************************************************************************)
(* link::close().                                                          *)
(***************************************************************************)

\* The tags close() resubmits.
Loose(q) == {i \in 1..Len(q) : ~Committed(q[i]) /\ q[i].req = "user"}

\* Link l is closed with queue q, the handler has rest to do.
CloseTodo(q, l, how, rest) ==
    Resubmits(q) \o <<[do |-> "shut", l |-> l, how |-> how]>> \o rest

\* What td then consists of: n submits, the shutdown, and rest.
CloseShape(q, l, rest, n, td) ==
    /\ n \in Nat /\ td \in Seq(Step) /\ Len(td) = n + 1 + Len(rest)
    /\ \A i \in 1..n : td[i].do = "submit" /\ td[i].r = q[Place(Loose(q), i)].r
    /\ td[n + 1].do = "shut" /\ td[n + 1].l = l
    /\ \A i \in 1..Len(rest) : td[n + 1 + i] = rest[i]

\* close() leaves that to do.
LEMMA CloseTodoFacts ==
    ASSUME NEW q \in Seq(Tag), NEW l \in Links, NEW how \in {"RST", "NOTIFY"},
           NEW rest \in Seq(Step)
    PROVE  CloseShape(q, l, rest, Cardinality(Loose(q)), CloseTodo(q, l, how, rest))
  <1> SUFFICES ASSUME NEW n, n = Cardinality(Loose(q)), NEW td, td = CloseTodo(q, l, how, rest)
               PROVE  CloseShape(q, l, rest, n, td)
    OBVIOUS
  <1> DEFINE I == Loose(q)
             s == Keep(q, I)
             u == Resubmits(q)
             x == [do |-> "shut", l |-> l, how |-> how]
  <1>1. \A i \in I : i \in 1..Len(q)
    BY DEF Loose
  <1> HIDE DEF I
  <1>2. /\ s \in Seq(Tag) /\ Len(s) = n /\ n \in Nat
        /\ \A k \in 1..n : s[k] = q[Place(I, k)]
    BY <1>1, KeepFacts DEF I
  <1>3. u = [i \in 1..Len(s) |-> [do |-> "submit", r |-> s[i].r]]
    BY DEF Resubmits, Loose, I
  <1> HIDE DEF s, u
  <1>4. \A i \in 1..n : s[i].r \in Requests
    <2>1. \A i \in 1..n : s[i] \in Tag
      BY <1>2
    <2> QED BY <2>1 DEF Tag
  <1>5. /\ u \in Seq(Step) /\ Len(u) = n
        /\ \A i \in 1..n : u[i] = [do |-> "submit", r |-> q[Place(I, i)].r]
    <2>1. \A i \in 1..n : [do |-> "submit", r |-> s[i].r] \in Step
      BY <1>4 DEF Step
    <2>2. u \in Seq(Step) /\ Len(u) = n
      BY <1>2, <1>3, <2>1
    <2>3. ASSUME NEW i \in 1..n PROVE u[i] = [do |-> "submit", r |-> q[Place(I, i)].r]
      BY <1>2, <1>3
    <2> QED BY <2>2, <2>3
  <1>6. x \in Step
    BY DEF Step
  <1> HIDE DEF x
  <1> DEFINE v == <<x>> \o rest
  <1>7. /\ v \in Seq(Step) /\ Len(v) = 1 + Len(rest) /\ v[1] = x
        /\ \A i \in 1..Len(rest) : v[1 + i] = rest[i]
    BY <1>6
  <1>8. td = u \o v
    BY <1>5, <1>6 DEF CloseTodo, u, x
  <1> HIDE DEF v
  <1>9. /\ td \in Seq(Step) /\ Len(td) = n + 1 + Len(rest)
        /\ \A i \in 1..n : td[i] = u[i]
        /\ \A j \in 1..(1 + Len(rest)) : td[n + j] = v[j]
    <2> USE <1>8
    <2>1. Len(rest) \in Nat /\ Len(u) = n /\ n \in Nat /\ Len(v) = 1 + Len(rest)
      BY <1>2, <1>5, <1>7
    <2>2. td \in Seq(Step) /\ Len(td) = Len(u) + Len(v)
      BY <1>5, <1>7, ConcatProperties
    <2>3. ASSUME NEW i \in 1..n PROVE td[i] = u[i]
      BY <1>5, <1>7, <2>1
    <2>4. ASSUME NEW j \in 1..(1 + Len(rest)) PROVE td[n + j] = v[j]
      BY <1>5, <1>7, <2>1
    <2> QED BY <2>1, <2>2, <2>3, <2>4
  <1>10. /\ Len(rest) \in Nat /\ td[n + 1] = x
         /\ \A i \in 1..Len(rest) : td[n + 1 + i] = rest[i]
    <2>1. ASSUME NEW i \in 1..Len(rest) PROVE td[n + 1 + i] = rest[i]
      <3>1. 1 + i \in 1..(1 + Len(rest)) /\ n + (1 + i) = n + 1 + i
        BY <1>2
      <3> QED BY <1>7, <1>9, <3>1
    <2> QED BY <1>7, <1>9, <2>1
  <1>11. /\ x.do = "shut" /\ x.l = l
         /\ \A i \in 1..n : u[i].do = "submit" /\ u[i].r = q[Place(I, i)].r
    BY <1>5 DEF x
  <1> QED BY <1>2, <1>9, <1>10, <1>11 DEF I, CloseShape

\* A link is at the places of ToShut and ToClose.
LEMMA StepSets ==
    ASSUME NEW td
    PROVE  /\ \A l : l \in ToShut(td) <=> \E i \in 1..Len(td) : td[i].do = "shut" /\ td[i].l = l
           /\ \A l : l \in ToClose(td) <=> \E i \in 1..Len(td) : td[i].do = "close" /\ td[i].l = l
  BY DEF ToShut, ToClose

\* The state of a link whose op_fini was set and uncommitted tags are taken.
Dispersed(k) == [k EXCEPT !.op = @ \cup {"fini"}, !.queue = Keep(@, Commits(@))]

\* It has its committed tags.
LEMMA DispersedFacts ==
    ASSUME NEW k \in LinkState
    PROVE  /\ Dispersed(k) \in LinkState
           /\ Dispersed(k).op = k.op \cup {"fini"} /\ Dispersed(k).sock = k.sock
           /\ Dispersed(k).queue = Keep(k.queue, Commits(k.queue))
  <1>1. k.queue \in Seq(Tag)
    BY DEF LinkState
  <1>2. \A i \in Commits(k.queue) : i \in 1..Len(k.queue)
    BY DEF Commits
  <1>3. Keep(k.queue, Commits(k.queue)) \in Seq(Tag)
    BY <1>1, <1>2, KeepFacts
  <1> QED BY <1>3 DEF Dispersed, LinkState

\* Every tag of a closed link with a request stays, or becomes a step.
LEMMA CloseCarry ==
    ASSUME NEW f \in [Links -> LinkState], NEW l \in Links, NEW how \in {"RST", "NOTIFY"},
           NEW rest \in Seq(Step), NEW rs, CarryInv(f, rest, rs)
    PROVE  CarryInv([f EXCEPT ![l] = Dispersed(f[l])], CloseTodo(f[l].queue, l, how, rest), rs)
  <1> DEFINE q == f[l].queue
             I == Loose(q)
             C == Commits(q)
             n == Cardinality(I)
             f2 == [f EXCEPT ![l] = Dispersed(f[l])]
             td == CloseTodo(q, l, how, rest)
  <1>1. q \in Seq(Tag) /\ f[l] \in LinkState
    BY DEF LinkState
  <1>2. \A i \in I : i \in 1..Len(q)
    BY DEF Loose
  <1>3. \A i \in C : i \in 1..Len(q)
    BY DEF Commits
  <1>4. /\ \A i \in I : q[i].req = "user" /\ ~Committed(q[i])
        /\ \A i \in C : Committed(q[i])
        /\ \A i \in 1..Len(q) : i \in C \/ i \in I \/ q[i].req # "user"
    BY DEF Commits, Loose
  <1>n. CloseShape(q, l, rest, n, td)
    BY <1>1, CloseTodoFacts
  <1> HIDE DEF td, n, q
  <1>5. /\ n \in Nat /\ td \in Seq(Step) /\ Len(td) = n + 1 + Len(rest)
        /\ \A i \in 1..n : td[i].do = "submit" /\ td[i].r = q[Place(I, i)].r
        /\ td[n + 1].do = "shut" /\ td[n + 1].l = l
        /\ \A i \in 1..Len(rest) : td[n + 1 + i] = rest[i]
    BY <1>n DEF CloseShape
  <1>l. Len(rest) \in Nat
    OBVIOUS
  <1>6. /\ \A m \in Links : m # l => f2[m] = f[m]
        /\ f2[l].queue = Keep(q, C)
    BY <1>1, DispersedFacts DEF q
  <1> HIDE DEF f2, C, I
  <1>7. /\ \A i \in 1..n : Place(I, i) \in I
        /\ \A i \in I : \E k \in 1..n : Place(I, k) = i
        /\ \A j, k \in 1..n : Place(I, j) = Place(I, k) => j = k
    <2>1. n = Cardinality(I)
      BY DEF n, I
    <2>2. q \in Seq(Tag) /\ \A i \in I : i \in 1..Len(q)
      BY <1>1, <1>2
    <2> QED BY ONLY <2>1, <2>2, KeepFacts
  <1>8. /\ Len(Keep(q, C)) = Cardinality(C)
        /\ \A k \in 1..Cardinality(C) : Place(C, k) \in C /\ Keep(q, C)[k] = q[Place(C, k)]
        /\ \A i \in C : \E k \in 1..Cardinality(C) : Place(C, k) = i
        /\ \A j, k \in 1..Cardinality(C) : Place(C, j) = Place(C, k) => j = k
    BY <1>1, <1>3, KeepFacts
  <1> SUFFICES ASSUME NEW r \in Requests PROVE Carry(f2, td, rs, r)
    BY CarryEach DEF f2, td, q
  <1>9. Carry(f, rest, rs, r)
    BY CarryEach
  \* Where the new carriers come from.
  <1>10. \A m \in Links : \A i : m # l => (Holds(f2, m, i, r) <=> Holds(f, m, i, r))
    BY <1>6 DEF Holds
  <1>11. ASSUME NEW i, Holds(f2, l, i, r)
         PROVE  i \in 1..Cardinality(C) /\ Place(C, i) \in C /\ Holds(f, l, Place(C, i), r)
    BY <1>3, <1>6, <1>8, <1>11 DEF Holds, q
  <1>12. ASSUME NEW i, Takes(td, i, r)
         PROVE  \/ i \in 1..n /\ Place(I, i) \in I /\ Holds(f, l, Place(I, i), r)
                \/ i - (n + 1) \in 1..Len(rest) /\ Takes(rest, i - (n + 1), r) /\ i \in Nat
    <2>1. i \in 1..(n + 1 + Len(rest)) /\ td[i].do = "submit" /\ td[i].r = r
      BY <1>5, <1>12 DEF Takes
    <2>2. CASE i \in 1..n
      <3>1. td[i].r = q[Place(I, i)].r /\ Place(I, i) \in I
        BY <1>5, <1>7, <2>2
      <3> QED BY <1>2, <1>4, <2>1, <2>2, <3>1 DEF Holds, q
    <2>3. CASE i = n + 1
      BY <1>5, <2>1, <2>3
    <2>4. CASE i > n + 1
      <3>1. i - (n + 1) \in 1..Len(rest) /\ n + 1 + (i - (n + 1)) = i
        BY <1>5, <2>1, <2>4
      <3>2. td[i] = rest[i - (n + 1)]
        BY <1>5, <3>1
      <3> QED BY <2>1, <3>1, <3>2 DEF Takes
    <2> QED BY <1>5, <2>1, <2>2, <2>3, <2>4
  \* Where the old carriers go.
  <1>13. ASSUME NEW i, Holds(f, l, i, r)
         PROVE  (\E j : Holds(f2, l, j, r)) \/ (\E j : Takes(td, j, r))
    <2>1. i \in 1..Len(q) /\ q[i].r = r /\ q[i].req = "user"
      BY <1>13 DEF Holds, q
    <2>2. CASE i \in C
      <3>1. PICK k \in 1..Cardinality(C) : Place(C, k) = i
        BY <1>8, <2>2
      <3>2. Holds(f2, l, k, r)
        BY <1>6, <1>8, <2>1, <3>1 DEF Holds
      <3> QED BY <3>2
    <2>3. CASE i \in I
      <3>1. PICK k \in 1..n : Place(I, k) = i
        BY <1>7, <2>3
      <3>2. Takes(td, k, r)
        BY <1>5, <2>1, <3>1 DEF Takes
      <3> QED BY <3>2
    <2> QED BY <1>4, <2>1, <2>2, <2>3
  <1>14. ASSUME NEW i, Takes(rest, i, r) PROVE Takes(td, n + 1 + i, r)
    BY <1>5, <1>14 DEF Takes
  \* So they are as many as before.
  <1>15. ASSUME NEW m1 \in Links, NEW m2 \in Links, NEW i, NEW j,
                Holds(f2, m1, i, r), Holds(f2, m2, j, r)
         PROVE  m1 = m2 /\ i = j
    <2>1. CASE m1 = l /\ m2 = l
      BY <1>8, <1>9, <1>11, <1>15, <2>1 DEF Carry
    <2>2. CASE m1 # l \/ m2 # l
      BY <1>9, <1>10, <1>11, <1>15, <2>2 DEF Carry
    <2> QED BY <2>1, <2>2
  <1>16. ASSUME NEW i, NEW j, Takes(td, i, r), Takes(td, j, r) PROVE i = j
    <2>1. CASE i \in 1..n /\ j \in 1..n
      BY <1>5, <1>7, <1>9, <1>12, <1>16, <2>1 DEF Carry
    <2>2. CASE i \notin 1..n \/ j \notin 1..n
      <3>1. /\ i - (n + 1) \in 1..Len(rest) /\ j - (n + 1) \in 1..Len(rest)
            /\ i - (n + 1) = j - (n + 1) /\ i \in Nat /\ j \in Nat
        BY <1>9, <1>12, <1>16, <2>2 DEF Carry
      <3> QED BY <1>5, <3>1
    <2> QED BY <2>1, <2>2
  <1>17. ASSUME NEW m \in Links, NEW i, NEW j, Holds(f2, m, i, r), Takes(td, j, r)
         PROVE  FALSE
    <2>1. \E x : Holds(f, m, x, r) /\ (m = l => x \in C)
      BY <1>10, <1>11, <1>17
    <2> QED BY <1>4, <1>9, <1>12, <1>17, <2>1 DEF Carry
  <1>18. rs[r] = "pending" <=> \/ \E m \in Links : \E i : Holds(f2, m, i, r)
                               \/ \E i : Takes(td, i, r)
    BY <1>9, <1>10, <1>11, <1>12, <1>13, <1>14 DEF Carry
  <1> QED BY <1>15, <1>16, <1>17, <1>18 DEF Carry

\* Closing link l of a handler that is not about to do something to it keeps the
\* invariant; it need not hold of l itself, whose flag and tags are set.
LEMMA CloseInv ==
    ASSUME NEW ls \in Seq(Links), NEW f \in [Links -> LinkState], NEW rest \in Seq(Step),
           NEW p \in BOOLEAN, NEW rs, NEW l \in Range(ls), NEW how \in {"RST", "NOTIFY"},
           LinksInv(ls, f), StepsInv(ls, f, rest, p), CarryInv(f, rest, rs),
           \A i \in 1..Len(rest) :
                rest[i].do # "submit" => rest[i].do # "read" /\ rest[i].l # l,
           \A m \in Links : m # l => FiniAt(m, f[m], rest) /\ PipeAt(m, f[m], rest)
    PROVE  HandlerInv(ls, [f EXCEPT ![l] = Dispersed(f[l])],
                      CloseTodo(f[l].queue, l, how, rest), p, rs)
  <1> DEFINE q == f[l].queue
             n == Cardinality(Loose(q))
             f2 == [f EXCEPT ![l] = Dispersed(f[l])]
             td == CloseTodo(q, l, how, rest)
  <1>1. l \in Links /\ q \in Seq(Tag) /\ f[l] \in LinkState
    BY DEF LinkState, Range
  <1>r. \A m \in Range(ls) : m \in Links
    BY DEF Range
  <1>2. CloseShape(q, l, rest, n, td)
    BY <1>1, CloseTodoFacts
  <1>3. CarryInv(f2, td, rs)
    BY <1>1, CloseCarry
  <1>4. /\ f2 \in [Links -> LinkState] /\ "fini" \in f2[l].op /\ f2[l].sock = f[l].sock
        /\ \A m \in Links : m # l => f2[m] = f[m]
    BY <1>1, DispersedFacts
  <1> HIDE DEF q, n, f2, td
  <1>5. /\ n \in Nat /\ Len(rest) \in Nat /\ td \in Seq(Step) /\ Len(td) = n + 1 + Len(rest)
        /\ \A i \in 1..n : td[i].do = "submit"
        /\ td[n + 1].do = "shut" /\ td[n + 1].l = l
        /\ \A i \in 1..Len(rest) : td[n + 1 + i] = rest[i]
    BY <1>2 DEF CloseShape
  <1>6. ASSUME NEW i \in 1..Len(td), td[i].do # "submit"
        PROVE  \/ i = n + 1 /\ td[i].do = "shut" /\ td[i].l = l
               \/ /\ i - (n + 1) \in 1..Len(rest) /\ td[i] = rest[i - (n + 1)]
                  /\ td[i].do # "read" /\ td[i].l # l
    <2>1. i \notin 1..n
      BY <1>5, <1>6
    <2>2. CASE i = n + 1
      BY <1>5, <2>2
    <2>3. CASE i # n + 1
      <3>1. i - (n + 1) \in 1..Len(rest) /\ n + 1 + (i - (n + 1)) = i
        BY <1>5, <2>1, <2>3
      <3>2. td[i] = rest[i - (n + 1)]
        BY <1>5, <3>1
      <3> QED BY <1>6, <3>1, <3>2
    <2> QED BY <2>2, <2>3
  <1>7. LinksInv(ls, f2)
    BY <1>1, <1>4 DEF LinksInv
  <1>8. StepsInv(ls, f2, td, p)
    <2>1. ASSUME NEW i \in 1..Len(td), td[i].do # "submit"
          PROVE  /\ td[i].l \in Range(ls)
                 /\ td[i].do = "shut" => "fini" \in f2[td[i].l].op
                 /\ td[i].do = "close" => p
                 /\ td[i].do # "read"
      <3>1. CASE i = n + 1 /\ td[i].do = "shut" /\ td[i].l = l
        BY <1>4, <3>1
      <3>2. CASE /\ i - (n + 1) \in 1..Len(rest) /\ td[i] = rest[i - (n + 1)]
                 /\ td[i].do # "read" /\ td[i].l # l
        <4>1. /\ td[i].l \in Range(ls)
              /\ td[i].do = "close" => p
              /\ td[i].do = "shut" => "fini" \in f[td[i].l].op
          BY <2>1, <3>2 DEF StepsInv
        <4>2. td[i].l \in Links
          BY <1>r, <4>1
        <4>3. td[i].do = "shut" => "fini" \in f2[td[i].l].op
          BY <1>4, <3>2, <4>1, <4>2
        <4> QED BY <3>2, <4>1, <4>3
      <3> QED BY <1>6, <2>1, <3>1, <3>2
    <2>2. ASSUME NEW i \in 1..Len(td), NEW j \in 1..Len(td), td[i].do # "submit",
                 td[j].do # "submit", td[i].l = td[j].l
          PROVE  i = j
      <3>1. CASE i = n + 1 \/ j = n + 1
        BY <1>6, <2>2, <3>1
      <3>2. CASE i # n + 1 /\ j # n + 1
        <4>1. /\ i - (n + 1) \in 1..Len(rest) /\ td[i] = rest[i - (n + 1)]
              /\ j - (n + 1) \in 1..Len(rest) /\ td[j] = rest[j - (n + 1)]
          BY <1>6, <2>2, <3>2
        <4>2. i - (n + 1) = j - (n + 1)
          BY <2>2, <4>1 DEF StepsInv
        <4> QED BY <1>5, <4>2
      <3> QED BY <3>1, <3>2
    <2> QED BY <2>1, <2>2 DEF StepsInv
  <1>9. ToShut(td) = ToShut(rest) \cup {l} /\ ToClose(td) = ToClose(rest)
    <2>1. ASSUME NEW i \in 1..Len(rest)
          PROVE  n + 1 + i \in 1..Len(td) /\ td[n + 1 + i] = rest[i]
      BY <1>5
    <2>2. n + 1 \in 1..Len(td)
      BY <1>5
    <2>3. ASSUME NEW i \in 1..Len(td), td[i].do # "submit"
          PROVE  \/ td[i].do = "shut" /\ td[i].l = l
                 \/ \E j \in 1..Len(rest) : td[i] = rest[j]
      BY <1>6, <2>3
    <2>4. ASSUME NEW m \in ToShut(td) PROVE m \in ToShut(rest) \cup {l}
      <3>1. PICK i \in 1..Len(td) : td[i].do = "shut" /\ td[i].l = m
        BY StepSets
      <3> QED BY <2>3, <3>1, StepSets
    <2>5. ASSUME NEW m \in ToClose(td) PROVE m \in ToClose(rest)
      <3>1. PICK i \in 1..Len(td) : td[i].do = "close" /\ td[i].l = m
        BY StepSets
      <3> QED BY <2>3, <3>1, StepSets
    <2>6. ASSUME NEW m \in ToShut(rest) \cup {l} PROVE m \in ToShut(td)
      <3>1. CASE m = l
        BY <1>5, <2>2, <3>1, StepSets
      <3>2. CASE m # l
        <4>1. PICK i \in 1..Len(rest) : rest[i].do = "shut" /\ rest[i].l = m
          BY <3>2, StepSets
        <4> QED BY <2>1, <4>1, StepSets
      <3> QED BY <3>1, <3>2
    <2>7. ASSUME NEW m \in ToClose(rest) PROVE m \in ToClose(td)
      <3>1. PICK i \in 1..Len(rest) : rest[i].do = "close" /\ rest[i].l = m
        BY StepSets
      <3> QED BY <2>1, <3>1, StepSets
    <2> QED BY <2>4, <2>5, <2>6, <2>7
  <1>10. FiniInv(f2, td)
    BY <1>4, <1>9 DEF FiniInv, FiniAt
  <1>11. PipesInv(f2, td)
    BY <1>4, <1>9 DEF PipesInv, PipeAt
  <1> QED BY <1>3, <1>4, <1>5, <1>7, <1>8, <1>10, <1>11 DEF HandlerInv, f2, td, q

-----------------------------------------------------------------------------
(***************************************************************************)
(* Pipes.                                                                  *)
(***************************************************************************)

\* Numbers for the lengths of a link.
LEMMA OwedSum ==
    ASSUME NEW k, NEW b \in Nat, NEW x \in Nat, Len(k.inbox) = b, Len(k.wire) = x
    PROVE  Owed(k) = b + x /\ Owed(k) \in Nat
  BY DEF Owed

\* The types of the parts of a link.
LEMMA LinkParts ==
    ASSUME NEW k \in LinkState
    PROVE  /\ k.queue \in Seq(Tag) /\ Len(k.queue) \in Nat
           /\ k.wire \in Seq(Requests) /\ Len(k.wire) \in Nat
           /\ k.inbox \in Seq(Seq(Requests) \ {<<>>}) /\ Len(k.inbox) \in Nat
           /\ Owed(k) \in Nat
  <1>1. k.queue \in Seq(Tag) /\ Len(k.queue) \in Nat
    BY DEF LinkState
  <1>2. k.wire \in Seq(Requests) /\ Len(k.wire) \in Nat
    BY DEF LinkState
  <1>3. k.inbox \in Seq(Seq(Requests) \ {<<>>}) /\ Len(k.inbox) \in Nat
    BY DEF LinkState
  <1>4. Owed(k) \in Nat
    <2>1. Len(k.wire) \in Nat /\ Len(k.inbox) \in Nat
      BY <1>2, <1>3
    <2> QED BY <2>1, OwedSum
  <1> QED BY <1>1, <1>2, <1>3, <1>4

\* A pipe is determined by the committed tags in front of the queue.
LEMMA PipePrefix ==
    ASSUME NEW k \in LinkState, NEW k2 \in LinkState, PipeInv(k),
           k2.inbox = k.inbox, k2.wire = k.wire, NEW c \in Nat,
           c <= Len(k.queue), c <= Len(k2.queue),
           \A i \in 1..c : k2.queue[i].w = k.queue[i].w /\ k2.queue[i].r = k.queue[i].r,
           \A i \in 1..Len(k.queue) : i > c => ~Committed(k.queue[i]),
           \A i \in 1..Len(k2.queue) : i > c => ~Committed(k2.queue[i])
    PROVE  PipeInv(k2)
  <1> DEFINE q == k.queue
             q2 == k2.queue
             m == Owed(k)
  <1>1. Len(q) \in Nat /\ Len(q2) \in Nat /\ m \in Nat
    BY LinkParts
  <1>2. Owed(k2) = m /\ \A i : Owner(k2, i) = Owner(k, i)
    BY DEF Owed, Owner
  <1>3. \A i \in 1..c : i \in 1..Len(q) /\ i \in 1..Len(q2)
    BY <1>1
  <1>4. \A i \in 1..Len(q2) : Committed(q2[i]) => i \in 1..c /\ Committed(q[i])
    BY <1>1 DEF Committed
  <1>5. \A i, j \in 1..Len(q2) : i < j /\ Committed(q2[j]) => q2[i].w = "all"
    <2> SUFFICES ASSUME NEW i \in 1..Len(q2), NEW j \in 1..Len(q2), i < j, Committed(q2[j])
                 PROVE  q2[i].w = "all"
      OBVIOUS
    <2>1. i \in 1..c /\ i \in 1..Len(q) /\ j \in 1..Len(q) /\ Committed(q[j])
      BY <1>1, <1>3, <1>4
    <2>2. q[i].w = "all"
      BY <2>1 DEF PipeInv
    <2> QED BY <2>1, <2>2
  <1>6. \A i \in 1..Len(q2) : Committed(q2[i]) => i <= CommitMax
    BY <1>3, <1>4 DEF PipeInv
  <1>7. ASSUME NEW i \in 1..m PROVE i <= Len(q2) /\ q2[i].w = "all"
    <2>1. i \in 1..Len(q) /\ q[i].w = "all"
      BY <1>1 DEF PipeInv
    <2>2. i \in 1..c
      BY <2>1 DEF Committed
    <2> QED BY <1>1, <1>3, <2>1, <2>2
  <1>8. ASSUME ~Coalesce, NEW i \in 1..Len(q2), q2[i].w = "all"
        PROVE  i <= m /\ q2[i].r = Owner(k, i)
    <2>1. i \in 1..c /\ i \in 1..Len(q) /\ q[i].w = "all" /\ q2[i].r = q[i].r
      BY <1>3, <1>4, <1>8 DEF Committed
    <2> QED BY <1>8, <2>1 DEF PipeInv
  <1>9. ~Coalesce => \A i \in 1..Len(k2.inbox) : Len(k2.inbox[i]) = 1
    BY DEF PipeInv
  <1> QED BY <1>2, <1>5, <1>6, <1>7, <1>8, <1>9 DEF PipeInv

\* The commits are in front of the queue, and not too many.
LEMMA PipeCommits ==
    ASSUME NEW k \in LinkState, PipeInv(k)
    PROVE  /\ Commits(k.queue) = 1..TagCommitted(k.queue)
           /\ TagCommitted(k.queue) \in Nat /\ TagCommitted(k.queue) <= Len(k.queue)
           /\ TagCommitted(k.queue) <= CommitMax
  <1> DEFINE q == k.queue
             C == Commits(q)
  <1>1. Len(q) \in Nat /\ CommitMax \in Nat
    BY LinkParts, ServerAssumption
  <1>2. \A j \in C : j \in 1..Len(q)
    BY DEF Commits
  <1>3. \A i \in 1..Len(q), j \in C : i < j => i \in C
    BY DEF Commits, PipeInv, Committed
  <1>4. C = 1..Cardinality(C) /\ Cardinality(C) \in 0..Len(q)
    <2> HIDE DEF C
    <2> QED BY <1>1, <1>2, <1>3, PrefixCard
  <1>5. \A i \in C : i <= CommitMax
    BY DEF Commits, PipeInv
  <1>6. Cardinality(C) <= CommitMax
    <2> HIDE DEF C
    <2>1. CASE Cardinality(C) = 0
      BY <1>1, <2>1
    <2>2. CASE Cardinality(C) # 0
      BY <1>4, <1>5, <2>2
    <2> QED BY <2>1, <2>2
  <1> QED BY <1>1, <1>4, <1>6 DEF TagCommitted

\* Dropping tags that are not committed leaves the pipe as it is.
LEMMA PipeKeep ==
    ASSUME NEW k \in LinkState, PipeInv(k), NEW I, \A i \in I : i \in 1..Len(k.queue),
           \A i \in Commits(k.queue) : i \in I,
           NEW k2 \in LinkState, k2.inbox = k.inbox, k2.wire = k.wire,
           k2.queue = Keep(k.queue, I)
    PROVE  PipeInv(k2)
  <1> DEFINE q == k.queue
             c == TagCommitted(q)
  <1>1. q \in Seq(Tag) /\ Len(q) \in Nat
    BY LinkParts
  <1>2. Commits(q) = 1..c /\ c \in Nat /\ c <= Len(q)
    BY PipeCommits
  <1> HIDE DEF c
  <1>3. 1..c \subseteq I
    BY <1>2
  <1>4. /\ Len(k2.queue) = Cardinality(I) /\ Cardinality(I) \in Nat
        /\ \A i \in 1..Cardinality(I) : Place(I, i) \in I /\ k2.queue[i] = q[Place(I, i)]
    BY <1>1, KeepFacts
  <1>5. /\ c <= Cardinality(I)
        /\ \A i \in 1..c : k2.queue[i] = q[i]
        /\ \A i \in 1..Cardinality(I) : i > c => Place(I, i) > c
    BY <1>1, <1>2, <1>3, KeepFront
  <1>6. \A i \in 1..Len(q) : i > c => ~Committed(q[i])
    BY <1>2 DEF Commits
  <1>7. \A i \in 1..Len(k2.queue) : i > c => ~Committed(k2.queue[i])
    BY <1>4, <1>5, <1>6
  <1> QED BY <1>2, <1>4, <1>5, <1>6, <1>7, PipePrefix

\* The response in front is to the tag in front, which is written.
LEMMA PipeFront ==
    ASSUME NEW k \in LinkState, PipeInv(k), k.inbox # <<>>
    PROVE  /\ 1 \in 1..Len(k.queue) /\ k.queue # <<>> /\ k.queue[1].w = "all"
           /\ ~Coalesce => Len(k.inbox[1]) = 1 /\ k.queue[1].r = k.inbox[1][1]
  <1>1. Len(k.inbox) >= 1 /\ Len(k.inbox) \in Nat /\ Len(k.queue) \in Nat
    BY LinkParts
  <1>2. Owed(k) >= 1 /\ Owed(k) \in Nat
    <2>1. PICK b \in Nat, x \in Nat : Len(k.inbox) = b /\ Len(k.wire) = x
      BY LinkParts
    <2> QED BY <1>1, <2>1, OwedSum
  <1>3. 1 \in 1..Len(k.queue) /\ k.queue[1].w = "all"
    BY <1>1, <1>2 DEF PipeInv
  <1>4. k.queue # <<>>
    BY <1>3
  <1>5. ASSUME ~Coalesce PROVE Len(k.inbox[1]) = 1 /\ k.queue[1].r = k.inbox[1][1]
    BY <1>1, <1>3, <1>5 DEF PipeInv, Owner
  <1> QED BY <1>3, <1>4, <1>5

\* Both are popped together.
LEMMA PipePop ==
    ASSUME NEW k \in LinkState, PipeInv(k), k.inbox # <<>>
    PROVE  Pop(k) \in LinkState /\ PipeInv(Pop(k))
  <1> DEFINE q == k.queue
             b == k.inbox
             k2 == Pop(k)
  <1>1. /\ q \in Seq(Tag) /\ Len(q) \in Nat /\ q # <<>>
        /\ b \in Seq(Seq(Requests) \ {<<>>}) /\ Len(b) \in Nat /\ Owed(k) \in Nat
        /\ Len(k.wire) \in Nat
    BY LinkParts, PipeFront
  <1>2. /\ Tail(q) \in Seq(Tag) /\ Len(Tail(q)) = Len(q) - 1
        /\ \A i \in 1..(Len(q) - 1) : Tail(q)[i] = q[i + 1]
    BY <1>1
  <1>3. /\ Tail(b) \in Seq(Seq(Requests) \ {<<>>}) /\ Len(Tail(b)) = Len(b) - 1
        /\ \A i \in 1..(Len(b) - 1) : Tail(b)[i] = b[i + 1]
    BY <1>1
  <1>4. k2.queue = Tail(q) /\ k2.inbox = Tail(b) /\ k2.wire = k.wire /\ k2 \in LinkState
    BY <1>2, <1>3 DEF Pop, LinkState
  <1> HIDE DEF k2
  <1>5. PICK nb \in Nat, nx \in Nat :
            /\ Len(b) = nb /\ Len(k.wire) = nx /\ nb >= 1 /\ Len(k2.inbox) = nb - 1
            /\ Owed(k) = nb + nx /\ Owed(k2) = Owed(k) - 1
    <2>1. PICK nb \in Nat, nx \in Nat : Len(b) = nb /\ Len(k.wire) = nx
      BY <1>1
    <2>2. nb >= 1 /\ nb - 1 \in Nat
      BY <1>1, <2>1
    <2>3. Len(k2.inbox) = nb - 1 /\ Len(k2.wire) = nx
      BY <1>3, <1>4, <2>1
    <2>4. Owed(k) = nb + nx /\ Owed(k2) = (nb - 1) + nx
      BY <2>1, <2>2, <2>3, OwedSum
    <2> QED BY <2>1, <2>2, <2>3, <2>4
  <1>6. ASSUME NEW i \in 1..(Len(q) - 1) PROVE i + 1 \in 1..Len(q) /\ k2.queue[i] = q[i + 1]
    BY <1>1, <1>2, <1>4
  <1>7. ASSUME NEW i \in 1..Owed(k2) PROVE Owner(k2, i) = Owner(k, i + 1)
    <2>1. CASE i <= nb - 1
      BY <1>1, <1>3, <1>4, <1>5, <2>1 DEF Owner
    <2>2. CASE ~(i <= nb - 1)
      <3>1. i - Len(k2.inbox) = (i + 1) - Len(b) /\ ~(i + 1 <= Len(b)) /\ ~(i <= Len(k2.inbox))
        BY <1>5, <2>2
      <3> QED BY <1>4, <3>1 DEF Owner
    <2> QED BY <2>1, <2>2
  <1>8. Len(k2.queue) = Len(q) - 1
    BY <1>2, <1>4
  <1>9. ASSUME NEW i \in 1..Len(k2.queue), NEW j \in 1..Len(k2.queue), i < j,
               Committed(k2.queue[j])
        PROVE  k2.queue[i].w = "all"
    <2>1. i + 1 < j + 1
      BY <1>1, <1>8, <1>9
    <2> QED BY <1>6, <1>8, <1>9, <2>1 DEF PipeInv
  <1>10. ASSUME NEW i \in 1..Len(k2.queue), Committed(k2.queue[i]) PROVE i <= CommitMax
    <2>1. i + 1 <= CommitMax
      BY <1>6, <1>8, <1>10 DEF PipeInv
    <2> QED BY <1>1, <1>8, <2>1, ServerAssumption
  <1>11. ASSUME NEW i \in 1..Owed(k2) PROVE i <= Len(k2.queue) /\ k2.queue[i].w = "all"
    <2>1. i + 1 \in 1..Owed(k)
      BY <1>1, <1>5
    <2>2. i + 1 <= Len(q) /\ q[i + 1].w = "all"
      BY <2>1 DEF PipeInv
    <2>3. i \in 1..(Len(q) - 1)
      BY <1>1, <1>5, <2>2
    <2> QED BY <1>6, <1>8, <2>2, <2>3
  <1>12. ASSUME ~Coalesce
         PROVE  /\ \A i \in 1..Len(k2.inbox) : Len(k2.inbox[i]) = 1
                /\ \A i \in 1..Len(k2.queue) : k2.queue[i].w = "all" =>
                        i <= Owed(k2) /\ k2.queue[i].r = Owner(k2, i)
    <2>1. \A i \in 1..Len(k2.inbox) : Len(k2.inbox[i]) = 1
      BY <1>1, <1>3, <1>4, <1>12 DEF PipeInv
    <2>2. ASSUME NEW i \in 1..Len(k2.queue), k2.queue[i].w = "all"
          PROVE  i <= Owed(k2) /\ k2.queue[i].r = Owner(k2, i)
      <3>1. i + 1 <= Owed(k) /\ k2.queue[i].r = Owner(k, i + 1)
        BY <1>6, <1>8, <1>12, <2>2 DEF PipeInv
      <3>2. i \in 1..Owed(k2)
        BY <1>1, <1>5, <1>8, <3>1
      <3> QED BY <1>7, <3>1, <3>2
    <2> QED BY <2>1, <2>2
  <1> QED BY <1>4, <1>9, <1>10, <1>11, <1>12 DEF PipeInv, k2

\* A response in a record of its own is owed as before.
LEMMA PipeAnswer ==
    ASSUME NEW k \in LinkState, PipeInv(k), k.wire # <<>>,
           NEW k2, k2 = [k EXCEPT !.wire = Tail(@), !.inbox = Append(@, <<Head(k.wire)>>)]
    PROVE  k2 \in LinkState /\ PipeInv(k2)
  <1> DEFINE b == k.inbox
             x == k.wire
             y == <<Head(x)>>
  <1>1. /\ b \in Seq(Seq(Requests) \ {<<>>}) /\ Len(b) \in Nat
        /\ x \in Seq(Requests) /\ Len(x) \in Nat
    BY LinkParts
  <1>2. y \in Seq(Requests) \ {<<>>} /\ Len(y) = 1 /\ y[1] = x[1]
    BY <1>1
  <1>3. /\ Tail(x) \in Seq(Requests) /\ Len(Tail(x)) = Len(x) - 1
        /\ \A i \in 1..(Len(x) - 1) : Tail(x)[i] = x[i + 1]
    BY <1>1
  <1> HIDE DEF y
  <1>4. /\ Append(b, y) \in Seq(Seq(Requests) \ {<<>>}) /\ Len(Append(b, y)) = Len(b) + 1
        /\ \A i \in 1..Len(b) : Append(b, y)[i] = b[i]
        /\ Append(b, y)[Len(b) + 1] = y
    BY <1>1, <1>2, AppendProperties
  <1>5. k2 = [k EXCEPT !.wire = Tail(x), !.inbox = Append(b, y)]
    BY DEF y
  <1>6. /\ k2 \in LinkState /\ k2.queue = k.queue
        /\ k2.wire = Tail(x) /\ k2.inbox = Append(b, y)
    BY <1>3, <1>4, <1>5 DEF LinkState
  <1>7. PICK nb \in Nat, nx \in Nat :
            /\ Len(b) = nb /\ Len(x) = nx /\ nx >= 1 /\ Len(k2.inbox) = nb + 1
            /\ Owed(k) = nb + nx /\ Owed(k2) = Owed(k)
    <2>1. PICK nb \in Nat, nx \in Nat : Len(b) = nb /\ Len(x) = nx
      BY <1>1
    <2>2. nx >= 1 /\ nx - 1 \in Nat /\ nb + 1 \in Nat
      BY <1>1, <2>1
    <2>3. Len(k2.inbox) = nb + 1 /\ Len(k2.wire) = nx - 1
      BY <1>3, <1>4, <1>6, <2>1
    <2>4. Owed(k) = nb + nx /\ Owed(k2) = (nb + 1) + (nx - 1)
      BY <2>1, <2>2, <2>3, OwedSum, ZenonT(40)
    <2> QED BY <2>1, <2>2, <2>3, <2>4
  <1>8. ASSUME NEW i \in 1..Owed(k) PROVE Owner(k2, i) = Owner(k, i)
    <2>0. i <= nb + nx /\ i \in Nat /\ Len(k2.inbox) = nb + 1
      BY <1>7
    <2>1. CASE i <= nb
      BY <1>4, <1>6, <1>7, <2>0, <2>1 DEF Owner
    <2>2. CASE i = nb + 1
      <3>1. i <= Len(k2.inbox) /\ ~(i <= Len(b)) /\ i - Len(b) = 1
        BY <1>7, <2>0, <2>2
      <3> QED BY <1>2, <1>4, <1>6, <1>7, <2>2, <3>1 DEF Owner
    <2>3. CASE i > nb + 1
      <3>1. /\ i - Len(k2.inbox) \in 1..(Len(x) - 1) /\ (i - Len(k2.inbox)) + 1 = i - Len(b)
            /\ ~(i <= Len(k2.inbox)) /\ ~(i <= Len(b))
        BY <1>7, <2>0, <2>3
      <3> QED BY <1>3, <1>6, <3>1 DEF Owner
    <2> QED BY <1>7, <2>0, <2>1, <2>2, <2>3
  <1>9. ~Coalesce => \A i \in 1..Len(k2.inbox) : Len(k2.inbox[i]) = 1
    <2>1. ASSUME ~Coalesce, NEW i \in 1..Len(k2.inbox) PROVE Len(k2.inbox[i]) = 1
      <3>1. CASE i \in 1..Len(b)
        BY <1>4, <1>6, <2>1, <3>1 DEF PipeInv
      <3>2. CASE i = Len(b) + 1
        BY <1>2, <1>4, <1>6, <3>2
      <3> QED BY <1>1, <1>4, <1>6, <3>1, <3>2
    <2> QED BY <2>1
  <1>10. ASSUME ~Coalesce, NEW i \in 1..Len(k.queue), k.queue[i].w = "all"
         PROVE  i <= Owed(k) /\ k.queue[i].r = Owner(k2, i)
    <2>1. i <= Owed(k) /\ k.queue[i].r = Owner(k, i)
      BY <1>10 DEF PipeInv
    <2>2. i \in 1..Owed(k)
      BY <2>1, LinkParts
    <2> QED BY <1>8, <2>1, <2>2
  <1> QED BY <1>6, <1>7, <1>9, <1>10 DEF PipeInv

\* The last record with another response at its end.
LEMMA CoalesceType ==
    ASSUME NEW S, S = Seq(Requests) \ {<<>>}, NEW b \in Seq(S), b # <<>>, NEW r \in Requests
    PROVE  /\ [b EXCEPT ![Len(b)] = Append(b[Len(b)], r)] \in Seq(S)
           /\ Len([b EXCEPT ![Len(b)] = Append(b[Len(b)], r)]) = Len(b)
  <1> DEFINE n == Len(b)
             y == Append(b[n], r)
  <1>1. n \in Nat /\ n \in 1..n
    OBVIOUS
  <1>2. b[n] \in Seq(Requests)
    BY <1>1
  <1>3. y \in Seq(Requests) /\ y # <<>>
    BY <1>2, AppendProperties
  <1>4. y \in S
    BY <1>3, Zenon
  <1> HIDE DEF y
  <1>5. [b EXCEPT ![n] = y] \in Seq(S) /\ Len([b EXCEPT ![n] = y]) = n
    BY <1>1, <1>4, ExceptSeq
  <1> QED BY <1>5 DEF y

\* A response at the end of the record before it: one record less is owed.
LEMMA PipeCoalesce ==
    ASSUME NEW k \in LinkState, PipeInv(k), k.wire # <<>>, k.inbox # <<>>, Coalesce,
           NEW b \in Seq(Seq(Requests) \ {<<>>}), Len(b) = Len(k.inbox),
           NEW k2, k2 = [k EXCEPT !.wire = Tail(@), !.inbox = b]
    PROVE  k2 \in LinkState /\ PipeInv(k2)
  <1> DEFINE x == k.wire
  <1>1. Len(k.inbox) \in Nat /\ x \in Seq(Requests) /\ Len(x) \in Nat
    BY LinkParts
  <1>2. Tail(x) \in Seq(Requests) /\ Len(Tail(x)) = Len(x) - 1
    BY <1>1
  <1>3. k2 \in LinkState /\ k2.queue = k.queue /\ k2.wire = Tail(x) /\ k2.inbox = b
    BY <1>2 DEF LinkState
  <1>4. Owed(k2) \in Nat /\ Owed(k) \in Nat /\ Owed(k2) <= Owed(k)
    <2>1. PICK nb \in Nat, nx \in Nat : Len(k.inbox) = nb /\ Len(x) = nx
      BY <1>1
    <2>2. nx - 1 \in Nat
      BY <1>1, <2>1
    <2>3. Len(k2.inbox) = nb /\ Len(k2.wire) = nx - 1
      BY <1>2, <1>3, <2>1
    <2>4. /\ Owed(k) = nb + nx /\ Owed(k2) = nb + (nx - 1)
          /\ Owed(k) \in Nat /\ Owed(k2) \in Nat
      BY <2>1, <2>2, <2>3, OwedSum
    <2>5. nb + (nx - 1) <= nb + nx
      OBVIOUS
    <2> QED BY <2>4, <2>5
  <1>5. \A i \in 1..Owed(k2) : i \in 1..Owed(k)
    BY <1>4
  <1> QED BY <1>3, <1>5 DEF PipeInv

\* The entries of an interval.
LEMMA KeepInterval ==
    ASSUME NEW S, NEW q \in Seq(S), NEW a \in Nat, NEW n \in Nat, a <= n, n <= Len(q),
           NEW I, I = (a + 1)..n
    PROVE  /\ Cardinality(I) = n - a
           /\ \A j \in 1..(n - a) : Keep(q, I)[j] = q[a + j]
  <1>1. Len(q) \in Nat /\ \A i \in I : i \in 1..Len(q)
    OBVIOUS
  <1>2. Cardinality(I) = n - a
    <2>1. Cardinality((a + 1)..n) = IF a + 1 > n THEN 0 ELSE n - (a + 1) + 1
      BY FS_Interval
    <2>2. CASE a + 1 > n
      BY <2>1, <2>2
    <2>3. CASE ~(a + 1 > n)
      BY <2>1, <2>3
    <2> QED BY <2>2, <2>3
  <1>3. ASSUME NEW j \in 1..(n - a) PROVE Place(I, j) = a + j
    <2>1. a + j \in I /\ {i \in I : i <= a + j} = (a + 1)..(a + j)
      OBVIOUS
    <2>2. Cardinality((a + 1)..(a + j)) = j
      BY FS_Interval
    <2>3. Rank(I, a + j) = j
      BY <2>1, <2>2 DEF Rank
    <2>4. Place(I, Rank(I, a + j)) = a + j
      BY <1>1, <2>1, PlaceFacts
    <2> QED BY <2>3, <2>4
  <1>4. \A j \in 1..(n - a) : Keep(q, I)[j] = q[Place(I, j)]
    BY <1>1, <1>2, KeepFacts
  <1> QED BY <1>2, <1>3, <1>4

\* A queue with a commits in front that is written to keeps its shape: the tags
\* up to d are sent, those the remote did not have are behind the a first.
LEMMA WriteShape ==
    ASSUME NEW k \in LinkState, PipeInv(k), NEW q, q = k.queue,
           NEW n \in 0..Reach(q), n < Reach(q) => q[n + 1].w = "none",
           NEW v, v = Wrote(q, n)
    PROVE  /\ v \in Seq(Tag) /\ Len(v) = Len(q) /\ n <= Len(q)
           /\ \A i \in 1..Len(q) : v[i].r = q[i].r /\ v[i].req = q[i].req
           /\ \A i \in 1..Len(q) : q[i].w = "all" => v[i].w = "all"
           /\ \A i \in 1..n : v[i].w = "all"
           /\ \A i \in 1..Len(q) : v[i].w = "all" => q[i].w = "all" \/ i <= n
           /\ \A i, j \in 1..Len(v) : i < j /\ Committed(v[j]) => v[i].w = "all"
           /\ \A i \in 1..Len(v) : Committed(v[i]) => i <= CommitMax
  <1> DEFINE c == TagCommitted(q)
             R == Reach(q)
  <1>1. /\ q \in Seq(Tag) /\ Len(q) \in Nat
        /\ CommitMax \in Nat /\ CommitMax >= 1
    BY LinkParts, ServerAssumption
  <1>2. /\ \A i \in 1..Len(q) : Committed(q[i]) <=> i <= c
        /\ c \in Nat /\ c <= Len(q) /\ c <= CommitMax
    <2>1. /\ Commits(q) = 1..c /\ c \in Nat /\ c <= Len(q) /\ c <= CommitMax
      BY PipeCommits
    <2> HIDE DEF c
    <2> QED BY <2>1 DEF Commits
  <1>3. /\ \A i, j \in 1..Len(q) : i < j /\ Committed(q[j]) => q[i].w = "all"
    BY DEF PipeInv
  <1>4. R = IF c >= CommitMax THEN 1 ELSE IF Len(q) < CommitMax THEN Len(q) ELSE CommitMax
    BY DEF Reach
  <1> HIDE DEF c, R
  <1>5. R \in Nat /\ R <= Len(q) /\ R <= CommitMax /\ n \in Nat /\ n <= R
    BY <1>1, <1>2, <1>4 DEF R
  <1>6. ASSUME NEW i \in 1..Len(q)
        PROVE  /\ v[i] \in Tag /\ v[i].r = q[i].r /\ v[i].req = q[i].req
               /\ v[i].w = IF i <= n THEN "all"
                           ELSE IF n < R /\ i = n + 1 THEN "part" ELSE q[i].w
    <2>1. q[i] \in Tag
      BY <1>1
    <2>2. v[i] = [q[i] EXCEPT !.w = IF i <= n THEN "all"
                    ELSE IF i \in IF n < R THEN {n + 1} ELSE {} THEN "part" ELSE @]
      BY <1>1 DEF Wrote, R
    <2>3. (i \in IF n < R THEN {n + 1} ELSE {}) <=> (n < R /\ i = n + 1)
      OBVIOUS
    <2> QED BY <2>1, <2>2, <2>3 DEF Tag
  <1>7. v \in Seq(Tag) /\ Len(v) = Len(q)
    <2> DEFINE B(i) == [q[i] EXCEPT !.w = IF i <= n THEN "all"
                    ELSE IF i \in IF n < Reach(q) THEN {n + 1} ELSE {} THEN "part" ELSE @]
    <2>1. v = [i \in 1..Len(q) |-> B(i)]
      BY DEF Wrote
    <2> HIDE DEF B
    <2>2. \A i \in 1..Len(q) : B(i) \in Tag
      BY <1>6, <2>1
    <2>3. PICK m \in Nat : m = Len(q)
      BY <1>1
    <2>4. [i \in 1..m |-> B(i)] \in Seq(Tag) /\ Len([i \in 1..m |-> B(i)]) = m
      BY <2>2, <2>3
    <2> QED BY <2>1, <2>3, <2>4
  <1>8. n < R => n >= c
    <2> SUFFICES ASSUME n < R PROVE n >= c
      OBVIOUS
    <2>1. q[n + 1].w = "none" /\ n + 1 \in 1..Len(q)
      BY <1>1, <1>5 DEF R
    <2> QED BY <1>2, <1>5, <2>1 DEF Committed
  <1>9. c < CommitMax => n >= c
    <2>1. CASE n < R
      BY <1>8, <2>1
    <2>2. CASE n = R
      BY <1>1, <1>2, <1>4, <2>2
    <2> QED BY <1>5, <2>1, <2>2
  <1>10. c >= CommitMax => n = 1 /\ R = 1
    BY <1>1, <1>2, <1>4, <1>5, <1>8
  <1>11. \A i \in 1..Len(q) : q[i].w = "all" => v[i].w = "all"
    <2>1. ASSUME NEW i \in 1..Len(q), q[i].w = "all", ~(i <= n) PROVE ~(n < R)
      BY <1>2, <1>5, <1>8, <2>1 DEF Committed
    <2> QED BY <1>6, <2>1
  <1>12. ASSUME NEW i \in 1..Len(q), Committed(v[i])
         PROVE  i <= n \/ (n < R /\ i = n + 1) \/ (i <= c /\ c >= CommitMax)
    <2>1. CASE i <= n \/ (n < R /\ i = n + 1)
      BY <2>1
    <2>2. CASE ~(i <= n) /\ ~(n < R /\ i = n + 1)
      <3>1. v[i].w = q[i].w
        BY <1>6, <2>2
      <3>2. i <= c
        BY <1>2, <1>12, <3>1 DEF Committed
      <3> QED BY <1>1, <1>2, <1>5, <1>9, <2>2, <3>2
    <2> QED BY <2>1, <2>2
  <1>13. ASSUME NEW i \in 1..Len(q), NEW j \in 1..Len(q), i < j, Committed(v[j])
         PROVE  v[i].w = "all"
    <2>1. CASE j <= n \/ (n < R /\ j = n + 1)
      BY <1>5, <1>6, <1>13, <2>1
    <2>2. CASE j <= c /\ c >= CommitMax
      <3>1. q[i].w = "all"
        BY <1>2, <1>3, <1>13, <2>2
      <3> QED BY <1>11, <3>1
    <2> QED BY <1>12, <1>13, <2>1, <2>2
  <1>14. ASSUME NEW i \in 1..Len(q), Committed(v[i]) PROVE i <= CommitMax
    BY <1>1, <1>2, <1>5, <1>12, <1>14
  <1>15. \A i \in 1..n : i \in 1..Len(q)
    BY <1>1, <1>5
  <1>16. \A i \in 1..n : v[i].w = "all"
    BY <1>6, <1>15
  <1>17. \A i \in 1..Len(q) : v[i].w = "all" => q[i].w = "all" \/ i <= n
    BY <1>6
  <1> QED BY <1>1, <1>5, <1>6, <1>7, <1>11, <1>13, <1>14, <1>16, <1>17

Sent(q, n) == LET new == Keep(q, Unsent(q, n)) IN [i \in 1..Len(new) |-> new[i].r]

\* The requests that were sent now are owed behind the others.
LEMMA PipeWrite ==
    ASSUME NEW k \in LinkState, PipeInv(k), NEW q, q = k.queue,
           NEW n \in 0..Reach(q), n < Reach(q) => q[n + 1].w = "none",
           NEW k2, k2.queue = Wrote(q, n), k2.inbox = k.inbox, k2.wire = k.wire \o Sent(q, n)
    PROVE  k2.queue \in Seq(Tag) /\ k2.wire \in Seq(Requests) /\ PipeInv(k2)
  <1> SUFFICES ASSUME NEW new, new = Keep(q, Unsent(q, n)),
                      k2.wire = k.wire \o [i \in 1..Len(new) |-> new[i].r]
               PROVE  k2.queue \in Seq(Tag) /\ k2.wire \in Seq(Requests) /\ PipeInv(k2)
    BY DEF Sent
  <1> DEFINE v == Wrote(q, n)
             A == {i \in 1..Len(q) : q[i].w = "all"}
             a == Cardinality(A)
             I == Unsent(q, n)
             x == [i \in 1..Len(new) |-> new[i].r]
  <1>1. /\ v \in Seq(Tag) /\ Len(v) = Len(q) /\ n <= Len(q)
        /\ \A i \in 1..Len(q) : v[i].r = q[i].r /\ v[i].req = q[i].req
        /\ \A i \in 1..Len(q) : q[i].w = "all" => v[i].w = "all"
        /\ \A i \in 1..n : v[i].w = "all"
        /\ \A i \in 1..Len(q) : v[i].w = "all" => q[i].w = "all" \/ i <= n
        /\ \A i, j \in 1..Len(v) : i < j /\ Committed(v[j]) => v[i].w = "all"
        /\ \A i \in 1..Len(v) : Committed(v[i]) => i <= CommitMax
    BY WriteShape, SMTT(30)
  <1> HIDE DEF v
  <1>2. q \in Seq(Tag) /\ Len(q) \in Nat /\ n \in Nat
    <2>1. Reach(q) \in Nat \/ n \in 0..Reach(q)
      OBVIOUS
    <2> QED BY LinkParts
  <1>3. A = 1..a /\ a \in Nat /\ a <= Len(q)
    <2>1. \A j \in A : j \in 1..Len(q)
      OBVIOUS
    <2>2. \A i \in 1..Len(q), j \in A : i < j => i \in A
      BY DEF PipeInv, Committed
    <2> HIDE DEF A
    <2>3. A = 1..Cardinality(A) /\ Cardinality(A) \in 0..Len(q)
      BY <1>2, <2>1, <2>2, PrefixCard
    <2> QED BY <1>2, <2>3
  <1>4. \A i \in 1..Len(q) : q[i].w = "all" <=> i <= a
    <2> HIDE DEF a
    <2> QED BY <1>2, <1>3
  <1> HIDE DEF A, a
  <1>5. I = (a + 1)..n
    BY <1>1, <1>2, <1>3, <1>4 DEF Unsent
  \* The number of those sent now, and which they are.
  <1>6. PICK d \in Nat :
            /\ Len(x) = d /\ x \in Seq(Requests) /\ d = (IF a <= n THEN n - a ELSE 0)
            /\ \A j \in 1..d : x[j] = q[a + j].r
    <2>1. \A i \in I : i \in 1..Len(q)
      BY <1>1, <1>2 DEF Unsent
    <2>2. new \in Seq(Tag) /\ Len(new) = Cardinality(I) /\ Cardinality(I) \in Nat
      <3> HIDE DEF I
      <3> QED BY <1>2, <2>1, KeepFacts DEF I
    <2>3. \A i \in 1..Len(new) : new[i].r \in Requests
      <3>1. \A i \in 1..Len(new) : new[i] \in Tag
        BY <2>2
      <3> QED BY <3>1 DEF Tag
    <2>4. x \in Seq(Requests) /\ Len(x) = Cardinality(I)
      <3>1. PICK m \in Nat : m = Len(new)
        BY <2>2
      <3>2. x = [i \in 1..m |-> new[i].r] /\ \A i \in 1..m : new[i].r \in Requests
        BY ONLY <2>3, <3>1
      <3>3. x \in Seq(Requests) /\ Len(x) = m
        BY ONLY <3>2, m \in Nat
      <3> QED BY ONLY <2>2, <3>1, <3>3
    <2>5. CASE a <= n
      <3>1. /\ Cardinality(I) = n - a
            /\ \A j \in 1..(n - a) : new[j] = q[a + j]
        BY <1>1, <1>2, <1>3, <1>5, <2>5, KeepInterval
      <3>2. \A j \in 1..(n - a) : x[j] = q[a + j].r
        BY <2>2, <3>1
      <3> QED BY <1>2, <1>3, <2>4, <2>5, <3>1, <3>2
    <2>6. CASE ~(a <= n)
      <3>1. I = {}
        BY <1>2, <1>3, <1>5, <2>6
      <3>2. Cardinality(I) = 0
        BY <3>1, FS_EmptySet
      <3> QED BY <2>4, <2>6, <3>2
    <2> QED BY <2>5, <2>6
  <1> HIDE DEF x, I
  <1>7. PICK nb \in Nat, nx \in Nat :
            Len(k.inbox) = nb /\ Len(k.wire) = nx /\ Owed(k) = nb + nx
    <2>1. PICK nb \in Nat, nx \in Nat : Len(k.inbox) = nb /\ Len(k.wire) = nx
      BY LinkParts
    <2> QED BY <2>1, OwedSum
  <1>8. /\ k2.wire \in Seq(Requests) /\ Len(k2.wire) = nx + d
        /\ \A j \in 1..nx : k2.wire[j] = k.wire[j]
        /\ \A j \in 1..d : k2.wire[nx + j] = x[j]
    <2>1. PICK y \in Seq(Requests) : y = k.wire
      BY LinkParts
    <2>2. k2.wire = y \o x
      BY <2>1 DEF x
    <2>3. /\ y \o x \in Seq(Requests) /\ Len(y \o x) = nx + d
          /\ \A j \in 1..(nx + d) : (y \o x)[j] = IF j <= nx THEN y[j] ELSE x[j - nx]
      <3>1. Len(y) = nx /\ Len(x) = d /\ x \in Seq(Requests)
        BY <1>6, <1>7, <2>1
      <3>2. /\ y \o x \in Seq(Requests) /\ Len(y \o x) = Len(y) + Len(x)
            /\ \A j \in 1..(Len(y) + Len(x)) :
                (y \o x)[j] = IF j <= Len(y) THEN y[j] ELSE x[j - Len(y)]
        BY <3>1, ConcatProperties
      <3> QED BY <3>1, <3>2
    <2>4. ASSUME NEW j \in 1..d PROVE k2.wire[nx + j] = x[j]
      <3>1. nx + j \in 1..(nx + d) /\ ~(nx + j <= nx) /\ (nx + j) - nx = j
        OBVIOUS
      <3> QED BY <2>2, <2>3, <3>1
    <2>5. ASSUME NEW j \in 1..nx PROVE k2.wire[j] = k.wire[j]
      <3>1. j \in 1..(nx + d) /\ j <= nx
        OBVIOUS
      <3> QED BY <2>1, <2>2, <2>3, <3>1
    <2> QED BY <2>2, <2>3, <2>4, <2>5
  <1>9. Owed(k2) = nb + (nx + d) /\ Owed(k2) \in Nat
    <2>1. Len(k2.inbox) = nb /\ Len(k2.wire) = nx + d /\ nb \in Nat /\ nx + d \in Nat
      BY <1>7, <1>8
    <2> QED BY ONLY <2>1, OwedSum
  <1>10. nb + nx <= a
    <2>1. CASE nb + nx = 0
      BY <1>3, <2>1
    <2>2. CASE nb + nx # 0
      <3>1. nb + nx \in 1..Owed(k)
        BY <1>7, <2>2
      <3>2. nb + nx \in 1..Len(q) /\ q[nb + nx].w = "all"
        BY <1>2, <1>7, <3>1 DEF PipeInv
      <3> QED BY <1>4, <3>2
    <2> QED BY <2>1, <2>2
  <1>11. ASSUME NEW i \in 1..Owed(k2) PROVE i <= Len(v) /\ v[i].w = "all"
    <2>1. i \in Nat /\ 1 <= i /\ (i <= a \/ i <= n)
      BY <1>2, <1>3, <1>6, <1>9, <1>10
    <2>2. CASE i <= a
      BY <1>1, <1>2, <1>3, <1>4, <2>1, <2>2
    <2>3. CASE i <= n
      BY <1>1, <1>2, <2>1, <2>3
    <2> QED BY <2>1, <2>2, <2>3
  <1>12. ASSUME ~Coalesce, NEW i \in 1..Len(v), v[i].w = "all"
         PROVE  i <= Owed(k2) /\ v[i].r = Owner(k2, i)
    <2>1. nb + nx = a
      <3>1. CASE a = 0
        BY <1>10, <3>1
      <3>2. CASE a # 0
        <4>1. a \in 1..Len(q) /\ q[a].w = "all"
          BY <1>2, <1>3, <1>4, <3>2
        <4>2. a <= Owed(k)
          BY <1>12, <4>1 DEF PipeInv
        <4> QED BY <1>3, <1>7, <1>10, <4>2
      <3> QED BY <3>1, <3>2
    <2>2. i \in 1..Len(q) /\ v[i].r = q[i].r /\ (i <= a \/ i <= n)
      BY <1>1, <1>4, <1>12
    <2>3. CASE i <= a
      <3>1. q[i].r = Owner(k, i)
        BY <1>4, <1>12, <2>2, <2>3 DEF PipeInv
      <3>2. Owner(k2, i) = Owner(k, i)
        <4>1. CASE i <= nb
          BY <1>7, <4>1 DEF Owner
        <4>2. CASE ~(i <= nb)
          <5>1. i - nb \in 1..nx
            BY <1>2, <2>1, <2>2, <2>3, <4>2
          <5>2. k2.wire[i - nb] = k.wire[i - nb]
            BY <1>8, <5>1
          <5>3. Owner(k, i) = k.wire[i - nb] /\ Owner(k2, i) = k2.wire[i - nb]
            BY <1>7, <4>2 DEF Owner
          <5> QED BY <5>2, <5>3
        <4> QED BY <4>1, <4>2
      <3> QED BY <1>2, <1>9, <2>1, <2>2, <2>3, <3>1, <3>2
    <2>4. CASE ~(i <= a)
      <3>1. /\ i - a \in 1..d /\ a + (i - a) = i /\ i <= nb + (nx + d) /\ ~(i <= nb)
            /\ i - nb = nx + (i - a)
        <4>1. i \in Nat /\ i <= n /\ i > a /\ a <= n /\ d = n - a
          BY <1>2, <1>3, <1>6, <2>2, <2>4
        <4>2. i - a \in 1..d /\ a + (i - a) = i
          BY <1>2, <1>3, <4>1
        <4>3. i <= nb + (nx + d) /\ ~(i <= nb)
          BY <1>2, <1>3, <2>1, <4>1
        <4>4. i - nb = nx + (i - a)
          BY <1>3, <2>1, <4>1
        <4> QED BY <4>2, <4>3, <4>4
      <3>2. Owner(k2, i) = k2.wire[nx + (i - a)]
        BY <1>7, <3>1 DEF Owner
      <3>3. k2.wire[nx + (i - a)] = q[i].r
        BY <1>6, <1>8, <3>1
      <3> QED BY <1>9, <2>2, <3>1, <3>2, <3>3
    <2> QED BY <2>3, <2>4
  <1>13. ~Coalesce => \A i \in 1..Len(k2.inbox) : Len(k2.inbox[i]) = 1
    BY DEF PipeInv
  <1>14. k2.queue = v
    BY DEF v
  <1> QED BY <1>1, <1>8, <1>11, <1>12, <1>13, <1>14 DEF PipeInv

-----------------------------------------------------------------------------
(***************************************************************************)
(* A handler that has nothing to do but to read on, or takes its next      *)
(* step.                                                                   *)
(***************************************************************************)

Idle(td) == \A i \in 1..Len(td) : td[i].do = "read"

\* It is about to close no link and stands for no request.
LEMMA IdleFacts ==
    ASSUME NEW td \in Seq(Step), Idle(td)
    PROVE  /\ ToShut(td) = {} /\ ToClose(td) = {}
           /\ \A f, rs : CarryInv(f, td, rs) <=> CarryInv(f, <<>>, rs)
  <1>1. ToShut(td) = {} /\ ToClose(td) = {}
    BY DEF Idle, ToShut, ToClose
  <1>2. \A i, r : ~Takes(td, i, r)
    BY DEF Idle, Takes
  <1>3. \A i, r : ~Takes(<<>>, i, r)
    BY DEF Takes
  <1>4. ASSUME NEW f, NEW rs PROVE CarryInv(f, td, rs) <=> CarryInv(f, <<>>, rs)
    <2>1. \A r \in Requests : Carry(f, td, rs, r) <=> Carry(f, <<>>, rs, r)
      BY <1>2, <1>3, Zenon DEF Carry
    <2> QED BY <2>1, CarryEach
  <1> QED BY <1>1, <1>4

\* So has a handler at its end.
LEMMA NoSteps ==
    /\ <<>> \in Seq(Step) /\ Idle(<<>>) /\ Len(<<>>) = 0
    /\ ToShut(<<>>) = {} /\ ToClose(<<>>) = {}
    /\ \A ls, f, p : StepsInv(ls, f, <<>>, p)
  <1>1. <<>> \in Seq(Step) /\ Idle(<<>>) /\ Len(<<>>) = 0
    BY DEF Idle
  <1>2. \A ls, f, p : StepsInv(ls, f, <<>>, p)
    BY DEF StepsInv
  <1> QED BY <1>1, <1>2, IdleFacts

\* What is left after the first step.
LEMMA TailSteps ==
    ASSUME NEW td \in Seq(Step), td # <<>>
    PROVE  /\ Tail(td) \in Seq(Step) /\ Len(Tail(td)) = Len(td) - 1 /\ Len(td) \in Nat
           /\ Head(td) = td[1] /\ 1 \in 1..Len(td) /\ Len(td) >= 1
           /\ \A i \in 1..Len(Tail(td)) : i + 1 \in 1..Len(td) /\ Tail(td)[i] = td[i + 1]
           /\ \A i \in 1..Len(td) : i # 1 =>
                i - 1 \in 1..Len(Tail(td)) /\ Tail(td)[i - 1] = td[i]
  <1>1. Tail(td) \in Seq(Step) /\ Len(Tail(td)) = Len(td) - 1 /\ Len(td) \in Nat /\ Len(td) >= 1
    OBVIOUS
  <1>2. Head(td) = td[1] /\ 1 \in 1..Len(td)
    BY <1>1
  <1>3. ASSUME NEW i \in 1..Len(Tail(td)) PROVE i + 1 \in 1..Len(td) /\ Tail(td)[i] = td[i + 1]
    BY <1>1
  <1>4. ASSUME NEW i \in 1..Len(td), i # 1
        PROVE  i - 1 \in 1..Len(Tail(td)) /\ Tail(td)[i - 1] = td[i]
    <2>1. i - 1 \in 1..Len(Tail(td)) /\ (i - 1) + 1 = i
      BY <1>1, <1>4
    <2> QED BY <1>3, <2>1
  <1> QED BY <1>1, <1>2, <1>3, <1>4

\* The links the steps are about.
LEMMA TailSets ==
    ASSUME NEW td \in Seq(Step), td # <<>>
    PROVE  /\ ToShut(td) = ToShut(Tail(td))
                \cup (IF Head(td).do = "shut" THEN {Head(td).l} ELSE {})
           /\ ToClose(td) = ToClose(Tail(td))
                \cup (IF Head(td).do = "close" THEN {Head(td).l} ELSE {})
  <1> DEFINE t == Tail(td)
  <1>1. \A i \in 1..Len(t) : \E j \in 1..Len(td) : t[i] = td[j]
    BY TailSteps DEF t
  <1>2. \A i \in 1..Len(td) : td[i] = Head(td) \/ \E j \in 1..Len(t) : t[j] = td[i]
    BY TailSteps DEF t
  <1>3. \E i \in 1..Len(td) : td[i] = Head(td)
    BY TailSteps DEF t
  <1> HIDE DEF t
  <1>4. ASSUME NEW l, l \in ToShut(td)
        PROVE  l \in ToShut(t) \/ (Head(td).do = "shut" /\ l = Head(td).l)
    <2>1. PICK i \in 1..Len(td) : td[i].do = "shut" /\ td[i].l = l
      BY <1>4, StepSets
    <2> QED BY <1>2, <2>1, StepSets
  <1>5. ASSUME NEW l, l \in ToShut(t) PROVE l \in ToShut(td)
    <2>1. PICK i \in 1..Len(t) : t[i].do = "shut" /\ t[i].l = l
      BY <1>5, StepSets
    <2>2. PICK j \in 1..Len(td) : t[i] = td[j]
      BY <1>1
    <2>3. td[j].do = "shut" /\ td[j].l = l
      BY <2>1, <2>2
    <2> QED BY ONLY <2>3, j \in 1..Len(td), StepSets
  <1>6. Head(td).do = "shut" => Head(td).l \in ToShut(td)
    BY <1>3, StepSets
  <1>7. ASSUME NEW l, l \in ToClose(td)
        PROVE  l \in ToClose(t) \/ (Head(td).do = "close" /\ l = Head(td).l)
    <2>1. PICK i \in 1..Len(td) : td[i].do = "close" /\ td[i].l = l
      BY <1>7, StepSets
    <2> QED BY <1>2, <2>1, StepSets
  <1>8. ASSUME NEW l, l \in ToClose(t) PROVE l \in ToClose(td)
    <2>1. PICK i \in 1..Len(t) : t[i].do = "close" /\ t[i].l = l
      BY <1>8, StepSets
    <2>2. PICK j \in 1..Len(td) : t[i] = td[j]
      BY <1>1
    <2>3. td[j].do = "close" /\ td[j].l = l
      BY <2>1, <2>2
    <2> QED BY ONLY <2>3, j \in 1..Len(td), StepSets
  <1>9. Head(td).do = "close" => Head(td).l \in ToClose(td)
    BY <1>3, StepSets
  <1> QED BY <1>4, <1>5, <1>6, <1>7, <1>8, <1>9 DEF t

\* The next step of a handler that does not read is the only one about its
\* link, and the others are steps it may take after it.
LEMMA TailInv ==
    ASSUME NEW ls, NEW f, NEW p, NEW td \in Seq(Step), td # <<>>, Head(td).do # "read",
           StepsInv(ls, f, td, p)
    PROVE  /\ StepsInv(ls, f, Tail(td), p)
           /\ \A i \in 1..Len(Tail(td)) : Tail(td)[i].do # "submit" =>
                /\ Tail(td)[i].do # "read"
                /\ Head(td).do # "submit" => Tail(td)[i].l # Head(td).l
  <1> DEFINE t == Tail(td)
  <1>1. /\ t \in Seq(Step) /\ Len(t) = Len(td) - 1 /\ Len(td) \in Nat
        /\ Head(td) = td[1] /\ 1 \in 1..Len(td)
        /\ \A i \in 1..Len(t) : i + 1 \in 1..Len(td) /\ t[i] = td[i + 1]
    BY TailSteps
  <1> HIDE DEF t
  <1>2. ASSUME NEW i \in 1..Len(t), t[i].do # "submit"
        PROVE  /\ t[i].l \in Range(ls)
               /\ t[i].do = "shut" => "fini" \in f[t[i].l].op
               /\ t[i].do = "close" => p
               /\ t[i].do # "read"
    <2>1. i + 1 \in 1..Len(td) /\ t[i] = td[i + 1] /\ Len(td) # 1
      BY <1>1
    <2> QED BY <1>2, <2>1 DEF StepsInv
  <1>3. ASSUME NEW i \in 1..Len(t), NEW j \in 1..Len(t), t[i].do # "submit",
               t[j].do # "submit", t[i].l = t[j].l
        PROVE  i = j
    <2>1. /\ i + 1 \in 1..Len(td) /\ t[i] = td[i + 1]
          /\ j + 1 \in 1..Len(td) /\ t[j] = td[j + 1]
      BY <1>1
    <2>2. i + 1 = j + 1
      BY <1>3, <2>1 DEF StepsInv
    <2> QED BY <1>1, <2>2
  <1>4. StepsInv(ls, f, t, p)
    BY <1>2, <1>3 DEF StepsInv
  <1>5. ASSUME NEW i \in 1..Len(t), t[i].do # "submit", Head(td).do # "submit"
        PROVE  t[i].l # Head(td).l
    <2>1. i + 1 \in 1..Len(td) /\ t[i] = td[i + 1] /\ i + 1 # 1
      BY <1>1
    <2> QED BY <1>1, <1>5, <2>1 DEF StepsInv
  <1> QED BY <1>2, <1>4, <1>5 DEF t

\* A step other than submitting leaves the carriers of the requests alone.
LEMMA TailCarry ==
    ASSUME NEW f, NEW rs, NEW td \in Seq(Step), td # <<>>, Head(td).do # "submit",
           CarryInv(f, td, rs)
    PROVE  CarryInv(f, Tail(td), rs)
  <1> DEFINE t == Tail(td)
  <1>1. /\ Len(t) \in Nat /\ Head(td) = td[1]
        /\ \A i \in 1..Len(t) : i + 1 \in 1..Len(td) /\ t[i] = td[i + 1]
        /\ \A i \in 1..Len(td) : i # 1 => i - 1 \in 1..Len(t) /\ t[i - 1] = td[i]
    BY TailSteps
  <1> HIDE DEF t
  <1> SUFFICES ASSUME NEW r \in Requests PROVE Carry(f, t, rs, r)
    BY CarryEach DEF t
  <1>2. Carry(f, td, rs, r)
    BY CarryEach
  <1>3. ASSUME NEW i, Takes(t, i, r) PROVE i \in Nat /\ Takes(td, i + 1, r)
    BY <1>1, <1>3 DEF Takes
  <1>4. ASSUME NEW i, Takes(td, i, r) PROVE \E j : Takes(t, j, r)
    <2>1. i \in 1..Len(td) /\ i # 1 /\ td[i].do = "submit" /\ td[i].r = r
      BY <1>1, <1>4 DEF Takes
    <2>2. Takes(t, i - 1, r)
      BY <1>1, <2>1 DEF Takes
    <2> QED BY <2>2
  <1>5. ASSUME NEW i, NEW j, Takes(t, i, r), Takes(t, j, r) PROVE i = j
    <2>1. i \in Nat /\ j \in Nat /\ i + 1 = j + 1
      BY <1>2, <1>3, <1>5 DEF Carry
    <2> QED BY <2>1
  <1> QED BY <1>2, <1>3, <1>4, <1>5 DEF Carry

-----------------------------------------------------------------------------
(***************************************************************************)
(* The tags of one link change.                                            *)
(***************************************************************************)

\* Tag i of queue q stands for r.
Has(q, i, r) == i \in 1..Len(q) /\ q[i].r = r /\ q[i].req = "user"

\* The queue of l becomes that of k: each tag of it was at the place g tells, and
\* those which are gone stood for the requests D, which are no longer pending.
LEMMA CarryOne ==
    ASSUME NEW f \in [Links -> LinkState], NEW l \in Links, NEW k, NEW td, NEW rs, NEW rs2,
           NEW g, NEW D, CarryInv(f, td, rs),
           \A r \in Requests : \A i :
                Has(k.queue, i, r) => r \notin D /\ Has(f[l].queue, g[i], r),
           \A r \in Requests : \A i, j :
                Has(k.queue, i, r) /\ Has(k.queue, j, r) /\ g[i] = g[j] => i = j,
           \A r \in Requests : \A i :
                Has(f[l].queue, i, r) /\ r \notin D => \E j : Has(k.queue, j, r),
           \A r \in Requests : r \in D => \E i : Has(f[l].queue, i, r),
           \A r \in Requests : rs2[r] = "pending" <=> rs[r] = "pending" /\ r \notin D
    PROVE  CarryInv([f EXCEPT ![l] = k], td, rs2)
  <1> DEFINE f2 == [f EXCEPT ![l] = k]
  <1>1. f2[l] = k /\ \A m \in Links : m # l => f2[m] = f[m]
    OBVIOUS
  <1> HIDE DEF f2
  <1>2. \A i, r : Holds(f2, l, i, r) <=> Has(k.queue, i, r)
    BY <1>1 DEF Holds, Has
  <1>3. \A i, r : Holds(f, l, i, r) <=> Has(f[l].queue, i, r)
    BY DEF Holds, Has
  <1>4. \A m \in Links : \A i, r : m # l => (Holds(f2, m, i, r) <=> Holds(f, m, i, r))
    BY <1>1 DEF Holds
  <1> SUFFICES ASSUME NEW r \in Requests PROVE Carry(f2, td, rs2, r)
    BY CarryEach DEF f2
  <1>5. Carry(f, td, rs, r)
    BY CarryEach
  <1>6. ASSUME NEW m \in Links, NEW n \in Links, NEW i, NEW j,
               Holds(f2, m, i, r), Holds(f2, n, j, r)
        PROVE  m = n /\ i = j
    <2>1. CASE m = l /\ n = l
      <3>1. Has(k.queue, i, r) /\ Has(k.queue, j, r)
        BY <1>2, <1>6, <2>1
      <3>2. Holds(f, l, g[i], r) /\ Holds(f, l, g[j], r)
        BY <1>3, <3>1
      <3>3. g[i] = g[j]
        BY <1>5, <3>2 DEF Carry
      <3> QED BY <2>1, <3>1, <3>3
    <2>2. CASE m # l \/ n # l
      <3>1. /\ \E x : Holds(f, m, x, r) /\ (m # l => x = i)
            /\ \E x : Holds(f, n, x, r) /\ (n # l => x = j)
        BY <1>2, <1>3, <1>4, <1>6
      <3> QED BY <1>5, <2>2, <3>1 DEF Carry
    <2> QED BY <2>1, <2>2
  <1>7. ASSUME NEW m \in Links, NEW i, NEW j, Holds(f2, m, i, r), Takes(td, j, r)
        PROVE  FALSE
    <2>1. \E x : Holds(f, m, x, r)
      BY <1>2, <1>3, <1>4, <1>7
    <2> QED BY <1>5, <1>7, <2>1 DEF Carry
  <1>8. rs2[r] = "pending" <=> \/ \E m \in Links : \E i : Holds(f2, m, i, r)
                              \/ \E i : Takes(td, i, r)
    <2>1. CASE r \in D
      <3>1. PICK x : Holds(f, l, x, r)
        BY <1>3, <2>1
      <3>2. ~\E i : Takes(td, i, r)
        BY <1>5, <3>1 DEF Carry
      <3>3. ASSUME NEW m \in Links, NEW i, Holds(f2, m, i, r) PROVE FALSE
        BY <1>2, <1>4, <1>5, <2>1, <3>1, <3>3 DEF Carry
      <3> QED BY <2>1, <3>2, <3>3
    <2>2. CASE r \notin D
      <3>1. ASSUME NEW m \in Links, NEW i, Holds(f, m, i, r) PROVE \E j : Holds(f2, m, j, r)
        BY <1>2, <1>3, <1>4, <2>2, <3>1
      <3>2. ASSUME NEW m \in Links, NEW i, Holds(f2, m, i, r) PROVE \E j : Holds(f, m, j, r)
        BY <1>2, <1>3, <1>4, <3>2
      <3> QED BY <1>5, <2>2, <3>1, <3>2 DEF Carry
    <2> QED BY <2>1, <2>2
  <1> QED BY <1>5, <1>6, <1>7, <1>8 DEF Carry

\* No link has other tags, and the same requests are pending.
LEMMA CarrySame ==
    ASSUME NEW f, NEW f2, NEW td, NEW rs, NEW rs2, CarryInv(f, td, rs),
           \A m \in Links : f2[m].queue = f[m].queue,
           \A r \in Requests : rs2[r] = "pending" <=> rs[r] = "pending"
    PROVE  CarryInv(f2, td, rs2)
  <1>1. \A m \in Links : \A i, r : Holds(f2, m, i, r) <=> Holds(f, m, i, r)
    BY DEF Holds
  <1>2. \A r \in Requests : Carry(f2, td, rs2, r) <=> Carry(f, td, rs, r)
    BY <1>1 DEF Carry
  <1> QED BY <1>2, CarryEach

\* The tags of a link are as many and for the same requests as before.
LEMMA CarryLike ==
    ASSUME NEW f \in [Links -> LinkState], NEW l \in Links, NEW k, NEW td, NEW rs,
           CarryInv(f, td, rs), Len(k.queue) = Len(f[l].queue),
           \A i \in 1..Len(f[l].queue) :
                k.queue[i].r = f[l].queue[i].r /\ k.queue[i].req = f[l].queue[i].req
    PROVE  CarryInv([f EXCEPT ![l] = k], td, rs)
  <1> DEFINE f2 == [f EXCEPT ![l] = k]
  <1>1. f2[l] = k /\ \A m \in Links : m # l => f2[m] = f[m]
    OBVIOUS
  <1> HIDE DEF f2
  <1>2. \A m \in Links : \A i, r : Holds(f2, m, i, r) <=> Holds(f, m, i, r)
    BY <1>1 DEF Holds
  <1>3. \A r \in Requests : Carry(f2, td, rs, r) <=> Carry(f, td, rs, r)
    BY <1>2 DEF Carry
  <1> QED BY <1>3, CarryEach DEF f2

\* A link keeps its tags at the places I, which are all that have a request.
LEMMA CarryKeep ==
    ASSUME NEW f \in [Links -> LinkState], NEW l \in Links, NEW k, NEW td, NEW rs,
           CarryInv(f, td, rs), NEW q, q = f[l].queue, NEW I, \A i \in I : i \in 1..Len(q),
           \A i \in 1..Len(q) : q[i].req = "user" => i \in I,
           k.queue = Keep(q, I)
    PROVE  CarryInv([f EXCEPT ![l] = k], td, rs)
  <1> DEFINE n == Cardinality(I)
             g == [i \in 1..n |-> Place(I, i)]
  <1>1. q \in Seq(Tag)
    BY LinkParts
  <1>2. /\ Len(Keep(q, I)) = n
        /\ \A j \in 1..n : Place(I, j) \in I /\ Keep(q, I)[j] = q[Place(I, j)]
        /\ \A i \in I : \E j \in 1..n : Place(I, j) = i
        /\ \A i, j \in 1..n : Place(I, i) = Place(I, j) => i = j
    BY <1>1, KeepFacts
  <1>3. \A i \in 1..n : g[i] = Place(I, i)
    OBVIOUS
  <1> HIDE DEF n, g
  <1>4. ASSUME NEW r \in Requests, NEW i, Has(k.queue, i, r)
        PROVE  i \in 1..n /\ Has(q, g[i], r)
    BY <1>2, <1>3, <1>4 DEF Has
  <1>5. ASSUME NEW r \in Requests, NEW i, Has(q, i, r) PROVE \E j : Has(k.queue, j, r)
    <2>1. PICK j \in 1..n : Place(I, j) = i
      BY <1>2, <1>5 DEF Has
    <2> QED BY <1>2, <1>5, <2>1 DEF Has
  <1>6. ASSUME NEW r \in Requests, NEW i, NEW j, Has(k.queue, i, r), Has(k.queue, j, r), g[i] = g[j]
        PROVE  i = j
    BY <1>2, <1>3, <1>4, <1>6
  <1> DEFINE D == {}
  <1>7. \A r \in Requests : r \notin D
    OBVIOUS
  <1> HIDE DEF D
  <1> QED BY <1>4, <1>5, <1>6, <1>7, CarryOne

\* Tag i of queue q gives up its request, which is no longer pending.
Struck(q, q2, i) ==
    /\ i \in 1..Len(q) /\ q[i].req = "user" /\ Len(q2) = Len(q) /\ q2[i].req # "user"
    /\ \A j \in 1..Len(q) : j # i => q2[j].r = q[j].r /\ q2[j].req = q[j].req
Ended(rs, rs2, r) == \A x \in Requests : rs2[x] = "pending" <=> rs[x] = "pending" /\ x # r

\* Its carrier goes with it.
LEMMA CarryGone ==
    ASSUME NEW f \in [Links -> LinkState], NEW l \in Links, NEW k, NEW td, NEW rs, NEW rs2,
           CarryInv(f, td, rs), NEW i, Struck(f[l].queue, k.queue, i),
           Ended(rs, rs2, f[l].queue[i].r)
    PROVE  CarryInv([f EXCEPT ![l] = k], td, rs2)
  <1> DEFINE q == f[l].queue
  <1>0. /\ i \in 1..Len(q) /\ q[i].req = "user" /\ Len(k.queue) = Len(q) /\ k.queue[i].req # "user"
        /\ \A j \in 1..Len(q) : j # i => k.queue[j].r = q[j].r /\ k.queue[j].req = q[j].req
        /\ \A r \in Requests : rs2[r] = "pending" <=> rs[r] = "pending" /\ r # q[i].r
        /\ q = f[l].queue
    BY DEF Struck, Ended
  <1> USE <1>0
  <1> HIDE DEF q
  <1>1. q \in Seq(Tag) /\ Len(q) \in Nat
    BY LinkParts
  <1>2. q[i].r \in Requests
    <2>1. q[i] \in Tag
      BY <1>1
    <2> QED BY <2>1 DEF Tag
  <1> DEFINE D == {q[i].r}
             g == [j \in 1..Len(q) |-> j]
  <1>3. Has(q, i, q[i].r)
    BY DEF Has
  <1>4. \A r \in Requests : \A j : Has(q, j, r) /\ r = q[i].r => j = i
    <2>1. \A r \in Requests : Carry(f, td, rs, r)
      BY CarryEach
    <2>2. \A j, r : Has(q, j, r) <=> Holds(f, l, j, r)
      BY DEF Has, Holds
    <2> QED BY <1>2, <1>3, <2>1, <2>2 DEF Carry
  <1>5. (\A j \in 1..Len(q) : g[j] = j) /\ \A r : r \in D <=> r = q[i].r
    OBVIOUS
  <1> HIDE DEF D, g
  <1>6. ASSUME NEW r \in Requests, NEW j, Has(k.queue, j, r)
        PROVE  r \notin D /\ Has(q, g[j], r) /\ g[j] = j
    <2>1. j \in 1..Len(q) /\ j # i /\ Has(q, j, r)
      BY <1>6 DEF Has
    <2> QED BY <1>4, <1>5, <2>1
  <1>7. ASSUME NEW r \in Requests, NEW j, Has(q, j, r), r \notin D PROVE Has(k.queue, j, r)
    BY <1>5, <1>7 DEF Has
  <1>8. \A r \in Requests : r \in D => \E j : Has(q, j, r)
    BY <1>3, <1>5
  <1>9. \A r \in Requests : rs2[r] = "pending" <=> rs[r] = "pending" /\ r \notin D
    BY <1>5
  <1>10. \A r \in Requests : \A j, m :
            Has(k.queue, j, r) /\ Has(k.queue, m, r) /\ g[j] = g[m] => j = m
    BY <1>6
  <1>11. \A r \in Requests : \A j : Has(q, j, r) /\ r \notin D => \E m : Has(k.queue, m, r)
    BY <1>7
  <1>12. /\ \A r \in Requests : \A j : Has(k.queue, j, r) => r \notin D /\ Has(f[l].queue, g[j], r)
         /\ \A r \in Requests : \A j :
                Has(f[l].queue, j, r) /\ r \notin D => \E m : Has(k.queue, m, r)
         /\ \A r \in Requests : r \in D => \E j : Has(f[l].queue, j, r)
    BY <1>6, <1>8, <1>11
  <1>13. f \in [Links -> LinkState] /\ l \in Links /\ CarryInv(f, td, rs)
    OBVIOUS
  <1> QED BY ONLY <1>9, <1>10, <1>12, <1>13, CarryOne

\* The request of tag t, if it has one, is no longer pending.
Answered(rs, rs2, t) ==
    \A r \in Requests : rs2[r] = "pending" <=> rs[r] = "pending" /\ ~(t.req = "user" /\ r = t.r)

\* The front tag of a link is popped, its request answered.
LEMMA CarryPop ==
    ASSUME NEW f \in [Links -> LinkState], NEW l \in Links, NEW k, NEW td, NEW rs, NEW rs2,
           CarryInv(f, td, rs), NEW q, q = f[l].queue, q # <<>>, k.queue = Tail(q),
           Answered(rs, rs2, q[1])
    PROVE  CarryInv([f EXCEPT ![l] = k], td, rs2)
  <1>0. \A r \in Requests : rs2[r] = "pending" <=>
            rs[r] = "pending" /\ ~(q[1].req = "user" /\ r = q[1].r)
    BY DEF Answered
  <1> USE <1>0
  <1>1. q \in Seq(Tag) /\ Len(q) \in Nat /\ Len(q) >= 1
    BY LinkParts
  <1>2. /\ Len(k.queue) = Len(q) - 1
        /\ \A j \in 1..(Len(q) - 1) : k.queue[j] = q[j + 1]
    BY <1>1
  <1> DEFINE D == {r \in Requests : q[1].req = "user" /\ r = q[1].r}
             g == [j \in 1..Len(q) |-> j + 1]
  <1>3. /\ \A j \in 1..Len(q) : g[j] = j + 1
        /\ \A r \in Requests : r \in D <=> q[1].req = "user" /\ r = q[1].r
    OBVIOUS
  <1> HIDE DEF D, g
  <1>4. \A r \in D : r \in Requests => Has(q, 1, r)
    BY <1>1, <1>3 DEF Has
  <1>5. \A r \in Requests : \A i, j : Has(q, i, r) /\ Has(q, j, r) => i = j
    <2>1. \A r \in Requests : Carry(f, td, rs, r)
      BY CarryEach
    <2>2. \A j, r : Has(q, j, r) <=> Holds(f, l, j, r)
      BY DEF Has, Holds
    <2> QED BY <2>1, <2>2 DEF Carry
  <1>6. ASSUME NEW r \in Requests, NEW j, Has(k.queue, j, r)
        PROVE  j \in Nat /\ r \notin D /\ Has(q, g[j], r) /\ g[j] = j + 1
    <2>1. j \in 1..(Len(q) - 1) /\ j \in 1..Len(q) /\ j + 1 \in 1..Len(q) /\ j + 1 # 1
      BY <1>1, <1>2, <1>6 DEF Has
    <2>2. Has(q, j + 1, r)
      BY <1>2, <1>6, <2>1 DEF Has
    <2> QED BY <1>3, <1>4, <1>5, <2>1, <2>2
  <1>7. ASSUME NEW r \in Requests, NEW j, Has(q, j, r), r \notin D PROVE \E i : Has(k.queue, i, r)
    <2>1. j \in 1..Len(q) /\ j # 1
      BY <1>3, <1>7 DEF Has
    <2>2. j - 1 \in 1..(Len(q) - 1) /\ (j - 1) + 1 = j
      BY <1>1, <2>1
    <2>3. k.queue[j - 1] = q[j]
      BY <1>2, <2>2
    <2>4. Has(k.queue, j - 1, r)
      BY <1>2, <1>7, <2>2, <2>3 DEF Has
    <2> QED BY <2>4
  <1>8. \A r \in Requests : \A i, j :
            Has(k.queue, i, r) /\ Has(k.queue, j, r) /\ g[i] = g[j] => i = j
    BY <1>6
  <1>9. \A r \in Requests : rs2[r] = "pending" <=> rs[r] = "pending" /\ r \notin D
    BY <1>3
  <1>10. \A r \in Requests : r \in D => \E i : Has(q, i, r)
    BY <1>4
  <1> QED BY <1>6, <1>7, <1>8, <1>9, <1>10, CarryOne

-----------------------------------------------------------------------------
(***************************************************************************)
(* What handlers do to a link, or to all of them.                          *)
(***************************************************************************)

\* What the invariant says while a handler is idle: a link with op_fini is empty
\* and closed, the others' pipes are exact.
LEMMA IdleLink ==
    ASSUME NEW ls, NEW f, NEW td \in Seq(Step), NEW p \in BOOLEAN, NEW rs,
           Idle(td), HandlerInv(ls, f, td, p, rs), NEW l \in Links
    PROVE  /\ f[l] \in LinkState
           /\ "fini" \in f[l].op => f[l].queue = <<>> /\ f[l].sock \in {"closing", "closed"}
           /\ f[l].sock \in {"closing", "closed"} => "fini" \in f[l].op
           /\ "fini" \notin f[l].op => PipeInv(f[l])
           /\ f[l] # NewLink => l \in Range(ls)
           /\ f[l].op # {} => l \in Range(ls)
           /\ f[l].sock # "none" => l \in Range(ls)
  <1>1. f[l] \in LinkState /\ FiniAt(l, f[l], td) /\ PipeAt(l, f[l], td)
    BY DEF HandlerInv, FiniInv, PipesInv
  <1>2. f[l] # NewLink => l \in Range(ls)
    BY DEF HandlerInv, LinksInv
  <1>3. NewLink.op = {} /\ NewLink.sock = "none"
    BY DEF NewLink
  <1>4. ToShut(td) = {} /\ ToClose(td) = {}
    BY IdleFacts
  <1>5. PipeAt(l, f[l], td) => ("fini" \notin f[l].op => PipeInv(f[l]))
    BY <1>4 DEF PipeAt
  <1> QED BY <1>1, <1>2, <1>3, <1>4, <1>5 DEF FiniAt

\* A link of the peer changes, the handler is idle.
LEMMA UpdateInv ==
    ASSUME NEW ls, NEW f, NEW td \in Seq(Step), NEW p \in BOOLEAN, NEW rs, NEW rs2,
           Idle(td), HandlerInv(ls, f, td, p, rs), NEW l \in Range(ls), NEW k \in LinkState,
           "fini" \in k.op => k.queue = <<>> /\ k.sock \in {"closing", "closed"},
           k.sock \in {"closing", "closed"} => "fini" \in k.op,
           "fini" \notin k.op => PipeInv(k),
           NEW f2, f2 = [f EXCEPT ![l] = k], CarryInv(f2, <<>>, rs2),
           NEW td2 \in Seq(Step), Idle(td2), StepsInv(ls, f2, td2, p)
    PROVE  HandlerInv(ls, f2, td2, p, rs2)
  <1>1. /\ ls \in Seq(Links) /\ f \in [Links -> LinkState] /\ LinksInv(ls, f)
        /\ FiniInv(f, td) /\ PipesInv(f, td)
    BY DEF HandlerInv
  <1>2. l \in Links
    BY <1>1 DEF Range
  <1>3. /\ f2 \in [Links -> LinkState] /\ f2[l] = k
        /\ \A m \in Links : m # l => f2[m] = f[m]
    BY <1>1, <1>2
  <1>4. ToShut(td) = {} /\ ToClose(td) = {} /\ ToShut(td2) = {} /\ ToClose(td2) = {}
    BY IdleFacts
  <1>5. CarryInv(f2, td2, rs2)
    BY IdleFacts
  <1>6. LinksInv(ls, f2)
    BY <1>1, <1>3 DEF LinksInv
  <1>7. FiniInv(f2, td2)
    <2> SUFFICES ASSUME NEW m \in Links PROVE FiniAt(m, f2[m], td2)
      BY DEF FiniInv
    <2>1. CASE m = l
      BY <1>3, <2>1 DEF FiniAt
    <2>2. CASE m # l
      <3>1. FiniAt(m, f[m], td)
        BY <1>1 DEF FiniInv
      <3> QED BY <1>3, <1>4, <2>2, <3>1 DEF FiniAt
    <2> QED BY <2>1, <2>2
  <1>8. PipesInv(f2, td2)
    <2> SUFFICES ASSUME NEW m \in Links PROVE PipeAt(m, f2[m], td2)
      BY DEF PipesInv
    <2>1. CASE m = l
      BY <1>3, <2>1 DEF PipeAt
    <2>2. CASE m # l
      <3>1. PipeAt(m, f[m], td)
        BY <1>1 DEF PipesInv
      <3> QED BY <1>3, <1>4, <2>2, <3>1 DEF PipeAt
    <2> QED BY <2>1, <2>2
  <1> QED BY <1>1, <1>3, <1>5, <1>6, <1>7, <1>8 DEF HandlerInv

\* The links after close() of l.
Closed(f, l) == [f EXCEPT ![l].op = @ \cup {"fini"}, ![l].queue = Keep(@, Commits(@))]

\* It has op_fini and its committed tags.
LEMMA CloseStep ==
    ASSUME NEW f \in [Links -> LinkState], NEW l \in Links
    PROVE  /\ Closed(f, l) = [f EXCEPT ![l] = Dispersed(f[l])]
           /\ \A m \in Links : Closed(f, l)[m].sock = f[m].sock
  <1>1. Closed(f, l) = [f EXCEPT ![l].op = @ \cup {"fini"}, ![l].queue = Keep(@, Commits(@))]
    BY DEF Closed
  <1>2. f[l] \in LinkState
    OBVIOUS
  <1> DEFINE C == Keep(f[l].queue, Commits(f[l].queue))
  <1>3. /\ Closed(f, l) = [[f EXCEPT ![l] = [f[l] EXCEPT !.op = @ \cup {"fini"}]]
                        EXCEPT ![l] = [[f[l] EXCEPT !.op = @ \cup {"fini"}] EXCEPT !.queue = C]]
        /\ Dispersed(f[l]) = [[f[l] EXCEPT !.op = @ \cup {"fini"}] EXCEPT !.queue = C]
    BY <1>1, <1>2 DEF Dispersed, LinkState
  <1>4. Closed(f, l) = [f EXCEPT ![l] = Dispersed(f[l])]
    BY <1>3
  <1>5. \A m \in Links : [f EXCEPT ![l] = Dispersed(f[l])][m].sock = f[m].sock
    BY DispersedFacts
  <1> QED BY <1>4, <1>5
\* A handler leaves a link as k and closes it.
LEMMA CloseIdle ==
    ASSUME NEW ls, NEW f, NEW td \in Seq(Step), NEW p \in BOOLEAN, NEW rs, NEW rs2,
           Idle(td), HandlerInv(ls, f, td, p, rs), NEW l \in Range(ls), NEW k \in LinkState,
           "fini" \notin k.op, NEW f2, f2 = [f EXCEPT ![l] = k], CarryInv(f2, <<>>, rs2),
           NEW how \in {"RST", "NOTIFY"}
    PROVE  HandlerInv(ls, Closed(f2, l), CloseTodo(k.queue, l, how, <<>>), p, rs2)
  <1>1. /\ ls \in Seq(Links) /\ f \in [Links -> LinkState] /\ LinksInv(ls, f)
        /\ FiniInv(f, td) /\ PipesInv(f, td)
    BY DEF HandlerInv
  <1>2. l \in Links
    BY <1>1 DEF Range
  <1>3. /\ f2 \in [Links -> LinkState] /\ f2[l] = k
        /\ \A m \in Links : m # l => f2[m] = f[m]
    BY <1>1, <1>2
  <1>4. CarryInv(f2, <<>>, rs2)
    OBVIOUS
  <1>5. Closed(f2, l) = [f2 EXCEPT ![l] = Dispersed(f2[l])]
    BY ONLY <1>2, <1>3, CloseStep
  <1>6. /\ ToShut(td) = {} /\ ToClose(td) = {}
        /\ ToShut(<<>>) = {} /\ ToClose(<<>>) = {} /\ <<>> \in Seq(Step) /\ Len(<<>>) = 0
        /\ StepsInv(ls, f2, <<>>, p)
    BY IdleFacts, NoSteps
  <1>7. LinksInv(ls, f2)
    BY <1>1, <1>3 DEF LinksInv
  <1>8. ASSUME NEW m \in Links, m # l
        PROVE  FiniAt(m, f2[m], <<>>) /\ PipeAt(m, f2[m], <<>>)
    <2>1. FiniAt(m, f[m], td) /\ PipeAt(m, f[m], td)
      BY <1>1 DEF FiniInv, PipesInv
    <2>2. FiniAt(m, f2[m], <<>>)
      BY <1>3, <1>6, <1>8, <2>1 DEF FiniAt
    <2>3. PipeAt(m, f2[m], <<>>)
      BY <1>3, <1>6, <1>8, <2>1 DEF PipeAt
    <2> QED BY <2>2, <2>3
  <1> DEFINE rest == <<>>
  <1>9. \A i \in 1..Len(rest) : rest[i].do # "submit" => rest[i].do # "read" /\ rest[i].l # l
    BY <1>6
  <1>10. HandlerInv(ls, [f2 EXCEPT ![l] = Dispersed(f2[l])],
                    CloseTodo(f2[l].queue, l, how, <<>>), p, rs2)
    <2>1. p \in BOOLEAN /\ l \in Range(ls) /\ how \in {"RST", "NOTIFY"} /\ rest \in Seq(Step)
      BY <1>6
    <2>2. \A m \in Links : m # l => FiniAt(m, f2[m], rest) /\ PipeAt(m, f2[m], rest)
      BY <1>8
    <2>3. StepsInv(ls, f2, rest, p) /\ CarryInv(f2, rest, rs2)
      BY <1>4, <1>6
    <2> HIDE DEF rest
    <2>4. HandlerInv(ls, [f2 EXCEPT ![l] = Dispersed(f2[l])],
                     CloseTodo(f2[l].queue, l, how, rest), p, rs2)
      BY ONLY <1>1, <1>3, <1>7, <1>9, <2>1, <2>2, <2>3, CloseInv
    <2> QED BY <2>4 DEF rest
  <1> QED BY ONLY <1>3, <1>5, <1>10

\* A new link has nothing that could be wrong.
LEMMA NewLinkFacts ==
    /\ NewLink \in LinkState /\ NewLink.queue = <<>> /\ NewLink.op = {}
    /\ NewLink.sock = "none" /\ PipeInv(NewLink) /\ NewLink.inbox = <<>> /\ NewLink.wire = <<>>
  <1>1. /\ NewLink \in LinkState /\ NewLink.queue = <<>> /\ NewLink.op = {}
        /\ NewLink.sock = "none" /\ NewLink.inbox = <<>> /\ NewLink.wire = <<>>
    BY DEF NewLink, LinkState
  <1>2. Owed(NewLink) = 0
    BY <1>1 DEF Owed
  <1>3. PipeInv(NewLink)
    BY <1>1, <1>2 DEF PipeInv
  <1> QED BY <1>1, <1>3

Distinct(ls) == \A i, j \in 1..Len(ls) : ls[i] = ls[j] => i = j
Deleted(ls, l) == Keep(ls, {i \in 1..Len(ls) : ls[i] # l})

\* The peer deletes a link from its list.
LEMMA DeleteFacts ==
    ASSUME NEW ls \in Seq(Links), Distinct(ls), NEW l
    PROVE  /\ Deleted(ls, l) \in Seq(Links) /\ Distinct(Deleted(ls, l))
           /\ Range(Deleted(ls, l)) = Range(ls) \ {l}
  <1> DEFINE I == {i \in 1..Len(ls) : ls[i] # l}
             ls2 == Deleted(ls, l)
  <1>1. \A i \in I : i \in 1..Len(ls)
    OBVIOUS
  <1>2. \A i : i \in I <=> i \in 1..Len(ls) /\ ls[i] # l
    OBVIOUS
  <1> HIDE DEF I, ls2
  <1>3. /\ Keep(ls, I) \in Seq(Links) /\ Len(Keep(ls, I)) = Cardinality(I)
        /\ Cardinality(I) \in Nat
        /\ \A k \in 1..Cardinality(I) : Place(I, k) \in I /\ Keep(ls, I)[k] = ls[Place(I, k)]
        /\ \A i \in I : \E k \in 1..Cardinality(I) : Place(I, k) = i
        /\ \A j, k \in 1..Cardinality(I) : Place(I, j) = Place(I, k) => j = k
    BY <1>1, KeepFacts
  <1>4. ls2 = Keep(ls, I)
    BY DEF I, ls2, Deleted
  <1> HIDE DEF Keep
  <1>5. \A m : m \in Range(ls) <=> \E i \in 1..Len(ls) : ls[i] = m
    BY DEF Range
  <1>s. ls2 \in Seq(Links)
    BY ONLY <1>3, <1>4
  <1>6. \A m : m \in Range(ls2) <=> \E i \in 1..Len(ls2) : ls2[i] = m
    BY ONLY <1>s DEF Range
  <1>7. ASSUME NEW m, m \in Range(ls2) PROVE m \in Range(ls) /\ m # l
    <2>1. PICK k \in 1..Len(ls2) : ls2[k] = m
      BY <1>6, <1>7
    <2>2. Place(I, k) \in I /\ ls[Place(I, k)] = m
      BY ONLY <1>3, <1>4, <2>1
    <2> QED BY ONLY <1>2, <1>5, <2>2
  <1>8. ASSUME NEW m, m \in Range(ls), m # l PROVE m \in Range(ls2)
    <2>1. PICK i \in 1..Len(ls) : ls[i] = m
      BY <1>5, <1>8
    <2>2. PICK k \in 1..Cardinality(I) : Place(I, k) = i
      BY <1>2, <1>3, <1>8, <2>1
    <2> QED BY <1>3, <1>4, <1>6, <2>1, <2>2
  <1>9. Range(ls2) = Range(ls) \ {l}
    BY <1>7, <1>8
  <1>10. ASSUME NEW i \in 1..Len(ls2), NEW j \in 1..Len(ls2), ls2[i] = ls2[j] PROVE i = j
    <2>1. Place(I, i) \in I /\ Place(I, j) \in I /\ ls[Place(I, i)] = ls[Place(I, j)]
      BY <1>3, <1>4, <1>10
    <2>2. Place(I, i) = Place(I, j)
      BY <1>1, <2>1 DEF Distinct
    <2> QED BY <1>3, <1>4, <2>2
  <1> QED BY <1>s, <1>9, <1>10 DEF Distinct, ls2

\* A closed link is deleted when its last operation has ended.
LEMMA SettleInv ==
    ASSUME NEW td \in Seq(Step), NEW p \in BOOLEAN, NEW rs,
           links \in Seq(Links), link \in [Links -> LinkState],
           LinksInv(links, link), StepsInv(links, link, td, p),
           NEW l \in Range(links), NEW k \in LinkState,
           \A i \in 1..Len(td) : td[i].do # "submit" => td[i].do # "read" /\ td[i].l # l,
           \A m \in Links : m # l =>
                FiniAt(m, link[m], td) /\ PipeAt(m, link[m], td),
           k.queue = <<>>, "fini" \in k.op, k.sock # "open",
           CarryInv([link EXCEPT ![l] = k], td, rs), Settle(l, k)
    PROVE  /\ HandlerInv(links', link', td, p, rs)
           /\ link'[l].sock = k.sock \/ link'[l].sock = "none"
           /\ \A m \in Links : m # l => link'[m] = link[m]
           /\ links = <<>> => links' = <<>>
  <1>1. l \in Links
    BY DEF Range
  <1> DEFINE k2 == link'[l]
  <1>2. /\ link' \in [Links -> LinkState] /\ k2 \in LinkState /\ k2.queue = <<>>
        /\ \A m \in Links : m # l => link'[m] = link[m]
        /\ LinkFinished(k) => k2 = NewLink
        /\ ~LinkFinished(k) => k2 = k
    BY <1>1, NewLinkFacts DEF Settle
  <1>3. /\ links' \in Seq(Links)
        /\ \A m \in Links : m # l => (m \in Range(links) <=> m \in Range(links'))
        /\ Distinct(links')
        /\ l \in Range(links') <=> ~LinkFinished(k)
    <2>1. CASE LinkFinished(k)
      <3>1. links' = Deleted(links, l)
        BY <2>1 DEF Settle, Deleted
      <3>2. Distinct(links)
        BY DEF LinksInv, Distinct
      <3>3. links' \in Seq(Links) /\ Distinct(links') /\ Range(links') = Range(links) \ {l}
        BY <3>1, <3>2, DeleteFacts
      <3> QED BY <2>1, <3>3
    <2>2. CASE ~LinkFinished(k)
      <3>1. links' = links
        BY <2>2 DEF Settle
      <3> QED BY <2>2, <3>1 DEF LinksInv, Distinct
    <2> QED BY <2>1, <2>2
  <1>4. CarryInv(link', td, rs)
    <2>1. \A m \in Links : link'[m].queue = [link EXCEPT ![l] = k][m].queue
      BY <1>1, <1>2
    <2> QED BY <2>1, CarrySame
  <1> HIDE DEF k2
  <1>5. LinksInv(links', link')
    <2>1. ASSUME NEW m \in Links, m \notin Range(links') PROVE link'[m] = NewLink
      BY <1>2, <1>3, <2>1 DEF LinksInv, k2
    <2> QED BY <1>3, <2>1 DEF LinksInv, Distinct
  <1>6. StepsInv(links', link', td, p)
    <2>1. \A m \in Range(links) : m \in Links
      BY DEF Range
    <2>2. ASSUME NEW i \in 1..Len(td), td[i].do # "submit"
          PROVE  /\ td[i].l \in Range(links')
                 /\ td[i].do = "shut" => "fini" \in link'[td[i].l].op
                 /\ td[i].do = "close" => p
                 /\ td[i].do # "read"
      <3>1. /\ td[i].l \in Range(links) /\ td[i].l # l /\ td[i].do # "read"
            /\ td[i].do = "shut" => "fini" \in link[td[i].l].op
            /\ td[i].do = "close" => p
        BY <2>2 DEF StepsInv
      <3> QED BY <1>2, <1>3, <2>1, <3>1
    <2> QED BY <2>2 DEF StepsInv
  <1>7. ASSUME NEW m \in Links PROVE FiniAt(m, link'[m], td) /\ PipeAt(m, link'[m], td)
    <2>1. CASE m # l
      <3>1. FiniAt(m, link[m], td) /\ PipeAt(m, link[m], td)
        BY <2>1
      <3>2. link'[m] = link[m] /\ (m \in Range(links) <=> m \in Range(links'))
        BY <1>2, <1>3, <2>1
      <3> QED BY <3>1, <3>2 DEF FiniAt
    <2>2. CASE m = l /\ LinkFinished(k)
      <3>1. link'[m] = NewLink /\ m \notin Range(links')
        BY <1>2, <1>3, <2>2 DEF k2
      <3> QED BY <3>1, NewLinkFacts DEF FiniAt, PipeAt
    <2>3. CASE m = l /\ ~LinkFinished(k)
      <3>1. link'[m] = k
        BY <1>2, <2>3 DEF k2
      <3>2. k.sock \in {"closing", "closed"}
        BY <2>3 DEF LinkFinished, LinkState
      <3>3. FiniAt(m, k, td)
        BY <3>2 DEF FiniAt
      <3>4. PipeAt(m, k, td)
        BY DEF PipeAt
      <3> QED BY <3>1, <3>3, <3>4
    <2> QED BY <2>1, <2>2, <2>3
  <1>8. FiniInv(link', td) /\ PipesInv(link', td)
    BY <1>7 DEF FiniInv, PipesInv
  <1>9. HandlerInv(links', link', td, p, rs)
    BY <1>2, <1>3, <1>4, <1>5, <1>6, <1>8 DEF HandlerInv
  <1>10. k2.sock = k.sock \/ k2.sock = "none"
    BY <1>2, NewLinkFacts
  <1>11. links # <<>>
    BY DEF Range
  <1> QED BY <1>2, <1>9, <1>10, <1>11 DEF k2

\* peer::close() has all links to close.
LEMMA CloseAllInv ==
    ASSUME NEW ls \in Seq(Links), NEW f \in [Links -> LinkState], NEW rs, LinksInv(ls, f),
           \A l \in Links :
              /\ "fini" \in f[l].op => f[l].queue = <<>> /\ f[l].sock \in {"closing", "closed"}
              /\ f[l].sock \in {"closing", "closed"} => "fini" \in f[l].op,
           CarryInv(f, <<>>, rs),
           NEW td, td = [i \in 1..Len(ls) |-> [do |-> "close", l |-> ls[i]]]
    PROVE  HandlerInv(ls, f, td, TRUE, rs)
  <1>1. Len(ls) \in Nat /\ \A i \in 1..Len(ls) : ls[i] \in Links
    OBVIOUS
  <1>2. \A i \in 1..Len(ls) : [do |-> "close", l |-> ls[i]] \in Step
    BY <1>1 DEF Step
  <1>3. td \in Seq(Step) /\ Len(td) = Len(ls)
    BY <1>1, <1>2
  <1>4. \A i \in 1..Len(ls) : td[i].do = "close" /\ td[i].l = ls[i]
    BY <1>1
  <1>5. \A m : m \in Range(ls) <=> \E i \in 1..Len(ls) : ls[i] = m
    BY DEF Range
  <1>6. StepsInv(ls, f, td, TRUE)
    BY <1>3, <1>4, <1>5 DEF StepsInv, LinksInv
  <1>7. \A m : m \in Range(ls) => m \in ToClose(td)
    BY <1>3, <1>4, <1>5, StepSets
  <1>8. CarryInv(f, td, rs)
    <2>1. \A i, r : ~Takes(td, i, r) /\ ~Takes(<<>>, i, r)
      BY <1>3, <1>4 DEF Takes
    <2>2. \A r \in Requests : Carry(f, td, rs, r) <=> Carry(f, <<>>, rs, r)
      BY <2>1, Zenon DEF Carry
    <2> QED BY <2>2, CarryEach
  <1>9. FiniInv(f, td)
    BY <1>7 DEF FiniInv, FiniAt
  <1>10. PipesInv(f, td)
    <2> SUFFICES ASSUME NEW m \in Links, m \notin ToClose(td) PROVE PipeInv(f[m])
      BY DEF PipesInv, PipeAt
    <2>1. f[m] = NewLink
      BY <1>7 DEF LinksInv
    <2> QED BY <2>1, NewLinkFacts
  <1> QED BY <1>3, <1>6, <1>8, <1>9, <1>10 DEF HandlerInv

-----------------------------------------------------------------------------
(***************************************************************************)
(* Every action keeps the invariant.                                       *)
(***************************************************************************)

\* The parts of the invariant ...
LEMMA Parts ==
    ASSUME ServerInv
    PROVE  /\ HandlerInv(links, link, todo, fini, res) /\ PeerInv /\ AnswerInv
           /\ links \in Seq(Links) /\ link \in [Links -> LinkState] /\ todo \in Seq(Step)
           /\ LinksInv(links, link) /\ StepsInv(links, link, todo, fini)
           /\ FiniInv(link, todo) /\ PipesInv(link, todo)
           /\ CarryInv(link, todo, res)
           /\ run \in {"RUN", "QUIT", "HALT"} /\ e \in BOOLEAN /\ fini \in BOOLEAN
           /\ resolve \in Resolving \cup {"none", "done", "failed"}
           /\ res \in [Requests -> {"none", "pending", "value", "error"}]
           /\ answer \in [Requests -> SUBSET Requests] /\ faults \in 0..MaxFaults
  BY DEF ServerInv, TypeOK, HandlerInv

\* ... and what makes it after a step.
LEMMA Assemble ==
    ASSUME HandlerInv(links', link', todo', fini', res'), PeerInv', AnswerInv',
           run' \in {"RUN", "QUIT", "HALT"}, e' \in BOOLEAN, fini' \in BOOLEAN,
           resolve' \in Resolving \cup {"none", "done", "failed"},
           res' \in [Requests -> {"none", "pending", "value", "error"}],
           answer' \in [Requests -> SUBSET Requests], faults' \in 0..MaxFaults
    PROVE  ServerInv'
  <1>1. links' \in Seq(Links) /\ link' \in [Links -> LinkState] /\ todo' \in Seq(Step)
    BY DEF HandlerInv
  <1>2. TypeOK'
    BY <1>1 DEF TypeOK
  <1> QED BY <1>2 DEF ServerInv

\* A step that gives no response keeps the results which are values.
LEMMA AnswerKept ==
    ASSUME AnswerInv, answer' = answer,
           \A r \in Requests : res'[r] = "value" <=> res[r] = "value"
    PROVE  AnswerInv'
  BY DEF AnswerInv, OwnAnswer

\* The sockets stay as they are while the address is not known.
LEMMA PeerKept ==
    ASSUME PeerInv, resolve' = resolve,
           links = <<>> /\ todo = <<>> => links' = <<>> /\ todo' = <<>>,
           \A m \in Links : link[m].sock = "none" => link'[m].sock = "none"
    PROVE  PeerInv'
  BY DEF PeerInv

\* Of a handler only the submits change.
LEMMA StepsKept ==
    ASSUME NEW ls, NEW f, NEW td, NEW p \in BOOLEAN, NEW rs, HandlerInv(ls, f, td, p, rs),
           NEW td2 \in Seq(Step), NEW rs2, ToShut(td2) = ToShut(td), ToClose(td2) = ToClose(td),
           StepsInv(ls, f, td2, p), CarryInv(f, td2, rs2)
    PROVE  HandlerInv(ls, f, td2, p, rs2)
  BY DEF HandlerInv, FiniInv, FiniAt, PipesInv, PipeAt

\* A link while no handler is about to close one.
LEMMA AtRest ==
    ASSUME ServerInv, Idle(todo), NEW l \in Links
    PROVE  /\ link[l] \in LinkState
           /\ "fini" \in link[l].op => link[l].queue = <<>> /\ link[l].sock \in {"closing", "closed"}
           /\ link[l].sock \in {"closing", "closed"} => l \in Range(links) /\ "fini" \in link[l].op
           /\ link[l].op # {} => l \in Range(links)
           /\ link[l].sock = "open" => l \in Range(links) /\ "fini" \notin link[l].op
           /\ "fini" \notin link[l].op => PipeInv(link[l])
  <1>1. HandlerInv(links, link, todo, fini, res) /\ todo \in Seq(Step) /\ fini \in BOOLEAN
    BY Parts
  <1>2. /\ link[l] \in LinkState
        /\ "fini" \in link[l].op => link[l].queue = <<>> /\ link[l].sock \in {"closing", "closed"}
        /\ link[l].sock \in {"closing", "closed"} => "fini" \in link[l].op
        /\ "fini" \notin link[l].op => PipeInv(link[l])
        /\ link[l].op # {} => l \in Range(links)
        /\ link[l].sock # "none" => l \in Range(links)
    BY <1>1, IdleLink
  <1> QED BY <1>2

\* server::submit().
LEMMA SubmitInv ==
    ASSUME ServerInv, NEW r \in Requests, Submit(r) PROVE ServerInv'
  <1>0. /\ HandlerInv(links, link, todo, fini, res) /\ PeerInv /\ AnswerInv
        /\ CarryInv(link, todo, res) /\ fini \in BOOLEAN /\ e \in BOOLEAN
        /\ run \in {"RUN", "QUIT", "HALT"}
        /\ resolve \in Resolving \cup {"none", "done", "failed"}
        /\ res \in [Requests -> {"none", "pending", "value", "error"}]
        /\ answer \in [Requests -> SUBSET Requests] /\ faults \in 0..MaxFaults
    BY Parts
  <1>1. /\ todo = <<>> /\ res[r] = "none" /\ links' = links /\ link' = link /\ fini' = fini
        /\ run' = run /\ answer' = answer /\ faults' = faults
    BY DEF Submit
  <1>2. res' \in [Requests -> {"none", "pending", "value", "error"}] /\ AnswerInv'
    <2>1. /\ res' \in [Requests -> {"none", "pending", "value", "error"}]
          /\ \A x \in Requests : res'[x] = "value" <=> res[x] = "value"
      BY <1>0, <1>1 DEF Submit
    <2> QED BY <1>0, <1>1, <2>1, AnswerKept
  <1>3. CASE run # "RUN"
    <2>1. todo' = todo /\ resolve' = resolve /\ e' = e /\ res' = [res EXCEPT ![r] = "error"]
      BY <1>3 DEF Submit
    <2>2. \A x \in Requests : res'[x] = "pending" <=> res[x] = "pending"
      BY <1>0, <1>1, <2>1
    <2>3. CarryInv(link, todo, res')
      BY <1>0, <2>2, CarrySame
    <2>4. HandlerInv(links, link, todo, fini, res')
      BY <1>0, <2>3 DEF HandlerInv
    <2>5. PeerInv'
      BY <1>0, <1>1, <2>1 DEF PeerInv
    <2> QED BY <1>0, <1>1, <1>2, <2>1, <2>4, <2>5, Assemble
  <1>4. CASE run = "RUN"
    <2> DEFINE x == [do |-> "submit", r |-> r]
    <2>1. /\ todo' = <<x>> /\ res' = [res EXCEPT ![r] = "pending"]
          /\ e' = e \/ e' = TRUE
          /\ resolve' \in (IF resolve = "none" THEN {"SRV", "AAAA", "done", "failed"}
                                              ELSE {resolve})
      BY <1>4 DEF Submit, ResolveThrows
    <2>2. x \in Step /\ x.do = "submit" /\ x.r = r
      BY DEF Step
    <2> HIDE DEF x
    <2>3. /\ todo' \in Seq(Step) /\ Len(todo') = 1 /\ todo'[1] = x
      BY <2>1, <2>2
    <2>4. StepsInv(links, link, todo', fini) /\ ToShut(todo') = {} /\ ToClose(todo') = {}
      BY <2>2, <2>3 DEF StepsInv, ToShut, ToClose
    <2>5. CarryInv(link, todo', res')
      <3> SUFFICES ASSUME NEW y \in Requests PROVE Carry(link, todo', res', y)
        BY CarryEach
      <3>1. Carry(link, <<>>, res, y)
        BY <1>0, <1>1, CarryEach
      <3>2. \A i : ~Takes(<<>>, i, y)
        BY DEF Takes
      <3>3. \A i : Takes(todo', i, y) <=> i = 1 /\ y = r
        BY <2>2, <2>3 DEF Takes
      <3>4. res'[y] = "pending" <=> res[y] = "pending" \/ y = r
        BY <1>0, <2>1
      <3> QED BY <1>1, <3>1, <3>2, <3>3, <3>4 DEF Carry
    <2>6. HandlerInv(links, link, todo', fini, res')
      <3>1. ToShut(todo) = {} /\ ToClose(todo) = {}
        BY <1>1, NoSteps
      <3>2. ToShut(todo') = ToShut(todo) /\ ToClose(todo') = ToClose(todo)
        BY <2>4, <3>1
      <3> QED BY ONLY <1>0, <2>3, <2>4, <2>5, <3>2, StepsKept
    <2>7. resolve' \in Resolving \cup {"none", "done", "failed"} /\ PeerInv'
      <3>1. resolve' \in Resolving \cup {"none", "done", "failed"} /\ resolve' # "none"
        BY <1>0, <2>1 DEF Resolving
      <3>2. resolve' # "done" => resolve # "done"
        BY <2>1
      <3> QED BY <1>0, <1>1, <1>4, <3>1, <3>2 DEF PeerInv
    <2>8. e' \in BOOLEAN
      BY <1>0, <2>1, Zenon
    <2> QED BY <1>0, <1>1, <1>2, <2>6, <2>7, <2>8, Assemble
  <1> QED BY <1>3, <1>4

\* server::cancel().
LEMMA CancelInv ==
    ASSUME ServerInv, NEW r \in Requests, Cancel(r) PROVE ServerInv'
  <1>0. /\ HandlerInv(links, link, todo, fini, res) /\ PeerInv /\ AnswerInv
        /\ link \in [Links -> LinkState] /\ links \in Seq(Links) /\ todo \in Seq(Step)
        /\ CarryInv(link, todo, res) /\ fini \in BOOLEAN /\ e \in BOOLEAN
        /\ run \in {"RUN", "QUIT", "HALT"}
        /\ resolve \in Resolving \cup {"none", "done", "failed"}
        /\ res \in [Requests -> {"none", "pending", "value", "error"}]
        /\ answer \in [Requests -> SUBSET Requests] /\ faults \in 0..MaxFaults
    BY Parts
  <1>l. PICK l \in Range(links) : \E i \in 1..Len(link[l].queue) :
            /\ link[l].queue[i].r = r /\ link[l].queue[i].req = "user"
            /\ link' = [link EXCEPT ![l].queue = CancelTag(@, i)]
    BY DEF Cancel
  <1>1. PICK i \in 1..Len(link[l].queue) :
            /\ link[l].queue[i].r = r /\ link[l].queue[i].req = "user"
            /\ link' = [link EXCEPT ![l].queue = CancelTag(@, i)]
    BY <1>l
  <1>2. /\ todo = <<>> /\ todo' = todo /\ res' = [res EXCEPT ![r] = "error"]
        /\ run' = run /\ resolve' = resolve /\ e' = e /\ fini' = fini /\ links' = links
        /\ answer' = answer /\ faults' = faults
    BY DEF Cancel, peer
  <1> DEFINE q == link[l].queue
             q2 == CancelTag(q, i)
             k == [link[l] EXCEPT !.queue = q2]
  <1>3. l \in Links /\ link[l] \in LinkState
    BY <1>0 DEF Range
  <1>4. q \in Seq(Tag) /\ Len(q) \in Nat
    BY <1>3, LinkParts
  <1>5. link' = [link EXCEPT ![l] = k]
    BY <1>0, <1>1, <1>3
  <1> HIDE DEF q
  <1>6. /\ q2 \in Seq(Tag) /\ Len(q2) = Len(q) /\ q2[i].req # "user"
        /\ \A j \in 1..Len(q) : q2[j].w = q[j].w /\ q2[j].r = q[j].r
        /\ \A j \in 1..Len(q) : j # i => q2[j] = q[j]
    <2>1. i \in 1..Len(q) /\ q[i] \in Tag
      BY <1>1, <1>4 DEF q
    <2> DEFINE x == [q[i] EXCEPT !.req = IF Committed(q[i]) THEN "dummy" ELSE "null"]
    <2>2. x \in Tag /\ x.req # "user" /\ x.w = q[i].w /\ x.r = q[i].r
      BY <2>1 DEF Tag
    <2>3. q2 = [q EXCEPT ![i] = x]
      BY <1>4, <2>1 DEF CancelTag
    <2> HIDE DEF x
    <2> QED BY <1>4, <2>1, <2>2, <2>3
  <1> HIDE DEF q2
  <1>7. /\ k \in LinkState /\ k.queue = q2 /\ k.op = link[l].op /\ k.sock = link[l].sock
        /\ k.inbox = link[l].inbox /\ k.wire = link[l].wire
    BY <1>3, <1>6 DEF LinkState
  <1> HIDE DEF k
  <1>8. Idle(todo) /\ todo \in Seq(Step)
    BY <1>2, NoSteps
  <1>9. /\ "fini" \in link[l].op => link[l].queue = <<>> /\ link[l].sock \in {"closing", "closed"}
        /\ link[l].sock \in {"closing", "closed"} => "fini" \in link[l].op
        /\ "fini" \notin link[l].op => PipeInv(link[l])
    BY <1>0, <1>3, <1>8, IdleLink
  <1>10. "fini" \notin link[l].op
    BY <1>1, <1>9
  <1>11. PipeInv(k)
    <2>1. link[l].queue = q /\ PipeInv(link[l])
      BY <1>9, <1>10 DEF q
    <2> QED BY <1>3, <1>4, <1>6, <1>7, <2>1, PipePrefix, SMTT(30)
  <1>12. \A y \in Requests : (res'[y] = "pending" <=> res[y] = "pending" /\ y # r)
                             /\ (res'[y] = "error" \/ res'[y] = res[y])
    BY <1>0, <1>2
  <1>13. CarryInv([link EXCEPT ![l] = k], todo, res')
    <2>1. Struck(q, k.queue, i) /\ Ended(res, res', q[i].r) /\ q = link[l].queue
      BY <1>1, <1>6, <1>7, <1>12 DEF q, Struck, Ended
    <2> QED BY ONLY <1>0, <1>3, <2>1, CarryGone
  <1>14. HandlerInv(links, link', todo, fini, res')
    <2>1. CarryInv(link', <<>>, res') /\ StepsInv(links, link', todo, fini)
      BY <1>2, <1>5, <1>13, NoSteps
    <2>2. /\ "fini" \in k.op => k.queue = <<>> /\ k.sock \in {"closing", "closed"}
          /\ k.sock \in {"closing", "closed"} => "fini" \in k.op
          /\ "fini" \notin k.op => PipeInv(k)
          /\ k \in LinkState /\ l \in Range(links)
      BY <1>7, <1>9, <1>10, <1>11
    <2> QED BY ONLY <1>0, <1>5, <1>8, <2>1, <2>2, UpdateInv, Zenon
  <1>15. PeerInv'
    <2>1. \A m \in Links : link'[m].sock = link[m].sock
      BY <1>0, <1>3, <1>5, <1>7
    <2> QED BY <1>0, <1>2, <2>1, PeerKept
  <1>16. AnswerInv'
    <2>1. res[r] = "pending"
      <3>1. Holds(link, l, i, r)
        BY <1>1 DEF Holds
      <3>2. Carry(link, todo, res, r)
        BY <1>0, CarryEach
      <3> QED BY <1>3, <3>1, <3>2 DEF Carry
    <2>2. \A y \in Requests : res'[y] = "value" <=> res[y] = "value"
      BY <1>0, <1>2, <2>1
    <2> QED BY <1>0, <1>2, <2>2, AnswerKept
  <1>17. res' \in [Requests -> {"none", "pending", "value", "error"}]
    BY <1>0, <1>2
  <1> QED BY <1>0, <1>2, <1>14, <1>15, <1>16, <1>17, Assemble

\* A step that changes links only, and gives no result.
LEMMA Finish ==
    ASSUME ServerInv, HandlerInv(links', link', todo', fini, res),
           run' = run, resolve' = resolve, fini' = fini, res' = res, answer' = answer,
           e' \in BOOLEAN, faults' \in 0..MaxFaults,
           links = <<>> /\ todo = <<>> => links' = <<>> /\ todo' = <<>>,
           \A m \in Links : link[m].sock = "none" => link'[m].sock = "none"
    PROVE  ServerInv'
  <1>0. /\ PeerInv /\ AnswerInv /\ fini \in BOOLEAN /\ run \in {"RUN", "QUIT", "HALT"}
        /\ resolve \in Resolving \cup {"none", "done", "failed"}
        /\ res \in [Requests -> {"none", "pending", "value", "error"}]
        /\ answer \in [Requests -> SUBSET Requests]
    BY Parts
  <1>1. PeerInv'
    BY <1>0, PeerKept
  <1>2. AnswerInv'
    BY <1>0, AnswerKept
  <1> QED BY <1>0, <1>1, <1>2, Assemble

\* The queue and the stream of a link make its pipe.
LEMMA PipeSame ==
    ASSUME NEW k, NEW k2, PipeInv(k),
           k2.queue = k.queue, k2.inbox = k.inbox, k2.wire = k.wire
    PROVE  PipeInv(k2)
  BY DEF PipeInv, Owed, Owner

\* k2 is k but for its operations.
SameBut(k, k2) ==
    /\ k2 \in LinkState /\ k2.queue = k.queue /\ k2.inbox = k.inbox /\ k2.wire = k.wire
    /\ k2.sock = k.sock /\ ("fini" \in k2.op <=> "fini" \in k.op)

\* Waiting starts, or ends, an operation.
LEMMA WaitFacts ==
    ASSUME NEW k \in LinkState, NEW x \in {"init", "read", "write"}
    PROVE  SameBut(k, WaitFor(k, x)) /\ SameBut(k, [k EXCEPT !.op = @ \ {x}])
  BY DEF SameBut, WaitFor, LinkState

\* It may do both.
LEMMA SameButTwice ==
    ASSUME NEW k, NEW k1, NEW k2, SameBut(k, k1), SameBut(k1, k2) PROVE SameBut(k, k2)
  BY DEF SameBut

\* A link whose operations change keeps the invariant of an idle handler.
LEMMA SameInv ==
    ASSUME NEW ls, NEW f, NEW td \in Seq(Step), NEW p \in BOOLEAN, NEW rs,
           Idle(td), HandlerInv(ls, f, td, p, rs), NEW l \in Range(ls),
           NEW k, SameBut(f[l], k), NEW td2 \in Seq(Step), Idle(td2),
           StepsInv(ls, [f EXCEPT ![l] = k], td2, p)
    PROVE  HandlerInv(ls, [f EXCEPT ![l] = k], td2, p, rs)
  <1>1. /\ ls \in Seq(Links) /\ f \in [Links -> LinkState] /\ CarryInv(f, td, rs)
    BY DEF HandlerInv
  <1>2. l \in Links
    BY <1>1 DEF Range
  <1>3. /\ "fini" \in f[l].op => f[l].queue = <<>> /\ f[l].sock \in {"closing", "closed"}
        /\ f[l].sock \in {"closing", "closed"} => "fini" \in f[l].op
        /\ "fini" \notin f[l].op => PipeInv(f[l])
    BY <1>2, IdleLink
  <1>4. /\ "fini" \in k.op => k.queue = <<>> /\ k.sock \in {"closing", "closed"}
        /\ k.sock \in {"closing", "closed"} => "fini" \in k.op
        /\ k \in LinkState
    BY <1>3 DEF SameBut
  <1>5. "fini" \notin k.op => PipeInv(k)
    BY <1>3, PipeSame DEF SameBut
  <1> DEFINE f2 == [f EXCEPT ![l] = k]
  <1>6. CarryInv(f2, <<>>, rs)
    <2>1. \A m \in Links : f2[m].queue = f[m].queue
      BY <1>1, <1>2 DEF SameBut
    <2>2. CarryInv(f, <<>>, rs)
      BY <1>1, IdleFacts
    <2> HIDE DEF f2
    <2> QED BY <2>1, <2>2, CarrySame
  <1>7. StepsInv(ls, f2, td2, p) /\ Idle(td2) /\ td2 \in Seq(Step)
    OBVIOUS
  <1>8. /\ p \in BOOLEAN /\ Idle(td) /\ td \in Seq(Step) /\ HandlerInv(ls, f, td, p, rs)
        /\ l \in Range(ls) /\ f2 = [f EXCEPT ![l] = k]
    OBVIOUS
  <1> HIDE DEF f2
  <1>9. HandlerInv(ls, f2, td2, p, rs)
    BY ONLY <1>4, <1>5, <1>6, <1>7, <1>8, UpdateInv, Zenon
  <1> QED BY <1>8, <1>9

\* handle_open() of a link which is open.
LEMMA OpenSucceedsInv ==
    ASSUME ServerInv, NEW l \in Links, OpenSucceeds(l) PROVE ServerInv'
  <1>0. /\ HandlerInv(links, link, todo, fini, res) /\ link \in [Links -> LinkState]
        /\ fini \in BOOLEAN /\ e \in BOOLEAN /\ faults \in 0..MaxFaults /\ todo \in Seq(Step)
    BY Parts
  <1> DEFINE k1 == [link[l] EXCEPT !.op = @ \ {"init"}]
             k == WaitFor(k1, "write")
  <1>1. /\ todo = <<>> /\ "init" \in link[l].op /\ link' = [link EXCEPT ![l] = k]
        /\ run' = run /\ resolve' = resolve /\ e' = e /\ fini' = fini /\ links' = links
        /\ todo' = todo /\ res' = res /\ answer' = answer /\ faults' = faults
    BY DEF OpenSucceeds, peer
  <1>2. SameBut(link[l], k)
    <2>1. link[l] \in LinkState /\ SameBut(link[l], k1)
      BY <1>0, WaitFacts
    <2>2. k1 \in LinkState
      BY <2>1 DEF SameBut
    <2> HIDE DEF k1
    <2> QED BY <2>1, <2>2, WaitFacts, SameButTwice
  <1> HIDE DEF k
  <1>3. Idle(todo)
    BY <1>1, NoSteps
  <1>4. l \in Range(links)
    BY <1>0, <1>1, <1>3, IdleLink
  <1>5. HandlerInv(links, link', todo, fini, res)
    <2>1. StepsInv(links, [link EXCEPT ![l] = k], todo, fini)
      BY <1>1, NoSteps
    <2> QED BY ONLY <1>0, <1>1, <1>2, <1>3, <1>4, <2>1, SameInv
  <1>6. \A m \in Links : link'[m].sock = link[m].sock
    BY <1>0, <1>1, <1>2 DEF SameBut
  <1> QED BY <1>0, <1>1, <1>5, <1>6, Finish

\* handle_readable() of a link that was sent something: there is a tag for it.
LEMMA HandleReadableInv ==
    ASSUME ServerInv, NEW l \in Links, HandleReadable(l) PROVE ServerInv'
  <1>0. /\ HandlerInv(links, link, todo, fini, res) /\ link \in [Links -> LinkState]
        /\ fini \in BOOLEAN /\ e \in BOOLEAN /\ faults \in 0..MaxFaults /\ todo \in Seq(Step)
    BY Parts
  <1> DEFINE k == [link[l] EXCEPT !.op = @ \ {"read"}]
             x == [do |-> "read", l |-> l, overrun |-> <<>>]
  <1>1. /\ todo = <<>> /\ "read" \in link[l].op /\ link' = [link EXCEPT ![l] = k]
        /\ link[l].inbox # <<>> /\ link[l].sock = "open" /\ todo' = <<x>>
        /\ run' = run /\ resolve' = resolve /\ e' = e /\ fini' = fini /\ links' = links
        /\ res' = res /\ answer' = answer /\ faults' = faults
    BY <1>0 DEF HandleReadable, peer
  <1>2. link[l] \in LinkState /\ SameBut(link[l], k)
    BY <1>0, WaitFacts
  <1>3. Idle(todo)
    BY <1>1, NoSteps
  <1>4. l \in Range(links) /\ "fini" \notin link[l].op /\ PipeInv(link[l])
    BY <1>1, <1>3, AtRest
  <1>5. x \in Step /\ x.do = "read" /\ x.l = l /\ x.overrun = <<>>
    BY DEF Step
  <1> HIDE DEF x, k
  <1>6. <<x>> \in Seq(Step) /\ Len(<<x>>) = 1 /\ <<x>>[1] = x /\ Idle(<<x>>)
    BY <1>5 DEF Idle
  <1>7. StepsInv(links, [link EXCEPT ![l] = k], <<x>>, fini)
    <2>1. link[l].queue # <<>>
      BY <1>1, <1>2, <1>4, PipeFront
    <2>2. "fini" \notin k.op /\ k.queue # <<>>
      BY <1>2, <1>4, <2>1 DEF SameBut
    <2>3. [link EXCEPT ![l] = k][l] = k
      BY <1>0
    <2> QED BY <1>4, <1>5, <1>6, <2>2, <2>3 DEF StepsInv
  <1>8. HandlerInv(links, [link EXCEPT ![l] = k], <<x>>, fini, res)
    <2> DEFINE t == <<x>>
    <2>1. t \in Seq(Step) /\ Idle(t) /\ StepsInv(links, [link EXCEPT ![l] = k], t, fini)
      BY <1>6, <1>7
    <2> HIDE DEF t
    <2>2. HandlerInv(links, [link EXCEPT ![l] = k], t, fini, res)
      BY ONLY <1>0, <1>2, <1>3, <1>4, <2>1, SameInv
    <2> QED BY <2>2 DEF t
  <1>9. \A m \in Links : link'[m].sock = link[m].sock
    BY <1>0, <1>1, <1>2 DEF SameBut
  <1>10. links # <<>>
    BY <1>4 DEF Range
  <1> QED BY <1>0, <1>1, <1>8, <1>9, <1>10, Finish

\* The remote answers in order.
LEMMA RemoteAnswersInv ==
    ASSUME ServerInv, NEW l \in Links, RemoteAnswers(l) PROVE ServerInv'
  <1>0. /\ HandlerInv(links, link, todo, fini, res) /\ link \in [Links -> LinkState]
        /\ fini \in BOOLEAN /\ e \in BOOLEAN /\ faults \in 0..MaxFaults /\ todo \in Seq(Step)
        /\ CarryInv(link, todo, res)
    BY Parts
  <1>1. /\ todo = <<>> /\ link[l].sock = "open" /\ link[l].wire # <<>>
        /\ run' = run /\ resolve' = resolve /\ e' = e /\ fini' = fini /\ links' = links
        /\ todo' = todo /\ res' = res /\ answer' = answer /\ faults' = faults
    BY DEF RemoteAnswers, peer
  <1>2. Idle(todo)
    BY <1>1, NoSteps
  <1>3. /\ l \in Range(links) /\ link[l] \in LinkState
        /\ "fini" \notin link[l].op
        /\ PipeInv(link[l])
    BY <1>1, <1>2, AtRest
  <1>4. \E k \in LinkState : /\ link' = [link EXCEPT ![l] = k] /\ PipeInv(k)
                             /\ k.queue = link[l].queue /\ k.op = link[l].op
                             /\ k.sock = link[l].sock
    <2> DEFINE r == Head(link[l].wire)
               b == link[l].inbox
               own == [link[l] EXCEPT !.wire = Tail(@), !.inbox = Append(@, <<Head(link[l].wire)>>)]
               c == [b EXCEPT ![Len(b)] = Append(b[Len(b)], r)]
               joined == [link[l] EXCEPT !.wire = Tail(@), !.inbox = c]
    <2>t. b \in Seq(Seq(Requests) \ {<<>>}) /\ r \in Requests
      <3>1. link[l].wire \in Seq(Requests)
        BY <1>3, LinkParts
      <3> QED BY <1>1, <1>3, <3>1, LinkParts
    <2>1. CASE link' = [link EXCEPT ![l] = own]
      <3>1. own.queue = link[l].queue /\ own.op = link[l].op /\ own.sock = link[l].sock
        BY <1>3 DEF LinkState
      <3>2. own \in LinkState /\ PipeInv(own)
        BY <1>1, <1>3, PipeAnswer
      <3> HIDE DEF own
      <3> QED BY <2>1, <3>1, <3>2
    <2>2. CASE Coalesce /\ b # <<>> /\ link' = [link EXCEPT ![l] = joined]
      <3>1. c \in Seq(Seq(Requests) \ {<<>>}) /\ Len(c) = Len(b)
        <4> HIDE DEF b, r
        <4> QED BY <2>t, <2>2, CoalesceType
      <3> HIDE DEF c
      <3>3. joined.queue = link[l].queue /\ joined.op = link[l].op /\ joined.sock = link[l].sock
        BY <1>3 DEF LinkState
      <3>4. joined \in LinkState /\ PipeInv(joined)
        BY <1>1, <1>3, <2>2, <3>1, PipeCoalesce
      <3> HIDE DEF joined
      <3> QED BY <2>2, <3>3, <3>4
    <2> QED BY <2>1, <2>2 DEF RemoteAnswers
  <1>5. PICK k \in LinkState : /\ link' = [link EXCEPT ![l] = k] /\ PipeInv(k)
                               /\ k.queue = link[l].queue /\ k.op = link[l].op
                               /\ k.sock = link[l].sock
    BY <1>4
  <1>6. HandlerInv(links, link', todo, fini, res)
    <2>1. /\ "fini" \in k.op => k.queue = <<>> /\ k.sock \in {"closing", "closed"}
          /\ k.sock \in {"closing", "closed"} => "fini" \in k.op
          /\ "fini" \notin k.op => PipeInv(k)
          /\ k \in LinkState /\ l \in Range(links)
      BY <1>1, <1>3, <1>5
    <2>2. CarryInv(link', <<>>, res)
      <3>1. \A m \in Links : link'[m].queue = link[m].queue
        BY <1>0, <1>5
      <3> QED BY <1>0, <1>1, <3>1, CarrySame
    <2>3. StepsInv(links, link', todo, fini)
      BY <1>1, NoSteps
    <2> QED BY ONLY <1>0, <1>2, <1>5, <2>1, <2>2, <2>3, UpdateInv, Zenon
  <1>7. \A m \in Links : link'[m].sock = link[m].sock
    BY <1>0, <1>5
  <1> QED BY <1>0, <1>1, <1>6, <1>7, Finish

\* A closed link ends an operation, or its socket's shutdown.
LEMMA SettleIdle ==
    ASSUME ServerInv, todo = <<>>, NEW l \in Links, NEW k \in LinkState, "fini" \in link[l].op,
           k.queue = link[l].queue, "fini" \in k.op, k.sock \in {"closing", "closed"},
           Settle(l, k)
    PROVE  /\ HandlerInv(links', link', todo, fini, res)
           /\ links # <<>>
           /\ \A m \in Links : link[m].sock = "none" => link'[m].sock = "none"
  <1>0. /\ HandlerInv(links, link, todo, fini, res) /\ todo \in Seq(Step) /\ fini \in BOOLEAN
        /\ links \in Seq(Links) /\ link \in [Links -> LinkState]
        /\ LinksInv(links, link) /\ StepsInv(links, link, todo, fini)
        /\ FiniInv(link, todo) /\ PipesInv(link, todo)
        /\ CarryInv(link, todo, res)
    BY Parts
  <1>1. /\ l \in Range(links) /\ link[l].queue = <<>> /\ k.queue = <<>>
        /\ link[l].sock \in {"closing", "closed"}
    BY AtRest, NoSteps
  <1>2. \A i \in 1..Len(todo) : todo[i].do # "submit" => todo[i].do # "read" /\ todo[i].l # l
    BY NoSteps
  <1>3. \A m \in Links : m # l => FiniAt(m, link[m], todo) /\ PipeAt(m, link[m], todo)
    BY <1>0 DEF FiniInv, PipesInv
  <1>4. CarryInv([link EXCEPT ![l] = k], todo, res)
    <2>1. \A m \in Links : [link EXCEPT ![l] = k][m].queue = link[m].queue
      BY <1>0
    <2> QED BY <1>0, <2>1, CarrySame
  <1>5. k.sock # "open" /\ k \in LinkState /\ "fini" \in k.op /\ Settle(l, k)
    OBVIOUS
  <1>6. /\ HandlerInv(links', link', todo, fini, res)
        /\ link'[l].sock = k.sock \/ link'[l].sock = "none"
        /\ \A m \in Links : m # l => link'[m] = link[m]
    BY ONLY <1>0, <1>1, <1>2, <1>3, <1>4, <1>5, SettleInv
  <1>7. links # <<>>
    BY <1>1 DEF Range
  <1> QED BY <1>1, <1>6, <1>7

\* socket::handle_disconnect().
LEMMA HandleDisconnectInv ==
    ASSUME ServerInv, NEW l \in Links, HandleDisconnect(l) PROVE ServerInv'
  <1> DEFINE k == [link[l] EXCEPT !.sock = "closed"]
  <1>1. /\ todo = <<>> /\ link[l].sock = "closing" /\ Settle(l, k)
        /\ run' = run /\ resolve' = resolve /\ e' = e /\ fini' = fini
        /\ todo' = todo /\ res' = res /\ answer' = answer /\ faults' = faults
    BY DEF HandleDisconnect, peer
  <1>2. link[l] \in LinkState /\ "fini" \in link[l].op
    BY <1>1, AtRest, NoSteps
  <1>3. k \in LinkState /\ k.queue = link[l].queue /\ k.op = link[l].op /\ k.sock = "closed"
    BY <1>2 DEF LinkState
  <1> HIDE DEF k
  <1>4. /\ HandlerInv(links', link', todo, fini, res) /\ links # <<>>
        /\ \A m \in Links : link[m].sock = "none" => link'[m].sock = "none"
    BY <1>1, <1>2, <1>3, SettleIdle
  <1>5. e \in BOOLEAN /\ faults \in 0..MaxFaults
    BY Parts
  <1> QED BY <1>1, <1>4, <1>5, Finish

\* A cancelled wait.
LEMMA CanceledInv ==
    ASSUME ServerInv, NEW l \in Links, NEW x \in {"read", "write"}, Canceled(l, x)
    PROVE  ServerInv'
  <1> DEFINE k == [link[l] EXCEPT !.op = @ \ {x}]
  <1>1. /\ todo = <<>> /\ link[l].sock \in {"closing", "closed"} /\ Settle(l, k)
        /\ run' = run /\ resolve' = resolve /\ e' = e /\ fini' = fini
        /\ todo' = todo /\ res' = res /\ answer' = answer /\ faults' = faults
    BY DEF Canceled, peer
  <1>2. link[l] \in LinkState /\ "fini" \in link[l].op
    BY <1>1, AtRest, NoSteps
  <1>3. SameBut(link[l], k)
    BY <1>2, WaitFacts
  <1> HIDE DEF k
  <1>4. /\ HandlerInv(links', link', todo, fini, res) /\ links # <<>>
        /\ \A m \in Links : link[m].sock = "none" => link'[m].sock = "none"
    BY <1>1, <1>2, <1>3, SettleIdle DEF SameBut
  <1>5. e \in BOOLEAN /\ faults \in 0..MaxFaults
    BY Parts
  <1> QED BY <1>1, <1>4, <1>5, Finish

\* A handler ends an operation of a link and closes it.
LEMMA CloseSame ==
    ASSUME ServerInv, todo = <<>>, NEW l \in Range(links), NEW k, SameBut(link[l], k),
           NEW how \in {"RST", "NOTIFY"}, Close([link EXCEPT ![l] = k], l, how, <<>>)
    PROVE  /\ HandlerInv(links, link', todo', fini, res) /\ links # <<>>
           /\ \A m \in Links : link'[m].sock = link[m].sock
  <1>0. /\ HandlerInv(links, link, todo, fini, res) /\ todo \in Seq(Step) /\ fini \in BOOLEAN
        /\ links \in Seq(Links) /\ link \in [Links -> LinkState] /\ CarryInv(link, todo, res)
    BY Parts
  <1>1. l \in Links /\ links # <<>>
    BY <1>0 DEF Range
  <1>2. Idle(todo) /\ StepsInv(links, [link EXCEPT ![l] = k], todo, fini)
    BY NoSteps
  <1>3. k \in LinkState /\ k.sock = link[l].sock
    BY DEF SameBut
  <1>4. CASE "fini" \in k.op
    <2>1. link' = [link EXCEPT ![l] = k] /\ todo' = todo
      BY <1>0, <1>1, <1>4 DEF Close
    <2>2. HandlerInv(links, [link EXCEPT ![l] = k], todo, fini, res)
      BY <1>0, <1>2, SameInv
    <2>3. \A m \in Links : link'[m].sock = link[m].sock
      BY <1>0, <1>1, <1>3, <2>1
    <2> QED BY <1>1, <2>1, <2>2, <2>3
  <1>5. CASE "fini" \notin k.op
    <2> DEFINE f2 == [link EXCEPT ![l] = k]
    <2>1. CarryInv(f2, <<>>, res) /\ \A m \in Links : f2[m].sock = link[m].sock
      <3>1. \A m \in Links : f2[m].queue = link[m].queue /\ f2[m].sock = link[m].sock
        BY <1>0, <1>1 DEF SameBut
      <3> HIDE DEF f2
      <3> QED BY <1>0, <3>1, CarrySame
    <2>2. /\ Close(f2, l, how, <<>>) /\ l \in Range(links) /\ how \in {"RST", "NOTIFY"}
          /\ f2 = [link EXCEPT ![l] = k]
      OBVIOUS
    <2> HIDE DEF f2
    <2>3. link' = Closed(f2, l) /\ todo' = CloseTodo(k.queue, l, how, <<>>)
      <3>1. f2[l] = k
        BY <1>0, <1>1, <2>2
      <3>2. "fini" \notin f2[l].op
        BY <1>5, <3>1
      <3>3. link' = Closed(f2, l) /\ todo' = CloseTodo(f2[l].queue, l, how, <<>>)
        BY ONLY <2>2, <3>2, Zenon DEF Close, Closed, CloseTodo
      <3> QED BY <3>1, <3>3
    <2>4. HandlerInv(links, Closed(f2, l), CloseTodo(k.queue, l, how, <<>>), fini, res)
      <3> HIDE <2>3
      <3>1. /\ todo \in Seq(Step) /\ fini \in BOOLEAN /\ HandlerInv(links, link, todo, fini, res)
            /\ Idle(todo) /\ k \in LinkState /\ "fini" \notin k.op /\ l \in Range(links)
            /\ how \in {"RST", "NOTIFY"} /\ f2 = [link EXCEPT ![l] = k] /\ CarryInv(f2, <<>>, res)
        BY <1>0, <1>2, <1>3, <1>5, <2>1, <2>2
      <3> QED BY ONLY <3>1, CloseIdle, Zenon
    <2>5. \A m \in Links : Closed(f2, l)[m].sock = f2[m].sock
      <3>1. f2 \in [Links -> LinkState]
        BY <1>0, <1>3, <2>2
      <3> QED BY ONLY <1>1, <3>1, CloseStep
    <2> QED BY <1>1, <2>1, <2>3, <2>4, <2>5
  <1> QED BY <1>4, <1>5

\* handle_error().
LEMMA HandleErrorInv ==
    ASSUME ServerInv, NEW l \in Links, NEW x \in {"read", "write"}, HandleError(l, x)
    PROVE  ServerInv'
  <1>0. e \in BOOLEAN /\ faults \in 0..MaxFaults /\ link \in [Links -> LinkState]
    BY Parts
  <1> DEFINE k == [link[l] EXCEPT !.op = @ \ {x}]
  <1>1. /\ todo = <<>> /\ link[l].sock = "open"
        /\ Close([link EXCEPT ![l].op = @ \ {x}], l, "RST", <<>>)
        /\ run' = run /\ resolve' = resolve /\ e' = e /\ fini' = fini /\ links' = links
        /\ res' = res /\ answer' = answer /\ faults < MaxFaults /\ faults' = faults + 1
    BY DEF HandleError, peer
  <1>2. l \in Range(links) /\ link[l] \in LinkState
    BY <1>1, AtRest, NoSteps
  <1>3. SameBut(link[l], k)
    BY <1>2, WaitFacts
  <1>4. [link EXCEPT ![l].op = @ \ {x}] = [link EXCEPT ![l] = k]
    BY <1>0
  <1> HIDE DEF k
  <1>5. Close([link EXCEPT ![l] = k], l, "RST", <<>>)
    BY <1>1, <1>4
  <1>6. /\ HandlerInv(links, link', todo', fini, res) /\ links # <<>>
        /\ \A m \in Links : link'[m].sock = link[m].sock
    BY <1>1, <1>2, <1>3, <1>5, CloseSame
  <1>7. faults' \in 0..MaxFaults
    BY <1>0, <1>1, ServerAssumption
  <1> QED BY <1>0, <1>1, <1>6, <1>7, Finish

\* handle_open() of a link which could not be opened.
LEMMA OpenFailsInv ==
    ASSUME ServerInv, NEW l \in Links, OpenFails(l) PROVE ServerInv'
  <1>0. e \in BOOLEAN /\ faults \in 0..MaxFaults /\ fini \in BOOLEAN
    BY Parts
  <1> DEFINE k == [link[l] EXCEPT !.op = @ \ {"init"}]
  <1>1. /\ todo = <<>> /\ "init" \in link[l].op /\ e' = (e \/ l = links[1])
        /\ faults' = faults \/ (faults < MaxFaults /\ faults' = faults + 1)
        /\ run' = run /\ resolve' = resolve /\ fini' = fini
        /\ res' = res /\ answer' = answer
    BY DEF OpenFails
  <1>2. /\ l \in Range(links) /\ link[l] \in LinkState
        /\ "fini" \in link[l].op => link[l].sock \in {"closing", "closed"}
    <2>1. l \in Range(links)
      BY <1>1, AtRest, NoSteps
    <2> QED BY <1>1, <2>1, AtRest, NoSteps
  <1>3. SameBut(link[l], k)
    BY <1>2, WaitFacts
  <1>4. e' \in BOOLEAN
    BY <1>1, Zenon
  <1>5. faults' \in 0..MaxFaults
    BY <1>0, <1>1, ServerAssumption
  <1>a. CASE fini /\ "fini" \notin link[l].op
    <2>1. Settle(l, k) /\ todo' = todo /\ link[l].sock = "open"
      <3>1. link[l].sock \in {"open", "closing", "closed"}
        BY DEF OpenFails
      <3>2. link[l].sock \in {"closing", "closed"} => "fini" \in link[l].op
        BY <1>1, AtRest, NoSteps
      <3> QED BY <1>a, <3>1, <3>2 DEF OpenFails
    <2>2. k.sock = "open" /\ k.op = link[l].op \ {"init"}
      BY <1>2, <2>1 DEF LinkState
    <2> HIDE DEF k
    <2>3. link' = [link EXCEPT ![l] = k] /\ links' = links
      BY <2>1, <2>2 DEF Settle, LinkFinished
    <2>4. "fini" \notin k.op
      BY <1>a, <2>2
    <2>5. HandlerInv(links, link', todo, fini, res)
      <3>1. HandlerInv(links, link, todo, fini, res) /\ todo \in Seq(Step) /\ Idle(todo)
        BY <1>1, Parts, NoSteps
      <3>2. StepsInv(links, [link EXCEPT ![l] = k], todo, fini)
        BY <1>1, NoSteps
      <3> QED BY ONLY <1>0, <1>2, <1>3, <2>3, <3>1, <3>2, SameInv
    <2> QED BY <1>1, <1>4, <1>5, <2>1, <2>2, <2>3, <2>5, Finish
  <1>6. CASE fini /\ "fini" \in link[l].op
    <2>1. Settle(l, k) /\ todo' = todo
      BY <1>6 DEF OpenFails
    <2> HIDE DEF k
    <2>2. /\ HandlerInv(links', link', todo, fini, res) /\ links # <<>>
          /\ \A m \in Links : link[m].sock = "none" => link'[m].sock = "none"
      BY <1>1, <1>2, <1>3, <1>6, <2>1, SettleIdle DEF SameBut
    <2> QED BY <1>1, <1>4, <1>5, <2>1, <2>2, Finish
  <1>7. CASE ~fini
    <2>1. Close([link EXCEPT ![l] = k], l, "RST", <<>>) /\ links' = links
      BY <1>7 DEF OpenFails
    <2> HIDE DEF k
    <2>2. /\ HandlerInv(links, link', todo', fini, res) /\ links # <<>>
          /\ \A m \in Links : link'[m].sock = link[m].sock
      BY <1>1, <1>2, <1>3, <2>1, CloseSame
    <2> QED BY <1>1, <1>4, <1>5, <2>1, <2>2, Finish
  <1> QED BY <1>0, <1>6, <1>7, <1>a

\* A handler leaves a link as k, with the requests' results rs, and closes it.
LEMMA CloseLink ==
    ASSUME ServerInv, Idle(todo), NEW l \in Range(links), NEW k \in LinkState,
           "fini" \notin k.op, k.sock = link[l].sock, NEW rs,
           CarryInv([link EXCEPT ![l] = k], <<>>, rs),
           NEW how \in {"RST", "NOTIFY"}, Close([link EXCEPT ![l] = k], l, how, <<>>)
    PROVE  /\ HandlerInv(links, link', todo', fini, rs)
           /\ \A m \in Links : link'[m].sock = link[m].sock
  <1>0. /\ HandlerInv(links, link, todo, fini, res) /\ todo \in Seq(Step) /\ fini \in BOOLEAN
        /\ links \in Seq(Links) /\ link \in [Links -> LinkState]
    BY Parts
  <1>1. l \in Links
    BY <1>0 DEF Range
  <1> DEFINE f2 == [link EXCEPT ![l] = k]
  <1>2. /\ f2[l] = k /\ \A m \in Links : f2[m].sock = link[m].sock
        /\ f2 \in [Links -> LinkState]
    BY <1>0, <1>1
  <1>3. /\ Close(f2, l, how, <<>>) /\ l \in Range(links) /\ how \in {"RST", "NOTIFY"}
        /\ f2 = [link EXCEPT ![l] = k] /\ CarryInv(f2, <<>>, rs) /\ k \in LinkState
        /\ Idle(todo) /\ "fini" \notin k.op
    OBVIOUS
  <1> HIDE DEF f2
  <1>4. link' = Closed(f2, l) /\ todo' = CloseTodo(k.queue, l, how, <<>>)
    <2>1. "fini" \notin f2[l].op
      BY <1>2, <1>3
    <2>2. link' = Closed(f2, l) /\ todo' = CloseTodo(f2[l].queue, l, how, <<>>)
      BY ONLY <1>3, <2>1, Zenon DEF Close, Closed, CloseTodo
    <2> QED BY <1>2, <2>2
  <1>5. HandlerInv(links, Closed(f2, l), CloseTodo(k.queue, l, how, <<>>), fini, rs)
    BY ONLY <1>0, <1>3, CloseIdle, Zenon
  <1>6. \A m \in Links : Closed(f2, l)[m].sock = f2[m].sock
    BY ONLY <1>1, <1>2, CloseStep
  <1> QED BY <1>2, <1>4, <1>5, <1>6

\* handle_writable().
LEMMA HandleWritableInv ==
    ASSUME ServerInv, NEW l \in Links, HandleWritable(l) PROVE ServerInv'
  <1>0. /\ HandlerInv(links, link, todo, fini, res) /\ link \in [Links -> LinkState]
        /\ fini \in BOOLEAN /\ e \in BOOLEAN /\ faults \in 0..MaxFaults /\ todo \in Seq(Step)
        /\ CarryInv(link, todo, res)
    BY Parts
  <1> DEFINE all == link[l].queue
             I == {i \in 1..Len(all) : Committed(all[i]) \/ all[i].req = "user"}
             q == Keep(all, I)
             k == [link[l] EXCEPT !.op = @ \ {"write"}, !.queue = q]
  <1>1. /\ todo = <<>> /\ link[l].sock = "open"
        /\ run' = run /\ resolve' = resolve /\ e' = e /\ fini' = fini /\ links' = links
        /\ res' = res /\ answer' = answer /\ faults' = faults
    BY DEF HandleWritable, peer
  <1>2. Idle(todo)
    BY <1>1, NoSteps
  <1>3. /\ l \in Range(links) /\ link[l] \in LinkState
        /\ "fini" \notin link[l].op
        /\ PipeInv(link[l])
    BY <1>1, <1>2, AtRest
  <1>4. links # <<>>
    BY <1>3 DEF Range
  <1>5. /\ \A i \in I : i \in 1..Len(all)
        /\ \A i \in Commits(all) : i \in I
        /\ \A i \in 1..Len(all) : all[i].req = "user" => i \in I
    BY DEF Commits
  <1>d. \/ /\ Close([link EXCEPT ![l] = k], l, "NOTIFY", <<>>)
        \/ \E n \in 0..Reach(q) :
              /\ n < Reach(q) => q[n + 1].w = "none"
              /\ LET new == Keep(q, Unsent(q, n))
                     armed == IF q # <<>> /\ TagCommitted(q) = 0 THEN WaitFor(k, "read") ELSE k
                     more == IF n < Reach(q) THEN WaitFor(armed, "write") ELSE armed
                     wrote == [more EXCEPT !.queue = Wrote(q, n),
                                           !.wire = @ \o [i \in 1..Len(new) |-> new[i].r]]
                 IN  link' = [link EXCEPT ![l] = wrote]
              /\ todo' = todo
    BY DEF HandleWritable
  <1> HIDE DEF I
  <1>6. all \in Seq(Tag)
    BY <1>3, LinkParts
  <1>7. q \in Seq(Tag)
    BY <1>5, <1>6, KeepFacts
  <1> HIDE DEF q
  <1>8. /\ k \in LinkState /\ k.queue = q /\ k.op = link[l].op \ {"write"}
        /\ k.sock = link[l].sock /\ k.inbox = link[l].inbox /\ k.wire = link[l].wire
    BY <1>3, <1>7 DEF LinkState
  <1> HIDE DEF k
  <1>9. PipeInv(k)
    BY <1>3, <1>5, <1>8, PipeKeep DEF q
  <1>10. CarryInv([link EXCEPT ![l] = k], <<>>, res)
    <2>1. k.queue = Keep(all, I) /\ all = link[l].queue /\ CarryInv(link, <<>>, res)
      BY <1>0, <1>1, <1>8 DEF q
    <2> HIDE DEF all
    <2> QED BY ONLY <1>0, <1>5, <2>1, l \in Links, CarryKeep
  <1>11. CASE Close([link EXCEPT ![l] = k], l, "NOTIFY", <<>>)
    <2>1. /\ HandlerInv(links, link', todo', fini, res)
          /\ \A m \in Links : link'[m].sock = link[m].sock
      BY <1>2, <1>3, <1>8, <1>10, <1>11, CloseLink
    <2> QED BY <1>0, <1>1, <1>4, <2>1, Finish
  <1>12. ASSUME NEW n \in 0..Reach(q),
                n < Reach(q) => q[n + 1].w = "none",
                LET new == Keep(q, Unsent(q, n))
                    armed == IF q # <<>> /\ TagCommitted(q) = 0 THEN WaitFor(k, "read") ELSE k
                    more == IF n < Reach(q) THEN WaitFor(armed, "write") ELSE armed
                    wrote == [more EXCEPT !.queue = Wrote(q, n),
                                          !.wire = @ \o [i \in 1..Len(new) |-> new[i].r]]
                IN  link' = [link EXCEPT ![l] = wrote],
                todo' = todo
         PROVE  ServerInv'
    <2> DEFINE new == Keep(q, Unsent(q, n))
               armed == IF q # <<>> /\ TagCommitted(q) = 0 THEN WaitFor(k, "read") ELSE k
               more == IF n < Reach(q) THEN WaitFor(armed, "write") ELSE armed
               x == [i \in 1..Len(new) |-> new[i].r]
               v == Wrote(q, n)
               wrote == [more EXCEPT !.queue = v, !.wire = @ \o x]
    <2>1. link' = [link EXCEPT ![l] = wrote]
      BY <1>12
    <2>2. SameBut(k, more)
      <3>1. SameBut(k, k)
        BY <1>8 DEF SameBut
      <3>2. SameBut(k, armed)
        BY <1>8, <3>1, WaitFacts
      <3>3. armed \in LinkState
        BY <3>2 DEF SameBut
      <3> HIDE DEF armed
      <3> QED BY <3>2, <3>3, WaitFacts, SameButTwice
    <2> HIDE DEF more, v, x
    <2>3. /\ wrote.queue = v /\ wrote.wire = k.wire \o x /\ wrote.inbox = k.inbox
          /\ wrote.op = more.op /\ wrote.sock = k.sock
      BY <2>2 DEF SameBut, LinkState
    <2> HIDE DEF wrote
    <2>n. n \in 0..Reach(q) /\ (n < Reach(q) => q[n + 1].w = "none")
      BY <1>12
    <2>4. v \in Seq(Tag) /\ k.wire \o x \in Seq(Requests) /\ PipeInv(wrote)
      <3>1. x = Sent(q, n)
        BY DEF x, Sent
      <3>2. wrote.queue = Wrote(q, n) /\ wrote.wire = k.wire \o Sent(q, n)
        BY ONLY <2>3, <3>1 DEF v
      <3>3. q = k.queue
        BY <1>8
      <3>4. wrote.queue \in Seq(Tag) /\ wrote.wire \in Seq(Requests) /\ PipeInv(wrote)
        BY ONLY <1>8, <1>9, <2>n, <2>3, <3>2, <3>3, PipeWrite
      <3> QED BY <2>3, <3>4
    <2>5. wrote \in LinkState
      <3>1. more \in LinkState /\ more.wire = k.wire
        BY <2>2 DEF SameBut
      <3>2. more.wire \o x \in Seq(Requests)
        BY <2>4, <3>1
      <3> DEFINE y == more.wire \o x
      <3>3. wrote = [more EXCEPT !.queue = v, !.wire = y]
        BY DEF wrote
      <3> HIDE DEF y
      <3> QED BY <2>4, <3>1, <3>2, <3>3 DEF y, LinkState
    <2>6. "fini" \notin wrote.op /\ wrote.sock = "open"
      BY <1>1, <1>3, <1>8, <2>2, <2>3 DEF SameBut
    <2>7. CarryInv(link', <<>>, res)
      <3> DEFINE f1 == [link EXCEPT ![l] = k]
      <3>1. f1 \in [Links -> LinkState] /\ f1[l] = k
        BY <1>0, <1>8
      <3>2. CarryInv(f1, <<>>, res)
        BY <1>10
      <3>3. link' = [f1 EXCEPT ![l] = wrote]
        BY <1>0, <2>1
      <3> HIDE DEF f1
      <3>4. /\ Len(v) = Len(q)
            /\ \A i \in 1..Len(q) : v[i].r = q[i].r /\ v[i].req = q[i].req
        <4>1. q = k.queue /\ v = Wrote(q, n)
          BY <1>8 DEF v
        <4> QED BY ONLY <1>8, <1>9, <2>n, <4>1, WriteShape
      <3>5. /\ Len(wrote.queue) = Len(f1[l].queue)
            /\ \A i \in 1..Len(f1[l].queue) :
                wrote.queue[i].r = f1[l].queue[i].r /\ wrote.queue[i].req = f1[l].queue[i].req
        <4>1. f1[l].queue = q /\ wrote.queue = v
          BY <1>8, <2>3, <3>1
        <4> QED BY ONLY <3>4, <4>1
      <3>6. CarryInv([f1 EXCEPT ![l] = wrote], <<>>, res)
        BY ONLY <3>1, <3>2, <3>5, l \in Links, CarryLike
      <3> QED BY <3>3, <3>6
    <2>8. HandlerInv(links, link', todo, fini, res)
      <3>1. StepsInv(links, link', todo, fini)
        BY <1>1, NoSteps
      <3>2. /\ "fini" \in wrote.op => wrote.queue = <<>> /\ wrote.sock \in {"closing", "closed"}
            /\ wrote.sock \in {"closing", "closed"} => "fini" \in wrote.op
            /\ "fini" \notin wrote.op => PipeInv(wrote)
            /\ wrote \in LinkState /\ l \in Range(links)
        BY <1>3, <2>4, <2>5, <2>6
      <3> QED BY ONLY <1>0, <1>2, <2>1, <2>7, <3>1, <3>2, UpdateInv, Zenon
    <2>9. \A m \in Links : link'[m].sock = link[m].sock
      BY <1>0, <1>1, <2>1, <2>6
    <2> QED BY <1>0, <1>1, <1>12, <2>8, <2>9, Finish
  <1> QED BY <1>d, <1>11, <1>12

\* process_read() has come to the end of a response: it is that of the tag in
\* front, unless the remote coalesces them.
LEMMA TagDoneInv ==
    ASSUME ServerInv, Idle(todo), NEW l \in Range(links), "fini" \notin link[l].op,
           link[l].inbox # <<>>, NEW x \in Requests, NEW over \in Seq(Requests),
           ~Coalesce => x = link[l].queue[1].r /\ over = <<>>,
           TagDone(l, x, over), UNCHANGED <<peer, links, faults>>
    PROVE  ServerInv'
  <1>0. /\ HandlerInv(links, link, todo, fini, res) /\ PeerInv /\ AnswerInv
        /\ link \in [Links -> LinkState] /\ links \in Seq(Links) /\ todo \in Seq(Step)
        /\ CarryInv(link, todo, res) /\ fini \in BOOLEAN /\ e \in BOOLEAN
        /\ run \in {"RUN", "QUIT", "HALT"}
        /\ resolve \in Resolving \cup {"none", "done", "failed"}
        /\ res \in [Requests -> {"none", "pending", "value", "error"}]
        /\ answer \in [Requests -> SUBSET Requests] /\ faults \in 0..MaxFaults
    BY Parts
  <1>1. /\ run' = run /\ resolve' = resolve /\ e' = e /\ fini' = fini /\ links' = links
        /\ faults' = faults
    BY DEF peer
  <1>2. l \in Links /\ links # <<>>
    BY <1>0 DEF Range
  <1>3. /\ link[l] \in LinkState /\ PipeInv(link[l])
        /\ link[l].sock \notin {"closing", "closed"}
    BY <1>2, AtRest
  <1> DEFINE q == link[l].queue
             t == Head(q)
             k == Pop(link[l])
             w == IF TagCommitted(q) >= CommitMax THEN WaitFor(k, "write") ELSE k
             s == [do |-> "read", l |-> l, overrun |-> over]
  <1>4. /\ res' = [res EXCEPT ![t.r] = IF t.req = "user" THEN "value" ELSE @]
        /\ answer' = [answer EXCEPT ![t.r] = IF t.req = "user" THEN @ \cup {x} ELSE @]
        /\ \/ Tail(q) # <<>> /\ link' = [link EXCEPT ![l] = w] /\ todo' = <<s>>
           \/ Tail(q) = <<>> /\ Close([link EXCEPT ![l] = w], l, "NOTIFY", <<>>)
           \/ Tail(q) = <<>> /\ link' = [link EXCEPT ![l] = WaitFor(w, "read")] /\ todo' = <<>>
    BY DEF TagDone
  <1>5. q \in Seq(Tag) /\ q # <<>> /\ Len(q) \in Nat
    BY <1>3, LinkParts, PipeFront
  <1>6. t = q[1] /\ t \in Tag /\ t.r \in Requests
    <2>1. t = q[1] /\ t \in Tag
      BY <1>5
    <2> QED BY <2>1 DEF Tag
  <1>7. /\ k \in LinkState /\ PipeInv(k) /\ k.queue = Tail(q)
        /\ k.op = link[l].op /\ k.sock = link[l].sock
    <2>1. k \in LinkState /\ PipeInv(k)
      BY <1>3, PipePop
    <2>2. k.queue = Tail(q) /\ k.op = link[l].op /\ k.sock = link[l].sock
      BY <1>3 DEF Pop, LinkState
    <2> QED BY <2>1, <2>2
  <1> HIDE DEF k
  <1>8. SameBut(k, w) /\ w \in LinkState
    <2>1. SameBut(k, k)
      BY <1>7 DEF SameBut
    <2>2. SameBut(k, w)
      BY <1>7, <2>1, WaitFacts
    <2> QED BY <2>2 DEF SameBut
  <1> HIDE DEF w
  <1>9. SameBut(k, WaitFor(w, "read"))
    BY <1>8, WaitFacts, SameButTwice
  <1> HIDE DEF q, t
  \* The results.
  <1>10. /\ res' \in [Requests -> {"none", "pending", "value", "error"}]
         /\ answer' \in [Requests -> SUBSET Requests]
    BY <1>0, <1>4, <1>6
  <1>11. t.req = "user" => res[t.r] = "pending"
    <2> SUFFICES ASSUME t.req = "user" PROVE res[t.r] = "pending"
      OBVIOUS
    <2>1. Holds(link, l, 1, t.r)
      BY <1>5, <1>6 DEF Holds, q
    <2>2. Carry(link, todo, res, t.r)
      BY <1>0, <1>6, CarryEach
    <2> QED BY <1>2, <2>1, <2>2 DEF Carry
  <1>12. Answered(res, res', q[1])
    BY <1>0, <1>4, <1>6, <1>11 DEF Answered
  <1>13. AnswerInv'
    <2> SUFFICES ASSUME ~Coalesce, NEW r \in Requests
                 PROVE  answer'[r] = IF res'[r] = "value" THEN {r} ELSE {}
      BY DEF AnswerInv, OwnAnswer
    <2>1. /\ answer[r] = IF res[r] = "value" THEN {r} ELSE {}
          /\ answer[t.r] = IF res[t.r] = "value" THEN {t.r} ELSE {}
      BY <1>0, <1>6 DEF AnswerInv, OwnAnswer
    <2>2. x = t.r
      BY <1>6 DEF q
    <2>3. CASE t.req = "user" /\ r = t.r
      <3>1. res'[r] = "value" /\ answer'[r] = answer[r] \cup {x} /\ answer[r] = {}
        BY <1>0, <1>4, <1>11, <2>1, <2>3
      <3> QED BY <2>2, <2>3, <3>1
    <2>4. CASE ~(t.req = "user" /\ r = t.r)
      <3>1. res'[r] = res[r] /\ answer'[r] = answer[r]
        BY <1>0, <1>4, <1>6, <2>4
      <3> QED BY <2>1, <3>1
    <2> QED BY <2>3, <2>4
  \* A link like k in the place of l.
  <1>14. ASSUME NEW m, SameBut(k, m)
         PROVE  /\ CarryInv([link EXCEPT ![l] = m], <<>>, res')
                /\ m \in LinkState /\ "fini" \notin m.op /\ m.sock = link[l].sock
                /\ PipeInv(m) /\ m.queue = Tail(q)
    <2>1. m \in LinkState /\ "fini" \notin m.op /\ m.sock = link[l].sock /\ m.queue = Tail(q)
      BY <1>7, <1>14 DEF SameBut
    <2>2. PipeInv(m)
      BY <1>7, <1>14, PipeSame DEF SameBut
    <2>3. CarryInv(link, <<>>, res) /\ q = link[l].queue
      BY <1>0, IdleFacts DEF q
    <2>4. CarryInv([link EXCEPT ![l] = m], <<>>, res')
      BY ONLY <1>0, <1>2, <1>5, <1>12, <2>1, <2>3, CarryPop
    <2> QED BY <2>1, <2>2, <2>4
  <1>15. ASSUME NEW m, SameBut(k, m), NEW td \in Seq(Step), Idle(td),
                link' = [link EXCEPT ![l] = m], todo' = td,
                StepsInv(links, link', td, fini)
         PROVE  /\ HandlerInv(links, link', todo', fini, res')
                /\ \A n \in Links : link'[n].sock = link[n].sock
    <2>1. /\ CarryInv(link', <<>>, res') /\ m \in LinkState /\ l \in Range(links)
          /\ "fini" \in m.op => m.queue = <<>> /\ m.sock \in {"closing", "closed"}
          /\ m.sock \in {"closing", "closed"} => "fini" \in m.op
          /\ "fini" \notin m.op => PipeInv(m)
          /\ Idle(todo) /\ link' = [link EXCEPT ![l] = m]
      BY <1>3, <1>14, <1>15
    <2>2. HandlerInv(links, link', td, fini, res')
      <3>1. td \in Seq(Step) /\ Idle(td) /\ StepsInv(links, link', td, fini)
        BY <1>15
      <3> QED BY ONLY <1>0, <2>1, <3>1, UpdateInv, Zenon
    <2>3. \A n \in Links : link'[n].sock = link[n].sock
      BY <1>0, <1>2, <1>14, <1>15
    <2> QED BY <1>15, <2>2, <2>3
  <1>16. /\ HandlerInv(links, link', todo', fini, res')
         /\ \A n \in Links : link'[n].sock = link[n].sock
    <2>1. CASE Tail(q) # <<>> /\ link' = [link EXCEPT ![l] = w] /\ todo' = <<s>>
      <3>1. s \in Step /\ s.do = "read" /\ s.l = l /\ s.overrun = over
        BY <1>2 DEF Step
      <3> HIDE DEF s
      <3> DEFINE td == <<s>>
      <3>2. td \in Seq(Step) /\ Len(td) = 1 /\ td[1] = s /\ Idle(td)
        BY <3>1 DEF Idle
      <3> HIDE DEF td
      <3>3. link'[l] = w /\ "fini" \notin w.op /\ w.queue # <<>>
        BY <1>0, <1>2, <1>8, <1>14, <2>1
      <3>4. StepsInv(links, link', td, fini)
        BY <3>1, <3>2, <3>3 DEF StepsInv
      <3> QED BY <1>8, <1>15, <2>1, <3>2, <3>4 DEF td
    <2>2. CASE Tail(q) = <<>> /\ Close([link EXCEPT ![l] = w], l, "NOTIFY", <<>>)
      <3>1. /\ CarryInv([link EXCEPT ![l] = w], <<>>, res') /\ w \in LinkState
            /\ "fini" \notin w.op /\ w.sock = link[l].sock
        BY <1>8, <1>14
      <3>2. "NOTIFY" \in {"RST", "NOTIFY"} /\ ServerInv /\ Idle(todo) /\ l \in Range(links)
        OBVIOUS
      <3> QED BY ONLY <2>2, <3>1, <3>2, CloseLink
    <2>3. CASE Tail(q) = <<>> /\ link' = [link EXCEPT ![l] = WaitFor(w, "read")] /\ todo' = <<>>
      <3>1. <<>> \in Seq(Step) /\ Idle(<<>>) /\ StepsInv(links, link', <<>>, fini)
        BY NoSteps
      <3> DEFINE m == WaitFor(w, "read")
                 td == <<>>
      <3>2. SameBut(k, m) /\ link' = [link EXCEPT ![l] = m] /\ todo' = td
        BY <1>9, <2>3
      <3> HIDE DEF m, td
      <3> QED BY <1>15, <3>1, <3>2 DEF td
    <2> QED BY <1>4, <2>1, <2>2, <2>3
  <1>17. PeerInv'
    BY <1>0, <1>1, <1>2, <1>16, PeerKept
  <1> QED BY <1>0, <1>1, <1>10, <1>13, <1>16, <1>17, Assemble

\* process_read(), once.
LEMMA ProcessReadInv ==
    ASSUME ServerInv, ProcessRead PROVE ServerInv'
  <1>0. /\ HandlerInv(links, link, todo, fini, res) /\ todo \in Seq(Step)
        /\ StepsInv(links, link, todo, fini) /\ links \in Seq(Links)
        /\ link \in [Links -> LinkState] /\ CarryInv(link, todo, res)
        /\ fini \in BOOLEAN /\ e \in BOOLEAN /\ faults \in 0..MaxFaults
    BY Parts
  <1> DEFINE l == Head(todo).l
             q == link[l].queue
             in == link[l].inbox
             over == Head(todo).overrun
  <1>1. /\ todo # <<>> /\ Head(todo).do = "read"
        /\ run' = run /\ resolve' = resolve /\ e' = e /\ fini' = fini /\ links' = links
        /\ faults' = faults /\ UNCHANGED <<peer, links, faults>>
    BY DEF ProcessRead, peer
  <1>2. /\ Head(todo) = todo[1] /\ 1 \in 1..Len(todo) /\ Len(todo) \in Nat
    BY <1>0, <1>1, TailSteps
  <1>3. /\ l \in Range(links) /\ Len(todo) = 1 /\ "fini" \notin link[l].op
        /\ link[l].queue # <<>> /\ (~Coalesce => over = <<>>)
    BY <1>0, <1>1, <1>2 DEF StepsInv
  <1>4. Idle(todo)
    BY <1>1, <1>2, <1>3 DEF Idle
  <1>5. l \in Links /\ links # <<>> /\ over \in Seq(Requests)
    <2>1. l \in Links /\ links # <<>>
      BY <1>0, <1>3 DEF Range
    <2>2. Head(todo) \in Step
      BY <1>0, <1>2
    <2> QED BY <1>1, <2>1, <2>2 DEF Step
  <1>6. link[l] \in LinkState /\ PipeInv(link[l])
    BY <1>3, <1>4, <1>5, AtRest
  <1>7. CarryInv(link, <<>>, res) /\ [link EXCEPT ![l] = link[l]] = link
    BY <1>0, <1>4, IdleFacts
  <1>8. \/ Close(link, l, "RST", <<>>) /\ UNCHANGED <<res, answer>>
        \/ Close(link, l, "NOTIFY", <<>>) /\ UNCHANGED <<res, answer>>
        \/ /\ link' = [link EXCEPT ![l] = WaitFor(@, "read")]
           /\ todo' = <<>> /\ UNCHANGED <<res, answer>>
        \/ in # <<>> /\ over = <<>> /\ TagDone(l, in[1][1], Tail(in[1]))
        \/ in # <<>> /\ over # <<>> /\ TagDone(l, over[1], <<>>)
    BY DEF ProcessRead
  <1> HIDE DEF l
  <1>9. ASSUME NEW how \in {"RST", "NOTIFY"}, Close(link, l, how, <<>>), UNCHANGED <<res, answer>>
        PROVE  ServerInv'
    <2> DEFINE k == link[l]
               f2 == [link EXCEPT ![l] = k]
    <2>1. f2 = link
      BY <1>7
    <2> HIDE DEF f2
    <2>2. Close(f2, l, how, <<>>)
      BY <1>9, <2>1
    <2>3. /\ HandlerInv(links, link', todo', fini, res)
          /\ \A m \in Links : link'[m].sock = link[m].sock
      <3>1. /\ k \in LinkState /\ "fini" \notin k.op /\ k.sock = link[l].sock
            /\ CarryInv([link EXCEPT ![l] = k], <<>>, res) /\ how \in {"RST", "NOTIFY"}
            /\ l \in Range(links) /\ Idle(todo) /\ ServerInv
        BY <1>3, <1>4, <1>6, <1>7
      <3>2. Close([link EXCEPT ![l] = k], l, how, <<>>)
        BY <2>2 DEF f2
      <3> HIDE DEF k
      <3> QED BY ONLY <3>1, <3>2, CloseLink
    <2> QED BY <1>0, <1>1, <1>5, <1>9, <2>3, Finish
  <1>10. CASE /\ link' = [link EXCEPT ![l] = WaitFor(@, "read")]
              /\ todo' = <<>> /\ UNCHANGED <<res, answer>>
    <2> DEFINE k == WaitFor(link[l], "read")
    <2>1. SameBut(link[l], k) /\ link' = [link EXCEPT ![l] = k]
      BY <1>6, <1>10, WaitFacts
    <2> HIDE DEF k
    <2>2. HandlerInv(links, link', todo', fini, res)
      <3> DEFINE td == <<>>
      <3>1. td \in Seq(Step) /\ Idle(td) /\ StepsInv(links, [link EXCEPT ![l] = k], td, fini)
        BY NoSteps
      <3> HIDE DEF td
      <3>2. HandlerInv(links, [link EXCEPT ![l] = k], td, fini, res)
        <4>1. /\ todo \in Seq(Step) /\ fini \in BOOLEAN /\ Idle(todo)
              /\ HandlerInv(links, link, todo, fini, res) /\ l \in Range(links)
              /\ SameBut(link[l], k)
          BY <1>0, <1>3, <1>4, <2>1
        <4> HIDE <1>10
        <4> QED BY ONLY <3>1, <4>1, SameInv
      <3> QED BY <1>10, <2>1, <3>2 DEF td
    <2>3. \A m \in Links : link'[m].sock = link[m].sock
      BY <1>0, <1>5, <2>1 DEF SameBut
    <2> QED BY <1>0, <1>1, <1>5, <1>10, <2>2, <2>3, Finish
  <1>11. CASE in # <<>> /\ over = <<>> /\ TagDone(l, in[1][1], Tail(in[1]))
    <2>1. in \in Seq(Seq(Requests) \ {<<>>})
      BY <1>6, LinkParts
    <2>2. in[1] \in Seq(Requests) /\ in[1] # <<>>
      BY <1>11, <2>1
    <2>3. in[1][1] \in Requests /\ Tail(in[1]) \in Seq(Requests)
      BY <2>2
    <2>4. ~Coalesce => Len(in[1]) = 1 /\ q[1].r = in[1][1]
      BY <1>6, <1>11, PipeFront
    <2>5. ~Coalesce => in[1][1] = link[l].queue[1].r /\ Tail(in[1]) = <<>>
      <3>1. ~Coalesce => Tail(in[1]) = <<>>
        <4> SUFFICES ASSUME NEW y \in Seq(Requests), Len(y) = 1 PROVE Tail(y) = <<>>
          BY <2>2, <2>4
        <4>1. Tail(y) \in Seq(Requests) /\ Len(Tail(y)) = 0
          OBVIOUS
        <4> QED BY <4>1, EmptySeq
      <3> QED BY <2>4, <3>1
    <2> DEFINE x == in[1][1]
               o == Tail(in[1])
    <2>6. /\ x \in Requests /\ o \in Seq(Requests) /\ link[l].inbox # <<>>
          /\ ~Coalesce => x = link[l].queue[1].r /\ o = <<>>
          /\ TagDone(l, x, o)
      BY <1>11, <2>3, <2>5
    <2> HIDE DEF x, o
    <2> QED BY <1>1, <1>3, <1>4, <2>6, TagDoneInv
  <1>12. CASE in # <<>> /\ over # <<>> /\ TagDone(l, over[1], <<>>)
    <2> DEFINE x == over[1]
               o == <<>>
    <2>1. x \in Requests /\ o \in Seq(Requests) /\ Coalesce
      BY <1>3, <1>5, <1>12, ServerAssumption
    <2>2. link[l].inbox # <<>> /\ TagDone(l, x, o)
      BY <1>12
    <2> HIDE DEF x, o
    <2> QED BY <1>1, <1>3, <1>4, <2>1, <2>2, TagDoneInv
  <1> QED BY <1>8, <1>9, <1>10, <1>11, <1>12

\* What a step leaves to do holds of the links it is not about.
LEMMA TailAt ==
    ASSUME NEW ls, NEW f, NEW p \in BOOLEAN, NEW td \in Seq(Step), td # <<>>,
           FiniInv(f, td), PipesInv(f, td), NEW m \in Links,
           Head(td).do \in {"close", "shut"} => m # Head(td).l
    PROVE  FiniAt(m, f[m], Tail(td)) /\ PipeAt(m, f[m], Tail(td))
  <1>1. FiniAt(m, f[m], td) /\ PipeAt(m, f[m], td)
    BY DEF FiniInv, PipesInv
  <1>2. /\ m \in ToShut(td) <=> m \in ToShut(Tail(td))
        /\ m \in ToClose(td) <=> m \in ToClose(Tail(td))
    BY TailSets
  <1> DEFINE t == Tail(td)
  <1>3. (m \in ToShut(td) <=> m \in ToShut(t)) /\ (m \in ToClose(td) <=> m \in ToClose(t))
    BY <1>2
  <1> HIDE DEF t
  <1>4. FiniAt(m, f[m], t)
    BY <1>1, <1>3 DEF FiniAt
  <1>5. PipeAt(m, f[m], t)
    BY <1>1, <1>3 DEF PipeAt
  <1> QED BY <1>4, <1>5 DEF t

\* The next link that peer::close() closes.
LEMMA CloseNextInv ==
    ASSUME ServerInv, CloseNext PROVE ServerInv'
  <1>0. /\ HandlerInv(links, link, todo, fini, res) /\ todo \in Seq(Step)
        /\ LinksInv(links, link) /\ StepsInv(links, link, todo, fini)
        /\ FiniInv(link, todo) /\ PipesInv(link, todo)
        /\ links \in Seq(Links) /\ link \in [Links -> LinkState] /\ CarryInv(link, todo, res)
        /\ fini \in BOOLEAN /\ e \in BOOLEAN /\ faults \in 0..MaxFaults
    BY Parts
  <1> DEFINE l == Head(todo).l
             t == Tail(todo)
  <1>1. /\ todo # <<>> /\ Head(todo).do = "close" /\ Close(link, l, "NOTIFY", t)
        /\ run' = run /\ resolve' = resolve /\ e' = e /\ fini' = fini /\ links' = links
        /\ res' = res /\ answer' = answer /\ faults' = faults
    BY DEF CloseNext, peer
  <1>2. Head(todo) = todo[1] /\ 1 \in 1..Len(todo) /\ t \in Seq(Step)
    BY <1>0, <1>1, TailSteps
  <1>3. l \in Range(links) /\ l \in Links
    <2>1. l \in Range(links)
      BY <1>0, <1>1, <1>2 DEF StepsInv
    <2> QED BY <1>0, <2>1 DEF Range
  <1>4. /\ StepsInv(links, link, t, fini)
        /\ \A i \in 1..Len(t) : t[i].do # "submit" => t[i].do # "read" /\ t[i].l # l
    BY <1>0, <1>1, TailInv
  <1>5. CarryInv(link, t, res)
    BY <1>0, <1>1, TailCarry
  <1>6. \A m \in Links : m # l => FiniAt(m, link[m], t) /\ PipeAt(m, link[m], t)
    BY <1>0, <1>1, TailAt
  <1>7. ToShut(todo) = ToShut(t)
    BY <1>0, <1>1, TailSets
  <1>c. "fini" \notin link[l].op =>
            link' = Closed(link, l) /\ todo' = CloseTodo(link[l].queue, l, "NOTIFY", t)
    BY <1>1 DEF Close, Closed, CloseTodo
  <1>k. "fini" \in link[l].op => link' = link /\ todo' = t
    BY <1>1 DEF Close
  <1> HIDE DEF l, t
  <1>8. CASE "fini" \in link[l].op
    <2>1. FiniAt(l, link[l], t) /\ PipeAt(l, link[l], t)
      <3>1. FiniAt(l, link[l], todo)
        BY <1>0, <1>3 DEF FiniInv
      <3> QED BY <1>7, <1>8, <3>1 DEF FiniAt, PipeAt
    <2>2. FiniInv(link, t) /\ PipesInv(link, t)
      BY <1>6, <2>1 DEF FiniInv, PipesInv
    <2>3. HandlerInv(links, link, t, fini, res)
      BY <1>0, <1>2, <1>4, <1>5, <2>2 DEF HandlerInv
    <2> QED BY <1>0, <1>1, <1>8, <1>k, <2>3, Finish
  <1>9. CASE "fini" \notin link[l].op
    <2>1. "NOTIFY" \in {"RST", "NOTIFY"}
      OBVIOUS
    <2>2. HandlerInv(links, [link EXCEPT ![l] = Dispersed(link[l])],
                     CloseTodo(link[l].queue, l, "NOTIFY", t), fini, res)
      BY ONLY <1>0, <1>2, <1>3, <1>4, <1>5, <1>6, <2>1, CloseInv
    <2>3. /\ Closed(link, l) = [link EXCEPT ![l] = Dispersed(link[l])]
          /\ \A m \in Links : Closed(link, l)[m].sock = link[m].sock
      BY ONLY <1>0, <1>3, CloseStep
    <2>4. HandlerInv(links', link', todo', fini, res)
      BY <1>1, <1>9, <1>c, <2>2, <2>3
    <2>5. \A m \in Links : link'[m].sock = link[m].sock
      BY <1>9, <1>c, <2>3
    <2> QED BY <1>0, <1>1, <2>4, <2>5, Finish
  <1> QED BY <1>8, <1>9

\* The end of link::close(): the committed tags fail.
LEMMA ShutInv ==
    ASSUME ServerInv, Shut PROVE ServerInv'
  <1>0. /\ HandlerInv(links, link, todo, fini, res) /\ PeerInv /\ AnswerInv
        /\ LinksInv(links, link) /\ StepsInv(links, link, todo, fini)
        /\ FiniInv(link, todo) /\ PipesInv(link, todo)
        /\ link \in [Links -> LinkState] /\ links \in Seq(Links) /\ todo \in Seq(Step)
        /\ CarryInv(link, todo, res) /\ fini \in BOOLEAN /\ e \in BOOLEAN
        /\ run \in {"RUN", "QUIT", "HALT"}
        /\ resolve \in Resolving \cup {"none", "done", "failed"}
        /\ res \in [Requests -> {"none", "pending", "value", "error"}]
        /\ answer \in [Requests -> SUBSET Requests] /\ faults \in 0..MaxFaults
    BY Parts
  <1> DEFINE l == Head(todo).l
             t == Tail(todo)
             k == link[l]
             k2 == [k EXCEPT !.queue = <<>>, !.wire = <<>>, !.inbox = <<>>,
                             !.sock = IF @ = "none" THEN "none"
                                      ELSE IF Head(todo).how = "RST" THEN "closed"
                                      ELSE "closing"]
  <1>1. /\ todo # <<>> /\ Head(todo).do = "shut" /\ Settle(l, k2) /\ todo' = t
        /\ res' = [r \in Requests |->
                        IF \E i \in 1..Len(k.queue) :
                            k.queue[i].r = r /\ k.queue[i].req = "user"
                        THEN "error" ELSE res[r]]
        /\ run' = run /\ resolve' = resolve /\ e' = e /\ fini' = fini
        /\ answer' = answer /\ faults' = faults
    BY DEF Shut, peer
  <1>2. Head(todo) = todo[1] /\ 1 \in 1..Len(todo) /\ t \in Seq(Step)
    BY <1>0, <1>1, TailSteps
  <1>3. l \in Range(links) /\ l \in Links /\ "fini" \in link[l].op /\ links # <<>>
    <2>1. l \in Range(links) /\ "fini" \in link[l].op
      BY <1>0, <1>1, <1>2 DEF StepsInv
    <2> QED BY <1>0, <2>1 DEF Range
  <1>4. /\ StepsInv(links, link, t, fini)
        /\ \A i \in 1..Len(t) : t[i].do # "submit" => t[i].do # "read" /\ t[i].l # l
    BY <1>0, <1>1, TailInv
  <1>5. CarryInv(link, t, res)
    BY <1>0, <1>1, TailCarry
  <1>6. \A m \in Links : m # l => FiniAt(m, link[m], t) /\ PipeAt(m, link[m], t)
    BY <1>0, <1>1, TailAt
  <1>7. /\ k2 \in LinkState /\ k2.queue = <<>> /\ k2.op = k.op /\ k2.sock # "open"
        /\ k.sock = "none" => k2.sock = "none"
    <2>1. k \in LinkState
      BY <1>0, <1>3
    <2> DEFINE y == IF k.sock = "none" THEN "none"
                    ELSE IF Head(todo).how = "RST" THEN "closed" ELSE "closing"
    <2>2. y \in {"none", "closed", "closing"}
      OBVIOUS
    <2>3. k.sock = "none" => y = "none"
      OBVIOUS
    <2>4. k2 = [k EXCEPT !.queue = <<>>, !.wire = <<>>, !.inbox = <<>>, !.sock = y]
      BY <2>1 DEF LinkState
    <2> HIDE DEF k, l, y, k2
    <2> DEFINE none == <<>>
    <2>5. none \in Seq(Tag) /\ none \in Seq(Requests) /\ none \in Seq(Seq(Requests) \ {<<>>})
      OBVIOUS
    <2>6. k2 = [k EXCEPT !.queue = none, !.wire = none, !.inbox = none, !.sock = y]
      BY <2>4
    <2> HIDE DEF none
    <2>7. k2 \in LinkState /\ k2.queue = none /\ k2.op = k.op /\ k2.sock = y
      BY <2>1, <2>2, <2>5, <2>6 DEF LinkState
    <2> QED BY <2>2, <2>3, <2>7 DEF none
  <1> HIDE DEF k2, l, t
  <1>8. \A r \in Requests : res'[r] = IF \E i : Has(link[l].queue, i, r) THEN "error" ELSE res[r]
    <2>1. \A r : (\E i : Has(link[l].queue, i, r)) <=>
                 \E i \in 1..Len(k.queue) : k.queue[i].r = r /\ k.queue[i].req = "user"
      BY DEF Has
    <2> QED BY <1>1, <2>1
  <1>9. CarryInv([link EXCEPT ![l] = k2], t, res')
    <2> DEFINE D == {r \in Requests : \E i : Has(link[l].queue, i, r)}
               g == <<>>
    <2>1. \A r \in Requests : r \in D <=> \E i : Has(link[l].queue, i, r)
      OBVIOUS
    <2> HIDE DEF D, g
    <2>2. \A i, r : ~Has(k2.queue, i, r)
      BY <1>7 DEF Has
    <2>3. /\ \A r \in Requests : \A i :
                Has(k2.queue, i, r) => r \notin D /\ Has(link[l].queue, g[i], r)
          /\ \A r \in Requests : \A i, j :
                Has(k2.queue, i, r) /\ Has(k2.queue, j, r) /\ g[i] = g[j] => i = j
          /\ \A r \in Requests : \A i :
                Has(link[l].queue, i, r) /\ r \notin D => \E j : Has(k2.queue, j, r)
          /\ \A r \in Requests : r \in D => \E i : Has(link[l].queue, i, r)
          /\ \A r \in Requests : res'[r] = "pending" <=> res[r] = "pending" /\ r \notin D
      BY <1>8, <2>1, <2>2
    <2> QED BY ONLY <1>0, <1>3, <1>5, <2>3, CarryOne
  <1>10. /\ HandlerInv(links', link', t, fini, res')
         /\ link'[l].sock = k2.sock \/ link'[l].sock = "none"
         /\ \A m \in Links : m # l => link'[m] = link[m]
    <2>1. "fini" \in k2.op /\ Settle(l, k2)
      BY <1>1, <1>3, <1>7
    <2> QED BY ONLY <1>0, <1>2, <1>3, <1>4, <1>6, <1>7, <1>9, <2>1, SettleInv, ZenonT(60)
  <1>11. PeerInv'
    <2>1. \A m \in Links : link[m].sock = "none" => link'[m].sock = "none"
      BY <1>3, <1>7, <1>10 DEF k
    <2> QED BY <1>0, <1>1, <1>3, <2>1, PeerKept
  <1>12. \A r \in Requests : (\E i : Has(link[l].queue, i, r)) => res[r] = "pending"
    <2> SUFFICES ASSUME NEW r \in Requests, NEW i, Has(link[l].queue, i, r)
                 PROVE  res[r] = "pending"
      OBVIOUS
    <2>1. Holds(link, l, i, r)
      BY DEF Holds, Has
    <2>2. Carry(link, todo, res, r)
      BY <1>0, CarryEach
    <2> QED BY <1>3, <2>1, <2>2 DEF Carry
  <1>13. AnswerInv'
    <2>1. \A r \in Requests : res'[r] = "value" <=> res[r] = "value"
      BY <1>8, <1>12
    <2> QED BY <1>0, <1>1, <2>1, AnswerKept
  <1>14. res' \in [Requests -> {"none", "pending", "value", "error"}]
    BY <1>0, <1>1
  <1> QED BY <1>0, <1>1, <1>10, <1>11, <1>13, <1>14, Assemble

\* A query ends: the name has no address and the peer is closed, the links
\* are opened, the next query begins, or the peer was closed before.
LEMMA HandleResolveInv ==
    ASSUME ServerInv, HandleResolve PROVE ServerInv'
  <1>0. /\ HandlerInv(links, link, todo, fini, res) /\ PeerInv /\ AnswerInv
        /\ LinksInv(links, link) /\ CarryInv(link, todo, res)
        /\ link \in [Links -> LinkState] /\ links \in Seq(Links)
        /\ fini \in BOOLEAN /\ e \in BOOLEAN /\ run \in {"RUN", "QUIT", "HALT"}
        /\ resolve \in Resolving \cup {"none", "done", "failed"}
        /\ res \in [Requests -> {"none", "pending", "value", "error"}]
        /\ answer \in [Requests -> SUBSET Requests] /\ faults \in 0..MaxFaults
    BY Parts
  <1>1. /\ todo = <<>> /\ run' = run /\ links' = links /\ res' = res
        /\ answer' = answer /\ faults' = faults
    BY DEF HandleResolve
  <1>2. Idle(todo)
    BY <1>1, NoSteps
  <1>3. /\ \A l \in Links : "fini" \in link[l].op =>
                link[l].queue = <<>> /\ link[l].sock \in {"closing", "closed"}
        /\ \A l \in Links : link[l].sock \in {"closing", "closed"} => "fini" \in link[l].op
        /\ \A l \in Links : "fini" \notin link[l].op => PipeInv(link[l])
    BY <1>2, AtRest
  <1>4. AnswerInv'
    BY <1>0, <1>1, AnswerKept
  <1>5. CarryInv(link, <<>>, res)
    BY <1>0, <1>1
  <1>6. CASE ResolveFails
    <2>1. /\ resolve \in {"SRV", "A"} /\ resolve' = "failed" /\ e' = TRUE /\ fini' = TRUE
          /\ link' = link /\ todo' = [i \in 1..Len(links) |-> [do |-> "close", l |-> links[i]]]
      BY <1>6 DEF ResolveFails, CloseAll
    <2>2. HandlerInv(links, link, todo', TRUE, res)
      BY <1>0, <1>3, <1>5, <2>1, CloseAllInv
    <2>3. PeerInv'
      BY <1>0, <2>1 DEF PeerInv
    <2> QED BY <1>0, <1>1, <1>4, <2>1, <2>2, <2>3, Assemble
  <1>7. CASE Resolved
    <2>1. /\ resolve \in {"AAAA", "A"} /\ resolve' = "done" /\ fini = FALSE
          /\ e' = e /\ fini' = fini /\ todo' = todo /\ run = "RUN"
          /\ link' = [l \in Links |-> IF l \in Range(links)
                        THEN [link[l] EXCEPT !.sock = "open", !.op = @ \cup {"init"}]
                        ELSE link[l]]
      BY <1>0, <1>7 DEF Resolved
    <2>2. \A l \in Links : link[l].sock = "none" /\ "fini" \notin link[l].op
      BY <1>0, <1>3, <2>1 DEF PeerInv
    <2>3. ASSUME NEW l \in Links
          PROVE  /\ link'[l] \in LinkState /\ link'[l].queue = link[l].queue
                 /\ link'[l].inbox = link[l].inbox /\ link'[l].wire = link[l].wire
                 /\ "fini" \notin link'[l].op /\ link'[l].sock \in {"none", "open"}
                 /\ l \notin Range(links) => link'[l] = link[l]
      <3>1. link[l] \in LinkState /\ link[l].sock = "none" /\ "fini" \notin link[l].op
        BY <1>0, <2>2
      <3>2. CASE l \in Range(links)
        <4>1. link'[l] = [link[l] EXCEPT !.sock = "open", !.op = link[l].op \cup {"init"}]
          BY <2>1, <3>2
        <4>2. link'[l] \in LinkState
          <5> DEFINE o == link[l].op \cup {"init"}
                     y == "open"
                     k == link[l]
          <5>1. k \in LinkState /\ o \in SUBSET {"init", "fini", "read", "write"}
                /\ y \in {"none", "open", "closing", "closed"}
            BY <3>1 DEF LinkState
          <5>2. link'[l] = [k EXCEPT !.sock = y, !.op = o]
            BY <4>1
          <5> HIDE DEF o, y, k
          <5> QED BY ONLY <5>1, <5>2 DEF LinkState
        <4>3. /\ link'[l].queue = link[l].queue /\ link'[l].inbox = link[l].inbox
              /\ link'[l].wire = link[l].wire /\ link'[l].sock = "open"
              /\ link'[l].op = link[l].op \cup {"init"}
          BY ONLY <3>1, <4>1 DEF LinkState
        <4> QED BY <3>1, <3>2, <4>2, <4>3
      <3>3. CASE l \notin Range(links)
        BY <2>1, <3>1, <3>3
      <3> QED BY <3>2, <3>3
    <2>4. LinksInv(links, link')
      BY <1>0, <2>3 DEF LinksInv
    <2>5. FiniInv(link', <<>>)
      BY <2>3 DEF FiniInv, FiniAt
    <2>6. PipesInv(link', <<>>)
      <3> SUFFICES ASSUME NEW l \in Links PROVE PipeInv(link'[l])
        BY DEF PipesInv, PipeAt
      <3>1. PipeInv(link[l])
        BY <1>3, <2>2
      <3> QED BY <2>3, <3>1, PipeSame
    <2>7. CarryInv(link', <<>>, res)
      <3>1. \A m \in Links : link'[m].queue = link[m].queue
        BY <2>3
      <3>2. \A r \in Requests : res[r] = "pending" <=> res[r] = "pending"
        OBVIOUS
      <3> QED BY ONLY <1>5, <3>1, <3>2, CarrySame
    <2>8. link' \in [Links -> LinkState]
      BY <2>1, <2>3
    <2>9. HandlerInv(links, link', <<>>, FALSE, res)
      BY <1>0, <2>4, <2>5, <2>6, <2>7, <2>8, NoSteps DEF HandlerInv
    <2>10. PeerInv'
      BY <1>1, <2>1 DEF PeerInv
    <2> QED BY <1>0, <1>1, <1>4, <2>1, <2>9, <2>10, Assemble
  <1>8. CASE /\ run = "RUN" /\ ~fini
             /\ \/ resolve = "SRV" /\ resolve' \in {"AAAA", "A"} /\ UNCHANGED e
                \/ resolve = "AAAA" /\ resolve' = "A" /\ UNCHANGED e
                \/ resolve \in {"SRV", "AAAA"} /\ ResolveThrows
             /\ UNCHANGED <<fini, link, todo>>
    <2>1. /\ resolve \in {"SRV", "AAAA"} /\ resolve' \in {"AAAA", "A", "failed"}
          /\ e' = e \/ e' = TRUE
      BY <1>8 DEF ResolveThrows
    <2>2. PeerInv'
      BY <1>0, <1>1, <1>8, <2>1 DEF PeerInv
    <2>3. resolve' \in Resolving \cup {"none", "done", "failed"}
      BY <2>1 DEF Resolving
    <2>4. e' \in BOOLEAN
      BY <1>0, <2>1, Zenon
    <2> QED BY <1>0, <1>1, <1>4, <1>8, <2>2, <2>3, <2>4, Assemble
  <1>9. CASE /\ run # "RUN" \/ fini
             /\ resolve \in Resolving /\ resolve' = "failed"
             /\ fini' = TRUE
             /\ UNCHANGED <<e, link, todo>>
    <2>1. resolve # "none" /\ resolve # "done"
      BY <1>9 DEF Resolving
    <2>2. HandlerInv(links, link, <<>>, TRUE, res)
      BY <1>0, <1>1, NoSteps DEF HandlerInv
    <2>3. PeerInv'
      BY <1>0, <1>1, <1>9, <2>1 DEF PeerInv
    <2> QED BY <1>0, <1>1, <1>4, <1>9, <2>2, <2>3, Assemble
  <1> QED BY <1>6, <1>7, <1>8, <1>9 DEF HandleResolve

\* server::errclear(), while no handler runs.
LEMMA ErrClearInv ==
    ASSUME ServerInv, ErrClear PROVE ServerInv'
  <1>0. /\ HandlerInv(links, link, todo, fini, res) /\ PeerInv /\ AnswerInv
        /\ run \in {"RUN", "QUIT", "HALT"}
        /\ resolve \in Resolving \cup {"none", "done", "failed"}
        /\ res \in [Requests -> {"none", "pending", "value", "error"}]
        /\ answer \in [Requests -> SUBSET Requests] /\ faults \in 0..MaxFaults
    BY Parts
  <1>1. /\ todo = <<>> /\ todo' = todo /\ run' = run /\ resolve' = resolve /\ links' = links
        /\ link' = link /\ res' = res /\ answer' = answer /\ faults' = faults
        /\ e' = FALSE /\ fini' \in BOOLEAN
    BY DEF ErrClear, ErrCleared
  <1>2. HandlerInv(links, link, <<>>, fini', res)
    BY <1>0, <1>1, NoSteps DEF HandlerInv
  <1>3. PeerInv' /\ AnswerInv'
    BY <1>0, <1>1, AnswerKept DEF PeerInv
  <1> QED BY <1>0, <1>1, <1>2, <1>3, Assemble

\* The run level alone changes.
LEMMA QuitInv ==
    ASSUME ServerInv, Quit PROVE ServerInv'
  <1>0. /\ HandlerInv(links, link, todo, fini, res) /\ PeerInv /\ AnswerInv
        /\ e \in BOOLEAN /\ fini \in BOOLEAN
        /\ resolve \in Resolving \cup {"none", "done", "failed"}
        /\ res \in [Requests -> {"none", "pending", "value", "error"}]
        /\ answer \in [Requests -> SUBSET Requests] /\ faults \in 0..MaxFaults
    BY Parts
  <1>1. /\ run' = "QUIT" /\ resolve' = resolve /\ e' = e /\ fini' = fini /\ links' = links
        /\ link' = link /\ todo' = todo /\ res' = res /\ answer' = answer /\ faults' = faults
    BY DEF Quit
  <1>2. PeerInv' /\ AnswerInv'
    BY <1>0, <1>1, AnswerKept DEF PeerInv
  <1> QED BY <1>0, <1>1, <1>2, Assemble

\* ~init(): every request fails, and the links have nothing left to resubmit.
LEMMA HaltInv ==
    ASSUME ServerInv, Halt PROVE ServerInv'
  <1>0. /\ HandlerInv(links, link, todo, fini, res) /\ PeerInv /\ AnswerInv
        /\ LinksInv(links, link)
        /\ link \in [Links -> LinkState] /\ links \in Seq(Links)
        /\ fini \in BOOLEAN /\ e \in BOOLEAN
        /\ resolve \in Resolving \cup {"none", "done", "failed"}
        /\ res \in [Requests -> {"none", "pending", "value", "error"}]
        /\ answer \in [Requests -> SUBSET Requests] /\ faults \in 0..MaxFaults
    BY Parts
  <1> DEFINE f == [l \in Links |->
                    [link[l] EXCEPT !.queue = <<>>, !.wire = <<>>, !.inbox = <<>>]]
  <1>1. /\ todo = <<>> /\ run' = "HALT" /\ resolve' = resolve /\ e' = e /\ links' = links
        /\ answer' = answer /\ faults' = faults
        /\ res' = [r \in Requests |-> IF res[r] = "pending" THEN "error" ELSE res[r]]
        /\ resolve = "none" \/ fini => link' = f /\ fini' = fini /\ todo' = todo
        /\ ~(resolve = "none" \/ fini) => CloseAll(f)
    BY DEF Halt
  <1>2. Idle(todo)
    BY <1>1, NoSteps
  <1>3. ASSUME NEW l \in Links
        PROVE  /\ f[l] \in LinkState /\ f[l].queue = <<>> /\ f[l].op = link[l].op
               /\ f[l].sock = link[l].sock /\ PipeInv(f[l])
               /\ link[l] = NewLink => f[l] = NewLink
               /\ "fini" \in f[l].op => f[l].sock \in {"closing", "closed"}
               /\ f[l].sock \in {"closing", "closed"} => "fini" \in f[l].op
    <2>1. link[l] \in LinkState
      BY <1>0
    <2> DEFINE none == <<>>
    <2>2. none \in Seq(Tag) /\ none \in Seq(Requests) /\ none \in Seq(Seq(Requests) \ {<<>>})
      OBVIOUS
    <2>3. f[l] = [link[l] EXCEPT !.queue = none, !.wire = none, !.inbox = none]
      OBVIOUS
    <2> HIDE DEF none, f
    <2>4. /\ f[l] \in LinkState /\ f[l].queue = none /\ f[l].op = link[l].op
          /\ f[l].sock = link[l].sock /\ f[l].wire = none /\ f[l].inbox = none
      BY <2>1, <2>2, <2>3 DEF LinkState
    <2>5. link[l] = NewLink => f[l] = NewLink
      <3>1. \A k \in LinkState : k.queue = none /\ k.wire = none /\ k.inbox = none =>
                [k EXCEPT !.queue = none, !.wire = none, !.inbox = none] = k
        BY <2>2 DEF LinkState
      <3>2. NewLink.queue = none /\ NewLink.wire = none /\ NewLink.inbox = none
        BY DEF NewLink, none
      <3> QED BY <2>1, <2>3, <3>1, <3>2
    <2>6. PipeInv(f[l])
      BY <2>4 DEF PipeInv, Owed, none
    <2> QED BY <1>2, <2>4, <2>5, <2>6, AtRest DEF none
  <1>4. f \in [Links -> LinkState]
    BY <1>3
  <1> HIDE DEF f
  <1>5. LinksInv(links, f)
    BY <1>0, <1>3 DEF LinksInv
  <1>6. CarryInv(f, <<>>, res')
    <2>1. \A l \in Links : \A i, r : ~Holds(f, l, i, r)
      BY <1>3 DEF Holds
    <2>2. \A i, r : ~Takes(<<>>, i, r)
      BY DEF Takes
    <2>3. \A r \in Requests : res'[r] # "pending"
      BY <1>1
    <2>4. \A r \in Requests : Carry(f, <<>>, res', r)
      BY ONLY <2>1, <2>2, <2>3 DEF Carry
    <2> QED BY <2>4, CarryEach
  <1>7. AnswerInv'
    <2>1. \A r \in Requests : res'[r] = "value" <=> res[r] = "value"
      BY <1>1
    <2> QED BY <1>0, <1>1, <2>1, AnswerKept
  <1>8. res' \in [Requests -> {"none", "pending", "value", "error"}]
    BY <1>0, <1>1
  <1>9. CASE resolve = "none" \/ fini
    <2>1. link' = f /\ fini' = fini /\ todo' = <<>>
      BY <1>1, <1>9
    <2>4. FiniInv(f, <<>>)
      BY <1>3 DEF FiniInv, FiniAt
    <2>5. PipesInv(f, <<>>)
      BY <1>3 DEF PipesInv, PipeAt
    <2>6. HandlerInv(links, f, <<>>, fini, res')
      BY <1>0, <1>4, <1>5, <1>6, <2>4, <2>5, NoSteps DEF HandlerInv
    <2>7. PeerInv'
      BY <1>0, <1>1, <1>3, <1>9, <2>1 DEF PeerInv
    <2> QED BY <1>0, <1>1, <1>7, <1>8, <2>1, <2>6, <2>7, Assemble
  <1>10. CASE ~(resolve = "none" \/ fini)
    <2>1. /\ link' = f /\ fini' = TRUE
          /\ todo' = [i \in 1..Len(links) |-> [do |-> "close", l |-> links[i]]]
      BY <1>1, <1>10 DEF CloseAll
    <2>2. HandlerInv(links, f, todo', TRUE, res')
      BY <1>0, <1>3, <1>4, <1>5, <1>6, <2>1, CloseAllInv
    <2>3. PeerInv'
      BY <1>0, <1>1, <1>3, <1>10, <2>1 DEF PeerInv
    <2> QED BY <1>0, <1>1, <1>7, <1>8, <2>1, <2>2, <2>3, Assemble
  <1> QED BY <1>9, <1>10

-----------------------------------------------------------------------------
(***************************************************************************)
(* peer::submit(): the request of the first step is refused or placed.     *)
(***************************************************************************)

\* Who carries a request once the first step, which took r, is done.
LEMMA TakenFacts ==
    ASSUME NEW f, NEW rs, NEW td \in Seq(Step), td # <<>>, Head(td).do = "submit",
           CarryInv(f, td, rs), NEW r, r = Head(td).r, r \in Requests
    PROVE  /\ rs[r] = "pending"
           /\ \A l \in Links : \A i : ~Holds(f, l, i, r)
           /\ \A i : ~Takes(Tail(td), i, r)
           /\ \A x \in Requests : x # r => Carry(f, Tail(td), rs, x)
  <1> DEFINE t == Tail(td)
  <1>1. /\ Len(t) \in Nat /\ Head(td) = td[1] /\ 1 \in 1..Len(td)
        /\ \A i \in 1..Len(t) : i + 1 \in 1..Len(td) /\ t[i] = td[i + 1]
        /\ \A i \in 1..Len(td) : i # 1 => i - 1 \in 1..Len(t) /\ t[i - 1] = td[i]
    BY TailSteps
  <1> HIDE DEF t
  <1>2. \A x \in Requests : Carry(f, td, rs, x)
    BY CarryEach
  <1>3. ASSUME NEW i, NEW x, Takes(t, i, x) PROVE i \in Nat /\ i + 1 # 1 /\ Takes(td, i + 1, x)
    BY <1>1, <1>3 DEF Takes
  <1>4. Takes(td, 1, r)
    BY <1>1 DEF Takes
  <1>5. rs[r] = "pending" /\ \A l \in Links : \A i : ~Holds(f, l, i, r)
    BY <1>2, <1>4 DEF Carry
  <1>6. \A i : Takes(td, i, r) => i = 1
    BY <1>2, <1>4 DEF Carry
  <1>7. \A i : ~Takes(t, i, r)
    BY <1>3, <1>6
  <1>8. ASSUME NEW x \in Requests, x # r PROVE Carry(f, t, rs, x)
    <2>1. Carry(f, td, rs, x)
      BY <1>2
    <2>2. ASSUME NEW i, Takes(td, i, x) PROVE \E j : Takes(t, j, x)
      <3>1. i \in 1..Len(td) /\ i # 1 /\ td[i].do = "submit" /\ td[i].r = x
        BY <1>1, <1>8, <2>2 DEF Takes
      <3>2. Takes(t, i - 1, x)
        BY <1>1, <3>1 DEF Takes
      <3> QED BY <3>2
    <2>3. ASSUME NEW i, NEW j, Takes(t, i, x), Takes(t, j, x) PROVE i = j
      <3>1. i \in Nat /\ j \in Nat /\ i + 1 = j + 1
        BY <1>3, <2>1, <2>3 DEF Carry
      <3> QED BY <3>1
    <2> QED BY <1>3, <2>1, <2>2, <2>3 DEF Carry
  <1> QED BY <1>5, <1>7, <1>8 DEF t

\* The request of the first step fails.
LEMMA RefuseInv ==
    ASSUME NEW ls, NEW f, NEW td \in Seq(Step), NEW p \in BOOLEAN, NEW rs, NEW rs2,
           HandlerInv(ls, f, td, p, rs), td # <<>>, Head(td).do = "submit",
           NEW r, r = Head(td).r, r \in Requests, Ended(rs, rs2, r)
    PROVE  HandlerInv(ls, f, Tail(td), p, rs2)
  <1>1. CarryInv(f, td, rs) /\ StepsInv(ls, f, td, p)
    BY DEF HandlerInv
  <1> DEFINE t == Tail(td)
  <1>2. /\ \A l \in Links : \A i : ~Holds(f, l, i, r)
        /\ \A i : ~Takes(t, i, r)
        /\ \A x \in Requests : x # r => Carry(f, t, rs, x)
    BY <1>1, TakenFacts
  <1>3. t \in Seq(Step) /\ ToShut(t) = ToShut(td) /\ ToClose(t) = ToClose(td)
    BY TailSteps, TailSets
  <1>4. StepsInv(ls, f, t, p)
    BY <1>1, TailInv
  <1> HIDE DEF t
  <1>5. ASSUME NEW x \in Requests PROVE Carry(f, t, rs2, x)
    <2>1. CASE x = r
      <3>1. rs2[r] # "pending"
        BY DEF Ended
      <3> QED BY <1>2, <2>1, <3>1 DEF Carry
    <2>2. CASE x # r
      <3>1. rs2[x] = "pending" <=> rs[x] = "pending"
        BY <2>2 DEF Ended
      <3>2. Carry(f, t, rs, x)
        BY <1>2, <2>2
      <3> QED BY <3>1, <3>2 DEF Carry
    <2> QED BY <2>1, <2>2
  <1>6. CarryInv(f, t, rs2)
    BY <1>5, CarryEach
  <1>7. HandlerInv(ls, f, t, p, rs2)
    BY ONLY <1>3, <1>4, <1>6, HandlerInv(ls, f, td, p, rs), p \in BOOLEAN, StepsKept
  <1> QED BY <1>7 DEF t

\* The request of the first step gets a tag behind the others of link l, one
\* of the peer's or a new one.
LEMMA PlaceInv ==
    ASSUME NEW ls, NEW f, NEW td \in Seq(Step), NEW rs,
           HandlerInv(ls, f, td, FALSE, rs), td # <<>>, Head(td).do = "submit",
           NEW r, r = Head(td).r, r \in Requests, NEW l \in Links, NEW k \in LinkState,
           "fini" \notin f[l].op, "fini" \notin k.op, k.sock \notin {"closing", "closed"},
           k.queue = Append(f[l].queue, NewTag(r)), k.inbox = f[l].inbox, k.wire = f[l].wire,
           NEW ls2 \in Seq(Links), Distinct(ls2), Range(ls2) = Range(ls) \cup {l}
    PROVE  HandlerInv(ls2, [f EXCEPT ![l] = k], Tail(td), FALSE, rs)
  <1>0. /\ f \in [Links -> LinkState] /\ LinksInv(ls, f) /\ StepsInv(ls, f, td, FALSE)
        /\ FiniInv(f, td) /\ PipesInv(f, td) /\ CarryInv(f, td, rs)
    BY DEF HandlerInv
  <1> DEFINE t == Tail(td)
             f2 == [f EXCEPT ![l] = k]
             q == f[l].queue
             n == Len(q)
  <1>1. /\ rs[r] = "pending"
        /\ \A m \in Links : \A i : ~Holds(f, m, i, r)
        /\ \A i : ~Takes(t, i, r)
        /\ \A x \in Requests : x # r => Carry(f, t, rs, x)
    <2>1. td \in Seq(Step) /\ td # <<>> /\ Head(td).do = "submit" /\ r = Head(td).r
      OBVIOUS
    <2>2. r \in Requests
      OBVIOUS
    <2> QED BY ONLY <1>0, <2>1, <2>2, TakenFacts, ZenonT(60)
  <1>2. t \in Seq(Step) /\ ToShut(t) = ToShut(td) /\ ToClose(t) = ToClose(td)
    <2>1. td \in Seq(Step) /\ td # <<>> /\ Head(td).do = "submit"
      OBVIOUS
    <2> QED BY ONLY <2>1, TailSteps, TailSets
  <1>3. /\ StepsInv(ls, f, t, FALSE)
        /\ \A i \in 1..Len(t) : t[i].do # "submit" => t[i].do # "read"
    BY <1>0, TailInv
  <1>4. f2 \in [Links -> LinkState] /\ f2[l] = k /\ \A m \in Links : m # l => f2[m] = f[m]
    BY <1>0
  <1>5. f[l] \in LinkState /\ q \in Seq(Tag) /\ n \in Nat
    BY <1>0, LinkParts
  <1>6. /\ Len(k.queue) = n + 1 /\ k.queue[n + 1] = NewTag(r)
        /\ \A i \in 1..n : k.queue[i] = q[i]
    <2>1. NewTag(r) \in Tag
      BY DEF NewTag, Tag
    <2> DEFINE v == NewTag(r)
               w == k.queue
    <2>2. w = Append(q, v) /\ v \in Tag
      BY <2>1
    <2> HIDE DEF q, v, w
    <2>3. /\ Len(w) = Len(q) + 1 /\ w[Len(q) + 1] = v
          /\ \A i \in 1..Len(q) : w[i] = q[i]
      BY ONLY <1>5, <2>2, AppendProperties
    <2> QED BY <2>3 DEF v, w
  <1>7. NewTag(r).r = r /\ NewTag(r).req = "user" /\ ~Committed(NewTag(r))
    BY DEF NewTag, Committed
  <1> HIDE DEF t, f2, n
  <1>8. LinksInv(ls2, f2)
    BY <1>0, <1>4 DEF LinksInv, Distinct
  <1>9. StepsInv(ls2, f2, t, FALSE)
    <2>1. ASSUME NEW i \in 1..Len(t), t[i].do # "submit"
          PROVE  /\ t[i].l \in Range(ls2) /\ t[i].do # "close" /\ t[i].do # "read"
                 /\ t[i].do = "shut" => "fini" \in f2[t[i].l].op
      <3>1. /\ t[i].l \in Range(ls) /\ t[i].do # "close" /\ t[i].do # "read"
            /\ t[i].do = "shut" => "fini" \in f[t[i].l].op
        BY <1>3, <2>1 DEF StepsInv
      <3>2. t[i].l \in Links
        <4>1. ls \in Seq(Links)
          BY DEF HandlerInv
        <4> QED BY <3>1, <4>1 DEF Range
      <3> QED BY <1>4, <3>1, <3>2
    <2>2. \A i, j \in 1..Len(t) :
            t[i].do # "submit" /\ t[j].do # "submit" /\ t[i].l = t[j].l => i = j
      BY <1>3 DEF StepsInv
    <2> QED BY <2>1, <2>2 DEF StepsInv
  <1>10. FiniInv(f2, t)
    <2> SUFFICES ASSUME NEW m \in Links PROVE FiniAt(m, f2[m], t)
      BY DEF FiniInv
    <2>1. FiniAt(m, f[m], td)
      BY <1>0 DEF FiniInv
    <2>2. CASE m = l
      BY <1>4, <2>2 DEF FiniAt
    <2>3. CASE m # l
      BY <1>2, <1>4, <2>1, <2>3 DEF FiniAt
    <2> QED BY <2>2, <2>3
  <1>11. PipesInv(f2, t)
    <2> SUFFICES ASSUME NEW m \in Links PROVE PipeAt(m, f2[m], t)
      BY DEF PipesInv
    <2>1. PipeAt(m, f[m], td)
      BY <1>0 DEF PipesInv
    <2>2. CASE m = l
      <3>1. l \notin ToClose(td)
        BY <1>0, StepSets DEF StepsInv
      <3>2. PipeInv(f[l])
        BY <2>1, <2>2, <3>1 DEF PipeAt
      <3>3. /\ n <= Len(f[l].queue) /\ n <= Len(k.queue)
            /\ \A i \in 1..n : k.queue[i].w = f[l].queue[i].w /\ k.queue[i].r = f[l].queue[i].r
            /\ \A i \in 1..Len(f[l].queue) : i > n => ~Committed(f[l].queue[i])
        BY <1>5, <1>6 DEF n
      <3>4. \A i \in 1..Len(k.queue) : i > n => ~Committed(k.queue[i])
        <4>1. \A i \in 1..Len(k.queue) : i > n => i = n + 1
          BY <1>5, <1>6
        <4> QED BY <1>6, <1>7, <4>1
      <3>5. PipeInv(k)
        BY <1>5, <3>2, <3>3, <3>4, PipePrefix
      <3> QED BY <1>4, <2>2, <3>5 DEF PipeAt
    <2>3. CASE m # l
      BY <1>2, <1>4, <2>1, <2>3 DEF PipeAt
    <2> QED BY <2>2, <2>3
  <1>12. CarryInv(f2, t, rs)
    <2> SUFFICES ASSUME NEW x \in Requests PROVE Carry(f2, t, rs, x)
      BY CarryEach
    <2>1. \A m \in Links : m # l => \A i : Holds(f2, m, i, x) <=> Holds(f, m, i, x)
      BY <1>4 DEF Holds
    <2>2. \A i : Holds(f2, l, i, x) <=> Holds(f, l, i, x) \/ (i = n + 1 /\ x = r)
      <3>1. \A i : i \in 1..(n + 1) <=> i \in 1..n \/ i = n + 1
        BY <1>5
      <3>2. ASSUME NEW i, Holds(f2, l, i, x) PROVE Holds(f, l, i, x) \/ (i = n + 1 /\ x = r)
        BY <1>4, <1>6, <1>7, <3>1, <3>2 DEF Holds, n
      <3>3. ASSUME NEW i, Holds(f, l, i, x) PROVE Holds(f2, l, i, x)
        BY <1>4, <1>6, <3>1, <3>3 DEF Holds, n
      <3>4. x = r => Holds(f2, l, n + 1, x)
        BY <1>4, <1>6, <1>7, <3>1 DEF Holds
      <3> QED BY <3>2, <3>3, <3>4
    <2>3. CASE x = r
      <3>1. \A m \in Links : \A i : Holds(f2, m, i, x) <=> m = l /\ i = n + 1
        BY <1>1, <2>1, <2>2, <2>3
      <3>2. rs[x] = "pending" /\ (\A i : ~Takes(t, i, x)) /\ l \in Links
        BY <1>1, <2>3
      <3> HIDE DEF f2
      <3> QED BY ONLY <3>1, <3>2, SMTT(30) DEF Carry
    <2>4. CASE x # r
      <3>1. \A m \in Links : \A i : Holds(f2, m, i, x) <=> Holds(f, m, i, x)
        BY <2>1, <2>2, <2>4
      <3>2. Carry(f, t, rs, x)
        BY <1>1, <2>4
      <3> QED BY <3>1, <3>2 DEF Carry
    <2> QED BY <2>3, <2>4
  <1>13. HandlerInv(ls2, f2, t, FALSE, rs)
    BY <1>2, <1>4, <1>8, <1>9, <1>10, <1>11, <1>12 DEF HandlerInv
  <1> QED BY <1>13 DEF t, f2

\* What cleanup_canceled() leaves in a queue.
Live(q) == {i \in 1..Len(q) : Committed(q[i]) \/ q[i].req # "null"}

\* Only the queues of the links change, and those that were empty do not.
LEMMA SweptFacts ==
    ASSUME link \in [Links -> LinkState]
    PROVE  /\ Swept \in [Links -> LinkState]
           /\ \A l \in Links :
                /\ Swept[l].op = link[l].op /\ Swept[l].sock = link[l].sock
                /\ Swept[l].inbox = link[l].inbox /\ Swept[l].wire = link[l].wire
                /\ Swept[l].queue = Keep(link[l].queue, Live(link[l].queue))
                /\ link[l].queue = <<>> => Swept[l].queue = <<>>
                /\ link[l] = NewLink => Swept[l] = NewLink
  <1>1. ASSUME NEW l \in Links
        PROVE  /\ Swept[l] \in LinkState
               /\ Swept[l].op = link[l].op /\ Swept[l].sock = link[l].sock
               /\ Swept[l].inbox = link[l].inbox /\ Swept[l].wire = link[l].wire
               /\ Swept[l].queue = Keep(link[l].queue, Live(link[l].queue))
               /\ link[l].queue = <<>> => Swept[l].queue = <<>>
               /\ link[l] = NewLink => Swept[l] = NewLink
    <2> DEFINE k == link[l]
               q == k.queue
               v == Keep(q, Live(q))
    <2>1. k \in LinkState /\ q \in Seq(Tag)
      BY LinkParts
    <2>2. Swept[l] = [k EXCEPT !.queue = v]
      BY DEF Swept, Live
    <2>3. \A i \in Live(q) : i \in 1..Len(q)
      BY DEF Live
    <2>4. v \in Seq(Tag) /\ Len(v) = Cardinality(Live(q))
      BY ONLY <2>1, <2>3, KeepFacts
    <2>5. q = <<>> => v = <<>>
      <3> HAVE q = <<>>
      <3>1. Live(q) = {}
        BY DEF Live
      <3>2. Len(v) = 0
        BY <2>4, <3>1, FS_EmptySet
      <3> HIDE DEF v
      <3> QED BY <2>4, <3>2
    <2> HIDE DEF v
    <2>6. /\ Swept[l] \in LinkState /\ Swept[l].op = k.op /\ Swept[l].sock = k.sock
          /\ Swept[l].inbox = k.inbox /\ Swept[l].wire = k.wire /\ Swept[l].queue = v
      BY <2>1, <2>2, <2>4 DEF LinkState
    <2>7. k = NewLink => Swept[l] = NewLink
      BY <2>2, <2>5 DEF NewLink
    <2> QED BY <2>5, <2>6, <2>7 DEF v
  <1>2. Swept \in [Links -> LinkState]
    <2>1. Swept = [l \in Links |-> Swept[l]]
      BY DEF Swept
    <2> QED BY <1>1, <2>1
  <1> QED BY <1>1, <1>2

\* cleanup_canceled() takes no request from its carrier and leaves the pipes.
LEMMA SweptInv ==
    ASSUME ServerInv, todo # <<>>, Head(todo).do = "submit"
    PROVE  HandlerInv(links, Swept, todo, fini, res)
  <1>0. /\ link \in [Links -> LinkState] /\ links \in Seq(Links) /\ todo \in Seq(Step)
        /\ LinksInv(links, link) /\ StepsInv(links, link, todo, fini)
        /\ FiniInv(link, todo) /\ PipesInv(link, todo) /\ CarryInv(link, todo, res)
    BY Parts
  <1> DEFINE f == Swept
             Q(m) == link[m].queue
             I(m) == Live(Q(m))
             G == [m \in Links |-> [i \in 1..Cardinality(I(m)) |-> Place(I(m), i)]]
  <1>1. /\ f \in [Links -> LinkState]
        /\ \A l \in Links :
            /\ f[l].op = link[l].op /\ f[l].sock = link[l].sock
            /\ f[l].inbox = link[l].inbox /\ f[l].wire = link[l].wire
            /\ f[l].queue = Keep(Q(l), I(l))
            /\ Q(l) = <<>> => f[l].queue = <<>>
            /\ link[l] = NewLink => f[l] = NewLink
    BY <1>0, SweptFacts
  <1> HIDE DEF f
  <1>2. LinksInv(links, f)
    BY <1>0, <1>1 DEF LinksInv
  <1>3. \A i \in 1..Len(todo) : todo[i].do # "read"
    <2>1. Head(todo) = todo[1] /\ Len(todo) \in Nat
      BY <1>0, TailSteps
    <2> SUFFICES ASSUME NEW i \in 1..Len(todo), todo[i].do = "read" PROVE FALSE
      OBVIOUS
    <2>2. Len(todo) = 1
      BY <1>0 DEF StepsInv
    <2>3. i = 1
      BY <2>2
    <2> QED BY <2>1, <2>3
  <1>4. StepsInv(links, f, todo, fini)
    <2>1. \A i \in 1..Len(todo) : todo[i].do # "submit" => todo[i].l \in Links
      BY <1>0 DEF StepsInv, Range
    <2> QED BY <1>0, <1>1, <1>3, <2>1 DEF StepsInv
  <1>5. FiniInv(f, todo)
    BY <1>0, <1>1 DEF FiniInv, FiniAt
  <1>6. ASSUME NEW m \in Links
        PROVE  /\ Q(m) \in Seq(Tag) /\ link[m] \in LinkState
               /\ \A i \in I(m) : i \in 1..Len(Q(m))
               /\ \A i \in Commits(Q(m)) : i \in I(m)
               /\ \A i \in 1..Len(Q(m)) : Q(m)[i].req = "user" => i \in I(m)
    <2>1. Q(m) \in Seq(Tag) /\ link[m] \in LinkState
      BY <1>0, LinkParts
    <2> QED BY <2>1 DEF Live, Commits
  <1>7. PipesInv(f, todo)
    <2> SUFFICES ASSUME NEW m \in Links, PipeInv(link[m]) PROVE PipeInv(f[m])
      BY <1>0, <1>1 DEF PipesInv, PipeAt
    <2>1. f[m] \in LinkState
      BY <1>1
    <2>2. f[m].inbox = link[m].inbox /\ f[m].wire = link[m].wire /\ f[m].queue = Keep(Q(m), I(m))
      BY <1>1
    <2> QED BY ONLY <1>6, <2>1, <2>2, m \in Links, PipeInv(link[m]), PipeKeep
  <1>8. ASSUME NEW m \in Links
        PROVE  /\ Len(f[m].queue) = Cardinality(I(m))
               /\ \A j \in 1..Cardinality(I(m)) :
                    /\ G[m][j] = Place(I(m), j) /\ Place(I(m), j) \in I(m)
                    /\ f[m].queue[j] = Q(m)[Place(I(m), j)]
               /\ \A i \in I(m) : \E j \in 1..Cardinality(I(m)) : Place(I(m), j) = i
               /\ \A i, j \in 1..Cardinality(I(m)) : Place(I(m), i) = Place(I(m), j) => i = j
    <2>1. /\ Len(Keep(Q(m), I(m))) = Cardinality(I(m))
          /\ \A j \in 1..Cardinality(I(m)) :
                Place(I(m), j) \in I(m) /\ Keep(Q(m), I(m))[j] = Q(m)[Place(I(m), j)]
          /\ \A i \in I(m) : \E j \in 1..Cardinality(I(m)) : Place(I(m), j) = i
          /\ \A i, j \in 1..Cardinality(I(m)) : Place(I(m), i) = Place(I(m), j) => i = j
      BY ONLY <1>6, m \in Links, KeepFacts
    <2> QED BY <1>1, <2>1
  <1> HIDE DEF G
  <1>9. ASSUME NEW m \in Links, NEW r \in Requests, NEW i, Holds(f, m, i, r)
        PROVE  i \in 1..Cardinality(I(m)) /\ Holds(link, m, G[m][i], r)
    BY <1>6, <1>8, <1>9, SMTT(30) DEF Holds
  <1>10. ASSUME NEW m \in Links, NEW r \in Requests, NEW i, Holds(link, m, i, r)
         PROVE  \E j : Holds(f, m, j, r)
    <2>1. PICK j \in 1..Cardinality(I(m)) : Place(I(m), j) = i
      BY <1>6, <1>8, <1>10 DEF Holds
    <2>2. Holds(f, m, j, r)
      BY <1>8, <1>10, <2>1 DEF Holds
    <2> QED BY <2>2
  <1>11. ASSUME NEW m \in Links, NEW r \in Requests, NEW i, NEW j,
                Holds(f, m, i, r), Holds(f, m, j, r), G[m][i] = G[m][j]
         PROVE  i = j
    BY <1>8, <1>9, <1>11
  <1> DEFINE D == {}
  <1>12. \A r \in Requests : r \notin D
    OBVIOUS
  <1> HIDE DEF D, I, Q
  <1>13. CarryInv(f, todo, res)
    BY ONLY <1>0, <1>9, <1>10, <1>11, <1>12, CarryMap
  <1>14. HandlerInv(links, f, todo, fini, res)
    BY <1>0, <1>1, <1>2, <1>4, <1>5, <1>7, <1>13 DEF HandlerInv
  <1> QED BY <1>14 DEF f

\* link::submit() on a link that is not closed.
LEMMA EnqueueInv ==
    ASSUME ServerInv, todo # <<>>, Head(todo).do = "submit", fini = FALSE,
           NEW r, r = Head(todo).r, r \in Requests,
           NEW l \in Range(links), "fini" \notin link[l].op, Enqueue(l, r)
    PROVE  /\ HandlerInv(links', link', Tail(todo), FALSE, res)
           /\ \A m \in Links : link'[m].sock = link[m].sock
  <1>0. /\ link \in [Links -> LinkState] /\ links \in Seq(Links) /\ todo \in Seq(Step)
        /\ LinksInv(links, link) /\ l \in Links
    BY Parts DEF Range
  <1> DEFINE f == Swept
             v == NewTag(r)
             q == Append(f[l].queue, v)
             k == [f[l] EXCEPT !.queue = q]
             k2 == IF Ready(k) THEN WaitFor(k, "write") ELSE k
  <1>1. link' = [f EXCEPT ![l] = k2] /\ links' = links
    BY DEF Enqueue
  <1>2. HandlerInv(links, f, todo, FALSE, res)
    BY SweptInv
  <1>3. /\ f \in [Links -> LinkState]
        /\ \A m \in Links : f[m].sock = link[m].sock
        /\ f[l].op = link[l].op
    BY <1>0, SweptFacts
  <1> HIDE DEF f
  <1>4. f[l].sock \notin {"closing", "closed"}
    BY <1>0, <1>2, <1>3 DEF HandlerInv, FiniInv, FiniAt
  <1>5. q \in Seq(Tag)
    <2>1. f[l].queue \in Seq(Tag) /\ v \in Tag
      BY <1>0, <1>3, LinkParts DEF NewTag, Tag
    <2> HIDE DEF v
    <2> QED BY <2>1
  <1> HIDE DEF q, v
  <1>6. /\ k \in LinkState /\ k.queue = q /\ k.inbox = f[l].inbox /\ k.wire = f[l].wire
        /\ k.sock = f[l].sock /\ k.op = f[l].op
    <2>1. f[l] \in LinkState
      BY <1>0, <1>3
    <2> QED BY <1>5, <2>1 DEF LinkState
  <1> HIDE DEF k
  <1>7. /\ k2 \in LinkState /\ k2.queue = q /\ k2.inbox = f[l].inbox /\ k2.wire = f[l].wire
        /\ k2.sock = f[l].sock /\ "fini" \notin k2.op
    <2>1. SameBut(k, WaitFor(k, "write"))
      BY <1>6, WaitFacts
    <2> QED BY <1>3, <1>6, <2>1 DEF SameBut
  <1> HIDE DEF k2
  <1>8. Distinct(links) /\ Range(links) = Range(links) \cup {l}
    BY <1>0 DEF LinksInv, Distinct
  <1>9. "fini" \notin f[l].op /\ k2.sock \notin {"closing", "closed"}
    BY <1>3, <1>4, <1>7
  <1>10. k2.queue = Append(f[l].queue, NewTag(r))
    BY <1>7 DEF q, v
  <1>11. HandlerInv(links, [f EXCEPT ![l] = k2], Tail(todo), FALSE, res)
    BY ONLY <1>0, <1>2, <1>7, <1>8, <1>9, <1>10, todo # <<>>, Head(todo).do = "submit",
            r = Head(todo).r, r \in Requests, PlaceInv
  <1> QED BY <1>0, <1>1, <1>3, <1>7, <1>11

\* link_add(): the new link has the tag of the request alone.
LEMMA LinkAddInv ==
    ASSUME ServerInv, todo # <<>>, Head(todo).do = "submit", fini = FALSE,
           NEW r, r = Head(todo).r, r \in Requests, LinkAdd(r)
    PROVE  /\ HandlerInv(links', link', Tail(todo), FALSE, res)
           /\ resolve # "done" =>
                \A m \in Links : link[m].sock = "none" => link'[m].sock = "none"
  <1>0. /\ link \in [Links -> LinkState] /\ links \in Seq(Links) /\ todo \in Seq(Step)
        /\ LinksInv(links, link)
    BY Parts
  <1> DEFINE f == Swept
             v == NewTag(r)
             s == IF resolve = "done" THEN "open" ELSE "none"
             o == IF resolve = "done" THEN {"init"} ELSE {}
             k == [NewLink EXCEPT !.queue = <<v>>, !.sock = s, !.op = o]
  <1>1. PICK l \in Links \ Range(links) :
            links' = Append(links, l) /\ link' = [f EXCEPT ![l] = k]
    BY DEF LinkAdd
  <1>2. HandlerInv(links, f, todo, FALSE, res)
    BY SweptInv
  <1>3. /\ f \in [Links -> LinkState]
        /\ \A m \in Links : f[m].sock = link[m].sock
    BY <1>0, SweptFacts
  <1>4. f[l] = NewLink /\ l \in Links
    BY <1>0, <1>1, SweptFacts DEF LinksInv
  <1>5. /\ v \in Tag /\ s \in {"open", "none"} /\ (resolve # "done" => s = "none")
        /\ o \in SUBSET {"init", "fini", "read", "write"} /\ "fini" \notin o
    BY DEF NewTag, Tag
  <1> HIDE DEF f, v, s, o
  <1>6. <<v>> \in Seq(Tag) /\ <<v>> = Append(<<>>, v)
    BY <1>5
  <1> DEFINE q == <<v>>
  <1>7. k = [NewLink EXCEPT !.queue = q, !.sock = s, !.op = o] /\ q \in Seq(Tag)
    BY <1>6
  <1> HIDE DEF q, k
  <1>8. /\ k \in LinkState /\ k.queue = q /\ k.inbox = NewLink.inbox /\ k.wire = NewLink.wire
        /\ k.sock = s /\ k.op = o
    BY <1>5, <1>7, NewLinkFacts DEF LinkState
  <1>9. /\ k.queue = Append(f[l].queue, NewTag(r)) /\ k.inbox = f[l].inbox /\ k.wire = f[l].wire
        /\ "fini" \notin f[l].op /\ "fini" \notin k.op /\ k.sock \notin {"closing", "closed"}
    BY <1>4, <1>5, <1>6, <1>8, NewLinkFacts DEF q, v
  <1> DEFINE ls2 == Append(links, l)
  <1>10. ls2 \in Seq(Links) /\ Distinct(ls2) /\ Range(ls2) = Range(links) \cup {l}
    <2> DEFINE n == Len(links)
    <2>1. /\ ls2 \in Seq(Links) /\ Len(ls2) = n + 1 /\ ls2[n + 1] = l /\ n \in Nat
          /\ \A i \in 1..n : ls2[i] = links[i]
      BY <1>0, <1>1
    <2>2. \A i \in 1..n : links[i] # l
      BY <1>1 DEF Range
    <2> HIDE DEF ls2
    <2>3. \A i, j \in 1..n : links[i] = links[j] => i = j
      BY <1>0 DEF LinksInv
    <2>4. \A i : i \in 1..(n + 1) <=> i \in 1..n \/ i = n + 1
      BY <2>1
    <2>5. DOMAIN ls2 = 1..(n + 1) /\ DOMAIN links = 1..n
      BY <1>0, <2>1
    <2> HIDE DEF n
    <2>6. Distinct(ls2)
      BY <2>1, <2>2, <2>3, <2>4 DEF Distinct
    <2>7. Range(ls2) = Range(links) \cup {l}
      BY <2>1, <2>4, <2>5 DEF Range
    <2> QED BY <2>1, <2>6, <2>7
  <1> HIDE DEF ls2
  <1>11. HandlerInv(ls2, [f EXCEPT ![l] = k], Tail(todo), FALSE, res)
    BY ONLY <1>0, <1>2, <1>4, <1>8, <1>9, <1>10, todo # <<>>, Head(todo).do = "submit",
            r = Head(todo).r, r \in Requests, PlaceInv
  <1>12. ASSUME resolve # "done", NEW m \in Links, link[m].sock = "none"
         PROVE  link'[m].sock = "none"
    BY <1>1, <1>3, <1>4, <1>5, <1>8, <1>12
  <1> QED BY <1>1, <1>11, <1>12 DEF ls2

\* peer::submit() closes a link whose pipe is dead and comes back.
LEMMA DeadInv ==
    ASSUME ServerInv, todo # <<>>, Head(todo).do = "submit", fini = FALSE,
           NEW l \in Range(links), "fini" \notin link[l].op, Close(link, l, "NOTIFY", todo)
    PROVE  /\ HandlerInv(links, link', todo', FALSE, res)
           /\ \A m \in Links : link'[m].sock = link[m].sock
  <1>0. /\ link \in [Links -> LinkState] /\ links \in Seq(Links) /\ todo \in Seq(Step)
        /\ LinksInv(links, link) /\ StepsInv(links, link, todo, FALSE)
        /\ FiniInv(link, todo) /\ PipesInv(link, todo) /\ CarryInv(link, todo, res)
        /\ l \in Links
    <2>1. /\ link \in [Links -> LinkState] /\ links \in Seq(Links) /\ todo \in Seq(Step)
          /\ LinksInv(links, link) /\ StepsInv(links, link, todo, fini)
          /\ FiniInv(link, todo) /\ PipesInv(link, todo)
          /\ CarryInv(link, todo, res)
      BY Parts
    <2>2. l \in Links
      BY <2>1 DEF Range
    <2> QED BY <2>1, <2>2
  <1>1. link' = Closed(link, l) /\ todo' = CloseTodo(link[l].queue, l, "NOTIFY", todo)
    BY DEF Close, Closed, CloseTodo
  <1>2. \A i \in 1..Len(todo) :
            todo[i].do # "submit" => todo[i].do # "read" /\ todo[i].l # l
    <2> SUFFICES ASSUME NEW i \in 1..Len(todo), todo[i].do # "submit"
                 PROVE  todo[i].do # "read" /\ todo[i].l # l
      OBVIOUS
    <2>1. Head(todo) = todo[1] /\ Len(todo) \in Nat
      BY <1>0, TailSteps
    <2>2. todo[i].do # "read"
      <3> SUFFICES ASSUME todo[i].do = "read" PROVE FALSE
        OBVIOUS
      <3>1. Len(todo) = 1
        BY <1>0 DEF StepsInv
      <3>2. i = 1
        BY <3>1
      <3> QED BY <2>1, <3>2
    <2>3. todo[i].do \in {"close", "shut", "read", "submit"}
      <3>1. todo[i] \in Step
        BY <1>0
      <3> QED BY <3>1 DEF Step
    <2>4. todo[i].do # "close"
      BY <1>0 DEF StepsInv
    <2>5. todo[i].do = "shut" => "fini" \in link[todo[i].l].op
      BY <1>0 DEF StepsInv
    <2> QED BY <2>2, <2>3, <2>4, <2>5
  <1>3. \A m \in Links : FiniAt(m, link[m], todo) /\ PipeAt(m, link[m], todo)
    BY <1>0 DEF FiniInv, PipesInv
  <1>4. "NOTIFY" \in {"RST", "NOTIFY"} /\ FALSE \in BOOLEAN /\ l \in Range(links)
    OBVIOUS
  <1>5. HandlerInv(links, [link EXCEPT ![l] = Dispersed(link[l])],
                   CloseTodo(link[l].queue, l, "NOTIFY", todo), FALSE, res)
    BY ONLY <1>0, <1>2, <1>3, <1>4, CloseInv
  <1>6. /\ Closed(link, l) = [link EXCEPT ![l] = Dispersed(link[l])]
        /\ \A m \in Links : Closed(link, l)[m].sock = link[m].sock
    BY ONLY <1>0, CloseStep
  <1> QED BY <1>1, <1>5, <1>6

\* peer::submit().
LEMMA PeerSubmitInv ==
    ASSUME ServerInv, PeerSubmit PROVE ServerInv'
  <1>0. /\ HandlerInv(links, link, todo, fini, res) /\ PeerInv /\ AnswerInv
        /\ link \in [Links -> LinkState] /\ links \in Seq(Links) /\ todo \in Seq(Step)
        /\ CarryInv(link, todo, res) /\ fini \in BOOLEAN /\ e \in BOOLEAN
        /\ run \in {"RUN", "QUIT", "HALT"}
        /\ resolve \in Resolving \cup {"none", "done", "failed"}
        /\ res \in [Requests -> {"none", "pending", "value", "error"}]
        /\ answer \in [Requests -> SUBSET Requests] /\ faults \in 0..MaxFaults
    BY Parts
  <1> DEFINE r == Head(todo).r
  <1>1. /\ todo # <<>> /\ Head(todo).do = "submit" /\ run' = run /\ resolve' = resolve
        /\ answer' = answer /\ faults' = faults
    BY DEF PeerSubmit
  <1>2. r \in Requests
    <2>1. Head(todo) \in Step
      BY <1>0, <1>1
    <2> QED BY <1>1, <2>1 DEF Step
  <1>3. res[r] = "pending"
    BY <1>0, <1>1, <1>2, TakenFacts
  <1>a. ASSUME res' = [res EXCEPT ![r] = "error"]
        PROVE  /\ res' \in [Requests -> {"none", "pending", "value", "error"}]
               /\ AnswerInv' /\ Ended(res, res', r)
    <2>1. res' \in [Requests -> {"none", "pending", "value", "error"}]
      BY <1>0, <1>a
    <2>2. \A x \in Requests : res'[x] = "value" <=> res[x] = "value"
      BY <1>0, <1>3, <1>a
    <2>3. AnswerInv'
      BY <1>0, <1>1, <2>2, AnswerKept
    <2> QED BY <1>0, <1>a, <2>1, <2>3 DEF Ended
  <1> DEFINE Refused ==
        /\ e' \in BOOLEAN /\ fini' \in BOOLEAN /\ (fini => fini')
        /\ res' = [res EXCEPT ![r] = "error"]
        /\ todo' = Tail(todo) /\ UNCHANGED <<links, link>>
      Closes1 ==
        /\ ~fini /\ run = "RUN" /\ e' = FALSE /\ fini' = fini
        /\ \E l \in Range(links) : Dead(l) /\ Close(link, l, "NOTIFY", todo)
        /\ UNCHANGED <<links, res>>
      Placed ==
        /\ ~fini /\ run = "RUN" /\ e' = FALSE /\ fini' = fini
        /\ LinkGet(r)
        /\ todo' = Tail(todo)
  <1>c. Refused \/ Closes1 \/ Placed
    BY <1>0 DEF PeerSubmit, ErrCleared
  <1>4. CASE Refused
    <2>0. HandlerInv(links, link, todo, fini', res)
      BY <1>0, <1>4 DEF HandlerInv, StepsInv
    <2>1. HandlerInv(links, link, Tail(todo), fini', res')
      BY <1>0, <1>1, <1>2, <1>4, <1>a, <2>0, RefuseInv
    <2>2. PeerInv'
      BY <1>0, <1>1, <1>4, PeerKept
    <2> QED BY <1>0, <1>1, <1>4, <1>a, <2>1, <2>2, Assemble
  <1>5. CASE Closes1
    <2>1. PICK l \in Range(links) : Dead(l) /\ Close(link, l, "NOTIFY", todo)
      BY <1>5
    <2>2. "fini" \notin link[l].op /\ fini = FALSE /\ e' \in BOOLEAN
      BY <1>0, <1>5, <2>1 DEF Dead
    <2>3. /\ HandlerInv(links, link', todo', FALSE, res)
          /\ \A m \in Links : link'[m].sock = link[m].sock
      BY <1>1, <2>1, <2>2, DeadInv
    <2> QED BY <1>0, <1>1, <1>5, <2>2, <2>3, Finish
  <1>6. CASE Placed
    <2>0. fini = FALSE /\ e' \in BOOLEAN /\ resolve # "none"
      BY <1>0, <1>1, <1>6 DEF PeerInv
    <2> DEFINE cands == {l \in Range(links) : "fini" \notin link[l].op}
    <2>1. \/ \E l \in cands : Enqueue(l, r) /\ res' = res
          \/ LinkAdd(r) /\ res' = res
          \/ res' = [res EXCEPT ![r] = "error"] /\ link' = Swept /\ links' = links
      BY <1>6 DEF LinkGet
    <2>2. CASE \E l \in cands : Enqueue(l, r) /\ res' = res
      <3>1. PICK l \in cands : Enqueue(l, r)
        BY <2>2
      <3>2. /\ HandlerInv(links', link', Tail(todo), FALSE, res)
            /\ \A m \in Links : link'[m].sock = link[m].sock
        BY <1>1, <1>2, <2>0, <3>1, EnqueueInv
      <3> QED BY <1>0, <1>1, <1>6, <2>0, <2>2, <3>2, Finish
    <2>3. CASE LinkAdd(r) /\ res' = res
      <3>1. /\ HandlerInv(links', link', Tail(todo), FALSE, res)
            /\ resolve # "done" =>
                 \A m \in Links : link[m].sock = "none" => link'[m].sock = "none"
        BY <1>1, <1>2, <2>0, <2>3, LinkAddInv
      <3>2. PeerInv'
        BY <1>0, <1>1, <2>0, <3>1 DEF PeerInv
      <3>3. AnswerInv'
        BY <1>0, <1>1, <2>3, AnswerKept
      <3> QED BY <1>0, <1>1, <1>6, <2>0, <2>3, <3>1, <3>2, <3>3, Assemble
    <2>4. CASE res' = [res EXCEPT ![r] = "error"] /\ link' = Swept /\ links' = links
      <3>1. HandlerInv(links, Swept, todo, fini, res)
        BY <1>1, SweptInv
      <3>2. HandlerInv(links, Swept, Tail(todo), fini, res')
        BY <1>0, <1>1, <1>2, <2>4, <3>1, <1>a, RefuseInv
      <3>3. \A m \in Links : link'[m].sock = link[m].sock
        BY <1>0, <2>4, SweptFacts
      <3>4. PeerInv'
        BY <1>0, <1>1, <2>0, <3>3 DEF PeerInv
      <3> QED BY <1>0, <1>1, <1>6, <1>a, <2>0, <2>4, <3>2, <3>4, Assemble
    <2> QED BY <2>1, <2>2, <2>3, <2>4
  <1> QED BY <1>4, <1>5, <1>6, <1>c

-----------------------------------------------------------------------------
(***************************************************************************)
(* The theorems.                                                           *)
(***************************************************************************)

\* Before the first request there is no peer and no link.
LEMMA InitInv ==
    ASSUME Init PROVE ServerInv
  <1>1. /\ run = "RUN" /\ resolve = "none" /\ e = FALSE /\ fini = FALSE
        /\ links = <<>> /\ link = [l \in Links |-> NewLink] /\ todo = <<>>
        /\ res = [r \in Requests |-> "none"]
        /\ answer = [r \in Requests |-> {}]
        /\ faults = 0
    BY DEF Init
  <1>2. link \in [Links -> LinkState] /\ \A l \in Links : link[l] = NewLink
    BY <1>1, NewLinkFacts
  <1>3. links \in Seq(Links) /\ todo \in Seq(Step)
    BY <1>1
  <1>4. LinksInv(links, link)
    BY <1>1, <1>2 DEF LinksInv
  <1>5. StepsInv(links, link, todo, fini)
    BY <1>1, NoSteps
  <1>6. FiniInv(link, todo)
    BY <1>1, <1>2, NewLinkFacts DEF FiniInv, FiniAt
  <1>7. PipesInv(link, todo)
    BY <1>2, NewLinkFacts DEF PipesInv, PipeAt
  <1>8. CarryInv(link, todo, res)
    <2>1. \A l \in Links : \A i, r : ~Holds(link, l, i, r)
      BY <1>2, NewLinkFacts DEF Holds
    <2>2. \A i, r : ~Takes(todo, i, r)
      BY <1>1 DEF Takes
    <2>3. \A r \in Requests : res[r] # "pending"
      BY <1>1
    <2>4. \A r \in Requests : Carry(link, todo, res, r)
      BY ONLY <2>1, <2>2, <2>3 DEF Carry
    <2> QED BY <2>4, CarryEach
  <1>9. HandlerInv(links, link, todo, fini, res)
    BY <1>2, <1>3, <1>4, <1>5, <1>6, <1>7, <1>8 DEF HandlerInv
  <1>10. PeerInv
    BY <1>1, <1>2, NewLinkFacts DEF PeerInv
  <1>11. AnswerInv
    BY <1>1 DEF AnswerInv, OwnAnswer
  <1>12. TypeOK
    <2>1. faults \in 0..MaxFaults
      BY <1>1, ServerAssumption
    <2>2. res \in [Requests -> {"none", "pending", "value", "error"}]
      BY <1>1
    <2>3. answer \in [Requests -> SUBSET Requests]
      BY <1>1
    <2> QED BY <1>1, <1>2, <1>3, <2>1, <2>2, <2>3 DEF TypeOK
  <1> QED BY <1>9, <1>10, <1>11, <1>12 DEF ServerInv

\* Every handler, and every step of a handler that closes links, keeps it.
LEMMA NextInv ==
    ASSUME ServerInv, [Next]_vars PROVE ServerInv'
  <1>1. CASE UNCHANGED vars
    BY <1>1 DEF vars, ServerInv, TypeOK, PeerInv, AnswerInv, OwnAnswer
  <1>2. CASE \E r \in Requests : Submit(r)
    BY <1>2, SubmitInv
  <1>3. CASE \E r \in Requests : Cancel(r)
    BY <1>3, CancelInv
  <1>4. CASE PeerSubmit
    BY <1>4, PeerSubmitInv
  <1>5. CASE CloseNext
    BY <1>5, CloseNextInv
  <1>6. CASE Shut
    BY <1>6, ShutInv
  <1>7. CASE ProcessRead
    BY <1>7, ProcessReadInv
  <1>8. CASE HandleResolve
    BY <1>8, HandleResolveInv
  <1>9. CASE Halt
    BY <1>9, HaltInv
  <1>18. CASE ErrClear
    BY <1>18, ErrClearInv
  <1>19. CASE Quit
    BY <1>19, QuitInv
  <1>10. CASE \E l \in Links : OpenFails(l)
    BY <1>10, OpenFailsInv
  <1>11. CASE \E l \in Links : OpenSucceeds(l)
    BY <1>11, OpenSucceedsInv
  <1>12. CASE \E l \in Links : HandleWritable(l)
    BY <1>12, HandleWritableInv
  <1>13. CASE \E l \in Links : RemoteAnswers(l)
    BY <1>13, RemoteAnswersInv
  <1>14. CASE \E l \in Links : HandleReadable(l)
    BY <1>14, HandleReadableInv
  <1>15. CASE \E l \in Links : HandleDisconnect(l)
    BY <1>15, HandleDisconnectInv
  <1>16. CASE \E l \in Links : \E x \in {"read", "write"} : HandleError(l, x)
    BY <1>16, HandleErrorInv
  <1>17. CASE \E l \in Links : \E x \in {"read", "write"} : Canceled(l, x)
    BY <1>17, CanceledInv
  <1> QED BY <1>1, <1>2, <1>3, <1>4, <1>5, <1>6, <1>7, <1>8, <1>9, <1>10, <1>11, <1>12,
             <1>13, <1>14, <1>15, <1>16, <1>17, <1>18, <1>19 DEF Next

\* The invariant of the handlers of server.cc: what is left of the running
\* handler, the closed links, the pipes and the carriers of the requests.
THEOREM ServerInvariant == Spec => []ServerInv
  <1>1. Init => ServerInv
    BY InitInv
  <1>2. ServerInv /\ [Next]_vars => ServerInv'
    BY NextInv
  <1> QED BY <1>1, <1>2, PTL DEF Spec

\* Links, tags, steps, requests and the socket states are of their types.
THEOREM ServerTypes == Spec => []TypeOK
  <1>1. ServerInv => TypeOK
    BY DEF ServerInv
  <1> QED BY <1>1, ServerInvariant, PTL

\* A remote that puts each response in a record of its own: a request is
\* answered by its own response and by no other.
THEOREM OwnAnswerHolds ==
    ASSUME ~Coalesce
    PROVE  Spec => []OwnAnswer
  <1>1. ServerInv => OwnAnswer
    BY DEF ServerInv, AnswerInv
  <1> QED BY <1>1, ServerInvariant, PTL

\* With such a remote, the pipe of each link that is not closed is exactly what
\* the remote has still to answer, and within tag_commit_max().
THEOREM PipeExactHolds ==
    ASSUME ~Coalesce
    PROVE  Spec => []PipeExact
  <1>1. ServerInv => PipeExact
    <2> SUFFICES ASSUME ServerInv PROVE PipeExact
      OBVIOUS
    <2>0. link \in [Links -> LinkState] /\ PipesInv(link, todo) /\ todo \in Seq(Step)
          /\ StepsInv(links, link, todo, fini)
      BY Parts
    <2> SUFFICES ASSUME NEW l \in Links, "fini" \notin link[l].op,
                        [do |-> "close", l |-> l] \notin Range(todo)
                 PROVE  LET k == link[l]
                            sent == {i \in 1..Len(k.queue) : k.queue[i].w = "all"}
                        IN  /\ TagCommitted(k.queue) <= CommitMax
                            /\ sent = 1..(Len(k.inbox) + Len(k.wire))
                            /\ \A i \in sent :
                                k.queue[i].r = IF i <= Len(k.inbox) THEN k.inbox[i][1]
                                               ELSE k.wire[i - Len(k.inbox)]
      BY DEF PipeExact
    <2> DEFINE k == link[l]
               q == k.queue
               sent == {i \in 1..Len(q) : q[i].w = "all"}
    <2>1. l \notin ToClose(todo)
      <3> SUFFICES ASSUME l \in ToClose(todo) PROVE FALSE
        OBVIOUS
      <3>1. PICK i \in 1..Len(todo) : todo[i].do = "close" /\ todo[i].l = l
        BY StepSets
      <3>2. todo[i] \in Step
        BY <2>0
      <3>3. todo[i] \in [do : {"close"}, l : Links]
        BY <3>1, <3>2 DEF Step
      <3>4. todo[i] = [do |-> "close", l |-> l]
        BY <3>1, <3>3
      <3> QED BY <2>0, <3>4 DEF Range
    <2>2. k \in LinkState /\ PipeInv(k)
      BY <2>0, <2>1 DEF PipesInv, PipeAt
    <2>3. TagCommitted(q) <= CommitMax
      BY <2>2, PipeCommits
    <2>4. Owed(k) \in Nat /\ Len(q) \in Nat
      BY <2>2, LinkParts
    <2> HIDE DEF k
    <2>5. \A i \in sent : i <= Owed(k) /\ q[i].r = Owner(k, i)
      BY <2>2 DEF PipeInv
    <2>6. \A i \in 1..Owed(k) : i \in sent
      BY <2>2, <2>4 DEF PipeInv
    <2>7. sent = 1..Owed(k)
      BY <2>4, <2>5, <2>6
    <2> QED BY <2>3, <2>5, <2>7 DEF Owed, Owner, k
  <1> QED BY <1>1, ServerInvariant, PTL

\* A pending request has one tag or one step of the running handler, and no
\* other request has any, whatever is closed, resubmitted or cancelled.
THEOREM CarriedHolds == Spec => []Carried
  <1>1. ServerInv => Carried
    <2> SUFFICES ASSUME ServerInv PROVE Carried
      OBVIOUS
    <2> DEFINE A(r) == UNION {{<<l, i>> : i \in {j \in 1..Len(link[l].queue) :
                            link[l].queue[j].r = r /\ link[l].queue[j].req = "user"}} :
                            l \in Links}
               B(r) == {i \in 1..Len(todo) : todo[i].do = "submit" /\ todo[i].r = r}
    <2> SUFFICES ASSUME NEW r \in Requests
                 PROVE  Cardinality(A(r)) + Cardinality(B(r))
                            = IF res[r] = "pending" THEN 1 ELSE 0
      BY DEF Carried
    <2>1. Carry(link, todo, res, r)
      BY Parts, CarryEach
    <2>2. \A x : x \in A(r) <=> \E l \in Links : \E i : Holds(link, l, i, r) /\ x = <<l, i>>
      <3>1. ASSUME NEW x, x \in A(r)
            PROVE  \E l \in Links : \E i : Holds(link, l, i, r) /\ x = <<l, i>>
        <4>1. PICK l \in Links : x \in {<<l, i>> : i \in {j \in 1..Len(link[l].queue) :
                            link[l].queue[j].r = r /\ link[l].queue[j].req = "user"}}
          BY <3>1, Zenon
        <4>2. PICK i \in 1..Len(link[l].queue) :
                x = <<l, i>> /\ link[l].queue[i].r = r /\ link[l].queue[i].req = "user"
          BY <4>1
        <4> QED BY <4>2 DEF Holds
      <3>2. ASSUME NEW l \in Links, NEW i, Holds(link, l, i, r) PROVE <<l, i>> \in A(r)
        <4>1. <<l, i>> \in {<<l, h>> : h \in {j \in 1..Len(link[l].queue) :
                            link[l].queue[j].r = r /\ link[l].queue[j].req = "user"}}
          BY <3>2 DEF Holds
        <4> QED BY <4>1, Zenon
      <3> QED BY <3>1, <3>2
    <2>3. \A i : i \in B(r) <=> Takes(todo, i, r)
      BY DEF Takes
    <2> HIDE DEF A, B
    <2>4. CASE \E l \in Links : \E i : Holds(link, l, i, r)
      <3>1. PICK l \in Links : \E i : Holds(link, l, i, r)
        BY <2>4
      <3>2. PICK i : Holds(link, l, i, r)
        BY <3>1
      <3>3. A(r) = {<<l, i>>} /\ B(r) = {} /\ res[r] = "pending"
        BY <2>1, <2>2, <2>3, <3>2 DEF Carry
      <3>4. Cardinality(A(r)) = 1
        <4> DEFINE a == <<l, i>>
        <4>1. A(r) = {a}
          BY <3>3
        <4> HIDE DEF a
        <4> QED BY <4>1, FS_Singleton
      <3>5. Cardinality(B(r)) = 0
        BY <3>3, FS_EmptySet
      <3> QED BY <3>3, <3>4, <3>5
    <2>5. CASE \E i : Takes(todo, i, r)
      <3>1. PICK i : Takes(todo, i, r)
        BY <2>5
      <3>2. A(r) = {} /\ B(r) = {i} /\ res[r] = "pending"
        BY <2>1, <2>2, <2>3, <3>1 DEF Carry
      <3> QED BY <3>2, FS_EmptySet, FS_Singleton
    <2>6. CASE /\ ~(\E l \in Links : \E i : Holds(link, l, i, r))
               /\ ~(\E i : Takes(todo, i, r))
      <3>1. A(r) = {} /\ B(r) = {} /\ res[r] # "pending"
        BY <2>1, <2>2, <2>3, <2>6 DEF Carry
      <3> QED BY <3>1, FS_EmptySet
    <2> QED BY <2>4, <2>5, <2>6
  <1> QED BY <1>1, ServerInvariant, PTL
==============================================================================
