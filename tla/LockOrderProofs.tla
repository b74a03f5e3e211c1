--------------------------- MODULE LockOrderProofs ---------------------------
(* No deadlock over the locks of LockOrder, for any number of threads and    *)
(* shards, as long as nobody updates the selection of files. The argument is *)
(* an order of the locks: a thread that waits for a lock holds only locks    *)
(* that come before it. The lock of a piece is an exception: it is held      *)
(* while the state is locked again, but whoever waits for it waits for a     *)
(* thread that tried it and is about to let it go.                           *)
EXTENDS LockOrder, SequenceTheorems, NaturalsInduction, WellFoundedInduction, TLAPS

StepSet == [do : Kinds, lock : Lock]

Rank(l) ==
  CASE l = <<"db">> -> 0
    [] l = <<"torrent">> -> 1
    [] l \in {<<"choked">>, <<"state">>, <<"pex">>} -> Shards + 2
    [] l \in {<<"streams">>, <<"piece">>} -> Shards + 3
    [] OTHER -> l[2] + 1

\* A thread with the locks of H may wait for l.
Under(H, l) == l = <<"piece">> \/ \A x \in H \ {<<"piece">>} : Rank(x) < Rank(l)

Allowed(H, s) ==
  /\ s.do \in {"read", "write"} => Under(H, s.lock)
  /\ s.do = "write" => s.lock # <<"piece">>

After(H, s) == IF s.do = "unlock" THEN H \ {s.lock} ELSE H \cup {s.lock}

\* The lock of a piece, and no other, is tried, and let go at once.
LetsGo(q) ==
  \A i \in 1..Len(q) : q[i].do = "try" =>
    /\ q[i].lock = <<"piece">>
    /\ i + 1 \in 1..Len(q) /\ q[i + 1] = [do |-> "unlock", lock |-> <<"piece">>]

\* The steps q of a thread that has at most the locks of H wait in order only, and
\* leave it with at most those of G: there is an annotation of every place between
\* two steps with the locks that may be held there.
Annotates(f, H, q, G) ==
  /\ f \in [0..Len(q) -> SUBSET Lock]
  /\ H \subseteq f[0] /\ f[Len(q)] \subseteq G
  /\ \A i \in 1..Len(q) : Allowed(f[i - 1], q[i]) /\ After(f[i - 1], q[i]) \subseteq f[i]

Orderly(H, q, G) == q \in Seq(StepSet) /\ LetsGo(q) /\ \E f : Annotates(f, H, q, G)

-----------------------------------------------------------------------------
(* Ranks *)

\* The locks are in an order: database, torrent, shards one after the other, then the
\* state, the flags and the PEX set, then the streams and the pieces.
LEMMA Ranks ==
  /\ Rank(<<"db">>) = 0 /\ Rank(<<"torrent">>) = 1
  /\ Rank(<<"choked">>) = Shards + 2 /\ Rank(<<"state">>) = Shards + 2 /\ Rank(<<"pex">>) = Shards + 2
  /\ Rank(<<"streams">>) = Shards + 3 /\ Rank(<<"piece">>) = Shards + 3
  /\ \A i \in 1..Shards : Rank(<<"shard", i>>) = i + 1
  BY ConstantsAssumption DEF Rank

\* Ranks are natural numbers up to Shards + 3.
LEMMA RankBound == \A l \in Lock : Rank(l) \in 0..(Shards + 3)
  BY Ranks, ConstantsAssumption DEF Lock, Shard

\* Every non-empty set of natural numbers has a least member.
LEMMA Least ==
  ASSUME NEW T \in SUBSET Nat, T # {}
  PROVE  \E x \in T : \A y \in T : x <= y
<1>1. IsWellFoundedOn(OpToRel(<, Nat), Nat)
  BY NatLessThanWellFounded
<1>2. PICK x \in T : \A y \in T : ~(<<y, x>> \in OpToRel(<, Nat))
  BY <1>1, WFMin
<1>3. ASSUME NEW y \in T PROVE x <= y
  <2>1. <<y, x>> \notin {ss \in Nat \X Nat : ss[1] < ss[2]}
    BY <1>2, Zenon DEF OpToRel
  <2> QED
    BY <2>1
<1> QED
  BY <1>3

-----------------------------------------------------------------------------
(* Scripts that wait in order *)

\* A thread that has fewer locks may do what one with more may do.
LEMMA Fewer ==
  ASSUME NEW H \in SUBSET Lock, NEW G \in SUBSET H, NEW s \in StepSet
  PROVE  (Allowed(H, s) => Allowed(G, s)) /\ After(G, s) \subseteq After(H, s)
  BY DEF Allowed, After, Under

\* One script after another.
LEMMA Then ==
  ASSUME NEW H \in SUBSET Lock, NEW G \in SUBSET Lock, NEW F \in SUBSET Lock, NEW p, NEW q,
         Orderly(H, p, G), Orderly(G, q, F)
  PROVE  Orderly(H, p \o q, F)
<1>1. p \in Seq(StepSet) /\ q \in Seq(StepSet) /\ LetsGo(p) /\ LetsGo(q)
  BY DEF Orderly
<1>2. PICK f : Annotates(f, H, p, G)
  BY DEF Orderly
<1>3. PICK g : Annotates(g, G, q, F)
  BY DEF Orderly
<1> DEFINE r == p \o q
           h == [i \in 0..Len(r) |-> IF i <= Len(p) THEN f[i] ELSE g[i - Len(p)]]
<1>4. /\ r \in Seq(StepSet) /\ Len(r) = Len(p) + Len(q) /\ Len(p) \in Nat /\ Len(q) \in Nat
      /\ \A i \in 1..Len(p) : r[i] = p[i] /\ p[i] \in StepSet
      /\ \A i \in 1..Len(q) : r[Len(p) + i] = q[i] /\ q[i] \in StepSet
  BY <1>1, ConcatProperties
<1> HIDE DEF r
<1>5. LetsGo(r)
  <2> SUFFICES ASSUME NEW i \in 1..Len(r), r[i].do = "try"
               PROVE  /\ r[i].lock = <<"piece">>
                      /\ i + 1 \in 1..Len(r) /\ r[i + 1] = [do |-> "unlock", lock |-> <<"piece">>]
    BY DEF LetsGo
  <2>1. CASE i <= Len(p)
    <3>1. i \in 1..Len(p) /\ r[i] = p[i]
      BY <2>1, <1>4
    <3>2. p[i].lock = <<"piece">> /\ i + 1 \in 1..Len(p) /\ p[i + 1] = [do |-> "unlock", lock |-> <<"piece">>]
      BY <3>1, <1>1 DEF LetsGo
    <3> QED
      BY <3>1, <3>2, <1>4
  <2>2. CASE i > Len(p)
    <3>1. PICK k \in 1..Len(q) : i = Len(p) + k
      BY <2>2, <1>4, SMTT(40)
    <3>2. r[i] = q[k]
      BY <3>1, <1>4
    <3>3. q[k].lock = <<"piece">> /\ k + 1 \in 1..Len(q) /\ q[k + 1] = [do |-> "unlock", lock |-> <<"piece">>]
      BY <3>1, <3>2, <1>1 DEF LetsGo
    <3>4. r[Len(p) + (k + 1)] = q[k + 1]
      BY <3>3, <1>4
    <3> QED
      BY <3>1, <3>2, <3>3, <3>4, <1>4
  <2> QED
    BY <2>1, <2>2, <1>4
<1>6. Annotates(h, H, r, F)
  <2>1. h \in [0..Len(r) -> SUBSET Lock]
    BY <1>2, <1>3, <1>4 DEF Annotates
  <2>2. H \subseteq h[0]
    BY <1>2, <1>4 DEF Annotates
  <2>3. h[Len(r)] \subseteq F
    <3>1. CASE Len(q) = 0
      BY <3>1, <1>2, <1>3, <1>4 DEF Annotates
    <3>2. CASE Len(q) # 0
      BY <3>2, <1>3, <1>4 DEF Annotates
    <3> QED
      BY <3>1, <3>2
  <2>4. ASSUME NEW i \in 1..Len(r)
        PROVE  Allowed(h[i - 1], r[i]) /\ After(h[i - 1], r[i]) \subseteq h[i]
    <3>1. CASE i <= Len(p)
      <4>1. h[i] = f[i] /\ h[i - 1] = f[i - 1] /\ r[i] = p[i] /\ i \in 1..Len(p)
        BY <3>1, <1>4
      <4> QED
        BY <4>1, <1>2 DEF Annotates
    <3>2. CASE i = Len(p) + 1
      <4>1. 1 \in 1..Len(q) /\ h[i] = g[1] /\ h[i - 1] = f[Len(p)] /\ r[i] = q[1] /\ q[1] \in StepSet
        BY <3>2, <1>4
      <4>2. g[0] \in SUBSET Lock /\ f[Len(p)] \subseteq g[0]
        <5>1. f[Len(p)] \subseteq G /\ G \subseteq g[0]
          BY <1>2, <1>3 DEF Annotates
        <5>2. g \in [0..Len(q) -> SUBSET Lock] /\ 0 \in 0..Len(q)
          BY <1>3, <1>4 DEF Annotates
        <5> QED
          BY <5>1, <5>2
      <4>3. Allowed(g[0], q[1]) /\ After(g[0], q[1]) \subseteq g[1]
        BY <4>1, <1>3 DEF Annotates
      <4> QED
        BY <4>1, <4>2, <4>3, Fewer
    <3>3. CASE i > Len(p) + 1
      <4>0. i \in 1..(Len(p) + Len(q)) /\ Len(p) \in Nat /\ Len(q) \in Nat
        BY <1>4
      <4>1. PICK k \in 1..Len(q) : i = Len(p) + k /\ k > 1
        <5>1. i - Len(p) \in 1..Len(q) /\ i = Len(p) + (i - Len(p)) /\ i - Len(p) > 1
          BY <3>3, <4>0
        <5> QED
          BY <5>1
      <4>2. h[i] = g[k] /\ h[i - 1] = g[k - 1] /\ r[i] = q[k]
        BY <4>1, <1>4
      <4> QED
        BY <4>1, <4>2, <1>3 DEF Annotates
    <3> QED
      <4>1. i \in 1..(Len(p) + Len(q)) /\ Len(p) \in Nat /\ Len(q) \in Nat
        BY <1>4
      <4>2. i <= Len(p) \/ i = Len(p) + 1 \/ i > Len(p) + 1
        BY <4>1
      <4> HIDE DEF h
      <4> QED
        BY <3>1, <3>2, <3>3, <4>2
  <2> HIDE DEF h
  <2> QED
    BY <2>1, <2>2, <2>3, <2>4 DEF Annotates
<1> QED
  BY <1>4, <1>5, <1>6 DEF Orderly, r

\* No steps change nothing.
LEMMA Nothing == ASSUME NEW H \in SUBSET Lock PROVE Orderly(H, <<>>, H)
<1> DEFINE f == [i \in 0..0 |-> H]
<1>1. <<>> \in Seq(StepSet) /\ Len(<<>>) = 0
  BY EmptySeq
<1>2. Annotates(f, H, <<>>, H)
  BY <1>1 DEF Annotates
<1> QED
  BY <1>1, <1>2 DEF Orderly, LetsGo

\* More locks may be left than are.
LEMMA Weaker ==
  ASSUME NEW H, NEW q, NEW G, NEW F, G \subseteq F, Orderly(H, q, G)
  PROVE  Orderly(H, q, F)
<1>1. PICK f : Annotates(f, H, q, G)
  BY DEF Orderly
<1>2. Annotates(f, H, q, F)
  BY <1>1 DEF Annotates
<1> QED
  BY <1>2 DEF Orderly

\* A single step is in order when it is allowed and is not a try.
LEMMA OneStep ==
  ASSUME NEW H \in SUBSET Lock, NEW k \in Kinds, NEW l \in Lock, k # "try",
         Allowed(H, [do |-> k, lock |-> l])
  PROVE  Orderly(H, Step(k, l), After(H, [do |-> k, lock |-> l]))
<1> DEFINE s == [do |-> k, lock |-> l]
           G == After(H, s)
           f == [i \in 0..1 |-> IF i = 0 THEN H ELSE G]
           q == Step(k, l)
<1>1. s \in StepSet /\ s.do = k
  BY DEF StepSet
<1>2. q \in Seq(StepSet) /\ Len(q) = 1 /\ q[1] = s
  BY <1>1 DEF Step
<1>3. G \in SUBSET Lock
  BY <1>1 DEF After, StepSet
<1> HIDE DEF q, G, s
<1>4. LetsGo(q)
  BY <1>1, <1>2 DEF LetsGo
<1>5. f \in [0..1 -> SUBSET Lock] /\ f[0] = H /\ f[1] = G
  BY <1>3
<1>6. Allowed(H, s) /\ After(H, s) \subseteq G
  BY DEF G, s
<1> HIDE DEF f
<1>7. Annotates(f, H, q, G)
  BY <1>2, <1>5, <1>6 DEF Annotates
<1> QED
  BY <1>2, <1>4, <1>7 DEF Orderly, G, q, s

\* Trying the lock of a piece and letting it go.
LEMMA Tries ==
  ASSUME NEW H \in SUBSET Lock
  PROVE  Orderly(H, Step("try", <<"piece">>) \o Step("unlock", <<"piece">>), H)
<1> DEFINE l == <<"piece">>
           a == [do |-> "try", lock |-> l]
           b == [do |-> "unlock", lock |-> l]
           f == [i \in 0..2 |-> IF i = 1 THEN H \cup {l} ELSE H]
           q == Step("try", l) \o Step("unlock", l)
<1>0. l \in Lock
  BY DEF Lock
<1>1. a \in StepSet /\ a.do = "try" /\ a.lock = l /\ b \in StepSet /\ b.do = "unlock" /\ b.lock = l
  BY <1>0 DEF StepSet, Kinds
<1>2. q = <<a>> \o <<b>>
  BY DEF Step
<1>3. q \in Seq(StepSet) /\ Len(q) = 2 /\ q[1] = a /\ q[2] = b
  <2> HIDE DEF a, b, q
  <2>1. <<a>> \in Seq(StepSet) /\ <<b>> \in Seq(StepSet) /\ Len(<<a>>) = 1 /\ Len(<<b>>) = 1
    BY <1>1
  <2>2. q[1] = <<a>>[1] /\ q[2] = <<b>>[1]
    BY <1>2, <2>1, ConcatProperties
  <2> QED
    BY <1>2, <2>1, <2>2, ConcatProperties
<1> HIDE DEF q, a, b
<1>4. LetsGo(q)
  BY <1>1, <1>3 DEF LetsGo, b
<1>5. f \in [0..2 -> SUBSET Lock] /\ f[0] = H /\ f[1] = H \cup {l} /\ f[2] = H
  BY <1>0
<1>6. Allowed(H, a) /\ After(H, a) = H \cup {l} /\ Allowed(H \cup {l}, b) /\ After(H \cup {l}, b) \subseteq H
  BY <1>1 DEF Allowed, After
<1> HIDE DEF f
<1>7. Annotates(f, H, q, H)
  <2>1. \A i \in 1..2 : Allowed(f[i - 1], q[i]) /\ After(f[i - 1], q[i]) \subseteq f[i]
    <3> SUFFICES ASSUME NEW i \in 1..2 PROVE Allowed(f[i - 1], q[i]) /\ After(f[i - 1], q[i]) \subseteq f[i]
      OBVIOUS
    <3>1. CASE i = 1
      BY <3>1, <1>3, <1>5, <1>6
    <3>2. CASE i = 2
      <4>1. f[i - 1] = H \cup {l} /\ f[i] = H /\ q[i] = b
        BY <3>2, <1>3, <1>5
      <4> QED
        BY <4>1, <1>6
    <3> QED
      BY <3>1, <3>2
  <2> QED
    BY <2>1, <1>3, <1>5 DEF Annotates
<1> QED
  BY <1>3, <1>4, <1>7 DEF Orderly, q

\* A guard around steps that are in order with its lock.
LEMMA Guarded ==
  ASSUME NEW H \in SUBSET Lock, NEW G \in SUBSET Lock, NEW l \in Lock, NEW body,
         Under(H, l), Orderly(H \cup {l}, body, G \cup {l})
  PROVE  /\ Orderly(H, Read(l, body), G)
         /\ l # <<"piece">> => Orderly(H, Write(l, body), G)
<1>1. ASSUME NEW k \in {"read", "write"}, k = "write" => l # <<"piece">>
      PROVE  Orderly(H, Step(k, l) \o body \o Step("unlock", l), G)
  <2> DEFINE s == [do |-> k, lock |-> l]
             u == [do |-> "unlock", lock |-> l]
  <2>1. Allowed(H, s) /\ After(H, s) = H \cup {l} /\ Allowed(G \cup {l}, u) /\ After(G \cup {l}, u) \subseteq G
    BY <1>1 DEF Allowed, After
  <2>2. Orderly(H, Step(k, l), H \cup {l})
    BY <2>1, OneStep DEF Kinds
  <2>3. Orderly(H, Step(k, l) \o body, G \cup {l})
    BY <2>2, Then
  <2>4. Orderly(G \cup {l}, Step("unlock", l), After(G \cup {l}, u))
    BY <2>1, OneStep DEF Kinds
  <2>5. Orderly(G \cup {l}, Step("unlock", l), G)
    BY <2>1, <2>4, Weaker
  <2> QED
    BY <2>3, <2>5, Then
<1> QED
  BY <1>1 DEF Read, Write

\* The recursion of a sweep over the shards is well defined.
LEMMA SweepUnfolds ==
  ASSUME NEW body
  PROVE  \A i \in 1..Shards : SweepFrom(body)[i] =
           IF i = Shards THEN body \o Step("unlock", <<"shard", i>>)
           ELSE body \o Step("write", <<"shard", i + 1>>) \o Step("unlock", <<"shard", i>>) \o SweepFrom(body)[i + 1]
<1> DEFINE E(f, i) ==
      IF i = Shards THEN body \o Step("unlock", <<"shard", i>>)
      ELSE body \o Step("write", <<"shard", i + 1>>) \o Step("unlock", <<"shard", i>>) \o f[i + 1]
<1>1. \E f : f = [i \in 1..Shards |-> E(f, i)]
  <2> DEFINE Upto(m) == \E f : f = [i \in (Shards - m)..Shards |-> E(f, i)]
             T == {m \in Nat : ~Upto(m)}
  <2>1. Upto(0)
    <3> DEFINE f == [i \in (Shards - 0)..Shards |-> body \o Step("unlock", <<"shard", i>>)]
    <3>1. f = [i \in (Shards - 0)..Shards |-> E(f, i)]
      BY ConstantsAssumption
    <3> HIDE DEF f, E
    <3> QED
      BY <3>1
  <2>2. ASSUME NEW m \in Nat, Upto(m) PROVE Upto(m + 1)
    <3>1. PICK f : f = [i \in (Shards - m)..Shards |-> E(f, i)]
      BY <2>2
    <3> DEFINE n == Shards - (m + 1)
               g == [i \in n..Shards |-> IF i = n THEN E(f, n) ELSE f[i]]
    <3>2. n \in Int /\ n # Shards /\ \A i \in n..Shards : i = n \/ i \in (Shards - m)..Shards
      BY ConstantsAssumption
    <3>3. n + 1 \in (Shards - m)..Shards /\ n + 1 # n /\ n + 1 \in n..Shards
      BY ConstantsAssumption
    <3>4. \A i \in (Shards - m)..Shards : i # n /\ i \in n..Shards /\ (i # Shards => i + 1 \in (Shards - m)..Shards)
      BY ConstantsAssumption
    <3> HIDE DEF n
    <3>5. ASSUME NEW i \in n..Shards PROVE g[i] = E(g, i)
      <4>1. CASE i = n
        <5>1. g[n + 1] = f[n + 1]
          BY <3>3
        <5> QED
          BY <4>1, <5>1, <3>2
      <4>2. CASE i \in (Shards - m)..Shards
        <5>1. g[i] = f[i] /\ f[i] = E(f, i)
          BY <4>2, <3>1, <3>4
        <5>2. i # Shards => g[i + 1] = f[i + 1]
          <6> SUFFICES ASSUME i # Shards PROVE g[i + 1] = f[i + 1]
            OBVIOUS
          <6>1. i + 1 \in (Shards - m)..Shards
            BY <4>2, <3>4
          <6>2. i + 1 # n /\ i + 1 \in n..Shards
            BY <6>1, <3>4
          <6> QED
            BY <6>2
        <5> QED
          BY <5>1, <5>2
      <4> QED
        BY <4>1, <4>2, <3>2
    <3>6. g = [i \in n..Shards |-> E(g, i)]
      <4> HIDE DEF E
      <4> QED
        BY <3>5
    <3> HIDE DEF g, E
    <3> QED
      BY <3>6 DEF n
  <2> HIDE DEF Upto
  <2>3. \A m \in Nat : Upto(m)
    <3> SUFFICES ASSUME T # {} PROVE FALSE
      OBVIOUS
    <3>1. PICK x \in T : \A y \in T : x <= y
      BY Least
    <3>2. x # 0
      BY <2>1
    <3>3. x - 1 \in Nat /\ x - 1 \notin T
      BY <3>1, <3>2
    <3>4. Upto(x - 1) /\ (x - 1) + 1 = x
      BY <3>3
    <3> QED
      BY <2>2, <3>3, <3>4
  <2>4. Upto(Shards - 1) /\ Shards - (Shards - 1) = 1
    BY <2>3, ConstantsAssumption
  <2> QED
    BY <2>4 DEF Upto
<1>2. SweepFrom(body) = CHOOSE f : f = [i \in 1..Shards |-> E(f, i)]
  BY Zenon DEF SweepFrom
<1>3. SweepFrom(body) = [i \in 1..Shards |-> E(SweepFrom(body), i)]
  <2> HIDE DEF E
  <2> QED
    BY <1>1, <1>2, Zenon
<1> QED
  BY <1>3

\* The shards are locked in order, each next one while the one before is held.
LEMMA Sweeps ==
  ASSUME NEW H \in SUBSET Lock, NEW body,
         \A x \in H \ {<<"piece">>} : Rank(x) < 2,
         \A i \in 1..Shards : Orderly(H \cup {<<"shard", i>>}, body, H \cup {<<"shard", i>>})
  PROVE  Orderly(H, Sweep(body), H)
<1> DEFINE S(i) == <<"shard", i>>
           F == SweepFrom(body)
<1>1. \A i \in 1..Shards : S(i) \in Lock /\ Rank(S(i)) = i + 1 /\ S(i) # <<"piece">>
  BY Ranks DEF Lock, Shard
<1>2. ASSUME NEW i \in 1..Shards PROVE Orderly(H \cup {S(i)}, Step("unlock", S(i)), H)
  <2> DEFINE u == [do |-> "unlock", lock |-> S(i)]
  <2>1. H \cup {S(i)} \in SUBSET Lock /\ Allowed(H \cup {S(i)}, u) /\ After(H \cup {S(i)}, u) \subseteq H
    BY <1>1 DEF Allowed, After
  <2>2. Orderly(H \cup {S(i)}, Step("unlock", S(i)), After(H \cup {S(i)}, u))
    BY <2>1, <1>1, OneStep DEF Kinds
  <2> QED
    BY <2>1, <2>2, Weaker
<1>3. ASSUME NEW i \in 1..Shards, i # Shards
      PROVE  Orderly(H \cup {S(i)}, body \o Step("write", S(i + 1)) \o Step("unlock", S(i)), H \cup {S(i + 1)})
  <2> DEFINE w == [do |-> "write", lock |-> S(i + 1)]
             u == [do |-> "unlock", lock |-> S(i)]
             A == H \cup {S(i)}
             B == H \cup {S(i), S(i + 1)}
  <2>1. i + 1 \in 1..Shards
    BY <1>3, ConstantsAssumption
  <2>2. S(i) \in Lock /\ S(i + 1) \in Lock /\ S(i + 1) # <<"piece">> /\ A \in SUBSET Lock /\ B \in SUBSET Lock
    BY <1>1, <2>1
  <2>3. Under(A, S(i + 1))
    <3> SUFFICES ASSUME NEW x \in A \ {<<"piece">>} PROVE Rank(x) < Rank(S(i + 1))
      BY DEF Under
    <3>1. Rank(S(i + 1)) = i + 2
      BY <1>1, <2>1
    <3>2. CASE x = S(i)
      BY <3>1, <3>2, <1>1
    <3>3. CASE x \in H
      BY <3>1, <3>3, RankBound, ConstantsAssumption
    <3> QED
      BY <3>2, <3>3
  <2> HIDE DEF S
  <2>4. Allowed(A, w) /\ After(A, w) \subseteq B
    BY <2>2, <2>3 DEF Allowed, After
  <2>5. Orderly(A, Step("write", S(i + 1)), After(A, w))
    BY <2>2, <2>4, OneStep DEF Kinds
  <2>6. Orderly(A, Step("write", S(i + 1)), B)
    BY <2>4, <2>5, Weaker
  <2>7. Allowed(B, u) /\ After(B, u) \subseteq H \cup {S(i + 1)}
    BY DEF Allowed, After
  <2>8. Orderly(B, Step("unlock", S(i)), After(B, u))
    BY <2>2, <2>7, OneStep DEF Kinds
  <2>9. Orderly(B, Step("unlock", S(i)), H \cup {S(i + 1)})
    BY <2>7, <2>8, Weaker
  <2>10. Orderly(A, body, A)
    BY DEF S
  <2>11. Orderly(A, body \o Step("write", S(i + 1)), B)
    BY <2>2, <2>6, <2>10, Then
  <2>12. H \cup {S(i + 1)} \in SUBSET Lock
    BY <2>2
  <2> QED
    BY <2>2, <2>9, <2>11, <2>12, Then
<1>4. \A i \in 1..Shards : Orderly(H \cup {S(i)}, F[i], H)
  <2> DEFINE T == {m \in Nat : m < Shards /\ ~Orderly(H \cup {S(Shards - m)}, F[Shards - m], H)}
  <2> SUFFICES ASSUME NEW i \in 1..Shards, ~Orderly(H \cup {S(i)}, F[i], H) PROVE FALSE
    OBVIOUS
  <2>1. Shards - (Shards - i) = i /\ Shards - i \in Nat /\ Shards - i < Shards
    BY ConstantsAssumption
  <2>2. T \in SUBSET Nat /\ T # {}
    <3>1. Shards - i \in T
      BY <2>1
    <3> QED
      BY <3>1
  <2>3. PICK x \in T : \A y \in T : x <= y
    BY <2>2, Least
  <2>4. Shards - x \in 1..Shards /\ x \in Nat
    BY ConstantsAssumption
  <2> DEFINE k == Shards - x
  <2>5. CASE k = Shards
    <3>1. F[k] = body \o Step("unlock", S(k))
      BY <2>4, <2>5, SweepUnfolds
    <3>2. Orderly(H \cup {S(k)}, body, H \cup {S(k)}) /\ H \cup {S(k)} \in SUBSET Lock
      BY <1>1, <2>4
    <3>3. Orderly(H \cup {S(k)}, body \o Step("unlock", S(k)), H)
      BY <1>2, <2>4, <3>2, Then
    <3> QED
      BY <3>1, <3>3
  <2>6. CASE k # Shards
    <3>1. F[k] = body \o Step("write", S(k + 1)) \o Step("unlock", S(k)) \o F[k + 1]
      BY <2>4, <2>6, SweepUnfolds
    <3>2. k + 1 \in 1..Shards /\ x - 1 \in Nat /\ x - 1 < Shards /\ k + 1 = Shards - (x - 1)
      BY <2>4, <2>6, ConstantsAssumption
    <3>3. Orderly(H \cup {S(k + 1)}, F[k + 1], H)
      <4>1. x - 1 \notin T
        BY <2>3, <2>4
      <4> QED
        BY <4>1, <3>2
    <3>4. Orderly(H \cup {S(k)}, body \o Step("write", S(k + 1)) \o Step("unlock", S(k)), H \cup {S(k + 1)})
      BY <1>3, <2>4, <2>6
    <3>5. H \cup {S(k)} \in SUBSET Lock /\ H \cup {S(k + 1)} \in SUBSET Lock
      BY <1>1, <2>4, <3>2
    <3>6. Orderly(H \cup {S(k)}, body \o Step("write", S(k + 1)) \o Step("unlock", S(k)) \o F[k + 1], H)
      BY <3>3, <3>4, <3>5, Then
    <3> QED
      BY <3>1, <3>6
  <2> QED
    BY <2>5, <2>6
<1>5. 1 \in 1..Shards
  BY ConstantsAssumption
<1>6. Orderly(H, Step("write", S(1)), H \cup {S(1)})
  <2> DEFINE w == [do |-> "write", lock |-> S(1)]
  <2>1. S(1) \in Lock /\ Rank(S(1)) = 2 /\ S(1) # <<"piece">>
    BY <1>1, <1>5
  <2> HIDE DEF S
  <2>2. Allowed(H, w) /\ After(H, w) = H \cup {S(1)}
    BY <2>1 DEF Allowed, After, Under
  <2> QED
    BY <2>1, <2>2, OneStep DEF Kinds
<1>7. Orderly(H \cup {S(1)}, F[1], H) /\ H \cup {S(1)} \in SUBSET Lock
  BY <1>1, <1>4, <1>5
<1>8. Orderly(H, Step("write", S(1)) \o F[1], H)
  BY <1>6, <1>7, Then
<1> QED
  BY <1>8 DEF Sweep

-----------------------------------------------------------------------------
(* The operations *)

\* A guard with nothing in it.
LEMMA Briefly ==
  ASSUME NEW H \in SUBSET Lock, NEW l \in Lock, Under(H, l)
  PROVE  /\ Orderly(H, Read(l, <<>>), H)
         /\ l # <<"piece">> => Orderly(H, Write(l, <<>>), H)
<1>1. Orderly(H \cup {l}, <<>>, H \cup {l})
  BY Nothing
<1> QED
  BY <1>1, Guarded

\* A lock taken and let go after other steps.
LEMMA ThenTries ==
  ASSUME NEW H \in SUBSET Lock, NEW G \in SUBSET Lock, NEW p, Orderly(H, p, G)
  PROVE  Orderly(H, p \o Step("try", <<"piece">>) \o Step("unlock", <<"piece">>), G)
<1> DEFINE a == Step("try", <<"piece">>)
           b == Step("unlock", <<"piece">>)
<1>1. Orderly(G, a \o b, G)
  BY Tries
<1>2. Orderly(H, p \o (a \o b), G)
  BY <1>1, Then
<1>3. <<"piece">> \in Lock
  BY DEF Lock
<1>4. a \in Seq(StepSet) /\ b \in Seq(StepSet) /\ p \in Seq(StepSet)
  BY <1>3 DEF Step, StepSet, Kinds, Orderly
<1> HIDE DEF a, b
<1>5. p \o (a \o b) = p \o a \o b
  BY <1>4, ConcatAssociative
<1> QED
  BY <1>2, <1>5 DEF a, b

\* Which locks may be waited for with which held.
LEMMA Order ==
  /\ \A l : Under({}, l)
  /\ \A m \in Shard : \A l \in {<<"choked">>, <<"state">>, <<"pex">>} : Under({m}, l)
  /\ \A m \in Shard : Under({m} \cup {<<"state">>}, <<"streams">>)
  /\ \A H : Under(H, <<"piece">>)
  /\ Under({<<"piece">>}, <<"state">>)
  /\ Under({<<"state">>}, <<"streams">>)
  /\ Under({<<"torrent">>}, <<"state">>) /\ Under({<<"torrent">>} \cup {<<"state">>}, <<"streams">>)
  /\ Under({<<"db">>}, <<"torrent">>) /\ Under({<<"db">>} \cup {<<"torrent">>}, <<"state">>)
<1>1. \A m \in Shard : Rank(m) < Shards + 2 /\ Rank(m) \in Nat
  BY Ranks, ConstantsAssumption DEF Shard
<1> QED
  BY <1>1, Ranks, ConstantsAssumption DEF Under

\* The locks are there.
LEMMA LocksAre ==
  /\ {<<"db">>, <<"torrent">>, <<"choked">>, <<"state">>, <<"piece">>, <<"streams">>, <<"pex">>} \subseteq Lock
  /\ Shard \subseteq Lock /\ <<"piece">> \notin Shard
  /\ <<"piece">> \notin {<<"db">>, <<"torrent">>, <<"choked">>, <<"state">>, <<"streams">>, <<"pex">>}
  BY DEF Lock, Shard

\* acquire_next_piece
LEMMA AcquireNextPieceOrderly ==
  ASSUME NEW m \in Shard, NEW v \in Shard PROVE Orderly({}, AcquireNextPiece(m, v), {})
<1> DEFINE C == <<"choked">>
           S == <<"state">>
           T == <<"streams">>
           M == {m}
<1>1. m \in Lock /\ v \in Lock /\ C \in Lock /\ S \in Lock /\ T \in Lock
      /\ m # <<"piece">> /\ v # <<"piece">> /\ S # <<"piece">> /\ {} \cup M = M /\ {} \in SUBSET Lock
  BY LocksAre
<1>2. Under(M, C) /\ Under(M, S) /\ Under(M \cup {S}, T) /\ Under({}, m) /\ Under({}, v)
  BY Order
<1> HIDE DEF C, S, T, M
<1>3. M \in SUBSET Lock /\ M \cup {S} \in SUBSET Lock
  BY <1>1 DEF M
<1> DEFINE inner == Read(T, <<>>) \o Step("try", <<"piece">>) \o Step("unlock", <<"piece">>)
           body == Read(C, <<>>) \o Write(S, inner)
<1>4. Orderly(M \cup {S}, inner, M \cup {S})
  BY <1>1, <1>2, <1>3, Briefly, ThenTries
<1> HIDE DEF inner
<1>5. Orderly(M, Write(S, inner), M)
  BY <1>1, <1>2, <1>3, <1>4, Guarded
<1>6. Orderly(M, Read(C, <<>>), M)
  BY <1>1, <1>2, <1>3, Briefly
<1>7. Orderly(M, body, M)
  BY <1>3, <1>5, <1>6, Then
<1> HIDE DEF body
<1>8. Orderly({}, Write(m, body), {})
  BY <1>1, <1>2, <1>7, Guarded DEF M
<1>9. Orderly({}, Read(m, <<>>), {}) /\ Orderly({}, Read(v, <<>>), {}) /\ Orderly({}, Write(v, <<>>), {})
  BY <1>1, <1>2, Briefly
<1>10. Orderly({}, OnSteal(m, v), {})
  BY <1>1, <1>9, Then DEF OnSteal
<1>11. Orderly({}, Write(m, body) \o OnSteal(m, v), {})
  BY <1>1, <1>8, <1>10, Then
<1> QED
  BY <1>11 DEF AcquireNextPiece, body, inner, C, S, T

\* on_peer_died
LEMMA OnPeerDiedOrderly == ASSUME NEW m \in Shard PROVE Orderly({}, OnPeerDied(m), {})
<1> DEFINE P == <<"pex">>
           S == <<"state">>
           T == <<"streams">>
           M == {m}
<1>1. m \in Lock /\ P \in Lock /\ S \in Lock /\ T \in Lock /\ m # <<"piece">> /\ P # <<"piece">> /\ S # <<"piece">>
      /\ {} \cup M = M /\ {} \in SUBSET Lock
  BY LocksAre
<1>2. Under(M, P) /\ Under(M, S) /\ Under(M \cup {S}, T) /\ Under({}, m)
  BY Order
<1> HIDE DEF P, S, T, M
<1>3. M \in SUBSET Lock /\ M \cup {S} \in SUBSET Lock
  BY <1>1 DEF M
<1>4. Orderly(M, Write(P, <<>>), M) /\ Orderly(M, Write(S, <<>>), M) /\ Orderly(M, Read(S, <<>>), M)
  BY <1>1, <1>2, <1>3, Briefly
<1>5. Orderly(M \cup {S}, Read(T, <<>>), M \cup {S})
  BY <1>1, <1>2, <1>3, Briefly
<1>6. Orderly(M, Read(S, Read(T, <<>>)), M)
  BY <1>1, <1>2, <1>3, <1>5, Guarded
<1> DEFINE body == Write(P, <<>>) \o Write(S, <<>>) \o Read(S, <<>>) \o Read(S, Read(T, <<>>))
<1>7. Orderly(M, body, M)
  BY <1>3, <1>4, <1>6, Then
<1> HIDE DEF body
<1>8. Orderly({}, Write(m, body), {}) /\ Orderly({}, Write(m, <<>>), {})
  BY <1>1, <1>2, <1>7, Guarded, Briefly DEF M
<1>9. Orderly({}, Write(m, body) \o Write(m, <<>>), {})
  BY <1>1, <1>8, Then
<1> QED
  BY <1>9 DEF OnPeerDied, body, P, S, T

\* on_piece_completed
LEMMA OnPieceCompletedOrderly == Orderly({}, OnPieceCompleted, {})
<1> DEFINE S == <<"state">>
           T == <<"streams">>
           P == <<"pex">>
<1>1. S \in Lock /\ T \in Lock /\ P \in Lock /\ S # <<"piece">> /\ T # <<"piece">> /\ P # <<"piece">>
      /\ {} \cup {S} = {S} /\ {} \in SUBSET Lock
  BY LocksAre
<1>2. Under({}, S) /\ Under({S}, T)
  BY Order
<1>3. ASSUME NEW i \in 1..Shards
      PROVE  Orderly({} \cup {<<"shard", i>>}, Write(P, <<>>), {} \cup {<<"shard", i>>})
  <2>1. <<"shard", i>> \in Shard
    BY DEF Shard
  <2>2. Under({<<"shard", i>>}, P)
    BY <2>1, Order
  <2>3. {} \cup {<<"shard", i>>} = {<<"shard", i>>} /\ {<<"shard", i>>} \in SUBSET Lock
    BY <2>1, LocksAre
  <2> HIDE DEF P
  <2> QED
    BY <1>1, <2>2, <2>3, Briefly
<1> HIDE DEF S, T, P
<1>4. Orderly({}, Sweep(Write(P, <<>>)), {})
  BY <1>1, <1>3, Sweeps
<1>5. Orderly({S}, Write(T, <<>>), {S}) /\ Orderly({S}, Read(T, <<>>), {S})
  BY <1>1, <1>2, Briefly
<1>6. Orderly({} \cup {S}, Write(T, <<>>) \o Read(T, <<>>), {} \cup {S})
  BY <1>1, <1>5, Then
<1>7. Orderly({}, Write(S, Write(T, <<>>) \o Read(T, <<>>)), {})
  BY <1>1, <1>2, <1>6, Guarded
<1> QED
  BY <1>1, <1>4, <1>7, Then DEF OnPieceCompleted, S, T, P

\* on_received_piece: the lock of the piece is kept while the state is locked again.
LEMMA OnReceivedPieceOrderly == ASSUME NEW m \in Shard PROVE Orderly({}, OnReceivedPiece(m), {})
<1> DEFINE S == <<"state">>
           Z == <<"piece">>
<1>1. m \in Lock /\ S \in Lock /\ Z \in Lock /\ m # Z /\ S # Z /\ {} \in SUBSET Lock
  BY LocksAre
<1>2. Under({}, m) /\ Under({}, S) /\ Under({S}, Z) /\ Under({Z}, S)
  BY Order
<1>3. Orderly({}, Write(m, <<>>), {}) /\ Orderly({}, Write(S, <<>>), {}) /\ Orderly({Z}, Write(S, <<>>), {Z})
  BY <1>1, <1>2, Briefly
<1>4. Orderly({}, Read(S, Step("read", Z)), {Z})
  <2> DEFINE s == [do |-> "read", lock |-> Z]
  <2>1. {} \cup {S} = {S} /\ Allowed({S}, s) /\ After({S}, s) = {Z} \cup {S}
    BY <1>2 DEF Allowed, After
  <2>2. Orderly({S}, Step("read", Z), {Z} \cup {S})
    BY <1>1, <2>1, OneStep DEF Kinds
  <2> HIDE DEF S, Z
  <2> QED
    BY <1>1, <1>2, <2>1, <2>2, Guarded
<1>5. Orderly({Z}, Step("unlock", Z), {})
  <2> DEFINE s == [do |-> "unlock", lock |-> Z]
  <2>1. Allowed({Z}, s) /\ After({Z}, s) = {}
    BY DEF Allowed, After
  <2> QED
    BY <1>1, <2>1, OneStep DEF Kinds
<1>6. {Z} \in SUBSET Lock
  BY <1>1
<1> DEFINE a == Write(m, <<>>)
           b == Read(S, Step("read", Z))
           c == Write(S, <<>>)
           d == Step("unlock", Z)
<1>7. Orderly({}, a, {}) /\ Orderly({}, b, {Z}) /\ Orderly({Z}, c, {Z}) /\ Orderly({Z}, d, {}) /\ Orderly({}, c, {})
  BY <1>3, <1>4, <1>5
<1> HIDE DEF a, b, c, d, Z
<1>8. Orderly({}, a \o b \o c \o d, {})
  <2>1. Orderly({}, a \o b, {Z})
    BY <1>1, <1>6, <1>7, Then
  <2>2. Orderly({}, a \o b \o c, {Z})
    BY <1>1, <1>6, <1>7, <2>1, Then
  <2> QED
    BY <1>1, <1>6, <1>7, <2>2, Then
<1>9. Orderly({}, a \o b \o c \o d \o c \o a \o OnPieceCompleted, {})
  <2>1. Orderly({}, a \o b \o c \o d \o c, {})
    BY <1>1, <1>7, <1>8, Then
  <2>2. Orderly({}, a \o b \o c \o d \o c \o a, {})
    BY <1>1, <1>7, <2>1, Then
  <2> QED
    BY <1>1, <2>2, OnPieceCompletedOrderly, Then
<1> QED
  BY <1>9 DEF OnReceivedPiece, a, b, c, d, S, Z

\* add_incoming_peer, prune_dead_peers and task_send_pex_to_peer
LEMMA PeerTableOrderly ==
  /\ \A m \in Shard : Orderly({}, AddIncomingPeer(m), {})
  /\ Orderly({}, PruneDeadPeers, {}) /\ Orderly({}, Pex, {})
<1> DEFINE P == <<"pex">>
<1>1. P \in Lock /\ P # <<"piece">> /\ {} \in SUBSET Lock /\ Under({}, P)
  BY LocksAre, Order
<1>2. ASSUME NEW m \in Shard PROVE Orderly({}, AddIncomingPeer(m), {})
  <2>1. m \in Lock /\ m # <<"piece">> /\ {} \cup {m} = {m} /\ Under({}, m) /\ Under({m}, P)
    BY LocksAre, Order
  <2> HIDE DEF P
  <2>2. Orderly({m}, Write(P, <<>>), {m})
    BY <1>1, <2>1, Briefly
  <2>3. Orderly({}, Write(m, Write(P, <<>>)), {})
    BY <1>1, <2>1, <2>2, Guarded
  <2> QED
    BY <2>3 DEF AddIncomingPeer, P
<1>3. Orderly({}, Sweep(<<>>), {})
  <2>1. \A i \in 1..Shards : {} \cup {<<"shard", i>>} \in SUBSET Lock
    BY LocksAre DEF Shard
  <2>2. \A i \in 1..Shards : Orderly({} \cup {<<"shard", i>>}, <<>>, {} \cup {<<"shard", i>>})
    BY <2>1, Nothing
  <2> QED
    BY <1>1, <2>2, Sweeps
<1>4. Orderly({}, Read(P, <<>>), {})
  BY <1>1, Briefly
<1> QED
  BY <1>2, <1>3, <1>4 DEF PruneDeadPeers, Pex

\* The operations of the session and of a torrent, update_only_files left out.
LEMMA TorrentOrderly ==
  /\ Orderly({}, Pause, {}) /\ Orderly({}, Stats, {}) /\ Orderly({}, ApiTorrentList, {})
  /\ Orderly({}, Delete, {}) /\ Orderly({}, Stream, {}) /\ Orderly({}, PollRead, {})
<1> DEFINE D == <<"db">>
           T == <<"torrent">>
           S == <<"state">>
           W == <<"streams">>
<1>1. /\ D \in Lock /\ T \in Lock /\ S \in Lock /\ W \in Lock /\ {} \in SUBSET Lock
      /\ D # <<"piece">> /\ T # <<"piece">> /\ S # <<"piece">> /\ W # <<"piece">>
  BY LocksAre
<1>2. /\ Under({}, D) /\ Under({}, T) /\ Under({}, S) /\ Under({}, W)
      /\ Under({T}, S) /\ Under({T} \cup {S}, W) /\ Under({D}, T) /\ Under({D} \cup {T}, S)
  BY Order
<1>3. Rank(T) = 1 /\ Rank(T) < 2
  BY Ranks
<1>4. \A i \in 1..Shards : {T} \cup {<<"shard", i>>} \in SUBSET Lock
  BY <1>1, LocksAre DEF Shard
<1> HIDE DEF D, T, S, W
<1>5. {} \cup {T} = {T} /\ {} \cup {D} = {D} /\ {T} \in SUBSET Lock /\ {D} \in SUBSET Lock
      /\ {T} \cup {S} \in SUBSET Lock /\ {D} \cup {T} \in SUBSET Lock
  BY <1>1
<1>6. Orderly({}, Pause, {})
  <2>1. Orderly({T}, Write(S, <<>>), {T})
    BY <1>1, <1>2, <1>5, Briefly
  <2>2. Orderly({}, Write(T, Write(S, <<>>)), {})
    BY <1>1, <1>2, <1>5, <2>1, Guarded
  <2> QED
    BY <2>2 DEF Pause, T, S
<1>7. Orderly({}, Stats, {}) /\ Orderly({D}, Stats, {D})
  <2>1. ASSUME NEW H \in {{}, {D}} PROVE Orderly(H, Stats, H)
    <3>1. H \in SUBSET Lock /\ H \cup {T} \in SUBSET Lock /\ Under(H, T) /\ Under(H \cup {T}, S)
      BY <1>2, <1>5
    <3>2. Orderly(H \cup {T}, Read(S, <<>>), H \cup {T})
      BY <1>1, <3>1, Briefly
    <3>3. Orderly(H \cup {T}, Read(S, <<>>) \o Read(S, <<>>), H \cup {T})
      BY <3>1, <3>2, Then
    <3>4. Orderly(H, Read(T, Read(S, <<>>) \o Read(S, <<>>)), H)
      BY <1>1, <3>1, <3>3, Guarded
    <3> QED
      BY <3>4 DEF Stats, T, S
  <2> QED
    BY <2>1
<1>8. Orderly({}, ApiTorrentList, {})
  <2>1. Orderly({}, Read(D, Stats), {})
    BY <1>1, <1>2, <1>5, <1>7, Guarded
  <2> QED
    BY <2>1 DEF ApiTorrentList, D
<1>9. Orderly({}, Delete, {})
  <2>1. Orderly({}, Read(D, <<>>), {}) /\ Orderly({}, Write(D, <<>>), {})
    BY <1>1, <1>2, Briefly
  <2>2. Orderly({}, Read(D, <<>>) \o Write(D, <<>>) \o Pause \o Pause, {})
    BY <1>1, <1>6, <2>1, Then
  <2> QED
    BY <2>2 DEF Delete, D
<1>10. Orderly({}, Stream, {})
  <2>1. Orderly({}, Read(T, <<>>), {}) /\ Orderly({}, Write(W, <<>>), {}) /\ Orderly({T}, Read(S, <<>>), {T})
    BY <1>1, <1>2, <1>5, Briefly
  <2>2. Orderly({}, Read(T, Read(S, <<>>)), {})
    BY <1>1, <1>2, <1>5, <2>1, Guarded
  <2>3. \A i \in 1..Shards : Orderly({T} \cup {<<"shard", i>>}, <<>>, {T} \cup {<<"shard", i>>})
    BY <1>4, Nothing
  <2>4. Orderly({T}, Sweep(<<>>), {T})
    BY <1>3, <1>5, <2>3, Sweeps
  <2>5. Orderly({}, Read(T, Sweep(<<>>)), {})
    BY <1>1, <1>2, <1>5, <2>4, Guarded
  <2>6. Orderly({}, Read(T, <<>>) \o Read(T, Read(S, <<>>)) \o Read(T, Sweep(<<>>)) \o Write(W, <<>>), {})
    BY <1>1, <2>1, <2>2, <2>5, Then
  <2> QED
    BY <2>6 DEF Stream, T, S, W
<1>11. Orderly({}, PollRead, {})
  <2>1. Orderly({T} \cup {S}, Write(W, <<>>), {T} \cup {S})
    BY <1>1, <1>2, <1>5, Briefly
  <2>2. Orderly({T}, Read(S, Write(W, <<>>)), {T})
    BY <1>1, <1>2, <1>5, <2>1, Guarded
  <2>3. Orderly({}, Read(T, Read(S, Write(W, <<>>))), {})
    BY <1>1, <1>2, <1>5, <2>2, Guarded
  <2> QED
    BY <2>3 DEF PollRead, T, S, W
<1> QED
  BY <1>6, <1>7, <1>8, <1>9, <1>10, <1>11

\* Every operation but update_only_files takes its locks in order and gives them back.
LEMMA ScriptsOrderly ==
  ASSUME NEW o \in OpNames, o # "update_only_files", NEW s \in ScriptsOf(o)
  PROVE  Orderly({}, s, {})
  BY AcquireNextPieceOrderly, OnPeerDiedOrderly, OnReceivedPieceOrderly, PeerTableOrderly, TorrentOrderly
     DEF OpNames, ScriptsOf

-----------------------------------------------------------------------------
(* The invariant *)

\* What a thread has; a lock it is closing to readers is not among it yet.
Holds(t) == {l \in Lock : t \in readers[l] \/ (t \in writer[l] /\ ~At(t, "write", l))}

\* Nobody keeps the lock of a piece for itself beyond a step.
Passing(t) == t \in writer[<<"piece">>] => todo[t] # <<>> /\ Head(todo[t]) = [do |-> "unlock", lock |-> <<"piece">>]

LockTypes ==
  /\ DOMAIN todo = Thread
  /\ readers \in [Lock -> SUBSET Thread]
  /\ writer \in [Lock -> SUBSET Thread]

LockInv ==
  /\ LockTypes
  /\ \A l \in Lock : \A t, u \in writer[l] : t = u
  /\ \A t \in Thread : Orderly(Holds(t), todo[t], {}) /\ Passing(t)

\* What is left after a step is in order again, from the locks the step leaves.
LEMMA OneStepOn ==
  ASSUME NEW H \in SUBSET Lock, NEW q, q # <<>>, Orderly(H, q, {})
  PROVE  /\ Head(q) \in StepSet /\ Allowed(H, Head(q)) /\ Tail(q) \in Seq(StepSet)
         /\ \A G \in SUBSET After(H, Head(q)) : Orderly(G, Tail(q), {})
         /\ Head(q).do = "try" => /\ Head(q).lock = <<"piece">>
                                  /\ Tail(q) # <<>> /\ Head(Tail(q)) = [do |-> "unlock", lock |-> <<"piece">>]
<1>1. q \in Seq(StepSet) /\ LetsGo(q)
  BY DEF Orderly
<1>2. PICK f : Annotates(f, H, q, {})
  BY DEF Orderly
<1> DEFINE p == Tail(q)
           g == [i \in 0..Len(p) |-> f[i + 1]]
<1>3. /\ Head(q) \in StepSet /\ p \in Seq(StepSet) /\ Len(p) = Len(q) - 1 /\ Len(p) \in Nat
      /\ \A i \in 1..Len(p) : p[i] = q[i + 1] /\ p[i] \in StepSet
  BY <1>1, HeadTailProperties
<1>4. Head(q) = q[1] /\ 1 \in 1..Len(q)
  BY <1>1, <1>3
<1> HIDE DEF p
<1>5. Allowed(f[0], q[1]) /\ After(f[0], q[1]) \subseteq f[1] /\ H \subseteq f[0] /\ f[0] \in SUBSET Lock
  <2>1. 0 \in 0..Len(q)
    BY <1>3
  <2> QED
    BY <1>2, <1>4, <2>1 DEF Annotates
<1>6. Allowed(H, Head(q)) /\ After(H, Head(q)) \subseteq f[1]
  BY <1>3, <1>4, <1>5, Fewer
<1>7. LetsGo(p)
  <2> SUFFICES ASSUME NEW i \in 1..Len(p), p[i].do = "try"
               PROVE  p[i].lock = <<"piece">> /\ i + 1 \in 1..Len(p) /\ p[i + 1] = [do |-> "unlock", lock |-> <<"piece">>]
    BY DEF LetsGo
  <2>1. i + 1 \in 1..Len(q) /\ q[i + 1] = p[i]
    BY <1>3
  <2>2. q[i + 1].lock = <<"piece">> /\ (i + 1) + 1 \in 1..Len(q) /\ q[(i + 1) + 1] = [do |-> "unlock", lock |-> <<"piece">>]
    BY <1>1, <2>1 DEF LetsGo
  <2>3. i + 1 \in 1..Len(p) /\ p[i + 1] = q[(i + 1) + 1]
    BY <1>3, <2>2
  <2> QED
    BY <2>1, <2>2, <2>3
<1>8. ASSUME NEW G \in SUBSET After(H, Head(q)) PROVE Orderly(G, p, {})
  <2>1. g \in [0..Len(p) -> SUBSET Lock]
    BY <1>2, <1>3 DEF Annotates
  <2>2. G \subseteq g[0] /\ g[Len(p)] \subseteq {}
    <3>1. g[0] = f[1] /\ g[Len(p)] = f[Len(q)]
      BY <1>3
    <3> HIDE DEF g
    <3> QED
      BY <3>1, <1>2, <1>6 DEF Annotates
  <2>3. ASSUME NEW i \in 1..Len(p) PROVE Allowed(g[i - 1], p[i]) /\ After(g[i - 1], p[i]) \subseteq g[i]
    <3>1. i + 1 \in 1..Len(q) /\ g[i - 1] = f[(i + 1) - 1] /\ g[i] = f[i + 1] /\ p[i] = q[i + 1]
      BY <1>3
    <3> HIDE DEF g
    <3> QED
      BY <3>1, <1>2 DEF Annotates
  <2> HIDE DEF g
  <2>4. Annotates(g, G, p, {})
    BY <2>1, <2>2, <2>3 DEF Annotates
  <2> QED
    BY <1>3, <1>7, <2>4 DEF Orderly
<1>9. ASSUME Head(q).do = "try"
      PROVE  Head(q).lock = <<"piece">> /\ p # <<>> /\ Head(p) = [do |-> "unlock", lock |-> <<"piece">>]
  <2>1. q[1].lock = <<"piece">> /\ 1 + 1 \in 1..Len(q) /\ q[1 + 1] = [do |-> "unlock", lock |-> <<"piece">>]
    BY <1>1, <1>4, <1>9 DEF LetsGo
  <2>2. Len(p) >= 1 /\ p[1] = q[1 + 1]
    BY <1>3, <2>1
  <2> QED
    BY <1>3, <1>4, <2>1, <2>2
<1> QED
  BY <1>3, <1>6, <1>8, <1>9 DEF p

\* A thread that does not move keeps what it had.
LEMMA Others ==
  ASSUME NEW u \in Thread, todo'[u] = todo[u],
         \A l \in Lock : (u \in readers'[l] <=> u \in readers[l]) /\ (u \in writer'[l] <=> u \in writer[l]),
         Orderly(Holds(u), todo[u], {}), Passing(u)
  PROVE  Orderly(Holds(u), todo[u], {})' /\ Passing(u)'
<1>1. Holds(u)' = Holds(u)
  BY DEF Holds, At
<1>2. Passing(u)'
  BY LocksAre DEF Passing
<1> QED
  BY <1>1, <1>2

\* Holding nothing, everything in order is fine; and without steps nothing is held.
LEMMA Emptied == ASSUME NEW t \in Thread, LockInv, todo[t] = <<>> PROVE Holds(t) = {}
<1>1. PICK f : Annotates(f, Holds(t), <<>>, {})
  BY DEF LockInv, Orderly
<1>2. Len(<<>>) = 0
  BY EmptySeq
<1> QED
  BY <1>1, <1>2 DEF Annotates

\* The step that a thread is at.
LEMMA StepAt ==
  ASSUME NEW t \in Thread, NEW l \in Lock, NEW k, LockInv, At(t, k, l)
  PROVE  /\ Holds(t) \in SUBSET Lock
         /\ Allowed(Holds(t), [do |-> k, lock |-> l]) /\ Tail(todo[t]) \in Seq(StepSet)
         /\ \A G \in SUBSET After(Holds(t), [do |-> k, lock |-> l]) : Orderly(G, Tail(todo[t]), {})
         /\ k = "try" => /\ l = <<"piece">> /\ Tail(todo[t]) # <<>>
                         /\ Head(Tail(todo[t])) = [do |-> "unlock", lock |-> <<"piece">>]
<1> DEFINE s == [do |-> k, lock |-> l]
<1>1. todo[t] # <<>> /\ Head(todo[t]) = s /\ s.do = k /\ s.lock = l
  BY DEF At
<1>2. Holds(t) \in SUBSET Lock /\ Orderly(Holds(t), todo[t], {})
  BY DEF LockInv, Holds
<1> HIDE DEF s
<1> QED
  BY <1>1, <1>2, OneStepOn DEF s

\* Who is not about to unlock does not have the lock of a piece for itself.
LEMMA NotPassing ==
  ASSUME NEW t \in Thread, NEW l \in Lock, NEW k \in {"read", "write", "try"}, LockInv, At(t, k, l)
  PROVE  t \notin writer[<<"piece">>]
<1>1. Head(todo[t]) = [do |-> k, lock |-> l] /\ k # "unlock" /\ Passing(t)
  BY DEF At, LockInv
<1>2. [do |-> k, lock |-> l] # [do |-> "unlock", lock |-> <<"piece">>]
  BY <1>1
<1> QED
  BY <1>1, <1>2 DEF Passing

\* An operation begins.
LEMMA BeginStep ==
  ASSUME LockInv, NEW t \in Thread, Begin(t), "update_only_files" \notin Ops PROVE LockInv'
<1>1. PICK o \in Ops : \E s \in ScriptsOf(o) : todo' = [todo EXCEPT ![t] = s]
  BY DEF Begin
<1>2. PICK s \in ScriptsOf(o) : todo' = [todo EXCEPT ![t] = s]
  BY <1>1
<1>3. Orderly({}, s, {})
  BY ScriptsOrderly, ConstantsAssumption
<1>4. todo[t] = <<>> /\ readers' = readers /\ writer' = writer
  BY DEF Begin
<1>5. Holds(t) = {}
  BY <1>4, Emptied
<1>6. \A l \in Lock : t \notin writer[l] /\ t \notin readers[l]
  BY <1>4, <1>5 DEF Holds, At
<1>7. Holds(t)' = {}
  BY <1>4, <1>6 DEF Holds
<1>8. todo'[t] = s /\ DOMAIN todo' = Thread /\ \A u \in Thread \ {t} : todo'[u] = todo[u]
  BY <1>2 DEF LockInv, LockTypes
<1>9. Orderly(Holds(t), todo[t], {})' /\ Passing(t)'
  BY <1>3, <1>4, <1>6, <1>7, <1>8, LocksAre DEF Passing
<1>10. \A u \in Thread \ {t} : Orderly(Holds(u), todo[u], {})' /\ Passing(u)'
  BY <1>4, <1>8, Others DEF LockInv
<1> QED
  BY <1>4, <1>8, <1>9, <1>10 DEF LockInv, LockTypes

\* A thread takes a step that leaves it with what the step says.
LEMMA Moves ==
  ASSUME LockInv, NEW t \in Thread, NEW l \in Lock, NEW k, At(t, k, l), Advance(t), LockTypes',
         \A x \in Lock : \A u \in Thread \ {t} : (u \in readers'[x] <=> u \in readers[x]) /\ (u \in writer'[x] <=> u \in writer[x]),
         \A x \in Lock : \A u, v \in writer'[x] : u = v,
         \A x \in Lock : t \in readers'[x] \/ t \in writer'[x] => x \in After(Holds(t), [do |-> k, lock |-> l]),
         t \in writer'[<<"piece">>] => k = "try"
  PROVE  LockInv'
<1>1. todo'[t] = Tail(todo[t]) /\ \A u \in Thread \ {t} : todo'[u] = todo[u]
  BY DEF LockInv, LockTypes, Advance
<1>2. Holds(t)' \subseteq After(Holds(t), [do |-> k, lock |-> l])
  BY DEF Holds
<1>3. Orderly(Holds(t)', todo'[t], {})
  <2>1. \A G \in SUBSET After(Holds(t), [do |-> k, lock |-> l]) : Orderly(G, Tail(todo[t]), {})
    BY StepAt
  <2>2. Orderly(Holds(t)', Tail(todo[t]), {})
    BY <1>2, <2>1
  <2> QED
    BY <1>1, <2>2
<1>4. Passing(t)'
  BY <1>1, StepAt DEF Passing
<1>5. \A u \in Thread \ {t} : Orderly(Holds(u), todo[u], {})' /\ Passing(u)'
  BY <1>1, Others DEF LockInv
<1> QED
  BY <1>3, <1>4, <1>5 DEF LockInv

\* A read lock is taken.
LEMMA LockReadStep ==
  ASSUME LockInv, NEW t \in Thread, NEW l \in Lock, LockRead(t, l) PROVE LockInv'
<1>1. At(t, "read", l) /\ readers' = [readers EXCEPT ![l] = @ \cup {t}] /\ Advance(t) /\ writer' = writer /\ LockTypes
  BY DEF LockRead, LockInv
<1>2. LockTypes'
  BY <1>1 DEF LockTypes, Advance
<1>3. /\ \A x \in Lock : readers'[x] = IF x = l THEN readers[x] \cup {t} ELSE readers[x]
      /\ After(Holds(t), [do |-> "read", lock |-> l]) = Holds(t) \cup {l}
  BY <1>1 DEF LockTypes, After
<1>4. t \notin writer[<<"piece">>]
  BY <1>1, NotPassing
<1>5. \A x \in Lock : t \in readers'[x] \/ t \in writer'[x] => x \in Holds(t) \cup {l}
  BY <1>1, <1>3 DEF Holds, At
<1>6. \A x \in Lock : \A u \in Thread \ {t} : (u \in readers'[x] <=> u \in readers[x]) /\ (u \in writer'[x] <=> u \in writer[x])
  BY <1>1, <1>3
<1>7. \A x \in Lock : \A u, v \in writer'[x] : u = v
  BY <1>1 DEF LockInv
<1> QED
  BY <1>1, <1>2, <1>3, <1>4, <1>5, <1>6, <1>7, Moves

\* A writer closes a lock to new readers.
LEMMA CloseStep ==
  ASSUME LockInv, NEW t \in Thread, NEW l \in Lock, CloseToReaders(t, l) PROVE LockInv'
<1>1. At(t, "write", l) /\ writer[l] = {} /\ writer' = [writer EXCEPT ![l] = {t}] /\ todo' = todo /\ readers' = readers /\ LockTypes
  BY DEF CloseToReaders, LockInv
<1>2. LockTypes' /\ \A x \in Lock : writer'[x] = IF x = l THEN {t} ELSE writer[x]
  BY <1>1 DEF LockTypes
<1>3. l # <<"piece">>
  <2>1. Allowed(Holds(t), [do |-> "write", lock |-> l])
    BY <1>1, StepAt
  <2> QED
    BY <2>1 DEF Allowed
<1>4. \A x \in Lock : \A u, v \in writer'[x] : u = v
  BY <1>2 DEF LockInv
<1>5. Holds(t)' = Holds(t)
  BY <1>1, <1>2 DEF Holds, At
<1>6. Orderly(Holds(t), todo[t], {})' /\ Passing(t)'
  BY <1>1, <1>2, <1>3, <1>5, LocksAre DEF LockInv, Passing
<1>7. \A u \in Thread \ {t} : Orderly(Holds(u), todo[u], {})' /\ Passing(u)'
  <2> SUFFICES ASSUME NEW u \in Thread \ {t} PROVE Orderly(Holds(u), todo[u], {})' /\ Passing(u)'
    OBVIOUS
  <2>1. \A x \in Lock : (u \in readers'[x] <=> u \in readers[x]) /\ (u \in writer'[x] <=> u \in writer[x])
    BY <1>1, <1>2
  <2> QED
    BY <1>1, <2>1, Others DEF LockInv
<1> QED
  BY <1>2, <1>4, <1>6, <1>7 DEF LockInv

\* The writer is alone in the lock.
LEMMA LockWriteStep ==
  ASSUME LockInv, NEW t \in Thread, NEW l \in Lock, LockWrite(t, l) PROVE LockInv'
<1>1. At(t, "write", l) /\ Advance(t) /\ readers' = readers /\ writer' = writer /\ LockTypes
  BY DEF LockWrite, LockInv
<1>2. LockTypes' /\ After(Holds(t), [do |-> "write", lock |-> l]) = Holds(t) \cup {l}
  BY <1>1 DEF LockTypes, Advance, After
<1>3. t \notin writer[<<"piece">>]
  BY <1>1, NotPassing
<1>4. \A x \in Lock : t \in readers'[x] \/ t \in writer'[x] => x \in Holds(t) \cup {l}
  BY <1>1 DEF Holds, At
<1>5. \A x \in Lock : \A u, v \in writer'[x] : u = v
  BY <1>1 DEF LockInv
<1> QED
  BY <1>1, <1>2, <1>3, <1>4, <1>5, Moves

\* A lock is tried.
LEMMA TryWriteStep ==
  ASSUME LockInv, NEW t \in Thread, NEW l \in Lock, TryWrite(t, l) PROVE LockInv'
<1>1. /\ At(t, "try", l) /\ Advance(t) /\ readers' = readers /\ LockTypes
      /\ writer' = [writer EXCEPT ![l] = IF writer[l] = {} /\ readers[l] = {} THEN {t} ELSE @]
  BY DEF TryWrite, LockInv
<1>2. LockTypes' /\ After(Holds(t), [do |-> "try", lock |-> l]) = Holds(t) \cup {l}
  BY <1>1 DEF LockTypes, Advance, After
<1>3. \A x \in Lock : writer'[x] = writer[x] \/ (x = l /\ writer[x] = {} /\ writer'[x] = {t})
  BY <1>1 DEF LockTypes
<1>4. \A x \in Lock : t \in readers'[x] \/ t \in writer'[x] => x \in Holds(t) \cup {l}
  BY <1>1, <1>3 DEF Holds, At
<1>5. \A x \in Lock : \A u, v \in writer'[x] : u = v
  <2>1. \A x \in Lock : \A u, v \in writer[x] : u = v
    BY DEF LockInv
  <2> QED
    BY <1>3, <2>1
<1>6. \A x \in Lock : \A u \in Thread \ {t} : (u \in readers'[x] <=> u \in readers[x]) /\ (u \in writer'[x] <=> u \in writer[x])
  BY <1>1, <1>3
<1> QED
  BY <1>1, <1>2, <1>4, <1>5, <1>6, Moves

\* A lock is let go.
LEMMA UnlockStep ==
  ASSUME LockInv, NEW t \in Thread, NEW l \in Lock, Unlock(t, l) PROVE LockInv'
<1>1. /\ At(t, "unlock", l) /\ Advance(t) /\ LockTypes
      /\ writer' = [writer EXCEPT ![l] = @ \ {t}] /\ readers' = [readers EXCEPT ![l] = @ \ {t}]
  BY DEF Unlock, LockInv
<1>2. LockTypes' /\ After(Holds(t), [do |-> "unlock", lock |-> l]) = Holds(t) \ {l}
  BY <1>1 DEF LockTypes, Advance, After
<1>3. \A x \in Lock : /\ writer'[x] = IF x = l THEN writer[x] \ {t} ELSE writer[x]
                      /\ readers'[x] = IF x = l THEN readers[x] \ {t} ELSE readers[x]
  BY <1>1 DEF LockTypes
<1>4. \A x \in Lock : t \in readers'[x] \/ t \in writer'[x] => x \in Holds(t) \ {l}
  <2>1. \A x \in Lock : ~At(t, "write", x)
    BY <1>1 DEF At
  <2> QED
    BY <1>3, <2>1 DEF Holds
<1>5. \A x \in Lock : \A u, v \in writer'[x] : u = v
  BY <1>3 DEF LockInv
<1>6. \A x \in Lock : \A u \in Thread \ {t} : (u \in readers'[x] <=> u \in readers[x]) /\ (u \in writer'[x] <=> u \in writer[x])
  BY <1>3
<1>7. t \notin writer'[<<"piece">>]
  <2> SUFFICES ASSUME t \in writer'[<<"piece">>] PROVE FALSE
    OBVIOUS
  <2>1. t \in writer[<<"piece">>] /\ l # <<"piece">>
    BY <1>3, LocksAre
  <2>2. Head(todo[t]) = [do |-> "unlock", lock |-> <<"piece">>]
    BY <2>1 DEF LockInv, Passing
  <2> QED
    BY <1>1, <2>1, <2>2 DEF At
<1> QED
  BY <1>1, <1>2, <1>4, <1>5, <1>6, <1>7, Moves

\* The lock of the next step is a lock.
LEMMA NextLockIs == ASSUME LockInv, NEW t \in Thread, NEW l \in NextLock(t) PROVE l \in Lock
<1>1. todo[t] \in Seq(StepSet)
  BY DEF LockInv, Orderly
<1>2. 1 \in DOMAIN todo[t] /\ l = todo[t][1].lock
  BY DEF NextLock
<1>3. todo[t][1] \in StepSet
  BY <1>1, <1>2
<1> QED
  BY <1>2, <1>3 DEF StepSet

\* Every step keeps the invariant.
LEMMA LockStep ==
  ASSUME "update_only_files" \notin Ops
  PROVE  LockInv /\ [Next]_vars => LockInv'
<1> SUFFICES ASSUME LockInv, [Next]_vars PROVE LockInv'
  OBVIOUS
<1>1. CASE Next
  <2>1. PICK t \in Thread :
          \/ Begin(t)
          \/ \E l \in NextLock(t) :
               LockRead(t, l) \/ CloseToReaders(t, l) \/ LockWrite(t, l) \/ TryWrite(t, l) \/ Unlock(t, l)
    BY <1>1 DEF Next
  <2>2. CASE Begin(t)
    BY <2>2, BeginStep
  <2>3. CASE \E l \in NextLock(t) :
               LockRead(t, l) \/ CloseToReaders(t, l) \/ LockWrite(t, l) \/ TryWrite(t, l) \/ Unlock(t, l)
    <3>1. PICK l \in NextLock(t) :
            LockRead(t, l) \/ CloseToReaders(t, l) \/ LockWrite(t, l) \/ TryWrite(t, l) \/ Unlock(t, l)
      BY <2>3
    <3>2. l \in Lock
      BY NextLockIs
    <3> QED
      BY <3>1, <3>2, LockReadStep, CloseStep, LockWriteStep, TryWriteStep, UnlockStep
  <2> QED
    BY <2>1, <2>2, <2>3
<1>2. CASE UNCHANGED vars
  BY <1>2 DEF vars, LockInv, LockTypes, Holds, At, Passing
<1> QED
  BY <1>1, <1>2

\* At first nobody has anything.
LEMMA LockInit == Init => LockInv
<1> SUFFICES ASSUME Init PROVE LockInv
  OBVIOUS
<1>1. LockTypes /\ (\A l \in Lock : readers[l] = {} /\ writer[l] = {}) /\ \A t \in Thread : todo[t] = <<>>
  BY DEF Init, LockTypes
<1>2. \A t \in Thread : Holds(t) = {} /\ Passing(t)
  BY <1>1, LocksAre DEF Holds, Passing
<1>3. Orderly({}, <<>>, {})
  BY Nothing
<1> QED
  BY <1>1, <1>2, <1>3 DEF LockInv

-----------------------------------------------------------------------------
(* No circle *)

\* The lock that a thread waits for, and those it has, in every state that satisfies
\* the invariant: nobody waits for a piece that is not about to be free, and a waiting
\* thread holds lower locks only.
LEMMA WaitsUpwards ==
  ASSUME LockInv, NEW t \in Thread, NEW l \in Lock, At(t, "read", l) \/ At(t, "write", l)
  PROVE  /\ \A x \in Holds(t) : l = <<"piece">> \/ x = <<"piece">> \/ Rank(x) < Rank(l)
         /\ At(t, "write", l) => l # <<"piece">>
         /\ t \notin writer[<<"piece">>]
<1>1. ASSUME NEW k \in {"read", "write"}, At(t, k, l)
      PROVE  /\ \A x \in Holds(t) : l = <<"piece">> \/ x = <<"piece">> \/ Rank(x) < Rank(l)
             /\ k = "write" => l # <<"piece">>
             /\ t \notin writer[<<"piece">>]
  <2>1. Allowed(Holds(t), [do |-> k, lock |-> l]) /\ t \notin writer[<<"piece">>]
    BY <1>1, StepAt, NotPassing
  <2> QED
    BY <1>1, <2>1 DEF Allowed, Under
<1> QED
  BY <1>1 DEF At

\* In a set of threads that all wait for one another somebody waits for the highest lock.
LEMMA Highest ==
  ASSUME NEW Q \in SUBSET Lock, Q # {} PROVE \E l \in Q : \A x \in Q : Rank(x) <= Rank(l)
<1> DEFINE T == {n \in Nat : \E l \in Q : n = (Shards + 3) - Rank(l)}
<1>1. \A l \in Q : (Shards + 3) - Rank(l) \in T /\ Rank(l) \in Nat
  BY RankBound, ConstantsAssumption
<1>2. PICK n \in T : \A y \in T : n <= y
  BY <1>1, Least
<1>3. PICK l \in Q : n = (Shards + 3) - Rank(l)
  BY <1>2
<1>4. ASSUME NEW x \in Q PROVE Rank(x) <= Rank(l)
  <2>1. n <= (Shards + 3) - Rank(x)
    BY <1>1, <1>2
  <2> HIDE DEF T
  <2> QED
    BY <1>1, <1>3, <2>1, ConstantsAssumption
<1> QED
  BY <1>4

\* With the invariant there is no circle of waiting threads.
LEMMA NoCircle == LockInv => NoCircularWait
<1> SUFFICES ASSUME LockInv, NEW S \in (SUBSET Thread) \ {{}} PROVE \E t \in S : \A u \in S : ~Blocks(u, t)
  BY DEF NoCircularWait
<1>0. S \subseteq Thread /\ S # {}
  OBVIOUS
<1> SUFFICES ASSUME \A t \in S : \E u \in S : Blocks(u, t) PROVE FALSE
  OBVIOUS
<1> DEFINE Waits(t, l) == At(t, "read", l) \/ At(t, "write", l)
           Q == {l \in Lock : \E t \in S : Waits(t, l)}
<1>1. ASSUME NEW t \in S
      PROVE  \E l \in Lock : \E u \in S :
               /\ Waits(t, l)
               /\ \/ u \in writer[l] /\ ~(u = t /\ At(t, "write", l))
                  \/ At(t, "write", l) /\ writer[l] = {t} /\ u \in readers[l]
  BY <1>0, NextLockIs, SMTT(40) DEF Blocks
<1>2. ASSUME NEW t \in S, NEW l \in Lock, NEW x \in Lock, Waits(t, l), Waits(t, x) PROVE x = l
  BY <1>2 DEF At
<1>3. \A t \in S : t \notin writer[<<"piece">>]
  BY <1>1, WaitsUpwards
<1>4. \A l \in Q : l # <<"piece">>
  BY <1>1, <1>2, <1>3, WaitsUpwards
<1>5. Q \in SUBSET Lock /\ Q # {}
  BY <1>0, <1>1
<1>6. PICK l \in Q : \A x \in Q : Rank(x) <= Rank(l)
  BY <1>5, Highest
<1>7. PICK t \in S : Waits(t, l)
  OBVIOUS
<1>8. ASSUME NEW u \in S, l \in Holds(u) PROVE FALSE
  <2>1. PICK x \in Lock : Waits(u, x)
    BY <1>1
  <2>2. x \in Q
    BY <2>1
  <2>3. Rank(l) < Rank(x)
    BY <1>4, <1>8, <2>1, <2>2, WaitsUpwards
  <2>4. Rank(x) <= Rank(l) /\ Rank(x) \in Nat /\ Rank(l) \in Nat
    BY <1>6, <2>2, RankBound, ConstantsAssumption
  <2> HIDE DEF Q, Waits
  <2> QED
    BY <2>3, <2>4
<1>9. \A u \in S : u \notin readers[l]
  BY <1>8 DEF Holds
<1>10. PICK u \in S : u \in writer[l] /\ ~(u = t /\ At(t, "write", l))
  <2>1. PICK x \in Lock : \E u \in S :
          /\ Waits(t, x)
          /\ \/ u \in writer[x] /\ ~(u = t /\ At(t, "write", x))
             \/ At(t, "write", x) /\ writer[x] = {t} /\ u \in readers[x]
    BY <1>1
  <2>2. x = l
    BY <1>2, <1>7, <2>1
  <2> QED
    BY <1>9, <2>1, <2>2
<1>11. At(u, "write", l)
  BY <1>8, <1>10 DEF Holds
<1>12. PICK v \in S : v \in writer[l] /\ ~(v = u /\ At(u, "write", l))
  <2>1. PICK x \in Lock : \E v \in S :
          /\ Waits(u, x)
          /\ \/ v \in writer[x] /\ ~(v = u /\ At(u, "write", x))
             \/ At(u, "write", x) /\ writer[x] = {u} /\ v \in readers[x]
    BY <1>1
  <2>2. x = l
    BY <1>2, <1>11, <2>1
  <2> QED
    BY <1>9, <2>1, <2>2
<1>13. v = u
  BY <1>10, <1>12 DEF LockInv
<1> QED
  BY <1>11, <1>12, <1>13

\* However many threads work on a session, and however many shards the table of peers
\* has, they never wait for one another in a circle, as long as nobody updates the
\* selection of files (which breaks the order: the run locks_update_only_files).
THEOREM LocksAreOrdered ==
  ASSUME "update_only_files" \notin Ops
  PROVE  Spec => []NoCircularWait
<1>1. LockInv /\ [Next]_vars => LockInv'
  BY LockStep
<1> QED
  BY <1>1, LockInit, NoCircle, PTL DEF Spec
=============================================================================
