----------------------------- MODULE CacheProofs -----------------------------
(***************************************************************************)
(* Proofs about the local model of a recording run.  The meta.json of an   *)
(* attempt lists its own recordings, all of them and no others; and the    *)
(* cache that the next call builds on is the conversation, under the       *)
(* policy.  For any policy, budget, windows, layers and text.              *)
(*                                                                         *)
(* The recordings: a call that is under way where an attempt is started    *)
(* or finished began after the wait, so the attempt is one of the strayed. *)
(* The cache: what was fed is the text up to a point that moves with the   *)
(* passes, and every layer holds of it what the policy keeps, or what was  *)
(* put off.                                                                *)
(***************************************************************************)
EXTENDS SessionCache, TLAPS, FiniteSetTheorems, SequenceTheorems

Slot == Nat \X Nat
Entry == [idx : Nat, home : Nat]
CallRecord ==
  [at : {"free", "called", "prepared", "generate", "written"}, idx : Nat,
   prompt : Seq(Nat), delta : Seq(Nat), size : Nat, forwards : Nat,
   own : BOOLEAN, home : Nat, late : BOOLEAN]

\* Every variable keeps to its domain.
RunTypes ==
  /\ setup \in Setups /\ attempt \in Attempts /\ attemptDir \in 0..setup.attempts
  /\ stage \in {"wait", "ready", "run", "wait again", "collect", "over", "closed"}
  /\ chat \in CallRecord /\ stray \in Nat
  /\ made \in 0..setup.made /\ calls \in 0..made /\ failed \in 0..MaxFailed
  /\ talk \in Seq(Nat) /\ meta \in Seq(Entry)
  /\ files \in [Attempts -> SUBSET (0..setup.made)]
  /\ saved \subseteq [attempt : Nat, iters : SUBSET Entry] /\ strayed \subseteq Nat
SlotTypes ==
  /\ kv \in [Layers -> Seq(Slot)] /\ mass \in [Layers -> Seq(Slot)]
  /\ pend \in [Layers -> Nat] /\ fed \in Seq(Slot)
  /\ built \in BOOLEAN /\ torn \in BOOLEAN /\ ids \in Seq(Nat)
CacheTypes == RunTypes /\ SlotTypes

\* A call is about a prompt that leaves room for the answer, of which the cache
\* has all but the end.
CallInv ==
  chat.at # "free" =>
    /\ Len(chat.prompt) >= 1 /\ chat.size \in 1..2
    /\ Len(chat.prompt) + chat.size <= setup.text
    /\ chat.idx <= setup.made /\ chat.forwards <= chat.size
    /\ chat.at \in {"called", "prepared"} => chat.forwards = 0
    /\ chat.at = "written" => chat.forwards = chat.size
    /\ chat.at # "called" =>
         /\ Len(chat.delta) \in 1..Len(chat.prompt)
         /\ \A i \in 1..Len(chat.delta) :
              chat.delta[i] = chat.prompt[Len(chat.prompt) - Len(chat.delta) + i]

\* Past its preparation a call works on the cache there is, or on one that was
\* dropped, and then there is none.
OwnInv ==
  /\ chat.at \in {"prepared", "generate", "written"} /\ built => chat.own
  /\ chat.own => built
  /\ built => setup.policy # "off"

\* What a prompt has beyond the conversation the agent said.
PromptInv ==
  chat.at = "called" /\ built =>
    \A i \in 1..Len(chat.prompt) : i > Len(talk) => chat.prompt[i] % 2 = 0

ChatInv == CallInv /\ OwnInv /\ PromptInv /\ Len(ids) <= setup.text

-----------------------------------------------------------------------------
(* What is kept of a sequence.                                             *)

\* What the configuration of the run is.
LEMMA SetupFacts ==
  ASSUME setup \in Setups
  PROVE  /\ setup.policy \in {"off", "none", "streaming", "random", "h2o"}
         /\ setup.budget \in Nat /\ setup.sink \in Nat /\ setup.recent \in Nat
         /\ setup.policy = "streaming" => setup.budget = setup.sink + setup.recent
         /\ setup.policy = "h2o" => setup.budget >= setup.sink + setup.recent
         /\ setup.layers \in Nat \ {0} /\ setup.attempts \in Nat \ {0}
         /\ setup.made \in Nat /\ setup.text \in Nat /\ 1 \in Layers
BY CacheAssumption DEF WellConfigured, Layers

\* Indexes of a sequence of n.
Places(n) == SUBSET (1..n)

\* They are numbers up to n.
LEMMA PlaceFacts ==
  ASSUME NEW n \in Nat, NEW keep \in Places(n)
  PROVE  /\ keep \in SUBSET (1..n) /\ \A k \in keep : k \in Nat /\ 1 <= k /\ k <= n
         /\ IsFiniteSet(keep) /\ Cardinality(keep) \in Nat /\ Cardinality(keep) <= n
<1>1. keep \in SUBSET (1..n)
  BY DEF Places
<1>2. \A k \in keep : k \in Nat /\ 1 <= k /\ k <= n
  BY <1>1
<1>3. IsFiniteSet(1..n) /\ Cardinality(1..n) = n
  BY FS_Interval
<1> QED
  BY <1>1, <1>2, <1>3, FS_Subset, FS_CardinalityType

\* The indexes up to one.
UpTo(keep, i) == {j \in keep : j <= i}

\* They are those up to it.
LEMMA UpToIs == \A keep, i, k : k \in UpTo(keep, i) <=> k \in keep /\ k <= i
BY DEF UpTo

\* Ranks rise along a set of indexes, from 1 to its size.
LEMMA RankRises ==
  ASSUME NEW n \in Nat, NEW keep \in Places(n)
  PROVE  /\ IsFiniteSet(keep) /\ Cardinality(keep) \in 0..n
         /\ \A i \in keep : Cardinality(UpTo(keep, i)) \in 1..Cardinality(keep)
         /\ \A i, j \in keep : i < j => Cardinality(UpTo(keep, i)) < Cardinality(UpTo(keep, j))
<1>2. IsFiniteSet(keep) /\ Cardinality(keep) <= n /\ Cardinality(keep) \in Nat
  BY PlaceFacts
<1>3. \A i : /\ IsFiniteSet(UpTo(keep, i)) /\ Cardinality(UpTo(keep, i)) \in Nat
             /\ Cardinality(UpTo(keep, i)) <= Cardinality(keep)
  <2> TAKE i
  <2>1. UpTo(keep, i) \in SUBSET keep
    BY DEF UpTo
  <2> QED
    BY <1>2, <2>1, FS_Subset, FS_CardinalityType
<1>4. ASSUME NEW i \in keep PROVE Cardinality(UpTo(keep, i)) # 0
  <2>1. i \in UpTo(keep, i)
    BY PlaceFacts, UpToIs
  <2> QED
    BY <1>3, <2>1, FS_EmptySet
<1>5. ASSUME NEW i \in keep, NEW j \in keep, i < j
      PROVE  Cardinality(UpTo(keep, i)) < Cardinality(UpTo(keep, j))
  <2>0. i \in Nat /\ j \in Nat /\ \A k \in keep : k \in Nat
    BY PlaceFacts
  <2>1. UpTo(keep, i) \in SUBSET UpTo(keep, j) /\ j \in UpTo(keep, j) /\ j \notin UpTo(keep, i)
    <3>1. ASSUME NEW k \in UpTo(keep, i) PROVE k \in UpTo(keep, j)
      <4>1. k \in keep /\ k <= i
        BY UpToIs
      <4>2. k <= j
        BY <1>5, <2>0, <4>1
      <4> QED
        BY <4>1, <4>2, UpToIs
    <3> QED
      BY <1>5, <2>0, <3>1, UpToIs
  <2>2. /\ Cardinality(UpTo(keep, i)) <= Cardinality(UpTo(keep, j))
        /\ Cardinality(UpTo(keep, i)) # Cardinality(UpTo(keep, j))
    BY <1>3, <2>1, FS_Subset
  <2> QED
    BY <1>3, <2>2
<1> QED
  BY <1>2, <1>3, <1>4, <1>5

\* Every rank is that of one index.
LEMMA NthShape ==
  ASSUME NEW n \in Nat, NEW keep \in Places(n)
  PROVE  /\ \A k \in 1..Cardinality(keep) :
              Nth(keep, k) \in keep /\ Cardinality(UpTo(keep, Nth(keep, k))) = k
         /\ \A i \in keep : Nth(keep, Cardinality(UpTo(keep, i))) = i
         /\ \A j, k \in 1..Cardinality(keep) : j < k => Nth(keep, j) < Nth(keep, k)
<1> DEFINE c == Cardinality(keep)
           rank == [i \in keep |-> Cardinality(UpTo(keep, i))]
<1>1. /\ IsFiniteSet(keep) /\ c \in 0..n
      /\ \A i \in keep : rank[i] \in 1..c
      /\ \A i, j \in keep : i < j => rank[i] < rank[j]
  BY RankRises
<1> HIDE DEF c
<1>2. c \in Nat
  BY <1>1
<1>3. \A i, j \in keep : rank[i] = rank[j] => i = j
  <2> SUFFICES ASSUME NEW i \in keep, NEW j \in keep, i # j PROVE rank[i] # rank[j]
    OBVIOUS
  <2>1. i < j \/ j < i
    <3>1. i \in Nat /\ j \in Nat
      BY PlaceFacts
    <3> QED
      BY <3>1
  <2>2. rank[i] \in Nat /\ rank[j] \in Nat
    BY <1>1, <1>2
  <2> HIDE DEF rank
  <2> QED
    BY <1>1, <2>1, <2>2
<1>4. rank \in Injection(keep, 1..c)
  BY <1>1, <1>3 DEF Injection, IsInjective
<1>5. IsFiniteSet(1..c) /\ Cardinality(1..c) = c
  BY <1>2, FS_Interval
<1>6. rank \in Surjection(keep, 1..c)
  BY <1>4, <1>5, FS_Injection DEF c
<1>7. \A k \in 1..c : \E i \in keep : rank[i] = k
  BY <1>6 DEF Surjection
<1>8. ASSUME NEW k \in 1..c PROVE Nth(keep, k) \in keep /\ rank[Nth(keep, k)] = k
  BY <1>7 DEF Nth, UpTo
<1>9. ASSUME NEW i \in keep PROVE Nth(keep, rank[i]) = i
  BY <1>1, <1>3, <1>8
<1>10. ASSUME NEW j \in 1..c, NEW k \in 1..c, j < k PROVE Nth(keep, j) < Nth(keep, k)
  <2> DEFINE x == Nth(keep, j)
             y == Nth(keep, k)
  <2>1. x \in keep /\ y \in keep /\ rank[x] = j /\ rank[y] = k
    BY <1>8
  <2> HIDE DEF x, y
  <2>2. x \in Nat /\ y \in Nat /\ x # y
    <3>1. x \in Nat /\ y \in Nat /\ j # k
      BY <1>10, <2>1, PlaceFacts
    <3> QED
      BY <2>1, <3>1
  <2>3. ~(y < x)
    BY <1>1, <1>10, <2>1
  <2>4. x < y
    BY <2>2, <2>3
  <2> QED
    BY <2>4 DEF x, y
<1> QED
  BY <1>8, <1>9, <1>10 DEF c

\* What is picked keeps its order.
LEMMA PickShape ==
  ASSUME NEW S, NEW s \in Seq(S), NEW keep \in Places(Len(s))
  PROVE  /\ Pick(s, keep) \in Seq(S) /\ Len(Pick(s, keep)) = Cardinality(keep)
         /\ Cardinality(keep) \in 0..Len(s)
         /\ \A k \in 1..Cardinality(keep) :
              Nth(keep, k) \in 1..Len(s) /\ Pick(s, keep)[k] = s[Nth(keep, k)]
<1> DEFINE c == Cardinality(keep)
<1>1. Len(s) \in Nat /\ c \in 0..Len(s)
  BY RankRises
<1>2. \A k \in 1..c : Nth(keep, k) \in 1..Len(s)
  <2>1. \A k \in 1..c : Nth(keep, k) \in keep
    BY <1>1, NthShape
  <2>2. \A k \in keep : k \in 1..Len(s)
    BY <1>1, PlaceFacts
  <2> HIDE DEF c
  <2> QED
    BY <2>1, <2>2
<1>3. Pick(s, keep) = [k \in 1..c |-> s[Nth(keep, k)]]
  BY DEF Pick
<1>4. \A k \in 1..c : s[Nth(keep, k)] \in S
  BY <1>2
<1> HIDE DEF c
<1>5. c \in Nat
  BY <1>1
<1>6. Pick(s, keep) \in Seq(S) /\ Len(Pick(s, keep)) = c
  BY <1>3, <1>4, <1>5
<1> QED
  BY <1>1, <1>2, <1>3, <1>6 DEF c

\* An index below which everything is kept has the same place afterwards.
LEMMA NthOfFirsts ==
  ASSUME NEW n \in Nat, NEW keep \in Places(n), NEW i \in 1..n, 1..i \subseteq keep
  PROVE  i \in 1..Cardinality(keep) /\ Nth(keep, i) = i
<1>1. i \in keep /\ UpTo(keep, i) = 1..i
  <2>1. \A k \in 1..i : k \in keep /\ k <= i
    OBVIOUS
  <2>2. \A k \in keep : k <= i => k \in 1..i
    BY PlaceFacts
  <2>3. \A k : k \in UpTo(keep, i) <=> k \in 1..i
    BY <2>1, <2>2, UpToIs
  <2>4. i \in 1..i
    OBVIOUS
  <2>5. UpTo(keep, i) = 1..i
    BY ONLY <2>3
  <2> QED
    BY <2>1, <2>4, <2>5
<1>2. Cardinality(1..i) = i
  BY FS_Interval
<1>3. Cardinality(UpTo(keep, i)) = i
  BY <1>1, <1>2
<1>4. i \in 1..Cardinality(keep)
  BY <1>1, <1>3, RankRises
<1>5. Nth(keep, Cardinality(UpTo(keep, i))) = i
  BY <1>1, NthShape
<1> QED
  BY <1>3, <1>4, <1>5

\* And one above which everything is kept the same distance from the end.
LEMMA NthOfLasts ==
  ASSUME NEW n \in Nat, NEW keep \in Places(n), NEW i \in 1..n, i..n \subseteq keep
  PROVE  /\ Cardinality(keep) - n + i \in 1..Cardinality(keep)
         /\ Nth(keep, Cardinality(keep) - n + i) = i
<1> DEFINE c == Cardinality(keep)
           r == Cardinality(UpTo(keep, i))
           above == (i + 1)..n
<1>1. i \in keep /\ IsFiniteSet(keep) /\ c \in 0..n /\ r \in 1..c
  BY RankRises
<1>2. keep = UpTo(keep, i) \cup above /\ UpTo(keep, i) \cap above = {}
  <2>1. \A k \in above : k \in keep /\ ~(k <= i)
    OBVIOUS
  <2>2. \A k \in keep : ~(k <= i) => k \in above
    BY PlaceFacts
  <2> HIDE DEF above
  <2>3. \A k : k \in keep <=> k \in UpTo(keep, i) \cup above
    BY <2>1, <2>2, UpToIs
  <2>4. \A k : k \notin UpTo(keep, i) \cap above
    BY <2>1, UpToIs
  <2> QED
    BY <2>3, <2>4
<1>3. IsFiniteSet(above) /\ Cardinality(above) = n - i
  BY FS_Interval
<1>4. UpTo(keep, i) \in SUBSET keep
  BY DEF UpTo
<1>5. IsFiniteSet(UpTo(keep, i))
  BY <1>1, <1>4, FS_Subset
<1>6. c = r + (n - i) - Cardinality({})
  BY <1>2, <1>3, <1>5, FS_Union
<1>7. Cardinality({}) = 0
  BY FS_EmptySet
<1>8. Nth(keep, r) = i
  BY <1>1, NthShape
<1> HIDE DEF c, r
<1>9. c - n + i = r
  BY <1>1, <1>6, <1>7
<1> QED
  BY <1>1, <1>8, <1>9 DEF c, r

\* Nothing is dropped.
LEMMA PickAll ==
  ASSUME NEW S, NEW s \in Seq(S)
  PROVE  /\ 1..Len(s) \in Places(Len(s)) /\ Cardinality(1..Len(s)) = Len(s)
         /\ Pick(s, 1..Len(s)) = s
<1> DEFINE n == Len(s)
           keep == 1..n
<1>1. n \in Nat
  OBVIOUS
<1>2. keep \in Places(n)
  BY DEF Places
<1> HIDE DEF n
<1>3. Cardinality(keep) = n
  BY <1>1, FS_Interval
<1>4. \A k \in keep : k \in Nat /\ 1..k \subseteq keep
  BY <1>1
<1>5. \A k \in keep : Nth(keep, k) = k
  BY <1>1, <1>2, <1>4, NthOfFirsts
<1>6. /\ Pick(s, keep) \in Seq(S) /\ Len(Pick(s, keep)) = n
      /\ \A k \in 1..n : Pick(s, keep)[k] = s[Nth(keep, k)]
  <2>1. keep \in Places(Len(s))
    BY <1>2 DEF n
  <2> HIDE DEF keep
  <2> QED
    BY <1>3, <2>1, PickShape
<1>7. \A k \in 1..n : Pick(s, keep)[k] = s[k]
  BY <1>5, <1>6
<1> HIDE DEF keep
<1>8. Pick(s, keep) = s
  BY <1>6, <1>7 DEF n
<1> QED
  BY <1>2, <1>3, <1>8 DEF keep, n

\* The scores move with the slots.
LEMMA CompactShape ==
  ASSUME NEW n \in Nat, NEW keep \in Places(n), NEW m \in Seq(Slot)
  PROVE  /\ Compact(m, keep) \in Seq(Slot) /\ Len(Compact(m, keep)) = Cardinality(keep)
         /\ \A k \in 1..Cardinality(keep) :
              \/ Nth(keep, k) \in 1..Len(m) /\ Compact(m, keep)[k] = m[Nth(keep, k)]
              \/ Compact(m, keep)[k] = NoMass
<1> DEFINE c == Cardinality(keep)
<1>1. c \in Nat /\ \A k \in 1..c : Nth(keep, k) \in 1..n
  <2>1. \A k \in 1..c : Nth(keep, k) \in keep
    BY NthShape
  <2>2. c \in Nat /\ \A k \in keep : k \in 1..n
    BY PlaceFacts
  <2> HIDE DEF c
  <2> QED
    BY <2>1, <2>2
<1>2. Compact(m, keep) =
        [k \in 1..c |-> IF Nth(keep, k) <= Len(m) THEN m[Nth(keep, k)] ELSE NoMass]
  BY DEF Compact
<1>3. NoMass \in Slot
  BY DEF NoMass, Slot
<1> HIDE DEF c
<1>4. \A k \in 1..c : Nth(keep, k) <= Len(m) => Nth(keep, k) \in 1..Len(m)
  BY <1>1
<1>5. \A k \in 1..c : Compact(m, keep)[k] \in Slot
  BY <1>2, <1>3, <1>4
<1>6. Compact(m, keep) \in Seq(Slot) /\ Len(Compact(m, keep)) = c
  BY <1>1, <1>2, <1>5
<1> QED
  BY <1>2, <1>4, <1>6 DEF c

\* The maximum of two numbers.
LEMMA MaxOfTwo ==
  ASSUME NEW a \in Nat, NEW b \in Nat
  PROVE  Max({a, b}) \in Nat /\ Max({a, b}) = IF a >= b THEN a ELSE b
BY DEF Max

\* A window at each end, and some of what is between.
LEMMA WindowsAnd ==
  ASSUME NEW n \in Nat, NEW a \in Nat, NEW b \in Nat, a + b <= n,
         NEW top \in SUBSET ((a + 1)..(n - b))
  PROVE  /\ 1..a \cup top \cup (n - b + 1)..n \in Places(n)
         /\ Cardinality(1..a \cup top \cup (n - b + 1)..n) = a + Cardinality(top) + b
<1> DEFINE first == 1..a
           final == (n - b + 1)..n
<1>1. /\ first \subseteq 1..n /\ final \subseteq 1..n /\ top \subseteq 1..n
      /\ first \cap top = {} /\ (first \cup top) \cap final = {}
  OBVIOUS
<1>2. IsFiniteSet(first) /\ Cardinality(first) = a
  BY FS_Interval
<1>3. IsFiniteSet(final) /\ Cardinality(final) = b
  <2>1. n - b + 1 \in Int /\ n \in Int
    OBVIOUS
  <2>2. /\ IsFiniteSet((n - b + 1)..n)
        /\ Cardinality((n - b + 1)..n) = IF n - b + 1 > n THEN 0 ELSE n - (n - b + 1) + 1
    BY ONLY <2>1, FS_Interval
  <2>3. (IF n - b + 1 > n THEN 0 ELSE n - (n - b + 1) + 1) = b
    OBVIOUS
  <2> QED
    BY ONLY <2>2, <2>3
<1>4. IsFiniteSet(top) /\ Cardinality(top) \in Nat
  <2>1. top \in Places(n)
    BY <1>1 DEF Places
  <2> QED
    BY <2>1, PlaceFacts
<1> HIDE DEF first, final
<1>5. Cardinality({}) = 0
  BY FS_EmptySet
<1>6. /\ IsFiniteSet(first \cup top)
      /\ Cardinality(first \cup top) = a + Cardinality(top)
  <2>1. /\ IsFiniteSet(first \cup top)
        /\ Cardinality(first \cup top) =
             Cardinality(first) + Cardinality(top) - Cardinality(first \cap top)
    BY ONLY <1>2, <1>4, FS_Union
  <2>2. Cardinality(first \cap top) = 0
    BY ONLY <1>1, <1>5
  <2> QED
    BY ONLY <1>2, <1>4, <2>1, <2>2, a \in Nat
<1>7. Cardinality((first \cup top) \cup final) = a + Cardinality(top) + b
  <2>1. Cardinality((first \cup top) \cup final) =
          Cardinality(first \cup top) + Cardinality(final)
            - Cardinality((first \cup top) \cap final)
    BY ONLY <1>3, <1>6, FS_Union
  <2>2. Cardinality((first \cup top) \cap final) = 0
    BY ONLY <1>1, <1>5
  <2> QED
    BY ONLY <1>3, <1>4, <1>6, <2>1, <2>2, a \in Nat, b \in Nat
<1>8. first \cup top \cup final \in Places(n)
  BY <1>1 DEF Places
<1> QED
  BY <1>7, <1>8 DEF first, final

\* Steps of q from a on stay within m, if h of them fit.
LEMMA StepsFit ==
  ASSUME NEW m \in Nat, NEW h \in Nat \ {0}, h < m, NEW q, q = m \div h
  PROVE  /\ q \in Nat /\ q >= 1
         /\ \A i \in 0..(h - 1) : i * q \in Nat /\ i * q < m
         /\ \A i, j \in 0..(h - 1) : i < j => i * q < j * q
<1>1. q \in Nat /\ q >= 1 /\ h * q <= m
  OBVIOUS
<1>2. ASSUME NEW i \in 0..(h - 1) PROVE i * q \in Nat /\ i * q < m
  <2>1. i \in Nat /\ i + 1 <= h
    OBVIOUS
  <2>2. i * q \in Nat /\ (i + 1) * q <= h * q /\ (i + 1) * q = i * q + q
    BY <1>1, <2>1
  <2> QED
    BY <1>1, <2>2
<1>3. ASSUME NEW i \in 0..(h - 1), NEW j \in 0..(h - 1), i < j PROVE i * q < j * q
  BY <1>1, <1>3
<1> QED
  BY <1>1, <1>2, <1>3

\* The slots that H2O spreads over the middle.
LEMMA SpreadShape ==
  ASSUME setup \in Setups, setup.policy = "h2o", NEW n \in Nat, n > setup.budget
  PROVE  Spread(n) \in SUBSET Middle(n) /\ Cardinality(Spread(n)) = Heavy
<1> DEFINE a == setup.sink
           m == n - setup.recent - a
           h == Heavy
<1>1. a \in Nat /\ setup.recent \in Nat /\ h \in Nat /\ m \in Nat /\ h < m
  BY SetupFacts DEF Heavy
<1>2. Middle(n) = (a + 1)..(a + m)
  BY <1>1 DEF Middle
<1>3. Spread(n) \in SUBSET Middle(n)
  BY DEF Spread
<1> HIDE DEF a, m, h
<1>4. Cardinality(Middle(n)) = m
  <2> DEFINE x == a + 1
             y == a + m
  <2>1. x \in Int /\ y \in Int /\ (IF x > y THEN 0 ELSE y - x + 1) = m
    BY <1>1
  <2> HIDE DEF x, y
  <2>2. Cardinality(x..y) = IF x > y THEN 0 ELSE y - x + 1
    BY <2>1, FS_Interval
  <2> QED
    BY ONLY <1>2, <2>1, <2>2 DEF x, y
<1>5. CASE h = 0
  <2>1. Spread(n) = {}
    BY <1>5 DEF Spread, h
  <2>2. Cardinality({}) = 0
    BY FS_EmptySet
  <2> QED
    BY <1>3, <1>5, <2>1, <2>2 DEF h
<1>6. CASE h # 0
  <2> DEFINE q == m \div h
             f == [i \in 0..(h - 1) |-> a + 1 + i * q]
  <2>1. /\ q \in Nat /\ q >= 1
        /\ \A i \in 0..(h - 1) : i * q \in Nat /\ i * q < m
        /\ \A i, j \in 0..(h - 1) : i < j => i * q < j * q
    BY <1>1, <1>6, StepsFit
  <2>2. Max({1, q}) = q
    BY <2>1, MaxOfTwo
  <2>3. Spread(n) = {a + 1 + i * q : i \in 0..(h - 1)} \cap Middle(n)
    BY <1>4, <2>2 DEF Spread, a, h
  <2> HIDE DEF q
  <2>4. \A i \in 0..(h - 1) : a + 1 + i * q \in (a + 1)..(a + m)
    BY <1>1, <2>1
  <2>5. Spread(n) = {a + 1 + i * q : i \in 0..(h - 1)}
    BY <1>2, <2>3, <2>4
  <2>6. \A i, j \in 0..(h - 1) : i # j => a + 1 + i * q # a + 1 + j * q
    <3> SUFFICES ASSUME NEW i \in 0..(h - 1), NEW j \in 0..(h - 1), i # j
                 PROVE  a + 1 + i * q # a + 1 + j * q
      OBVIOUS
    <3>1. i * q # j * q
      BY <1>1, <2>1
    <3> QED
      BY <1>1, <2>1, <3>1
  <2>7. f \in Bijection(0..(h - 1), Spread(n))
    BY <2>5, <2>6 DEF Bijection, Injection, Surjection, IsInjective
  <2>8. IsFiniteSet(0..(h - 1)) /\ Cardinality(0..(h - 1)) = h
    <3>1. 0 \in Int /\ h - 1 \in Int /\ ~(0 > h - 1) /\ h - 1 - 0 + 1 = h
      BY <1>1, <1>6
    <3>2. /\ IsFiniteSet(0..(h - 1))
          /\ Cardinality(0..(h - 1)) = IF 0 > h - 1 THEN 0 ELSE h - 1 - 0 + 1
      BY ONLY <3>1, FS_Interval
    <3> QED
      BY ONLY <3>1, <3>2
  <2>9. ExistsBijection(0..(h - 1), Spread(n))
    BY <2>7 DEF ExistsBijection
  <2> QED
    BY <1>3, <2>8, <2>9, FS_Bijection DEF h
<1> QED
  BY <1>5, <1>6

\* What a policy keeps: everything that fits, or as much as does, and in it what
\* it keeps of the ends.
LEMMA KeepsShape ==
  ASSUME setup \in Setups, setup.policy # "off", NEW n \in Nat, NEW scored,
         NEW keep \in Keeps(n, scored)
  PROVE  /\ keep \in Places(n)
         /\ Plain \/ n <= setup.budget => keep = 1..n
         /\ ~Plain /\ n > setup.budget =>
              /\ Cardinality(keep) = setup.budget
              /\ setup.policy # "random" => Sinks \subseteq keep /\ Recents(n) \subseteq keep
<1>1. CASE Plain \/ n <= setup.budget
  <2>1. keep = 1..n
    BY <1>1 DEF Keeps
  <2>2. ~(~Plain /\ n > setup.budget)
    BY <1>1, SetupFacts
  <2> QED
    BY <2>1, <2>2 DEF Places
<1>2. CASE ~Plain /\ n > setup.budget
  <2> DEFINE a == setup.sink
             b == setup.recent
  <2>1. /\ a \in Nat /\ b \in Nat /\ setup.budget \in Nat
        /\ setup.policy \in {"random", "streaming", "h2o"}
    BY <1>2, SetupFacts DEF Plain
  <2>0. Keeps(n, scored) =
          CASE setup.policy = "random" -> kSubset(setup.budget, 1..n)
            [] setup.policy = "streaming" -> {Sinks \cup Recents(n)}
            [] Unscored(n, scored) -> {Sinks \cup Spread(n) \cup Recents(n)}
            [] OTHER -> {Sinks \cup top \cup Recents(n) : top \in kSubset(Heavy, Middle(n))}
    <3>1. ~(Plain \/ n <= setup.budget)
      BY <1>2, <2>1
    <3> QED
      BY <3>1 DEF Keeps
  <2>2. CASE setup.policy = "random"
    <3>0. setup.policy # "streaming" /\ ~Unscored(n, scored)
      BY <2>2 DEF Unscored
    <3>1. Keeps(n, scored) = kSubset(setup.budget, 1..n)
      BY ONLY <2>0, <2>2, <3>0
    <3>2. keep \in SUBSET (1..n) /\ Cardinality(keep) = setup.budget
      BY <3>1 DEF kSubset
    <3>3. keep \in Places(n)
      BY <3>2 DEF Places
    <3> QED
      BY <1>2, <2>1, <2>2, <3>2, <3>3
  <2>3. ASSUME NEW top \in SUBSET ((a + 1)..(n - b)), keep = 1..a \cup top \cup (n - b + 1)..n,
               a + Cardinality(top) + b = setup.budget, a + b <= n
        PROVE  /\ keep \in Places(n) /\ Cardinality(keep) = setup.budget
               /\ Sinks \subseteq keep /\ Recents(n) \subseteq keep
    <3>1. keep \in Places(n) /\ Cardinality(keep) = a + Cardinality(top) + b
      BY <2>1, <2>3, WindowsAnd
    <3>2. Sinks = 1..a /\ Recents(n) = (n - b + 1)..n
      BY DEF Sinks, Recents
    <3> QED
      BY <2>3, <3>1, <3>2
  <2>4. CASE setup.policy = "streaming"
    <3>0. Keeps(n, scored) = {Sinks \cup Recents(n)}
      <4>1. setup.policy # "random" /\ ~Unscored(n, scored)
        BY <2>4 DEF Unscored
      <4> QED
        BY ONLY <2>0, <2>4, <4>1
    <3>1. keep = Sinks \cup Recents(n)
      BY <3>0
    <3>2. keep = 1..a \cup {} \cup (n - b + 1)..n
      BY <3>1 DEF Sinks, Recents
    <3>3. Cardinality({}) = 0 /\ setup.budget = a + b /\ {} \in SUBSET ((a + 1)..(n - b))
      BY <2>4, SetupFacts, FS_EmptySet
    <3> DEFINE none == {}
    <3>4. keep = 1..a \cup none \cup (n - b + 1)..n /\ none \in SUBSET ((a + 1)..(n - b))
      BY <3>2, <3>3
    <3>5. Cardinality(none) = 0
      BY <3>3
    <3> HIDE DEF none
    <3>6. a + Cardinality(none) + b = setup.budget /\ a + b <= n
      BY <1>2, <2>1, <3>3, <3>5
    <3>7. /\ keep \in Places(n) /\ Cardinality(keep) = setup.budget
          /\ Sinks \subseteq keep /\ Recents(n) \subseteq keep
      BY ONLY <2>3, <3>4, <3>6
    <3> QED
      BY <1>2, <2>1, <3>7
  <2>5. CASE setup.policy = "h2o"
    <3>1. a + b <= setup.budget /\ Heavy = setup.budget - a - b /\ Heavy \in Nat
          /\ Middle(n) = (a + 1)..(n - b)
      BY <2>1, <2>5, SetupFacts DEF Heavy, Middle
    <3>2. PICK top \in {Spread(n)} \cup kSubset(Heavy, Middle(n)) :
            keep = Sinks \cup top \cup Recents(n)
      <4>1. setup.policy # "random" /\ setup.policy # "streaming"
        BY <2>5
      <4>2. CASE Unscored(n, scored)
        <5>1. Keeps(n, scored) = {Sinks \cup Spread(n) \cup Recents(n)}
          BY ONLY <2>0, <4>1, <4>2
        <5> QED
          BY <5>1
      <4>3. CASE ~Unscored(n, scored)
        <5>1. Keeps(n, scored) =
                {Sinks \cup top \cup Recents(n) : top \in kSubset(Heavy, Middle(n))}
          BY ONLY <2>0, <4>1, <4>3
        <5> QED
          BY <5>1
      <4> QED
        BY <4>2, <4>3
    <3>3. top \in SUBSET Middle(n) /\ Cardinality(top) = Heavy
      BY <1>2, <2>5, <3>2, SpreadShape DEF kSubset
    <3>4. a + Cardinality(top) + b = setup.budget /\ a + b <= n
      <4> DEFINE h == Heavy
      <4>1. Cardinality(top) = h /\ a + b <= setup.budget /\ h = setup.budget - a - b
        BY <3>1, <3>3
      <4> HIDE DEF a, b, h
      <4> QED
        BY ONLY <1>2, <2>1, <4>1, n \in Nat
    <3>5. keep = 1..a \cup top \cup (n - b + 1)..n /\ top \in SUBSET ((a + 1)..(n - b))
      BY <3>1, <3>2, <3>3 DEF Sinks, Recents
    <3>6. /\ keep \in Places(n) /\ Cardinality(keep) = setup.budget
          /\ Sinks \subseteq keep /\ Recents(n) \subseteq keep
      BY ONLY <2>3, <3>4, <3>5
    <3> QED
      BY <1>2, <2>1, <3>6
  <2> QED
    BY <2>1, <2>2, <2>4, <2>5
<1> QED
  BY <1>1, <1>2, SetupFacts

-----------------------------------------------------------------------------
(* A pass through a layer.                                                 *)

\* What there is of a layer.
Layer == [kv : Seq(Slot), mass : Seq(Slot), pend : Nat]

\* What an eviction leaves.
LEMMA EvictedShape ==
  ASSUME NEW slots \in Seq(Slot), NEW scores \in Seq(Slot), NEW keep \in Places(Len(slots))
  PROVE  /\ Evicted(slots, scores, keep) \in Layer
         /\ Evicted(slots, scores, keep).kv = Pick(slots, keep)
         /\ Evicted(slots, scores, keep).pend = 0
         /\ Evicted(slots, scores, keep).mass =
              IF scores = <<>> \/ keep = 1..Len(slots) THEN scores ELSE Compact(scores, keep)
<1>1. Pick(slots, keep) \in Seq(Slot) /\ Len(slots) \in Nat
  BY PickShape
<1>2. Compact(scores, keep) \in Seq(Slot)
  BY <1>1, CompactShape
<1> QED
  BY <1>1, <1>2 DEF Evicted, Layer

\* What a pass puts into the cache.
LEMMA FreshShape ==
  ASSUME RunTypes, CallInv, chat.at = "generate"
  PROVE  /\ Fresh \in Seq(Slot) /\ Len(Fresh) = Len(Input) /\ Len(Input) \in Nat \ {0}
         /\ Base \in Nat /\ \A i \in 1..Len(Fresh) : Fresh[i] = <<Base + i, Input[i]>>
<1>1. /\ chat.prompt \in Seq(Nat) /\ chat.delta \in Seq(Nat) /\ chat.forwards \in Nat
      /\ made \in Nat
  <2>1. chat \in CallRecord /\ setup.made \in Nat /\ made \in 0..setup.made
    <3>1. setup \in Setups /\ chat \in CallRecord /\ made \in 0..setup.made
      BY DEF RunTypes
    <3> QED
      BY <3>1, SetupFacts
  <2> QED
    BY <2>1 DEF CallRecord
<1>2. /\ Len(chat.prompt) \in Nat /\ Len(chat.delta) \in Nat \ {0}
      /\ Len(chat.delta) <= Len(chat.prompt)
  BY <1>1 DEF CallInv
<1>3. Base \in Nat
  BY <1>1, <1>2 DEF Base, First, CallInv
<1>4. Input \in Seq(Nat) /\ Len(Input) \in Nat \ {0}
  <2>1. CASE First
    BY <1>1, <1>2, <2>1 DEF Input
  <2>2. CASE ~First
    <3>1. Input = <<Generated(made)>> /\ Generated(made) \in Nat
      BY <1>1, <2>2 DEF Input, Generated
    <3> QED
      BY <3>1
  <2> QED
    BY <2>1, <2>2
<1> HIDE DEF Input, Base
<1>5. Fresh = [i \in 1..Len(Input) |-> <<Base + i, Input[i]>>]
  BY DEF Fresh
<1>6. \A i \in 1..Len(Input) : <<Base + i, Input[i]>> \in Slot
  BY <1>3, <1>4 DEF Slot
<1> QED
  BY <1>3, <1>4, <1>5, <1>6

\* What a layer has before an eviction.
Slots(l) == kv[l] \o Fresh

\* Layer l has put the prompt off.
PutOff(l, u) ==
  /\ First /\ Unscored(Len(Slots(l)), Len(mass[l]))
  /\ u.kv = Slots(l) /\ u.mass = mass[l] /\ u.pend = Len(Slots(l))

\* Slots and scores have been cut to what is kept.
Cut(slots, scores, keep, u) ==
  /\ u.kv = Pick(slots, keep)
  /\ u.mass = IF scores = <<>> \/ keep = 1..Len(slots) THEN scores ELSE Compact(scores, keep)

\* A layer that is updated puts the prompt off, or is cut.
LEMMA UpdatesShape ==
  ASSUME CacheTypes, CallInv, chat.at = "generate", setup.policy # "off",
         NEW l \in Layers, NEW u \in Updates(l)
  PROVE  /\ u \in Layer /\ Slots(l) \in Seq(Slot)
         /\ \/ PutOff(l, u)
            \/ \E keep \in Places(Len(Slots(l))) :
                 /\ keep \in Keeps(Len(Slots(l)), Len(mass[l]))
                 /\ Cut(Slots(l), mass[l], keep, u) /\ u.pend = pend[l]
<1> DEFINE slots == Slots(l)
<1>1. /\ kv[l] \in Seq(Slot) /\ mass[l] \in Seq(Slot) /\ pend[l] \in Nat /\ setup \in Setups
      /\ RunTypes
  BY DEF CacheTypes, SlotTypes, RunTypes
<1>2. Fresh \in Seq(Slot)
  BY <1>1, FreshShape
<1>3. slots \in Seq(Slot) /\ Len(slots) \in Nat
  BY <1>1, <1>2 DEF Slots
<1>4. \/ /\ First /\ Unscored(Len(slots), Len(mass[l]))
         /\ u = [kv |-> slots, mass |-> mass[l], pend |-> Len(slots)]
      \/ \E keep \in Keeps(Len(slots), Len(mass[l])) :
           u = [Evicted(slots, mass[l], keep) EXCEPT !.pend = pend[l]]
  BY DEF Updates, Slots
<1> HIDE DEF slots
<1>5. CASE /\ First /\ Unscored(Len(slots), Len(mass[l]))
           /\ u = [kv |-> slots, mass |-> mass[l], pend |-> Len(slots)]
  BY <1>1, <1>3, <1>5 DEF PutOff, slots, Layer
<1>6. ASSUME NEW keep \in Keeps(Len(slots), Len(mass[l])),
             u = [Evicted(slots, mass[l], keep) EXCEPT !.pend = pend[l]]
      PROVE  /\ u \in Layer /\ keep \in Places(Len(slots))
             /\ Cut(slots, mass[l], keep, u) /\ u.pend = pend[l]
  <2>1. keep \in Places(Len(slots))
    BY <1>1, <1>3, KeepsShape
  <2> DEFINE v == Evicted(slots, mass[l], keep)
  <2>2. /\ v \in Layer /\ v.kv = Pick(slots, keep)
        /\ v.mass = IF mass[l] = <<>> \/ keep = 1..Len(slots) THEN mass[l]
                    ELSE Compact(mass[l], keep)
    BY <1>1, <1>3, <2>1, EvictedShape
  <2> HIDE DEF v
  <2>3. u = [v EXCEPT !.pend = pend[l]]
    BY <1>6 DEF v
  <2>4. u \in Layer /\ u.kv = v.kv /\ u.mass = v.mass /\ u.pend = pend[l]
    BY <1>1, <2>2, <2>3 DEF Layer
  <2> QED
    BY <2>1, <2>2, <2>4 DEF Cut
<1> QED
  BY <1>3, <1>4, <1>5, <1>6 DEF slots

\* Scores cover the slots there are.
LEMMA ScoredShape ==
  ASSUME NEW slots \in Seq(Slot), NEW scores \in Seq(Slot)
  PROVE  /\ Scored(slots, scores) \in Seq(Slot)
         /\ Len(scores) <= Len(slots) =>
              /\ Len(Scored(slots, scores)) = Len(slots)
              /\ (\A i \in 1..Len(scores) : scores[i] \in {NoMass, slots[i]}) =>
                   Scored(slots, scores) = slots
<1> DEFINE n == Max({Len(slots), Len(scores)})
           at == [i \in 1..n |->
                    CASE i > Len(slots) -> scores[i]
                      [] i > Len(scores) -> slots[i]
                      [] OTHER -> IF scores[i] \in {NoMass, slots[i]} THEN slots[i] ELSE Mixed]
<1>1. /\ Len(slots) \in Nat /\ Len(scores) \in Nat /\ n \in Nat
      /\ n = IF Len(slots) >= Len(scores) THEN Len(slots) ELSE Len(scores)
  BY MaxOfTwo
<1>2. Scored(slots, scores) = at
  BY DEF Scored
<1> HIDE DEF n
<1>3. Mixed \in Slot
  BY DEF Mixed, Slot
<1>4. ASSUME NEW i \in 1..n
      PROVE  /\ at[i] \in Slot
             /\ Len(scores) <= Len(slots) =>
                  /\ i <= Len(slots)
                  /\ (i <= Len(scores) => scores[i] \in {NoMass, slots[i]}) => at[i] = slots[i]
  <2>1. CASE i > Len(slots)
    <3>1. i \in 1..Len(scores) /\ ~(i > Len(scores))
      BY <1>1, <2>1
    <3> QED
      BY <1>1, <2>1, <3>1
  <2>2. CASE ~(i > Len(slots)) /\ i > Len(scores)
    <3>1. i \in 1..Len(slots)
      BY <1>1, <2>2
    <3> QED
      BY <1>1, <2>2, <3>1
  <2>3. CASE ~(i > Len(slots)) /\ ~(i > Len(scores))
    <3>1. i \in 1..Len(slots) /\ i <= Len(slots) /\ i <= Len(scores)
      BY <1>1, <2>3
    <3>2. at[i] = IF scores[i] \in {NoMass, slots[i]} THEN slots[i] ELSE Mixed
      BY <2>3
    <3> QED
      BY <1>3, <3>1, <3>2
  <2> QED
    BY <2>1, <2>2, <2>3
<1>5. at \in Seq(Slot) /\ Len(at) = n
  <2>1. at = [i \in 1..n |-> at[i]]
    OBVIOUS
  <2> HIDE DEF at
  <2>2. at \in [1..n -> Slot]
    BY <1>4, <2>1
  <2> QED
    BY <1>1, <2>2
<1> HIDE DEF at
<1>6. ASSUME Len(scores) <= Len(slots),
             \A i \in 1..Len(scores) : scores[i] \in {NoMass, slots[i]}
      PROVE  at = slots
  <2>1. n = Len(slots)
    BY <1>1, <1>6
  <2>2. \A i \in 1..n : at[i] = slots[i]
    BY <1>1, <1>4, <1>6
  <2> QED
    BY <1>5, <2>1, <2>2
<1>7. Len(scores) <= Len(slots) => Len(at) = Len(slots)
  BY <1>1, <1>5
<1> QED
  BY <1>2, <1>5, <1>6, <1>7

\* A layer that has been observed is scored, and cut if a prompt was put off.
LEMMA PassesShape ==
  ASSUME CacheTypes, CallInv, chat.at = "generate", setup.policy # "off",
         NEW l \in Layers, NEW shown, NEW r \in Passes(l, shown)
  PROVE  /\ r \in Layer
         /\ \E u \in Updates(l) :
              /\ u \in Layer
              /\ setup.policy # "h2o" => r = u
              /\ setup.policy = "h2o" /\ ~Due(u, shown) =>
                   /\ r.kv = u.kv /\ r.mass = Scored(u.kv, u.mass) /\ r.pend = u.pend
              /\ setup.policy = "h2o" /\ Due(u, shown) =>
                   \E keep \in Places(Len(u.kv)) :
                     /\ keep \in Keeps(Len(u.kv), Len(Scored(u.kv, u.mass)))
                     /\ Cut(u.kv, Scored(u.kv, u.mass), keep, r) /\ r.pend = 0
<1>1. setup \in Setups
  BY DEF CacheTypes, RunTypes
<1>2. CASE setup.policy # "h2o"
  <2>1. r \in Updates(l)
    BY <1>2 DEF Passes
  <2> QED
    BY <1>2, <2>1, UpdatesShape
<1>3. CASE setup.policy = "h2o"
  <2>1. PICK u \in Updates(l) : r \in Observe(u, shown)
    BY <1>3 DEF Passes
  <2>2. u \in Layer /\ u.kv \in Seq(Slot) /\ u.mass \in Seq(Slot)
    BY <2>1, UpdatesShape DEF Layer
  <2> DEFINE scores == Scored(u.kv, u.mass)
  <2>3. scores \in Seq(Slot) /\ Len(scores) \in Nat /\ Len(u.kv) \in Nat
    <3>1. scores \in Seq(Slot)
      BY <2>2, ScoredShape
    <3> HIDE DEF scores
    <3> QED
      BY <2>2, <3>1
  <2>4. CASE Due(u, shown)
    <3>1. PICK keep \in Keeps(Len(u.kv), Len(scores)) : r = Evicted(u.kv, scores, keep)
      BY <2>1, <2>4 DEF Observe
    <3> HIDE DEF scores
    <3>2. keep \in Places(Len(u.kv))
      BY <1>1, <1>3, <2>3, KeepsShape
    <3>3. /\ r \in Layer /\ r.kv = Pick(u.kv, keep) /\ r.pend = 0
          /\ r.mass = IF scores = <<>> \/ keep = 1..Len(u.kv) THEN scores
                      ELSE Compact(scores, keep)
      BY <2>2, <2>3, <3>1, <3>2, EvictedShape
    <3>4. Cut(u.kv, scores, keep, r)
      BY <3>3 DEF Cut
    <3> QED
      BY <1>3, <2>2, <2>4, <3>1, <3>2, <3>3, <3>4 DEF scores
  <2>5. CASE ~Due(u, shown)
    <3>1. r = [u EXCEPT !.mass = scores]
      BY <2>1, <2>5 DEF Observe
    <3> HIDE DEF scores
    <3>2. r \in Layer /\ r.kv = u.kv /\ r.mass = scores /\ r.pend = u.pend
      BY <2>2, <2>3, <3>1 DEF Layer
    <3> QED
      BY <1>3, <2>2, <2>5, <3>2 DEF scores
  <2> QED
    BY <2>4, <2>5
<1> QED
  BY <1>2, <1>3

\* And one whose pass breaks off has been updated, or not.
LEMMA BreaksShape ==
  ASSUME CacheTypes, CallInv, chat.at = "generate", setup.policy # "off", NEW l \in Layers,
         NEW shown, NEW r
  PROVE  /\ r = Unpassed(l) =>
              r \in Layer /\ r.kv = kv[l] /\ r.mass = mass[l] /\ r.pend = pend[l]
         /\ r \in Breaks(l) => r = Unpassed(l) \/ r \in Updates(l)
         /\ r \in Raises(l, shown) => /\ r \in Layer
                                      /\ \E u \in Updates(l) :
                                           r.kv = u.kv /\ r.mass = Scored(u.kv, u.mass) /\ r.pend = 0
<1>1. r = Unpassed(l) => r \in Layer /\ r.kv = kv[l] /\ r.mass = mass[l] /\ r.pend = pend[l]
  BY DEF Unpassed, Layer, CacheTypes, SlotTypes
<1>2. ASSUME NEW u \in Updates(l), r = [u EXCEPT !.mass = Scored(u.kv, u.mass), !.pend = 0]
      PROVE  r \in Layer /\ r.kv = u.kv /\ r.mass = Scored(u.kv, u.mass) /\ r.pend = 0
  <2>1. u \in Layer /\ u.kv \in Seq(Slot) /\ u.mass \in Seq(Slot)
    BY UpdatesShape DEF Layer
  <2>2. Scored(u.kv, u.mass) \in Seq(Slot)
    BY <2>1, ScoredShape
  <2> DEFINE scores == Scored(u.kv, u.mass)
  <2> HIDE DEF scores
  <2>3. r = [u EXCEPT !.mass = scores, !.pend = 0] /\ scores \in Seq(Slot)
    BY <1>2, <2>2 DEF scores
  <2>4. r \in Layer /\ r.kv = u.kv /\ r.mass = scores /\ r.pend = 0
    BY <2>1, <2>3 DEF Layer
  <2> QED
    BY <2>4 DEF scores
<1>3. r \in Raises(l, shown) =>
        \E u \in Updates(l) : r = [u EXCEPT !.mass = Scored(u.kv, u.mass), !.pend = 0]
  BY DEF Raises
<1>4. r \in Breaks(l) => r = Unpassed(l) \/ r \in Updates(l)
  BY DEF Breaks
<1> QED
  BY <1>1, <1>2, <1>3, <1>4
-----------------------------------------------------------------------------
(* The domains, under every step.                                          *)

CacheInv == CacheTypes /\ ChatInv

\* The cache stays in its domain.
SlotsStay ==
  /\ kv' \in [Layers -> Seq(Slot)] /\ mass' \in [Layers -> Seq(Slot)]
  /\ pend' \in [Layers -> Nat] /\ fed' \in Seq(Slot)

\* A new prompt is of numbers, and of the words of the call where it goes beyond
\* the conversation.
LEMMA PromptShape ==
  ASSUME RunTypes, NEW p \in Prompts
  PROVE  /\ p \in Seq(Nat) /\ Len(p) \in 1..setup.text
         /\ \A i \in 1..Len(p) : i > Len(talk) => p[i] % 2 = 0
<1>1. talk \in Seq(Nat) /\ made \in Nat
  <2>1. talk \in Seq(Nat) /\ setup \in Setups /\ made \in 0..setup.made
    BY DEF RunTypes
  <2> QED
    BY <2>1, SetupFacts
<1>2. PICK n \in 0..Len(talk), new \in 0..2 :
        p = SubSeq(talk, 1, n) \o [i \in 1..new |-> Said(made + 1)]
  <2> DEFINE Lengthened(n, new) == SubSeq(talk, 1, n) \o [i \in 1..new |-> Said(made + 1)]
             Ns == {i \in 0..Len(talk) : i = 0 \/ i >= Len(talk) - 2}
  <2>1. p \in {Lengthened(n, new) : n \in Ns, new \in 0..2}
    BY DEF Prompts
  <2>2. Ns \subseteq 0..Len(talk)
    OBVIOUS
  <2> HIDE DEF Ns
  <2>3. \E n \in Ns, new \in 0..2 : p = Lengthened(n, new)
    BY <2>1
  <2> QED
    BY <2>2, <2>3
<1>3. Len(p) \in 1..setup.text
  BY DEF Prompts
<1> DEFINE begun == SubSeq(talk, 1, n)
           said == [i \in 1..new |-> Said(made + 1)]
<1>4. n \in Nat /\ n <= Len(talk) /\ Len(talk) \in Nat
  BY <1>1
<1>5. begun \in Seq(Nat) /\ Len(begun) = n
  BY <1>1, <1>4
<1>6. Said(made + 1) \in Nat /\ Said(made + 1) % 2 = 0
  BY <1>1 DEF Said
<1>7. said \in Seq(Nat) /\ Len(said) = new /\ \A i \in 1..new : said[i] % 2 = 0
  BY <1>6
<1>8. p = begun \o said
  BY <1>2
<1> HIDE DEF begun, said
<1>9. p \in Seq(Nat) /\ Len(p) = n + new
  BY <1>5, <1>7, <1>8
<1>10. ASSUME NEW i \in 1..Len(p), i > Len(talk) PROVE p[i] % 2 = 0
  <2>1. i - n \in 1..new /\ p[i] = said[i - n]
    BY <1>4, <1>5, <1>7, <1>8, <1>9, <1>10
  <2> QED
    BY <1>7, <2>1
<1> QED
  BY <1>3, <1>9, <1>10

\* Idle is the record of no call.
LEMMA IdleShape ==
  Idle \in CallRecord /\ Idle.at = "free" /\ Idle.own = FALSE
<1>1. <<>> \in Seq(Nat)
  OBVIOUS
<1> QED
  BY <1>1 DEF Idle, CallRecord

\* A call begins.
LEMMA ChatTyped ==
  ASSUME CacheInv, Chat
  PROVE  CacheInv'
<1>1. PICK p \in Prompts, size \in 1..2 :
        /\ Len(p) + size <= setup.text
        /\ chat' = [Idle EXCEPT !.at = "called", !.idx = calls, !.prompt = p,
                               !.size = size, !.late = stage \in {"ready", "collect"}]
  BY DEF Chat
<1>2. CacheTypes /\ ChatInv
  BY DEF CacheInv
<1>3. /\ RunTypes /\ setup \in Setups /\ made \in Nat /\ calls \in Nat /\ calls <= made
      /\ made < setup.made /\ setup.made \in Nat
  <2>1. RunTypes /\ setup \in Setups /\ made \in 0..setup.made /\ calls \in 0..made
    BY <1>2 DEF CacheTypes, RunTypes
  <2> QED
    BY <2>1, SetupFacts DEF Chat
<1>4. /\ p \in Seq(Nat) /\ Len(p) \in 1..setup.text
      /\ \A i \in 1..Len(p) : i > Len(talk) => p[i] % 2 = 0
  BY <1>3, PromptShape
<1>5. /\ chat' \in CallRecord /\ chat'.at = "called" /\ chat'.idx = calls
      /\ chat'.prompt = p /\ chat'.size = size /\ chat'.forwards = 0 /\ chat'.own = FALSE
  <2>1. Idle \in CallRecord /\ Idle.forwards = 0 /\ Idle.own = FALSE
    BY IdleShape DEF Idle
  <2> HIDE DEF Idle
  <2> DEFINE late == stage \in {"ready", "collect"}
  <2>2. late \in BOOLEAN
    OBVIOUS
  <2>3. chat' = [Idle EXCEPT !.at = "called", !.idx = calls, !.prompt = p,
                            !.size = size, !.late = late]
    BY <1>1
  <2> HIDE DEF late
  <2>4. size \in Nat
    OBVIOUS
  <2> QED
    BY <1>3, <1>4, <2>1, <2>2, <2>3, <2>4 DEF CallRecord
<1>6. /\ calls' = calls + 1 /\ made' = made + 1 /\ (stray' = stray \/ stray' = stray + 1)
      /\ UNCHANGED <<setup, stage, attempt, attemptDir, strayed, saved, cache, failed, talk,
                     meta, files>>
  BY DEF Chat
<1>7. RunTypes'
  <2>1. made' \in 0..setup.made /\ calls' \in 0..made'
    BY <1>3, <1>6
  <2>2. stray' \in Nat
    <3>1. stray \in Nat
      BY <1>3 DEF RunTypes
    <3> QED
      BY <1>6, <3>1
  <2> QED
    BY <1>3, <1>5, <1>6, <2>1, <2>2 DEF RunTypes, Attempts
<1>8. SlotTypes'
  BY <1>2, <1>6 DEF CacheTypes, SlotTypes, cache, Layers
<1>9. CallInv'
  BY <1>1, <1>3, <1>4, <1>5, <1>6 DEF CallInv
<1>10. OwnInv' /\ PromptInv' /\ Len(ids') <= setup'.text
  <2>1. ids' = ids /\ built' = built /\ talk' = talk /\ setup' = setup
    BY <1>6 DEF cache
  <2> QED
    BY <1>2, <1>4, <1>5, <2>1 DEF ChatInv, OwnInv, PromptInv
<1> QED
  BY <1>7, <1>8, <1>9, <1>10 DEF CacheInv, CacheTypes, ChatInv

\* It prepares the cache.
LEMMA PreparedTyped ==
  ASSUME CacheInv, chat.at = "called", NEW delta \in Seq(Nat), NEW own \in BOOLEAN,
         Prepared(delta, own), Len(delta) \in 1..Len(chat.prompt),
         \A i \in 1..Len(delta) : delta[i] = chat.prompt[Len(chat.prompt) - Len(delta) + i],
         SlotsStay, built' \in BOOLEAN, torn' \in BOOLEAN, ids' \in Seq(Nat),
         Len(ids') <= setup.text, own = built', own => setup.policy # "off"
  PROVE  CacheInv'
<1>1. CacheTypes /\ ChatInv /\ RunTypes
  BY DEF CacheInv, CacheTypes
<1>2. /\ chat' = [chat EXCEPT !.at = "prepared", !.delta = delta, !.own = own]
      /\ UNCHANGED <<pipeline, calls, made, failed, talk, meta, files>>
  BY DEF Prepared
<1>3. chat \in CallRecord
  BY <1>1 DEF RunTypes
<1>4. /\ chat' \in CallRecord /\ chat'.at = "prepared" /\ chat'.delta = delta
      /\ chat'.own = own /\ chat'.prompt = chat.prompt /\ chat'.size = chat.size
      /\ chat'.idx = chat.idx /\ chat'.forwards = chat.forwards
  BY <1>2, <1>3 DEF CallRecord
<1>5. RunTypes'
  BY <1>1, <1>2, <1>4 DEF RunTypes, pipeline, Attempts
<1>6. SlotTypes'
  <2>1. setup' = setup
    BY <1>2 DEF pipeline
  <2> QED
    BY <2>1 DEF SlotTypes, SlotsStay, Layers
<1>7. CallInv'
  <2>1. CallInv /\ setup' = setup
    BY <1>1, <1>2 DEF ChatInv, pipeline
  <2> QED
    BY <1>4, <2>1 DEF CallInv
<1>8. OwnInv' /\ PromptInv' /\ Len(ids') <= setup'.text
  <2>1. setup' = setup
    BY <1>2 DEF pipeline
  <2> QED
    BY <1>4, <2>1 DEF OwnInv, PromptInv
<1> QED
  BY <1>5, <1>6, <1>7, <1>8 DEF CacheInv, CacheTypes, ChatInv

\* A cache without slots is one.
LEMMA DroppedTyped ==
  ASSUME Dropped
  PROVE  SlotsStay /\ torn' = FALSE
<1>1. <<>> \in Seq(Slot)
  OBVIOUS
<1> QED
  BY <1>1 DEF Dropped, SlotsStay

\* The prompt is the end of itself; and what follows a prefix is, too.
LEMMA EndOfPrompt ==
  ASSUME NEW p \in Seq(Nat), NEW s \in Seq(Nat), IsStrictPrefix(s, p)
  PROVE  LET d == SubSeq(p, Len(s) + 1, Len(p)) IN
         /\ d \in Seq(Nat) /\ Len(d) = Len(p) - Len(s) /\ Len(d) \in 1..Len(p)
         /\ \A i \in 1..Len(d) : d[i] = p[Len(p) - Len(d) + i]
         /\ \A i \in 1..Len(s) : p[i] = s[i]
<1>1. Len(s) \in Nat /\ Len(p) \in Nat /\ Len(s) < Len(p) /\ IsPrefix(s, p)
  BY DEF IsStrictPrefix, IsPrefix
<1> DEFINE d == SubSeq(p, Len(s) + 1, Len(p))
<1>2. d \in Seq(Nat) /\ Len(d) = Len(p) - Len(s)
  BY <1>1
<1>3. \A i \in 1..Len(d) : d[i] = p[Len(s) + i]
  BY <1>1, <1>2
<1>4. \A i \in 1..Len(s) : p[i] = s[i]
  BY <1>1 DEF IsPrefix
<1> HIDE DEF d
<1>5. \A i \in 1..Len(d) : d[i] = p[Len(p) - Len(d) + i]
  <2>1. \A i \in 1..Len(d) : Len(p) - Len(d) + i = Len(s) + i
    BY <1>1, <1>2
  <2> QED
    BY <1>3, <2>1
<1>6. Len(d) \in 1..Len(p)
  BY <1>1, <1>2
<1> QED
  BY <1>2, <1>4, <1>5, <1>6 DEF d

\* In any of the ways.
LEMMA PrepareTyped ==
  ASSUME CacheInv, NoCache \/ Build \/ Extend
  PROVE  CacheInv'
<1>1. CacheTypes /\ ChatInv /\ chat.at = "called"
  BY DEF CacheInv, NoCache, Build, Extend
<1>2. /\ chat.prompt \in Seq(Nat) /\ Len(chat.prompt) \in 1..setup.text
      /\ built \in BOOLEAN /\ torn \in BOOLEAN /\ ids \in Seq(Nat) /\ Len(ids) <= setup.text
      /\ OwnInv
  <2>1. chat \in CallRecord /\ setup \in Setups /\ CallInv
    BY <1>1 DEF CacheTypes, RunTypes, ChatInv
  <2>2. chat.prompt \in Seq(Nat) /\ chat.size \in Nat /\ setup.text \in Nat
    BY <2>1, SetupFacts DEF CallRecord
  <2>3. Len(chat.prompt) >= 1 /\ Len(chat.prompt) + chat.size <= setup.text
    BY <1>1, <2>1 DEF CallInv
  <2>4. Len(chat.prompt) \in 1..setup.text
    BY <2>2, <2>3
  <2> QED
    BY <1>1, <2>2, <2>4 DEF CacheTypes, SlotTypes, ChatInv
<1>3. UNCHANGED cache => /\ SlotsStay /\ built' = built /\ torn' = torn /\ ids' = ids
  BY <1>1 DEF cache, SlotsStay, CacheTypes, SlotTypes
<1>4. \A i \in 1..Len(chat.prompt) :
        chat.prompt[i] = chat.prompt[Len(chat.prompt) - Len(chat.prompt) + i]
  BY <1>2
<1>5. Len(chat.prompt) \in 1..Len(chat.prompt)
  BY <1>2
<1>6. CASE NoCache
  <2>1. ~built
    BY <1>2, <1>6 DEF NoCache, OwnInv
  <2>2. Prepared(chat.prompt, FALSE) /\ UNCHANGED cache
    BY <1>6 DEF NoCache
  <2>3. built' = FALSE
    BY <1>2, <1>3, <2>1, <2>2
  <2> QED
    BY <1>1, <1>2, <1>3, <1>4, <1>5, <2>2, <2>3, PreparedTyped
<1>7. CASE Build
  <2>1. Dropped /\ built' = TRUE /\ ids' = chat.prompt /\ setup.policy # "off"
        /\ Prepared(chat.prompt, TRUE)
    BY <1>7 DEF Build
  <2>2. SlotsStay /\ torn' = FALSE
    BY <2>1, DroppedTyped
  <2>3. Len(ids') <= setup.text
    <3>1. setup.text \in Nat
      BY <1>1, SetupFacts DEF CacheTypes, RunTypes
    <3> QED
      BY <1>2, <2>1, <3>1
  <2> QED
    BY <1>1, <1>2, <1>4, <1>5, <2>1, <2>2, <2>3, PreparedTyped
<1>8. CASE Extend
  <2> DEFINE d == SubSeq(chat.prompt, Len(ids) + 1, Len(chat.prompt))
  <2>1. built /\ IsStrictPrefix(ids, chat.prompt) /\ Prepared(d, TRUE) /\ UNCHANGED cache
    BY <1>8 DEF Extend, Continues
  <2>2. /\ d \in Seq(Nat) /\ Len(d) \in 1..Len(chat.prompt)
        /\ \A i \in 1..Len(d) : d[i] = chat.prompt[Len(chat.prompt) - Len(d) + i]
    BY <1>2, <2>1, EndOfPrompt
  <2>3. setup.policy # "off" /\ built' = TRUE
    BY <1>2, <1>3, <2>1 DEF OwnInv
  <2> HIDE DEF d
  <2> QED
    BY <1>1, <1>2, <1>3, <2>1, <2>2, <2>3, PreparedTyped
<1> QED
  BY <1>6, <1>7, <1>8

\* A call that raises leaves no call.
LEMMA RaiseTyped ==
  ASSUME CacheInv, NEW tear \in BOOLEAN, Raise(tear), SlotsStay, failed' \in 0..MaxFailed
  PROVE  CacheInv'
<1>1. CacheTypes /\ ChatInv /\ RunTypes /\ SlotTypes /\ chat \in CallRecord
  BY DEF CacheInv, CacheTypes, RunTypes
<1>2. /\ chat' = Idle /\ talk' = chat.prompt /\ torn' = (torn \/ tear)
      /\ UNCHANGED <<calls, made, ids, built, meta, pipeline, files>>
  BY DEF Raise
<1>3. chat' \in CallRecord /\ chat'.at = "free" /\ chat'.own = FALSE /\ setup' = setup
  BY <1>2, IdleShape DEF pipeline
<1>4. RunTypes'
  <2>1. talk' \in Seq(Nat)
    BY <1>1, <1>2 DEF CallRecord
  <2> QED
    BY <1>1, <1>2, <1>3, <2>1 DEF RunTypes, pipeline, Attempts
<1>5. SlotTypes'
  <2>1. torn' \in BOOLEAN
    <3>1. torn \in BOOLEAN
      BY <1>1 DEF SlotTypes
    <3> QED
      BY <1>2, <3>1
  <2> QED
    BY <1>1, <1>2, <1>3, <2>1 DEF SlotTypes, SlotsStay, Layers
<1>6. CallInv' /\ OwnInv' /\ PromptInv' /\ Len(ids') <= setup'.text
  BY <1>1, <1>2, <1>3 DEF ChatInv, CallInv, OwnInv, PromptInv
<1> QED
  BY <1>4, <1>5, <1>6 DEF CacheInv, CacheTypes, ChatInv

\* The slots may be left alone, and a failure counts.
LEMMA SlotsLeft ==
  ASSUME CacheInv
  PROVE  /\ UNCHANGED <<kv, mass, pend, fed>> => SlotsStay
         /\ UNCHANGED failed \/ Fault => failed' \in 0..MaxFailed
         /\ built \in BOOLEAN /\ chat.own \in BOOLEAN
<1>1. UNCHANGED <<kv, mass, pend, fed>> => SlotsStay
  BY DEF CacheInv, CacheTypes, SlotTypes, SlotsStay
<1>2. UNCHANGED failed \/ Fault => failed' \in 0..MaxFailed
  <2>1. failed \in 0..MaxFailed /\ MaxFailed \in Nat
    BY CacheAssumption DEF CacheInv, CacheTypes, RunTypes
  <2> QED
    BY <2>1 DEF Fault
<1>3. built \in BOOLEAN /\ chat.own \in BOOLEAN
  BY DEF CacheInv, CacheTypes, SlotTypes, RunTypes, CallRecord
<1> QED
  BY <1>1, <1>2, <1>3

\* After a pass every layer is in its domain.
LEMMA BecomesTyped ==
  ASSUME CacheInv, chat.at = "generate", NEW r, \A l \in Layers : r[l] \in Layer, Becomes(r)
  PROVE  SlotsStay
<1>1. Fresh \in Seq(Slot) /\ fed \in Seq(Slot)
  BY FreshShape DEF CacheInv, CacheTypes, SlotTypes, ChatInv
<1>2. fed' \in Seq(Slot)
  BY <1>1 DEF Becomes
<1>3. \A l \in Layers : r[l].kv \in Seq(Slot) /\ r[l].mass \in Seq(Slot) /\ r[l].pend \in Nat
  BY DEF Layer
<1> QED
  BY <1>2, <1>3 DEF Becomes, SlotsStay

\* The generation works on the cache of a policy.
LEMMA OwnsIt ==
  ASSUME CacheInv, chat.own
  PROVE  built /\ setup.policy # "off" /\ CacheTypes /\ CallInv
BY DEF CacheInv, ChatInv, OwnInv

\* A forward pass.
LEMMA ForwardTyped ==
  ASSUME CacheInv, Forward
  PROVE  CacheInv' /\ SlotsStay
<1>1. CacheTypes /\ ChatInv /\ RunTypes /\ SlotTypes /\ chat \in CallRecord
  BY DEF CacheInv, CacheTypes, RunTypes
<1>2. /\ chat' = [chat EXCEPT !.forwards = @ + 1]
      /\ UNCHANGED <<pipeline, calls, made, failed, talk, built, ids, torn, meta, files>>
      /\ chat.at = "generate" /\ chat.forwards < chat.size
  BY DEF Forward, Generating
<1>3. SlotsStay
  <2>1. CASE UNCHANGED <<kv, mass, pend, fed>>
    BY <2>1, SlotsLeft
  <2>2. ASSUME NEW shown, NEW r \in AllPass(shown), Becomes(r), chat.own
        PROVE  SlotsStay
    <3>1. \A l \in Layers : r[l] \in Passes(l, shown)
      BY DEF AllPass
    <3>2. \A l \in Layers : r[l] \in Layer
      BY <1>2, <2>2, <3>1, OwnsIt, PassesShape
    <3> QED
      BY <1>2, <2>2, <3>2, BecomesTyped
  <2> QED
    BY <2>1, <2>2 DEF Forward
<1>4. /\ chat' \in CallRecord /\ chat'.at = chat.at /\ chat'.delta = chat.delta
      /\ chat'.own = chat.own /\ chat'.prompt = chat.prompt /\ chat'.size = chat.size
      /\ chat'.idx = chat.idx /\ chat'.forwards = chat.forwards + 1
  <2> DEFINE n == chat.forwards + 1
  <2>1. n \in Nat
    BY <1>1 DEF CallRecord
  <2>2. chat' = [chat EXCEPT !.forwards = n]
    BY <1>2
  <2> HIDE DEF n
  <2>3. /\ chat' \in CallRecord /\ chat'.at = chat.at /\ chat'.delta = chat.delta
        /\ chat'.own = chat.own /\ chat'.prompt = chat.prompt /\ chat'.size = chat.size
        /\ chat'.idx = chat.idx /\ chat'.forwards = n
    BY <1>1, <2>1, <2>2 DEF CallRecord
  <2> QED
    BY <2>3 DEF n
<1>5. RunTypes'
  BY <1>1, <1>2, <1>4 DEF RunTypes, pipeline, Attempts
<1>6. SlotTypes'
  <2>1. setup' = setup
    BY <1>2 DEF pipeline
  <2> QED
    BY <1>1, <1>2, <1>3, <2>1 DEF SlotTypes, SlotsStay, Layers
<1>7. CallInv'
  <2>1. CallInv /\ setup' = setup
    BY <1>1, <1>2 DEF ChatInv, pipeline
  <2>2. chat.forwards \in Nat /\ chat.size \in Nat
    BY <1>1 DEF CallRecord
  <2> QED
    BY <1>2, <1>4, <2>1, <2>2 DEF CallInv
<1>8. OwnInv' /\ PromptInv' /\ Len(ids') <= setup'.text
  <2>1. setup' = setup
    BY <1>2 DEF pipeline
  <2> QED
    BY <1>1, <1>2, <1>4, <2>1 DEF ChatInv, OwnInv, PromptInv
<1> QED
  BY <1>3, <1>5, <1>6, <1>7, <1>8 DEF CacheInv, CacheTypes, ChatInv

\* One that fails.
LEMMA ForwardFailsTyped ==
  ASSUME CacheInv, ForwardFails
  PROVE  CacheInv' /\ SlotsStay
<1>1. chat.at = "generate" /\ Raise(chat.own) /\ (UNCHANGED failed \/ Fault)
  BY DEF ForwardFails, Generating
<1>2. SlotsStay
  <2>1. CASE UNCHANGED <<kv, mass, pend, fed>>
    BY <2>1, SlotsLeft
  <2>2. ASSUME NEW at \in Layers, NEW shown, NEW ways,
               ways = Breaks(at) \/ ways = Raises(at, shown),
               PassesUntil(at, ways, shown), chat.own
        PROVE  SlotsStay
    <3>1. PICK r : /\ r[at] \in ways
                   /\ \A l \in Layers : /\ l < at => r[l] \in Passes(l, shown)
                                        /\ l > at => r[l] = Unpassed(l)
                   /\ Becomes(r)
      BY <2>2 DEF PassesUntil
    <3>2. CacheTypes /\ CallInv /\ setup.policy # "off" /\ \A l \in Layers : l \in Nat
      BY <2>2, OwnsIt DEF Layers
    <3>3. \A x : x \in Breaks(at) => x \in Layer
      BY <1>1, <3>2, BreaksShape, UpdatesShape
    <3>4. \A x : x \in Raises(at, shown) => x \in Layer
      BY <1>1, <3>2, BreaksShape
    <3>5. \A l \in Layers : Unpassed(l) \in Layer /\ Passes(l, shown) \subseteq Layer
      BY <1>1, <3>2, BreaksShape, PassesShape
    <3>6. \A l \in Layers : r[l] \in Layer
      <4> TAKE l \in Layers
      <4>0. Unpassed(l) \in Layer /\ Passes(l, shown) \subseteq Layer
        BY <3>5
      <4>1. CASE l < at
        <5>1. r[l] \in Passes(l, shown)
          BY <3>1, <3>2, <4>1
        <5> QED
          BY <4>0, <5>1
      <4>2. CASE l > at
        <5>1. r[l] = Unpassed(l)
          BY <3>1, <3>2, <4>2
        <5> QED
          BY <4>0, <5>1
      <4>3. CASE l = at
        <5>1. r[l] \in ways
          BY <3>1, <4>3
        <5>2. CASE ways = Breaks(at)
          BY <3>3, <5>1, <5>2
        <5>3. CASE ways = Raises(at, shown)
          BY <3>4, <5>1, <5>3
        <5> QED
          BY <2>2, <5>2, <5>3
      <4> QED
        BY <3>2, <4>1, <4>2, <4>3
    <3> QED
      BY <1>1, <3>1, <3>6, BecomesTyped
  <2> QED
    BY <2>1, <2>2 DEF ForwardFails
<1> QED
  BY <1>1, <1>2, SlotsLeft, RaiseTyped

\* The other steps of a call.
LEMMA CallTyped ==
  ASSUME CacheInv, OutOfStep \/ CannotBegin \/ BeginGenerate \/ Flush \/ FlushFails
  PROVE  CacheInv'
<1>1. CacheTypes /\ ChatInv /\ RunTypes /\ SlotTypes /\ chat \in CallRecord /\ setup \in Setups
  BY DEF CacheInv, CacheTypes, RunTypes
<1>2. CASE OutOfStep \/ CannotBegin \/ FlushFails
  <2>1. UNCHANGED <<kv, mass, pend, fed>> /\ (UNCHANGED failed \/ Fault)
    BY <1>2 DEF OutOfStep, CannotBegin, FlushFails
  <2>2. Raise(FALSE) \/ Raise(built) \/ Raise(chat.own)
    BY <1>2 DEF OutOfStep, CannotBegin, FlushFails
  <2> QED
    BY <2>1, <2>2, SlotsLeft, RaiseTyped
<1>3. ASSUME NEW at \in {"generate", "written"}, NEW home \in Nat,
             chat' = [chat EXCEPT !.at = at, !.home = home],
             at = "written" => chat.forwards = chat.size,
             chat.at \in {"prepared", "generate"},
             UNCHANGED <<pipeline, cache, calls, made, failed, talk, meta>>,
             files' \in [Attempts -> SUBSET (0..setup.made)]
      PROVE  CacheInv'
  <2>1. /\ chat' \in CallRecord /\ chat'.at = at /\ chat'.delta = chat.delta
        /\ chat'.own = chat.own /\ chat'.prompt = chat.prompt /\ chat'.size = chat.size
        /\ chat'.idx = chat.idx /\ chat'.forwards = chat.forwards
    BY <1>1, <1>3 DEF CallRecord
  <2>2. UNCHANGED setup /\ UNCHANGED cache
    BY <1>3 DEF pipeline
  <2>3. RunTypes'
    BY <1>1, <1>3, <2>1 DEF RunTypes, pipeline, Attempts
  <2>4. SlotTypes'
    BY <1>1, <2>2 DEF SlotTypes, cache, Layers
  <2>5. CallInv'
    <3>1. CallInv
      BY <1>1 DEF ChatInv
    <3> QED
      BY <1>3, <2>1, <2>2, <3>1 DEF CallInv
  <2>6. OwnInv' /\ PromptInv' /\ Len(ids') <= setup'.text
    BY <1>1, <1>3, <2>1, <2>2 DEF ChatInv, OwnInv, PromptInv, cache
  <2> QED
    BY <2>3, <2>4, <2>5, <2>6 DEF CacheInv, CacheTypes, ChatInv
<1>4. CASE BeginGenerate
  <2>1. /\ chat.at = "prepared" /\ chat' = [chat EXCEPT !.at = "generate", !.home = attemptDir]
        /\ UNCHANGED <<pipeline, cache, calls, made, failed, talk, meta, files>>
    BY <1>4 DEF BeginGenerate
  <2>2. attemptDir \in Nat
    <3>1. attemptDir \in 0..setup.attempts
      BY <1>1 DEF RunTypes
    <3> QED
      BY <1>1, <3>1, SetupFacts
  <2>3. files' \in [Attempts -> SUBSET (0..setup.made)]
    BY <1>1, <2>1 DEF RunTypes
  <2> QED
    BY <1>3, <2>1, <2>2, <2>3
<1>5. CASE Flush
  <2>1. /\ chat.at = "generate" /\ chat.forwards = chat.size
        /\ chat' = [chat EXCEPT !.at = "written"]
        /\ files' = [files EXCEPT ![chat.home] = @ \cup {chat.idx}]
        /\ UNCHANGED <<pipeline, cache, calls, made, failed, talk, meta>>
    BY <1>5 DEF Flush
  <2>2. chat.home \in Nat /\ chat' = [chat EXCEPT !.at = "written", !.home = chat.home]
    BY <1>1, <2>1 DEF CallRecord
  <2>3. chat.idx \in 0..setup.made
    <3>1. chat.idx \in Nat /\ chat.idx <= setup.made /\ setup.made \in Nat
      BY <1>1, <2>1, SetupFacts DEF ChatInv, CallInv, CallRecord
    <3> QED
      BY <3>1
  <2>4. files' \in [Attempts -> SUBSET (0..setup.made)]
    BY <1>1, <2>1, <2>3 DEF RunTypes
  <2> QED
    BY <1>3, <2>1, <2>2, <2>4
<1> QED
  BY <1>2, <1>4, <1>5

\* The smaller of two numbers.
LEMMA MinOfTwo ==
  ASSUME NEW a \in Nat, NEW b \in Nat
  PROVE  Min({a, b}) \in Nat /\ Min({a, b}) = IF a <= b THEN a ELSE b
BY DEF Min

\* The text of a call is its prompt and the answer.
LEMMA TextShape ==
  ASSUME RunTypes
  PROVE  /\ Answer \in Seq(Nat) /\ Len(Answer) = chat.size
         /\ Text \in Seq(Nat) /\ Len(Text) = Len(chat.prompt) + chat.size
         /\ \A i \in 1..Len(chat.prompt) : Text[i] = chat.prompt[i]
         /\ \A i \in 1..chat.size : Text[Len(chat.prompt) + i] = Generated(made)
         /\ Generated(made) \in Nat /\ Generated(made) % 2 = 1
<1>1. chat.prompt \in Seq(Nat) /\ chat.size \in Nat /\ made \in Nat
  <2>1. chat \in CallRecord /\ setup \in Setups /\ made \in 0..setup.made
    BY DEF RunTypes
  <2> QED
    BY <2>1, SetupFacts DEF CallRecord
<1>2. Generated(made) \in Nat /\ Generated(made) % 2 = 1
  BY <1>1 DEF Generated
<1>3. Answer = [i \in 1..chat.size |-> Generated(made)]
  BY DEF Answer
<1>4. /\ Answer \in Seq(Nat) /\ Len(Answer) = chat.size
      /\ \A i \in 1..chat.size : Answer[i] = Generated(made)
  BY <1>1, <1>2, <1>3
<1> HIDE DEF Answer
<1>5. Text = chat.prompt \o Answer
  BY DEF Text
<1>6. /\ Text \in Seq(Nat) /\ Len(Text) = Len(chat.prompt) + chat.size
      /\ \A i \in 1..Len(chat.prompt) : Text[i] = chat.prompt[i]
  BY <1>1, <1>4, <1>5
<1>7. ASSUME NEW i \in 1..chat.size PROVE Text[Len(chat.prompt) + i] = Generated(made)
  <2>1. Text[Len(chat.prompt) + i] = Answer[i]
    BY <1>1, <1>4, <1>5
  <2> QED
    BY <1>4, <2>1
<1> QED
  BY <1>2, <1>4, <1>6, <1>7

\* What the provider notes of the text after a call is the start of it.
LEMMA NoteIds ==
  ASSUME CacheInv, Note
  PROVE  /\ ids' \in Seq(Nat) /\ Len(ids') <= setup.text
         /\ ~built => ids' = ids
         /\ built /\ ~Plain => ids' = Text
         /\ built /\ Plain /\ Len(kv[1]) <= Len(Text) =>
              Len(ids') = Len(kv[1]) /\ \A i \in 1..Len(ids') : ids'[i] = Text[i]
         /\ Text \in Seq(Nat) /\ talk' = Text
<1>1. /\ CacheTypes /\ ChatInv /\ RunTypes /\ CallInv /\ chat.at = "written"
      /\ ids \in Seq(Nat) /\ Len(ids) <= setup.text /\ 1 \in Layers /\ talk' = Text
  BY SetupFacts DEF CacheInv, CacheTypes, RunTypes, SlotTypes, ChatInv, Note
<1>2. kv[1] \in Seq(Slot)
  BY <1>1 DEF CacheTypes, SlotTypes
<1>3. Text \in Seq(Nat) /\ Len(Text) <= setup.text
  BY <1>1, TextShape DEF CallInv
<1> HIDE DEF Text
<1> DEFINE n == Min({Len(kv[1]), Len(Text)})
<1>4. /\ Len(kv[1]) \in Nat /\ Len(Text) \in Nat
      /\ n \in Nat /\ n = IF Len(kv[1]) <= Len(Text) THEN Len(kv[1]) ELSE Len(Text)
  <2>1. Len(kv[1]) \in Nat /\ Len(Text) \in Nat
    BY <1>2, <1>3
  <2> QED
    BY ONLY <2>1, MinOfTwo
<1>5. ids' = IF ~built THEN ids ELSE IF Plain THEN SubSeq(Text, 1, n) ELSE Text
  BY DEF Note
<1> HIDE DEF n
<1>6. /\ SubSeq(Text, 1, n) \in Seq(Nat) /\ Len(SubSeq(Text, 1, n)) = n /\ n <= Len(Text)
      /\ \A i \in 1..n : SubSeq(Text, 1, n)[i] = Text[i]
  BY <1>3, <1>4
<1>7. setup.text \in Nat
  BY <1>1, SetupFacts DEF RunTypes
<1>8. Len(SubSeq(Text, 1, n)) <= setup.text
  BY <1>3, <1>4, <1>6, <1>7
<1>9. CASE ~built
  BY <1>1, <1>3, <1>5, <1>9
<1>10. CASE built /\ ~Plain
  BY <1>1, <1>3, <1>5, <1>10
<1>11. CASE built /\ Plain
  BY <1>1, <1>3, <1>4, <1>5, <1>6, <1>8, <1>11
<1> QED
  BY <1>9, <1>10, <1>11

\* The end of a call.
LEMMA NoteTyped ==
  ASSUME CacheInv, Note
  PROVE  CacheInv'
<1>1. CacheTypes /\ ChatInv /\ RunTypes /\ SlotTypes /\ chat \in CallRecord
  BY DEF CacheInv, CacheTypes, RunTypes
<1>2. /\ meta' = Append(meta, [idx |-> chat.idx, home |-> chat.home]) /\ chat' = Idle
      /\ UNCHANGED <<pipeline, calls, made, failed, built, kv, mass, pend, fed, torn, files>>
  BY DEF Note
<1>3. ids' \in Seq(Nat) /\ Len(ids') <= setup.text /\ talk' \in Seq(Nat)
  BY NoteIds
<1>4. chat' \in CallRecord /\ chat'.at = "free" /\ chat'.own = FALSE /\ setup' = setup
  BY <1>2, IdleShape DEF pipeline
<1>5. meta' \in Seq(Entry)
  <2> DEFINE e == [idx |-> chat.idx, home |-> chat.home]
  <2>1. e \in Entry /\ meta \in Seq(Entry)
    BY <1>1 DEF RunTypes, CallRecord, Entry
  <2> HIDE DEF e
  <2>2. meta' = Append(meta, e)
    BY <1>2 DEF e
  <2> QED
    BY <2>1, <2>2
<1>6. RunTypes'
  BY <1>1, <1>2, <1>3, <1>4, <1>5 DEF RunTypes, pipeline, Attempts
<1>7. SlotTypes'
  BY <1>1, <1>2, <1>3, <1>4 DEF SlotTypes, Layers
<1>8. CallInv' /\ OwnInv' /\ PromptInv' /\ Len(ids') <= setup'.text
  BY <1>1, <1>2, <1>3, <1>4 DEF ChatInv, CallInv, OwnInv, PromptInv
<1> QED
  BY <1>6, <1>7, <1>8 DEF CacheInv, CacheTypes, ChatInv

\* What a step of run_attempt leaves to the calls.
LEMMA PipeTyped ==
  ASSUME CacheInv, UNCHANGED <<setup, made, stray, files>>,
         attempt' \in Attempts, attemptDir' \in 0..setup.attempts,
         stage' \in {"wait", "ready", "run", "wait again", "collect", "over", "closed"},
         calls' = calls \/ calls' = 0, failed' \in 0..MaxFailed, talk' = talk \/ talk' = <<>>,
         meta' = meta \/ meta' = <<>>, strayed' \subseteq Nat,
         saved' \subseteq [attempt : Nat, iters : SUBSET Entry],
         \/ UNCHANGED <<chat, cache, talk>>
         \/ Dropped /\ built' = FALSE /\ ids' = <<>> /\ chat' = [chat EXCEPT !.own = FALSE]
  PROVE  CacheInv'
<1>1. CacheTypes /\ ChatInv /\ RunTypes /\ SlotTypes /\ chat \in CallRecord /\ setup \in Setups
  BY DEF CacheInv, CacheTypes, RunTypes
<1>2. Attempts' = Attempts /\ Layers' = Layers /\ setup.text \in Nat
  BY <1>1, SetupFacts DEF Attempts, Layers
<1>3. <<>> \in Seq(Nat) /\ <<>> \in Seq(Entry) /\ setup' = setup /\ made' = made
  BY EmptySeq
<1>4. talk' \in Seq(Nat) /\ meta' \in Seq(Entry)
  BY <1>1, <1>3 DEF RunTypes
<1>5. /\ chat' \in CallRecord /\ chat'.at = chat.at /\ chat'.delta = chat.delta
      /\ chat'.prompt = chat.prompt /\ chat'.size = chat.size
      /\ chat'.idx = chat.idx /\ chat'.forwards = chat.forwards
      /\ chat'.own = chat.own \/ chat'.own = FALSE
  BY <1>1 DEF CallRecord
<1>6. calls' \in 0..made'
  <2>1. calls \in 0..made /\ made \in Nat /\ made' = made
    <3>1. calls \in 0..made /\ made \in 0..setup.made
      BY <1>1 DEF RunTypes
    <3>2. setup.made \in Nat
      BY <1>1, SetupFacts
    <3> QED
      BY ONLY <1>3, <3>1, <3>2
  <2>2. calls' = calls \/ calls' = 0
    OBVIOUS
  <2> QED
    BY ONLY <2>1, <2>2
<1>7. RunTypes'
  BY <1>1, <1>2, <1>4, <1>5, <1>6 DEF RunTypes
<1>8. SlotTypes' /\ Len(ids') <= setup'.text
  <2>1. CASE UNCHANGED cache
    BY <1>1, <1>2, <2>1 DEF SlotTypes, cache, ChatInv
  <2>2. CASE Dropped /\ built' = FALSE /\ ids' = <<>>
    <3>1. SlotsStay /\ torn' = FALSE
      BY <2>2, DroppedTyped
    <3>2. Len(<<>>) = 0
      OBVIOUS
    <3>3. Len(ids') <= setup'.text
      BY ONLY <1>2, <1>3, <2>2, <3>2
    <3> QED
      BY <1>2, <1>3, <2>2, <3>1, <3>3 DEF SlotTypes, SlotsStay
  <2> QED
    BY <2>1, <2>2
<1>9. CallInv'
  <2>1. CallInv
    BY <1>1 DEF ChatInv
  <2> QED
    BY <1>5, <2>1 DEF CallInv
<1>10. OwnInv' /\ PromptInv'
  <2>1. CASE UNCHANGED <<chat, cache, talk>>
    BY <1>1, <2>1 DEF ChatInv, OwnInv, PromptInv, cache
  <2>2. CASE built' = FALSE /\ chat' = [chat EXCEPT !.own = FALSE]
    <3>1. chat'.own = FALSE
      BY <1>1, <2>2 DEF CallRecord
    <3> QED
      BY <2>2, <3>1 DEF OwnInv, PromptInv
  <2> QED
    BY <2>1, <2>2
<1> QED
  BY <1>7, <1>8, <1>9, <1>10 DEF CacheInv, CacheTypes, ChatInv

\* The steps of run_attempt that change neither the recordings nor where it is.
Passing == AwaitIdle \/ PreflightFails \/ AgentEnds \/ FinishFails

\* The next attempt is one.
LEMMA NextIsOne ==
  ASSUME RunTypes, NextAttempt
  PROVE  attempt' \in Attempts /\ stage' \in {"wait", "over"}
<1>1. attempt \in 1..setup.attempts /\ setup.attempts \in Nat
  BY SetupFacts DEF RunTypes, Attempts
<1> QED
  BY <1>1 DEF NextAttempt, Attempts

\* What finishing an attempt leaves.
LEMMA FinishTyped ==
  ASSUME RunTypes, Finish
  PROVE  /\ attemptDir' \in 0..setup.attempts /\ strayed' \subseteq Nat
         /\ saved' \subseteq [attempt : Nat, iters : SUBSET Entry]
<1>1. attemptDir \in Nat /\ 0 \in 0..setup.attempts /\ strayed \subseteq Nat
  <2>1. setup \in Setups /\ attemptDir \in 0..setup.attempts /\ strayed \subseteq Nat
    BY DEF RunTypes
  <2> QED
    BY <2>1, SetupFacts
<1>2. ToSet(meta) \subseteq Entry /\ saved \subseteq [attempt : Nat, iters : SUBSET Entry]
  <2>1. meta \in Seq(Entry) /\ saved \subseteq [attempt : Nat, iters : SUBSET Entry]
    BY DEF RunTypes
  <2>2. \A i \in DOMAIN meta : meta[i] \in Entry
    BY <2>1
  <2>3. ToSet(meta) \subseteq Entry
    BY <2>2 DEF ToSet
  <2> QED
    BY <2>1, <2>3
<1>3. /\ saved' = saved \cup {[attempt |-> attemptDir, iters |-> ToSet(meta)]}
      /\ attemptDir' = 0 /\ strayed' = strayed \cup {a \in {attemptDir} : Overlapped}
  BY DEF Finish
<1>4. strayed' \subseteq Nat /\ attemptDir' \in 0..setup.attempts
  BY <1>1, <1>3
<1>5. [attempt |-> attemptDir, iters |-> ToSet(meta)] \in [attempt : Nat, iters : SUBSET Entry]
  BY <1>1, <1>2
<1>6. saved' \subseteq [attempt : Nat, iters : SUBSET Entry]
  BY <1>2, <1>3, <1>5
<1> QED
  BY <1>4, <1>6

\* The steps of run_attempt.
LEMMA PipeStepTyped ==
  ASSUME CacheInv, Passing \/ StartAttempt \/ FinishAttempt \/ Exit
  PROVE  CacheInv'
<1>1. /\ CacheTypes /\ RunTypes /\ attempt \in Attempts /\ attemptDir \in 0..setup.attempts
      /\ failed \in 0..MaxFailed /\ strayed \subseteq Nat
      /\ saved \subseteq [attempt : Nat, iters : SUBSET Entry]
      /\ attempt \in Nat /\ attempt \in 0..setup.attempts
  <2>1. RunTypes /\ setup \in Setups /\ attempt \in 1..setup.attempts
    BY DEF CacheInv, CacheTypes, RunTypes, Attempts
  <2>2. setup.attempts \in Nat
    BY <2>1, SetupFacts
  <2>3. attempt \in Nat /\ attempt \in 0..setup.attempts
    BY ONLY <2>1, <2>2
  <2> QED
    BY <2>1, <2>3 DEF CacheInv, CacheTypes, RunTypes
<1>2. UNCHANGED failed \/ Fault => failed' \in 0..MaxFailed
  BY SlotsLeft
<1>3. CASE AwaitIdle \/ AgentEnds
  BY <1>1, <1>3, PipeTyped DEF AwaitIdle, AgentEnds, PipeFrame
<1>4. CASE PreflightFails \/ FinishFails
  <2>1. attempt' \in Attempts /\ stage' \in {"wait", "over"}
    BY <1>1, <1>4, NextIsOne DEF PreflightFails, FinishFails
  <2>2. /\ UNCHANGED <<setup, made, stray, files, chat, cache, talk, meta, attemptDir, calls>>
        /\ UNCHANGED <<saved, strayed>> /\ (UNCHANGED failed \/ Fault)
    BY <1>4 DEF PreflightFails, FinishFails, PipeFrame
  <2> QED
    BY <1>1, <1>2, <2>1, <2>2, PipeTyped
<1>5. CASE StartAttempt
  <2>1. /\ stage' = "run" /\ Forgets /\ calls' = 0 /\ attemptDir' = attempt
        /\ meta' = <<>> /\ talk' = <<>>
        /\ strayed' = strayed \cup {a \in {attempt} : Overlapped}
        /\ UNCHANGED <<attempt, setup, made, stray, failed, files, saved>>
    BY <1>5 DEF StartAttempt
  <2>2. strayed' \subseteq Nat
    BY <1>1, <2>1
  <2> QED
    BY <1>1, <2>1, <2>2, PipeTyped DEF Forgets
<1>6. CASE FinishAttempt
  <2>1. attempt' \in Attempts /\ stage' \in {"wait", "over"}
    BY <1>1, <1>6, NextIsOne DEF FinishAttempt
  <2>2. UNCHANGED <<setup, made, stray, files, chat, cache, talk, meta, calls, failed>>
    BY <1>6 DEF FinishAttempt, PipeFrame
  <2>3. /\ attemptDir' \in 0..setup.attempts /\ strayed' \subseteq Nat
        /\ saved' \subseteq [attempt : Nat, iters : SUBSET Entry]
    BY <1>1, <1>6, FinishTyped DEF FinishAttempt
  <2> QED
    BY <1>1, <2>1, <2>2, <2>3, PipeTyped
<1>7. CASE Exit
  <2>1. /\ stage' = "closed" /\ Forgets
        /\ UNCHANGED <<setup, made, stray, files, talk, meta, calls, failed, attempt>>
    BY <1>7 DEF Exit, PipeFrame
  <2>2. /\ attemptDir' \in 0..setup.attempts /\ strayed' \subseteq Nat
        /\ saved' \subseteq [attempt : Nat, iters : SUBSET Entry]
    BY <1>1, <1>7, FinishTyped DEF Exit
  <2> QED
    BY <1>1, <2>1, <2>2, PipeTyped DEF Forgets
<1> QED
  BY <1>3, <1>4, <1>5, <1>6, <1>7 DEF Passing

\* And all together.
LEMMA CacheStep ==
  ASSUME CacheInv, CacheNext
  PROVE  CacheInv'
<1>1. CASE CallStep
  BY <1>1, PrepareTyped, CallTyped, ForwardTyped, ForwardFailsTyped, NoteTyped DEF CallStep
<1> QED
  BY <1>1, ChatTyped, PipeStepTyped DEF CacheNext, Passing

\* A step that changes nothing.
LEMMA CacheStays ==
  ASSUME CacheInv, UNCHANGED cacheVars
  PROVE  CacheInv'
BY DEF CacheInv, CacheTypes, RunTypes, SlotTypes, ChatInv, CallInv, OwnInv, PromptInv,
       cacheVars, Attempts, Layers

\* No call, no cache, no attempt.
LEMMA CacheBegins ==
  ASSUME CacheInit
  PROVE  CacheInv
<1>1. <<>> \in Seq(Slot) /\ <<>> \in Seq(Nat) /\ <<>> \in Seq(Entry) /\ Len(<<>>) = 0
  OBVIOUS
<1>2. /\ setup \in Setups /\ setup.made \in Nat /\ setup.text \in Nat /\ 1 \in Attempts
      /\ 0 \in 0..setup.attempts /\ MaxFailed \in Nat
  BY SetupFacts, CacheAssumption DEF CacheInit, Attempts
<1>3. chat = Idle /\ chat \in CallRecord /\ chat.at = "free" /\ chat.own = FALSE
  BY IdleShape DEF CacheInit
<1>4. RunTypes
  <2>1. 0 \in 0..setup.made /\ 0 \in 0..0 /\ 0 \in 0..MaxFailed /\ 0 \in Nat
    BY <1>2
  <2>2. files \in [Attempts -> SUBSET (0..setup.made)]
    BY DEF CacheInit
  <2> QED
    BY <1>1, <1>2, <1>3, <2>1, <2>2 DEF CacheInit, RunTypes
<1>5. SlotTypes
  BY <1>1 DEF CacheInit, SlotTypes
<1>6. ChatInv
  BY <1>1, <1>2, <1>3 DEF CacheInit, ChatInv, CallInv, OwnInv, PromptInv
<1> QED
  BY <1>4, <1>5, <1>6 DEF CacheInv, CacheTypes

\* The domains hold throughout.
THEOREM CacheRuns == CacheSpec => []CacheInv
<1>1. CacheInv /\ [CacheNext]_cacheVars => CacheInv'
  BY CacheStep, CacheStays
<1> QED
  BY <1>1, CacheBegins, PTL DEF CacheSpec

\* CacheTypeOK holds for any policies, layers and bounds: in particular the numbers
\* of calls and recordings, and the length of what the provider noted, are bounded by
\* the calls made and by the text of a conversation.
THEOREM CacheKeepsTypes == CacheSpec => []CacheTypeOK
<1>1. CacheInv => CacheTypeOK
  <2> SUFFICES ASSUME CacheInv PROVE CacheTypeOK
    OBVIOUS
  <2>1. CacheTypes /\ RunTypes /\ SlotTypes /\ Len(ids) <= setup.text /\ chat \in CallRecord
    BY DEF CacheInv, CacheTypes, RunTypes, ChatInv
  <2>2. calls \in 0..setup.made
    <3>1. setup.made \in Nat /\ made \in 0..setup.made /\ calls \in 0..made
      BY <2>1, SetupFacts DEF RunTypes
    <3> QED
      BY <3>1
  <2>3. DOMAIN kv = Layers /\ DOMAIN mass = Layers
    BY <2>1 DEF SlotTypes
  <2>4. \A a \in Attempts : files[a] \subseteq 0..setup.made
    BY <2>1 DEF RunTypes
  <2>5. chat.at \in {"free", "called", "prepared", "generate", "written"}
    BY <2>1 DEF CallRecord
  <2> QED
    BY <2>1, <2>2, <2>3, <2>4, <2>5 DEF CacheTypeOK, RunTypes
<1> QED
  BY <1>1, CacheRuns, PTL

-----------------------------------------------------------------------------
(* The recordings of an attempt and its meta.json.                         *)

\* Where run_attempt is past a wait, a call under way began after it.
LateInv ==
  stage \in {"ready", "collect", "over", "closed"} /\ chat.at # "free" => chat.late

\* The provider is at the attempt whose agent runs.
StageInv == stage \in {"run", "wait again", "collect"} => attemptDir = attempt

\* The call writes into a directory.
AtWork == chat.at \in {"generate", "written"}

\* Of an attempt that has not started there is nothing.
NotYet(x) == attempt < x \/ (attempt = x /\ stage \in {"wait", "ready"})
FreshInv ==
  \A x \in Attempts : NotYet(x) =>
    /\ files[x] = {} /\ attemptDir # x /\ (AtWork => chat.home # x)
    /\ \A m \in saved : m.attempt # x

\* The recordings of an attempt, as they are noted; and what the provider has noted,
\* or is about to.
Entries(a) == {[idx |-> i, home |-> a] : i \in files[a]}
Noted(a) ==
  ToSet(meta) \cup (IF chat.at = "written" THEN {[idx |-> chat.idx, home |-> a]} ELSE {})

\* The recordings at the provider have the numbers it gave out, and are what it
\* noted, unless a call overlapped the start.
DirInv ==
  attemptDir # 0 /\ attemptDir \notin strayed =>
    /\ \A i \in files[attemptDir] : i < calls
    /\ chat.at # "free" => chat.idx < calls
    /\ chat.at \in {"called", "prepared"} => chat.idx \notin files[attemptDir]
    /\ AtWork => chat.home = attemptDir
    /\ Noted(attemptDir) = Entries(attemptDir)

\* A call writes into the directory of an attempt, where its number is free.
HomeInv ==
  /\ AtWork => chat.home \in Attempts
  /\ chat.at = "generate" /\ chat.home \notin strayed => chat.idx \notin files[chat.home]

\* What has been saved is of an attempt the provider has left, and nobody records
\* there any more.
SavedInv ==
  \A m \in saved :
    /\ m.attempt \in Attempts /\ m.attempt # attemptDir
    /\ m.attempt \notin strayed =>
         m.iters = Entries(m.attempt) /\ (chat.at = "generate" => chat.home # m.attempt)

RecInv == LateInv /\ StageInv /\ FreshInv /\ DirInv /\ HomeInv /\ SavedInv

\* A step of a call that neither writes nor notes.
LEMMA RecQuiet ==
  ASSUME CacheInv, RecInv, UNCHANGED <<pipeline, calls, meta, files>>,
         chat.at \notin {"free", "written"}, chat'.at # "written",
         (chat'.idx = chat.idx /\ chat'.late = chat.late) \/ chat'.at = "free",
         chat'.at \in {"called", "prepared"} => chat.at \in {"called", "prepared"},
         chat'.at = "generate" =>
           \/ chat.at = "generate" /\ chat'.home = chat.home
           \/ chat.at = "prepared" /\ attemptDir # 0 /\ chat'.home = attemptDir
  PROVE  RecInv'
<1>1. /\ UNCHANGED <<setup, stage, attempt, attemptDir, strayed, saved, calls, meta, files>>
      /\ Attempts' = Attempts /\ attemptDir \in 0..setup.attempts /\ setup.attempts \in Nat
  <2>1. setup \in Setups /\ attemptDir \in 0..setup.attempts
    BY DEF CacheInv, CacheTypes, RunTypes
  <2> QED
    BY <2>1, SetupFacts DEF pipeline, Attempts
<1>2. attemptDir # 0 => attemptDir \in Attempts
  BY <1>1 DEF Attempts
<1>3. /\ \A a : Entries(a)' = Entries(a) /\ Noted(a)' = ToSet(meta) /\ Noted(a) = ToSet(meta)
      /\ \A x : NotYet(x)' <=> NotYet(x)
      /\ AtWork' <=> chat'.at = "generate"
      /\ AtWork <=> chat.at = "generate"
  BY <1>1 DEF Entries, Noted, NotYet, AtWork
<1>4. LateInv' /\ StageInv'
  BY <1>1 DEF RecInv, LateInv, StageInv
<1>5. FreshInv'
  BY <1>1, <1>3 DEF RecInv, FreshInv
<1>6. DirInv'
  BY <1>1, <1>3 DEF RecInv, DirInv
<1>7. HomeInv'
  BY <1>1, <1>2, <1>3 DEF RecInv, HomeInv, DirInv
<1>8. SavedInv'
  BY <1>1, <1>3 DEF RecInv, SavedInv
<1> QED
  BY <1>4, <1>5, <1>6, <1>7, <1>8 DEF RecInv

\* A new call has a number that no recording has.
LEMMA RecChat ==
  ASSUME CacheInv, RecInv, Chat
  PROVE  RecInv'
<1>1. /\ chat.at = "free" /\ stage \notin {"over", "closed"} /\ calls' = calls + 1
      /\ UNCHANGED <<setup, stage, attempt, attemptDir, strayed, saved, meta, files>>
      /\ \E p \in Prompts : \E size \in 1..2 :
           chat' = [Idle EXCEPT !.at = "called", !.idx = calls, !.prompt = p,
                               !.size = size, !.late = stage \in {"ready", "collect"}]
  BY DEF Chat
<1>2. chat'.at = "called" /\ chat'.idx = calls /\ chat'.late = (stage \in {"ready", "collect"})
  BY <1>1 DEF Idle
<1>3. calls \in Nat /\ Attempts' = Attempts /\ files \in [Attempts -> SUBSET (0..setup.made)]
  <2>1. setup \in Setups /\ calls \in 0..made /\ made \in 0..setup.made
    BY DEF CacheInv, CacheTypes, RunTypes
  <2>2. files \in [Attempts -> SUBSET (0..setup.made)]
    BY DEF CacheInv, CacheTypes, RunTypes
  <2> QED
    BY <1>1, <2>1, <2>2, SetupFacts DEF Attempts
<1>4. /\ \A a : Entries(a)' = Entries(a) /\ Noted(a)' = ToSet(meta) /\ Noted(a) = ToSet(meta)
      /\ \A x : NotYet(x)' <=> NotYet(x)
      /\ ~AtWork'
  BY <1>1, <1>2 DEF Entries, Noted, NotYet, AtWork
<1>5. LateInv' /\ StageInv'
  BY <1>1, <1>2 DEF RecInv, LateInv, StageInv
<1>6. FreshInv'
  BY <1>1, <1>3, <1>4 DEF RecInv, FreshInv
<1>7. DirInv'
  <2> SUFFICES ASSUME attemptDir' # 0, attemptDir' \notin strayed' PROVE DirInv'
    BY DEF DirInv
  <2>1. \A i \in files[attemptDir] : i < calls
    BY <1>1 DEF RecInv, DirInv
  <2>2. \A i \in files[attemptDir] : i \in Nat
    <3>1. attemptDir \in Attempts /\ setup.made \in Nat
      <4>1. setup \in Setups /\ attemptDir \in 0..setup.attempts
        BY DEF CacheInv, CacheTypes, RunTypes
      <4> QED
        BY <1>1, <4>1, SetupFacts DEF Attempts
    <3> QED
      BY <1>3, <3>1
  <2>3. /\ \A i \in files[attemptDir] : i < calls'
        /\ chat'.idx < calls' /\ chat'.idx \notin files[attemptDir]
    BY <1>1, <1>2, <1>3, <2>1, <2>2
  <2> QED
    BY <1>1, <1>2, <1>4, <2>3 DEF RecInv, DirInv
<1>8. HomeInv'
  BY <1>2, <1>4 DEF HomeInv
<1>9. SavedInv'
  BY <1>1, <1>2, <1>3, <1>4 DEF RecInv, SavedInv
<1> QED
  BY <1>5, <1>6, <1>7, <1>8, <1>9 DEF RecInv

\* A recording is written.
LEMMA RecFlush ==
  ASSUME CacheInv, RecInv, Flush
  PROVE  RecInv'
<1>1. /\ chat.at = "generate" /\ chat.idx \notin files[chat.home]
      /\ files' = [files EXCEPT ![chat.home] = @ \cup {chat.idx}]
      /\ chat' = [chat EXCEPT !.at = "written"]
      /\ UNCHANGED <<setup, stage, attempt, attemptDir, strayed, saved, calls, meta>>
  BY DEF Flush, pipeline
<1>2. /\ chat'.at = "written" /\ chat'.idx = chat.idx /\ chat'.home = chat.home
      /\ chat'.late = chat.late
  <2>1. chat \in CallRecord
    BY DEF CacheInv, CacheTypes, RunTypes
  <2> QED
    BY <1>1, <2>1 DEF CallRecord
<1>3. /\ Attempts' = Attempts /\ chat.home \in Attempts /\ AtWork /\ AtWork'
      /\ \A a \in Attempts :
           files'[a] = IF a = chat.home THEN files[a] \cup {chat.idx} ELSE files[a]
  <2>1. files \in [Attempts -> SUBSET (0..setup.made)]
    BY DEF CacheInv, CacheTypes, RunTypes
  <2>2. AtWork /\ AtWork' /\ chat.home \in Attempts /\ Attempts' = Attempts
    BY <1>1, <1>2 DEF AtWork, RecInv, HomeInv, Attempts
  <2> QED
    BY <1>1, <2>1, <2>2
<1>4. \A x : NotYet(x)' <=> NotYet(x)
  BY <1>1 DEF NotYet
<1>5. LateInv' /\ StageInv'
  BY <1>1, <1>2 DEF RecInv, LateInv, StageInv
<1>6. FreshInv'
  BY <1>1, <1>2, <1>3, <1>4 DEF RecInv, FreshInv
<1>7. DirInv'
  <2> SUFFICES ASSUME attemptDir # 0, attemptDir \notin strayed PROVE DirInv'
    BY <1>1 DEF DirInv
  <2>1. /\ chat.home = attemptDir /\ attemptDir \in Attempts /\ chat.idx < calls
        /\ \A i \in files[attemptDir] : i < calls
        /\ Noted(attemptDir) = Entries(attemptDir)
    BY <1>1, <1>3 DEF RecInv, DirInv
  <2>2. files'[attemptDir] = files[attemptDir] \cup {chat.idx}
    BY <1>3, <2>1
  <2>3. Noted(attemptDir)' = Entries(attemptDir)'
    <3>1. Noted(attemptDir)' = ToSet(meta) \cup {[idx |-> chat.idx, home |-> attemptDir]}
      BY <1>1, <1>2 DEF Noted
    <3>2. Entries(attemptDir)' = Entries(attemptDir) \cup {[idx |-> chat.idx, home |-> attemptDir]}
      BY <1>1, <2>2 DEF Entries
    <3>3. Noted(attemptDir) = ToSet(meta)
      BY <1>1 DEF Noted
    <3> QED
      BY <2>1, <3>1, <3>2, <3>3
  <2> QED
    BY <1>1, <1>2, <2>1, <2>2, <2>3 DEF DirInv
<1>8. HomeInv'
  BY <1>2, <1>3 DEF HomeInv
<1>9. SavedInv'
  <2> SUFFICES ASSUME NEW m \in saved
               PROVE  /\ m.attempt \in Attempts /\ m.attempt # attemptDir
                      /\ m.attempt \notin strayed => m.iters = Entries(m.attempt)'
    BY <1>1, <1>2, <1>3 DEF SavedInv
  <2>1. /\ m.attempt \in Attempts /\ m.attempt # attemptDir
        /\ m.attempt \notin strayed =>
             m.iters = Entries(m.attempt) /\ chat.home # m.attempt
    BY <1>1 DEF RecInv, SavedInv
  <2>2. chat.home # m.attempt => Entries(m.attempt)' = Entries(m.attempt)
    BY <1>1, <1>3, <2>1 DEF Entries
  <2> QED
    BY <2>1, <2>2
<1> QED
  BY <1>5, <1>6, <1>7, <1>8, <1>9 DEF RecInv

\* It is noted.
LEMMA RecNote ==
  ASSUME CacheInv, RecInv, Note
  PROVE  RecInv'
<1>1. /\ chat.at = "written" /\ chat' = Idle
      /\ meta' = Append(meta, [idx |-> chat.idx, home |-> chat.home])
      /\ UNCHANGED <<setup, stage, attempt, attemptDir, strayed, saved, calls, files>>
  BY DEF Note, pipeline
<1>2. chat'.at = "free" /\ Attempts' = Attempts /\ AtWork /\ ~AtWork'
  BY <1>1, IdleShape DEF AtWork, Attempts
<1>3. ToSet(meta') = ToSet(meta) \cup {[idx |-> chat.idx, home |-> chat.home]}
  <2> DEFINE e == [idx |-> chat.idx, home |-> chat.home]
  <2>1. meta \in Seq(Entry) /\ e \in Entry
    BY DEF CacheInv, CacheTypes, RunTypes, CallRecord, Entry
  <2> HIDE DEF e
  <2>2. meta' = Append(meta, e)
    BY <1>1 DEF e
  <2>3. /\ Len(meta') = Len(meta) + 1 /\ meta'[Len(meta) + 1] = e /\ Len(meta) \in Nat
        /\ \A i \in 1..Len(meta) : meta'[i] = meta[i]
        /\ DOMAIN meta' = 1..Len(meta') /\ DOMAIN meta = 1..Len(meta)
    BY <2>1, <2>2
  <2>4. \A x : x \in ToSet(meta') <=> x \in ToSet(meta) \/ x = e
    <3> TAKE x
    <3>1. x \in ToSet(meta') <=> \E i \in 1..(Len(meta) + 1) : meta'[i] = x
      BY <2>3 DEF ToSet
    <3>2. x \in ToSet(meta) <=> \E i \in 1..Len(meta) : meta[i] = x
      BY <2>3 DEF ToSet
    <3>3. \A i : i \in 1..(Len(meta) + 1) <=> i \in 1..Len(meta) \/ i = Len(meta) + 1
      BY <2>3
    <3> QED
      BY <2>3, <3>1, <3>2, <3>3
  <2> QED
    BY <2>4 DEF e
<1>4. /\ \A a : Entries(a)' = Entries(a)
      /\ \A x : NotYet(x)' <=> NotYet(x)
      /\ \A a : Noted(a)' = ToSet(meta')
      /\ Noted(chat.home) = ToSet(meta')
  <2>1. Noted(chat.home) = ToSet(meta') /\ \A a : Noted(a)' = ToSet(meta')
    BY <1>1, <1>2, <1>3 DEF Noted
  <2> QED
    BY <1>1, <2>1 DEF Entries, NotYet
<1>5. LateInv' /\ StageInv'
  BY <1>1, <1>2 DEF RecInv, LateInv, StageInv
<1>6. FreshInv'
  BY <1>1, <1>2, <1>4 DEF RecInv, FreshInv
<1>7. DirInv'
  <2>1. attemptDir # 0 /\ attemptDir \notin strayed => chat.home = attemptDir
    BY <1>2 DEF RecInv, DirInv
  <2>2. attemptDir # 0 /\ attemptDir \notin strayed =>
          Noted(attemptDir)' = Entries(attemptDir)'
    <3>1. attemptDir # 0 /\ attemptDir \notin strayed =>
            Noted(attemptDir) = Entries(attemptDir)
      BY DEF RecInv, DirInv
    <3> QED
      BY <1>1, <1>4, <2>1, <3>1
  <2> QED
    BY <1>1, <1>2, <2>2 DEF RecInv, DirInv
<1>8. HomeInv' /\ SavedInv'
  BY <1>1, <1>2, <1>4 DEF RecInv, HomeInv, SavedInv
<1> QED
  BY <1>5, <1>6, <1>7, <1>8 DEF RecInv

\* Attempts are numbered from one.
LEMMA AttemptFacts ==
  ASSUME CacheInv
  PROVE  /\ attempt \in Attempts /\ attempt \in Nat /\ chat \in CallRecord
         /\ \A x \in Attempts : x \in Nat /\ x # 0
<1>1. setup \in Setups /\ attempt \in Attempts /\ chat \in CallRecord
  BY DEF CacheInv, CacheTypes, RunTypes
<1>2. setup.attempts \in Nat
  BY <1>1, SetupFacts
<1>3. \A x \in Attempts : x \in Nat /\ x # 0
  BY <1>2 DEF Attempts
<1> QED
  BY <1>1, <1>3

\* Waiting for the provider, or an agent that ends.
LEMMA RecWait ==
  ASSUME CacheInv, RecInv, AwaitIdle \/ AgentEnds
  PROVE  RecInv'
<1>1. /\ UNCHANGED <<setup, attempt, attemptDir, strayed, saved, calls, meta, files, chat>>
      /\ \/ stage' = "ready" /\ stage = "wait" /\ chat.at = "free"
         \/ stage' = "collect" /\ stage = "wait again" /\ chat.at = "free"
         \/ stage' = "wait again" /\ stage = "run"
  BY DEF AwaitIdle, AgentEnds, PipeFrame
<1>2. /\ \A a : Entries(a)' = Entries(a) /\ Noted(a)' = Noted(a)
      /\ \A x : NotYet(x)' <=> NotYet(x)
      /\ AtWork' <=> AtWork
      /\ Attempts' = Attempts
  BY <1>1 DEF Entries, Noted, NotYet, AtWork, Attempts
<1>3. LateInv' /\ StageInv'
  BY <1>1 DEF RecInv, LateInv, StageInv
<1>4. FreshInv'
  BY <1>1, <1>2 DEF RecInv, FreshInv
<1>5. DirInv'
  BY <1>1, <1>2 DEF RecInv, DirInv
<1>6. HomeInv'
  BY <1>1, <1>2 DEF RecInv, HomeInv
<1>7. SavedInv'
  BY <1>1, <1>2 DEF RecInv, SavedInv
<1> QED
  BY <1>3, <1>4, <1>5, <1>6, <1>7 DEF RecInv

\* After an attempt there are fewer that have not started.
LEMMA NextIsLater ==
  ASSUME CacheInv, RecInv, NextAttempt, stage \in {"ready", "collect"}, UNCHANGED chat
  PROVE  /\ \A x \in Attempts : NotYet(x)' => NotYet(x) /\ attempt < x
         /\ LateInv' /\ StageInv'
<1>1. attempt \in Nat /\ \A x \in Attempts : x \in Nat
  BY AttemptFacts
<1>2. \/ attempt' = attempt + 1 /\ stage' = "wait"
      \/ attempt' = attempt /\ stage' = "over"
  BY DEF NextAttempt
<1>3. \A x \in Attempts : NotYet(x)' => NotYet(x) /\ attempt < x
  BY <1>1, <1>2 DEF NotYet
<1>4. LateInv' /\ StageInv'
  BY <1>2 DEF RecInv, LateInv, StageInv
<1> QED
  BY <1>3, <1>4

\* An attempt that comes to nothing before it starts, or whose meta.json cannot be
\* written.
LEMMA RecGivesUp ==
  ASSUME CacheInv, RecInv, PreflightFails \/ FinishFails
  PROVE  RecInv'
<1>1. /\ UNCHANGED <<setup, attemptDir, strayed, saved, calls, meta, files, chat>>
      /\ stage \in {"ready", "collect"} /\ NextAttempt
  BY DEF PreflightFails, FinishFails, PipeFrame
<1>2. /\ \A a : Entries(a)' = Entries(a) /\ Noted(a)' = Noted(a)
      /\ AtWork' <=> AtWork
      /\ Attempts' = Attempts
  BY <1>1 DEF Entries, Noted, AtWork, Attempts
<1>3. LateInv' /\ StageInv' /\ \A x \in Attempts : NotYet(x)' => NotYet(x)
  BY <1>1, NextIsLater
<1>4. FreshInv'
  BY <1>1, <1>2, <1>3 DEF RecInv, FreshInv
<1>5. DirInv'
  BY <1>1, <1>2 DEF RecInv, DirInv
<1>6. HomeInv'
  BY <1>1, <1>2 DEF RecInv, HomeInv
<1>7. SavedInv'
  BY <1>1, <1>2 DEF RecInv, SavedInv
<1> QED
  BY <1>3, <1>4, <1>5, <1>6, <1>7 DEF RecInv

\* An attempt starts.
LEMMA RecStart ==
  ASSUME CacheInv, RecInv, StartAttempt
  PROVE  RecInv'
<1>1. /\ stage = "ready" /\ stage' = "run" /\ calls' = 0 /\ attemptDir' = attempt
      /\ meta' = <<>> /\ strayed' = strayed \cup {a \in {attempt} : Overlapped}
      /\ UNCHANGED <<attempt, setup, files, saved>>
      /\ chat' = [chat EXCEPT !.own = FALSE]
  BY DEF StartAttempt, Forgets
<1>2. /\ chat'.at = chat.at /\ chat'.idx = chat.idx /\ chat'.home = chat.home
      /\ chat'.late = chat.late
      /\ attempt \in Attempts /\ \A x \in Attempts : x \in Nat
  <2>1. chat \in CallRecord /\ attempt \in Attempts /\ \A x \in Attempts : x \in Nat
    BY AttemptFacts
  <2> QED
    BY <1>1, <2>1 DEF CallRecord
<1>3. /\ \A a : Entries(a)' = Entries(a)
      /\ AtWork' <=> AtWork
      /\ Attempts' = Attempts
      /\ \A x \in Attempts : NotYet(x)' => NotYet(x) /\ attempt # x
      /\ NotYet(attempt)
  BY <1>1, <1>2 DEF Entries, NotYet, AtWork, Attempts
<1>4. /\ files[attempt] = {} /\ attemptDir # attempt /\ (AtWork => chat.home # attempt)
      /\ \A m \in saved : m.attempt # attempt
  BY <1>2, <1>3 DEF RecInv, FreshInv
<1>5. LateInv' /\ StageInv'
  BY <1>1 DEF LateInv, StageInv
<1>6. FreshInv'
  BY <1>1, <1>2, <1>3 DEF RecInv, FreshInv
<1>7. attempt \notin strayed' => chat.at = "free"
  BY <1>1 DEF RecInv, LateInv, Overlapped
<1>8. DirInv'
  <2>1. (Noted(attempt)' = {} /\ Entries(attempt)' = {}) \/ attempt \in strayed'
    <3>1. ToSet(<<>>) = {}
      BY DEF ToSet
    <3> QED
      BY <1>1, <1>2, <1>4, <1>7, <3>1 DEF Noted, Entries
  <2> QED
    BY <1>1, <1>2, <1>3, <1>4, <1>7, <2>1 DEF DirInv, AtWork
<1>9. HomeInv'
  BY <1>1, <1>2, <1>3 DEF RecInv, HomeInv
<1>10. SavedInv'
  BY <1>1, <1>2, <1>3, <1>4 DEF RecInv, SavedInv
<1> QED
  BY <1>5, <1>6, <1>8, <1>9, <1>10 DEF RecInv

\* The meta.json is written, and nothing else is written there.
LEMMA RecFinish ==
  ASSUME CacheInv, RecInv, Finish, attemptDir # 0, stage \in {"collect", "over"},
         UNCHANGED <<setup, calls, meta, files>>,
         chat'.at = chat.at, chat'.idx = chat.idx, chat'.home = chat.home,
         \A x \in Attempts : NotYet(x)' => NotYet(x) /\ attemptDir # x
  PROVE  FreshInv' /\ DirInv' /\ HomeInv' /\ SavedInv'
<1> DEFINE new == [attempt |-> attemptDir, iters |-> ToSet(meta)]
<1>1. /\ saved' = saved \cup {new} /\ attemptDir' = 0
      /\ strayed' = strayed \cup {a \in {attemptDir} : Overlapped}
  BY DEF Finish
<1>2. /\ \A a : Entries(a)' = Entries(a)
      /\ AtWork' <=> AtWork
      /\ Attempts' = Attempts /\ \A x \in Attempts : x # 0
      /\ attemptDir \in Attempts
  <2>1. setup.attempts \in Nat /\ attemptDir \in 0..setup.attempts
    <3>1. setup \in Setups /\ attemptDir \in 0..setup.attempts
      BY DEF CacheInv, CacheTypes, RunTypes
    <3> QED
      BY <3>1, SetupFacts
  <2>2. attemptDir \in Attempts /\ \A x \in Attempts : x # 0
    BY <2>1 DEF Attempts
  <2> QED
    BY <2>2 DEF Entries, AtWork, Attempts
<1>3. new.attempt = attemptDir /\ new.iters = ToSet(meta)
  OBVIOUS
<1> HIDE DEF new
<1>4. attemptDir \notin strayed' => chat.at = "free" /\ new.iters = Entries(attemptDir)
  <2> SUFFICES ASSUME attemptDir \notin strayed'
               PROVE  chat.at = "free" /\ new.iters = Entries(attemptDir)
    OBVIOUS
  <2>1. chat.at = "free"
    BY <1>1 DEF RecInv, LateInv, Overlapped
  <2>2. Noted(attemptDir) = Entries(attemptDir) /\ Noted(attemptDir) = ToSet(meta)
    BY <1>1, <2>1 DEF RecInv, DirInv, Noted
  <2> QED
    BY <1>3, <2>1, <2>2
<1>5. FreshInv'
  BY <1>1, <1>2, <1>3 DEF RecInv, FreshInv
<1>6. DirInv'
  BY <1>1 DEF DirInv
<1>7. HomeInv'
  BY <1>1, <1>2 DEF RecInv, HomeInv
<1>8. SavedInv'
  <2> SUFFICES ASSUME NEW m \in saved'
               PROVE  /\ m.attempt \in Attempts /\ m.attempt # 0
                      /\ m.attempt \notin strayed' =>
                           /\ m.iters = Entries(m.attempt)
                           /\ chat.at = "generate" => chat.home # m.attempt
    BY <1>1, <1>2 DEF SavedInv
  <2>1. CASE m = new
    BY <1>2, <1>3, <1>4, <2>1
  <2>2. CASE m \in saved
    BY <1>1, <1>2, <2>2 DEF RecInv, SavedInv
  <2> QED
    BY <1>1, <2>1, <2>2
<1> QED
  BY <1>5, <1>6, <1>7, <1>8

\* An attempt is finished.
LEMMA RecFinishes ==
  ASSUME CacheInv, RecInv, FinishAttempt
  PROVE  RecInv'
<1>1. stage = "collect" /\ NextAttempt /\ Finish /\ UNCHANGED <<chat, setup, calls, meta, files>>
  BY DEF FinishAttempt, PipeFrame
<1>2. /\ \A x \in Attempts : NotYet(x)' => NotYet(x) /\ attempt < x
      /\ LateInv' /\ StageInv'
  BY <1>1, NextIsLater
<1>3. attemptDir = attempt /\ attempt \in Nat /\ attempt # 0 /\ \A x \in Attempts : x \in Nat
  BY <1>1, AttemptFacts DEF RecInv, StageInv
<1>4. \A x \in Attempts : NotYet(x)' => NotYet(x) /\ attemptDir # x
  BY <1>2, <1>3
<1> QED
  BY <1>1, <1>2, <1>3, <1>4, RecFinish DEF RecInv

\* The provider ends.
LEMMA RecExits ==
  ASSUME CacheInv, RecInv, Exit
  PROVE  RecInv'
<1>1. /\ stage = "over" /\ stage' = "closed" /\ chat' = [chat EXCEPT !.own = FALSE]
      /\ UNCHANGED <<setup, attempt, calls, meta, files>>
      /\ \/ attemptDir # 0 /\ Finish
         \/ attemptDir = 0 /\ UNCHANGED <<saved, attemptDir, strayed>>
  BY DEF Exit, PipeFrame, Forgets
<1>2. /\ chat'.at = chat.at /\ chat'.idx = chat.idx /\ chat'.home = chat.home
      /\ chat'.late = chat.late
  <2>1. chat \in CallRecord
    BY DEF CacheInv, CacheTypes, RunTypes
  <2> QED
    BY <1>1, <2>1 DEF CallRecord
<1>3. LateInv' /\ StageInv'
  BY <1>1, <1>2 DEF RecInv, LateInv, StageInv
<1>4. \A x \in Attempts : NotYet(x)' => NotYet(x)
  BY <1>1 DEF NotYet
<1>5. \A x \in Attempts : NotYet(x) => attemptDir # x
  BY DEF RecInv, FreshInv
<1>6. CASE attemptDir # 0 /\ Finish
  BY <1>1, <1>2, <1>3, <1>4, <1>5, <1>6, RecFinish DEF RecInv
<1>7. CASE attemptDir = 0 /\ UNCHANGED <<saved, attemptDir, strayed>>
  <2>1. /\ \A a : Entries(a)' = Entries(a)
        /\ AtWork' <=> AtWork
        /\ Attempts' = Attempts
    BY <1>1, <1>2 DEF Entries, AtWork, Attempts
  <2>2. FreshInv'
    BY <1>1, <1>2, <1>4, <1>7, <2>1 DEF RecInv, FreshInv
  <2>3. DirInv'
    BY <1>7 DEF DirInv
  <2>4. HomeInv' /\ SavedInv'
    BY <1>1, <1>2, <1>7, <2>1 DEF RecInv, HomeInv, SavedInv
  <2> QED
    BY <1>3, <2>2, <2>3, <2>4 DEF RecInv
<1> QED
  BY <1>1, <1>6, <1>7

\* A step of a call that writes or notes nothing.
LEMMA RecCall ==
  ASSUME CacheInv, RecInv,
         \/ NoCache \/ Build \/ Extend \/ OutOfStep \/ BeginGenerate \/ CannotBegin
         \/ Forward \/ ForwardFails \/ FlushFails
  PROVE  RecInv'
<1>1. chat \in CallRecord
  BY AttemptFacts
<1>2. ASSUME NEW tear, Raise(tear), chat.at \notin {"free", "written"} PROVE RecInv'
  <2>1. chat'.at = "free" /\ UNCHANGED <<pipeline, calls, meta, files>>
    BY <1>2, IdleShape DEF Raise
  <2> QED
    BY <1>2, <2>1, RecQuiet
<1>3. CASE OutOfStep \/ CannotBegin \/ ForwardFails \/ FlushFails
  <2>1. /\ chat.at \notin {"free", "written"}
        /\ Raise(FALSE) \/ Raise(built) \/ Raise(chat.own)
    BY <1>3 DEF OutOfStep, CannotBegin, ForwardFails, FlushFails, Generating
  <2> QED
    BY <1>2, <2>1
<1>4. CASE NoCache \/ Build \/ Extend
  <2>1. /\ chat.at = "called"
        /\ \E delta, own : Prepared(delta, own)
    BY <1>4 DEF NoCache, Build, Extend
  <2>2. /\ UNCHANGED <<pipeline, calls, meta, files>>
        /\ \E delta, own : chat' = [chat EXCEPT !.at = "prepared", !.delta = delta, !.own = own]
    BY <2>1 DEF Prepared
  <2>3. chat'.at = "prepared" /\ chat'.idx = chat.idx /\ chat'.late = chat.late
    BY <1>1, <2>2 DEF CallRecord
  <2> QED
    BY <2>1, <2>2, <2>3, RecQuiet
<1>5. CASE BeginGenerate
  <2>1. /\ chat.at = "prepared" /\ attemptDir # 0
        /\ chat' = [chat EXCEPT !.at = "generate", !.home = attemptDir]
        /\ UNCHANGED <<pipeline, calls, meta, files>>
    BY <1>5 DEF BeginGenerate, CanBegin
  <2>2. /\ chat'.at = "generate" /\ chat'.idx = chat.idx /\ chat'.late = chat.late
        /\ chat'.home = attemptDir
    BY <1>1, <2>1 DEF CallRecord
  <2> QED
    BY <2>1, <2>2, RecQuiet
<1>6. CASE Forward
  <2>1. /\ chat.at = "generate" /\ chat' = [chat EXCEPT !.forwards = @ + 1]
        /\ UNCHANGED <<pipeline, calls, meta, files>>
    BY <1>6 DEF Forward, Generating
  <2>2. /\ chat'.at = "generate" /\ chat'.idx = chat.idx /\ chat'.late = chat.late
        /\ chat'.home = chat.home
    BY <1>1, <2>1 DEF CallRecord
  <2> QED
    BY <2>1, <2>2, RecQuiet
<1> QED
  BY <1>3, <1>4, <1>5, <1>6

\* All together.
LEMMA RecStep ==
  ASSUME CacheInv, RecInv, [CacheNext]_cacheVars
  PROVE  RecInv'
<1>1. CASE CallStep
  BY <1>1, RecCall, RecFlush, RecNote DEF CallStep
<1>2. CASE UNCHANGED cacheVars
  <2>1. UNCHANGED <<setup, stage, attempt, attemptDir, strayed, saved, calls, meta, files, chat>>
    BY <1>2 DEF cacheVars
  <2>2. /\ \A a : Entries(a)' = Entries(a) /\ Noted(a)' = Noted(a)
        /\ \A x : NotYet(x)' <=> NotYet(x)
        /\ AtWork' <=> AtWork
        /\ Attempts' = Attempts
    BY <2>1 DEF Entries, Noted, NotYet, AtWork, Attempts
  <2>3. LateInv' /\ StageInv'
    BY <2>1 DEF RecInv, LateInv, StageInv
  <2>4. FreshInv'
    BY <2>1, <2>2 DEF RecInv, FreshInv
  <2>5. DirInv'
    BY <2>1, <2>2 DEF RecInv, DirInv
  <2>6. HomeInv' /\ SavedInv'
    BY <2>1, <2>2 DEF RecInv, HomeInv, SavedInv
  <2> QED
    BY <2>3, <2>4, <2>5, <2>6 DEF RecInv
<1>3. CASE AwaitIdle \/ PreflightFails \/ StartAttempt \/ AgentEnds \/ FinishAttempt
           \/ FinishFails \/ Exit
  BY <1>3, RecWait, RecGivesUp, RecStart, RecFinishes, RecExits
<1> QED
  BY <1>1, <1>2, <1>3, RecChat DEF CacheNext

\* Nothing has been recorded.
LEMMA RecBegins ==
  ASSUME CacheInit
  PROVE  RecInv
<1>1. chat.at = "free" /\ stage = "wait" /\ attemptDir = 0 /\ saved = {}
  BY IdleShape DEF CacheInit
<1>2. files = [a \in Attempts |-> {}] /\ \A x \in Attempts : x # 0
  BY CacheBegins, AttemptFacts DEF CacheInit
<1> QED
  BY <1>1, <1>2 DEF RecInv, LateInv, StageInv, FreshInv, DirInv, HomeInv, SavedInv, AtWork

\* The meta.json of an attempt lists its own recordings, all of them and no others, and
\* no recording is refused because its number is taken, for any number of attempts and
\* calls - unless a call that began after run_attempt had waited was still under way
\* when the attempt was started or finished.
THEOREM Recorded == CacheSpec => []RecordedWhereItRan
<1>1. RecInv => RecordedWhereItRan
  BY DEF RecInv, SavedInv, HomeInv, AtWork, RecordedWhereItRan, Entries
<1>2. CacheInv /\ RecInv /\ [CacheNext]_cacheVars => RecInv'
  BY RecStep
<1> QED
  BY <1>1, <1>2, CacheRuns, RecBegins, PTL DEF CacheSpec

-----------------------------------------------------------------------------
(* The cache and the conversation.                                         *)

\* Slots in the order of their positions.
Increasing(s) == \A i, j \in 1..Len(s) : i < j => s[i][1] < s[j][1]

\* The sinks and the most recent are those of s.
SameEnds(held, s) ==
  /\ \A i \in 1..setup.sink : held[i] = s[i]
  /\ \A j \in 0..(setup.recent - 1) : held[Len(held) - j] = s[Len(s) - j]

\* Of s is held what the policy keeps, or what was put off is decided on.
Holds(held, s, put) ==
  IF Plain \/ Len(s) <= setup.budget THEN held = s
  ELSE /\ Len(held) = setup.budget \/ (Len(held) > setup.budget /\ Len(held) = put)
       /\ Increasing(held)
       /\ \A i \in 1..Len(held) : \E j \in 1..Len(s) : held[i] = s[j]
       /\ setup.policy # "random" => SameEnds(held, s)

\* Scores are those of the slots with their indexes.
Follows(m, k) == Len(m) <= Len(k) /\ \A i \in 1..Len(m) : m[i] \in {NoMass, k[i]}

\* Two sequences, one after the other.
LEMMA Joined ==
  ASSUME NEW S, NEW a \in Seq(S), NEW b \in Seq(S)
  PROVE  /\ a \o b \in Seq(S) /\ Len(a \o b) = Len(a) + Len(b)
         /\ Len(a) \in Nat /\ Len(b) \in Nat
         /\ \A i \in 1..Len(a) : (a \o b)[i] = a[i]
         /\ \A i \in 1..Len(b) : (a \o b)[Len(a) + i] = b[i]
         /\ \A i \in 1..Len(a \o b) : i \in 1..Len(a) \/ i - Len(a) \in 1..Len(b)
OBVIOUS

\* What is put behind what is held keeps the order.
LEMMA OrderStep ==
  ASSUME setup \in Setups, NEW s \in Seq(Slot), NEW held \in Seq(Slot),
         NEW put, Holds(held, s, put), NEW fresh \in Seq(Slot), Increasing(s \o fresh)
  PROVE  /\ Increasing(held \o fresh)
         /\ \A i \in 1..Len(held \o fresh) :
              \E j \in 1..Len(s \o fresh) : (held \o fresh)[i] = (s \o fresh)[j]
<1> DEFINE h == held \o fresh
           t == s \o fresh
<1>1. /\ h \in Seq(Slot) /\ Len(h) = Len(held) + Len(fresh)
      /\ Len(held) \in Nat /\ Len(fresh) \in Nat /\ Len(s) \in Nat
      /\ \A i \in 1..Len(held) : h[i] = held[i]
      /\ \A i \in 1..Len(fresh) : h[Len(held) + i] = fresh[i]
      /\ \A i \in 1..Len(h) : i \in 1..Len(held) \/ i - Len(held) \in 1..Len(fresh)
  BY Joined
<1>2. /\ t \in Seq(Slot) /\ Len(t) = Len(s) + Len(fresh)
      /\ \A i \in 1..Len(s) : t[i] = s[i]
      /\ \A i \in 1..Len(fresh) : t[Len(s) + i] = fresh[i]
  BY Joined
<1> HIDE DEF h, t
<1>3. Increasing(t)
  BY DEF t
<1>4. \A i \in 1..Len(held) : \E j \in 1..Len(s) : held[i] = s[j]
  BY DEF Holds
<1>5. \A i, j \in 1..Len(held) : i < j => held[i][1] < held[j][1]
  <2>1. CASE Plain \/ Len(s) <= setup.budget
    <3>1. held = s
      BY <2>1 DEF Holds
    <3>2. \A i \in 1..Len(s) : i \in 1..Len(t)
      BY <1>1, <1>2
    <3> QED
      BY <1>2, <1>3, <3>1, <3>2 DEF Increasing
  <2>2. CASE ~(Plain \/ Len(s) <= setup.budget)
    BY <2>2 DEF Holds, Increasing
  <2> QED
    BY <2>1, <2>2
<1>6. ASSUME NEW i \in 1..Len(h)
      PROVE  \E j \in 1..Len(t) :
               h[i] = t[j] /\ (j \in 1..Len(s) <=> i \in 1..Len(held))
                           /\ (i \notin 1..Len(held) => j - Len(s) = i - Len(held))
  <2>1. CASE i \in 1..Len(held)
    <3>1. PICK j \in 1..Len(s) : held[i] = s[j]
      BY <1>4, <2>1
    <3>2. j \in 1..Len(t) /\ h[i] = t[j]
      BY <1>1, <1>2, <2>1, <3>1
    <3> QED
      BY <2>1, <3>1, <3>2
  <2>2. CASE i \notin 1..Len(held)
    <3> DEFINE k == i - Len(held)
               j == Len(s) + k
    <3>1. k \in 1..Len(fresh) /\ h[i] = fresh[k]
      <4>1. k \in 1..Len(fresh) /\ Len(held) + k = i
        BY <1>1, <2>2
      <4> QED
        BY <1>1, <4>1
    <3>2. t[j] = fresh[k]
      BY <1>2, <3>1
    <3>3. k = i - Len(held)
      OBVIOUS
    <3> HIDE DEF k
    <3>4. j \in 1..Len(t) /\ j \notin 1..Len(s) /\ j - Len(s) = k
      BY <1>1, <1>2, <3>1
    <3> HIDE DEF j
    <3> QED
      BY <2>2, <3>1, <3>2, <3>3, <3>4
  <2> QED
    BY <2>1, <2>2
<1>7. ASSUME NEW i \in 1..Len(h), NEW j \in 1..Len(h), i < j
      PROVE  h[i][1] < h[j][1]
  <2>1. CASE j \in 1..Len(held)
    <3>1. i \in 1..Len(held)
      BY <1>1, <1>7, <2>1
    <3> QED
      BY <1>1, <1>5, <1>7, <2>1, <3>1
  <2>2. CASE j \notin 1..Len(held)
    <3>1. PICK x \in 1..Len(t) :
             h[i] = t[x] /\ (x \in 1..Len(s) <=> i \in 1..Len(held))
                         /\ (i \notin 1..Len(held) => x - Len(s) = i - Len(held))
      BY <1>6
    <3>2. PICK y \in 1..Len(t) :
             h[j] = t[y] /\ (y \in 1..Len(s) <=> j \in 1..Len(held))
                         /\ (j \notin 1..Len(held) => y - Len(s) = j - Len(held))
      BY <1>6
    <3>3. x < y
      BY <1>1, <1>2, <1>7, <2>2, <3>1, <3>2
    <3> QED
      BY <1>3, <3>1, <3>2, <3>3 DEF Increasing
  <2> QED
    BY <2>1, <2>2
<1> QED
  BY <1>6, <1>7 DEF h, t, Increasing

\* Eviction leaves the sinks and the most recent.
LEMMA EndsPicked ==
  ASSUME setup \in Setups, NEW slots \in Seq(Slot), NEW keep \in Places(Len(slots)),
         Sinks \subseteq keep, Recents(Len(slots)) \subseteq keep,
         setup.sink <= Len(slots), setup.recent <= Len(slots)
  PROVE  SameEnds(Pick(slots, keep), slots)
<1> DEFINE n == Len(slots)
           c == Cardinality(keep)
           held == Pick(slots, keep)
<1>1. n \in Nat /\ setup.sink \in Nat /\ setup.recent \in Nat
  BY SetupFacts
<1>2. Len(held) = c /\ c \in Nat /\ \A k \in 1..c : held[k] = slots[Nth(keep, k)]
  BY <1>1, PickShape
<1>3. ASSUME NEW i \in 1..setup.sink PROVE held[i] = slots[i]
  <2>1. i \in 1..n /\ 1..i \subseteq keep
    BY <1>1 DEF Sinks
  <2>2. i \in 1..c /\ Nth(keep, i) = i
    BY <1>1, <2>1, NthOfFirsts
  <2> QED
    BY <1>2, <2>2
<1>4. ASSUME NEW j \in 0..(setup.recent - 1) PROVE held[Len(held) - j] = slots[n - j]
  <2> DEFINE i == n - j
  <2>1. i \in 1..n /\ i..n \subseteq keep /\ c - n + i = c - j
    BY <1>1, <1>2 DEF Recents
  <2> HIDE DEF i
  <2>2. c - n + i \in 1..c /\ Nth(keep, c - n + i) = i
    BY <1>1, <2>1, NthOfLasts
  <2> HIDE DEF c, held, n
  <2> QED
    BY ONLY <1>2, <2>1, <2>2 DEF i
<1> QED
  BY <1>3, <1>4 DEF SameEnds

\* What is put behind two sequences leaves their ends the same.
LEMMA EndsJoined ==
  ASSUME setup \in Setups, NEW s \in Seq(Slot), NEW held \in Seq(Slot),
         NEW fresh \in Seq(Slot), SameEnds(held, s),
         setup.sink <= Len(held), setup.sink <= Len(s),
         setup.recent <= Len(held), setup.recent <= Len(s)
  PROVE  SameEnds(held \o fresh, s \o fresh)
<1> DEFINE h == held \o fresh
           t == s \o fresh
           a == Len(held)
           b == Len(s)
           f == Len(fresh)
<1>1. /\ Len(h) = a + f /\ a \in Nat /\ b \in Nat /\ f \in Nat
      /\ \A i \in 1..a : h[i] = held[i]
      /\ \A i \in 1..f : h[a + i] = fresh[i]
  BY Joined
<1>2. /\ Len(t) = b + f
      /\ \A i \in 1..b : t[i] = s[i]
      /\ \A i \in 1..f : t[b + i] = fresh[i]
  BY Joined
<1>3. setup.sink \in Nat /\ setup.recent \in Nat
  BY SetupFacts
<1>4. /\ setup.sink <= a /\ setup.sink <= b /\ setup.recent <= a /\ setup.recent <= b
      /\ \A i \in 1..setup.sink : held[i] = s[i]
      /\ \A j \in 0..(setup.recent - 1) : held[a - j] = s[b - j]
  BY DEF SameEnds
<1> HIDE DEF h, t, a, b, f
<1>5. ASSUME NEW i \in 1..setup.sink PROVE h[i] = t[i]
  BY <1>1, <1>2, <1>3, <1>4
<1>6. ASSUME NEW j \in 0..(setup.recent - 1) PROVE h[Len(h) - j] = t[Len(t) - j]
  <2>1. CASE j < f
    <3> DEFINE k == f - j
    <3>1. k \in 1..f /\ Len(h) - j = a + k /\ Len(t) - j = b + k
      BY <1>1, <1>2, <1>3, <2>1
    <3> HIDE DEF k
    <3> QED
      BY <1>1, <1>2, <3>1
  <2>2. CASE ~(j < f)
    <3> DEFINE k == j - f
    <3>1. /\ k \in 0..(setup.recent - 1) /\ Len(h) - j = a - k /\ Len(t) - j = b - k
          /\ a - k \in 1..a /\ b - k \in 1..b
      BY <1>1, <1>2, <1>3, <1>4, <2>2
    <3> HIDE DEF k
    <3> QED
      BY <1>1, <1>2, <1>4, <3>1
  <2> QED
    BY <2>1, <2>2
<1> QED
  BY <1>5, <1>6 DEF SameEnds, h, t

\* What the policies but the random one promise of the ends.
LEMMA EndsFit ==
  ASSUME setup \in Setups, setup.policy # "off"
  PROVE  /\ setup.budget \in Nat /\ setup.sink \in Nat /\ setup.recent \in Nat
         /\ ~Plain /\ setup.policy # "random" =>
              setup.sink <= setup.budget /\ setup.recent <= setup.budget
<1>1. /\ setup.budget \in Nat /\ setup.sink \in Nat /\ setup.recent \in Nat
      /\ setup.policy \in {"none", "streaming", "random", "h2o"}
      /\ setup.policy = "streaming" => setup.budget = setup.sink + setup.recent
      /\ setup.policy = "h2o" => setup.budget >= setup.sink + setup.recent
  BY SetupFacts
<1> QED
  BY ONLY <1>1 DEF Plain

\* All that is held, with what is put behind it, may be put off.
LEMMA HoldsAll ==
  ASSUME setup \in Setups, setup.policy # "off", NEW s \in Seq(Slot),
         NEW held \in Seq(Slot), NEW put, Holds(held, s, put),
         NEW fresh \in Seq(Slot), Len(fresh) >= 1, Increasing(s \o fresh)
  PROVE  Holds(held \o fresh, s \o fresh, Len(held \o fresh))
<1> DEFINE h == held \o fresh
           t == s \o fresh
<1>1. /\ h \in Seq(Slot) /\ Len(h) = Len(held) + Len(fresh)
      /\ Len(held) \in Nat /\ Len(fresh) \in Nat
  BY Joined
<1>2. t \in Seq(Slot) /\ Len(t) = Len(s) + Len(fresh) /\ Len(s) \in Nat
  BY Joined
<1>3. /\ setup.budget \in Nat /\ setup.sink \in Nat /\ setup.recent \in Nat
      /\ ~Plain /\ setup.policy # "random" =>
           setup.sink <= setup.budget /\ setup.recent <= setup.budget
  BY EndsFit
<1>4. CASE Plain \/ Len(s) <= setup.budget
  <2>1. held = s
    BY <1>4 DEF Holds
  <2>2. h = t /\ Increasing(t)
    BY <2>1
  <2> HIDE DEF h, t
  <2>3. SameEnds(h, t) /\ \A i \in 1..Len(h) : \E j \in 1..Len(t) : h[i] = t[j]
    BY <2>2 DEF SameEnds
  <2>4. Len(h) \in Nat /\ Len(h) = Len(t)
    BY <1>1, <2>2 DEF h
  <2>5. Holds(h, t, Len(h))
    BY <1>3, <2>2, <2>3, <2>4 DEF Holds
  <2> QED
    BY <2>5 DEF h, t
<1>5. CASE ~(Plain \/ Len(s) <= setup.budget)
  <2>1. Len(held) >= setup.budget /\ (setup.policy # "random" => SameEnds(held, s))
    BY <1>1, <1>3, <1>5 DEF Holds
  <2>2. /\ Increasing(h)
        /\ \A i \in 1..Len(h) : \E j \in 1..Len(t) : h[i] = t[j]
    BY OrderStep
  <2>3. ASSUME setup.policy # "random" PROVE SameEnds(h, t)
    <3>1. /\ setup.sink <= Len(held) /\ setup.sink <= Len(s)
          /\ setup.recent <= Len(held) /\ setup.recent <= Len(s)
      BY <1>1, <1>2, <1>3, <1>5, <2>1, <2>3
    <3> QED
      BY <2>1, <2>3, <3>1, EndsJoined
  <2>4. Len(h) > setup.budget /\ Len(t) > setup.budget
    BY <1>1, <1>2, <1>3, <1>5, <2>1
  <2> HIDE DEF h, t
  <2>5. Holds(h, t, Len(h))
    BY <1>3, <1>5, <2>2, <2>3, <2>4 DEF Holds
  <2> QED
    BY <2>5 DEF h, t
<1> QED
  BY <1>4, <1>5

\* Held is what the policy keeps, after what is put behind it has been decided on.
LEMMA HoldsStep ==
  ASSUME setup \in Setups, setup.policy # "off", NEW s \in Seq(Slot),
         NEW held \in Seq(Slot), NEW put, Holds(held, s, put),
         NEW fresh \in Seq(Slot), Len(fresh) >= 1, Increasing(s \o fresh), NEW scored,
         NEW keep \in Keeps(Len(held \o fresh), scored), NEW left
  PROVE  /\ keep \in Places(Len(held \o fresh))
         /\ Holds(Pick(held \o fresh, keep), s \o fresh, left)
<1> DEFINE h == held \o fresh
           t == s \o fresh
           n == Len(h)
           new == Pick(h, keep)
<1>1. /\ h \in Seq(Slot) /\ n = Len(held) + Len(fresh) /\ n \in Nat
      /\ Len(held) \in Nat /\ Len(fresh) \in Nat
  BY Joined
<1>2. t \in Seq(Slot) /\ Len(t) = Len(s) + Len(fresh) /\ Len(s) \in Nat
  BY Joined
<1>3. /\ setup.budget \in Nat /\ setup.sink \in Nat /\ setup.recent \in Nat
      /\ ~Plain /\ setup.policy # "random" =>
           setup.sink <= setup.budget /\ setup.recent <= setup.budget
  BY EndsFit
<1>4. /\ keep \in Places(n)
      /\ Plain \/ n <= setup.budget => keep = 1..n
      /\ ~Plain /\ n > setup.budget =>
           /\ Cardinality(keep) = setup.budget
           /\ setup.policy # "random" => Sinks \subseteq keep /\ Recents(n) \subseteq keep
  BY <1>1, KeepsShape
<1>5. /\ Increasing(h)
      /\ \A i \in 1..n : \E j \in 1..Len(t) : h[i] = t[j]
  BY OrderStep
<1>6. CASE Plain \/ Len(t) <= setup.budget
  <2>1. held = s
    BY <1>1, <1>2, <1>3, <1>6 DEF Holds
  <2>2. keep = 1..n
    BY <1>1, <1>2, <1>3, <1>4, <1>6, <2>1
  <2>3. new = h
    BY <1>1, <2>2, PickAll
  <2>4. new = t
    BY <2>1, <2>3
  <2> HIDE DEF new, t
  <2>5. Holds(new, t, left)
    BY <1>6, <2>4 DEF Holds
  <2> QED
    BY <1>4, <2>5 DEF new, t
<1>7. CASE ~(Plain \/ Len(t) <= setup.budget)
  <2>1. ~Plain /\ n > setup.budget
    <3>1. CASE Len(s) <= setup.budget
      <4>1. held = s
        BY <3>1 DEF Holds
      <4> QED
        BY <1>1, <1>2, <1>3, <1>7, <4>1
    <3>2. CASE ~(Len(s) <= setup.budget)
      <4>1. Len(held) >= setup.budget
        BY <1>1, <1>3, <1>7, <3>2 DEF Holds
      <4> QED
        BY <1>1, <1>2, <1>3, <1>7, <4>1
    <3> QED
      BY <3>1, <3>2
  <2>2. /\ Len(new) = setup.budget /\ Len(new) = Cardinality(keep)
        /\ \A k \in 1..Len(new) : Nth(keep, k) \in 1..n /\ new[k] = h[Nth(keep, k)]
        /\ \A j, k \in 1..Len(new) : j < k => Nth(keep, j) < Nth(keep, k)
    <3>1. /\ Len(new) = Cardinality(keep)
          /\ \A k \in 1..Cardinality(keep) : Nth(keep, k) \in 1..n /\ new[k] = h[Nth(keep, k)]
      BY <1>1, <1>4, PickShape
    <3>2. \A j, k \in 1..Cardinality(keep) : j < k => Nth(keep, j) < Nth(keep, k)
      BY <1>1, <1>4, NthShape
    <3> HIDE DEF new, h, n
    <3> QED
      BY <1>4, <2>1, <3>1, <3>2
  <2> HIDE DEF new, h, n, t
  <2>3. Increasing(new)
    BY <1>5, <2>2 DEF Increasing, n
  <2>4. \A i \in 1..Len(new) : \E j \in 1..Len(t) : new[i] = t[j]
    BY <1>5, <2>2
  <2>5. ASSUME setup.policy # "random" PROVE SameEnds(new, t)
    <3>1. Sinks \subseteq keep /\ Recents(n) \subseteq keep
      BY <1>4, <2>1, <2>5
    <3>2. SameEnds(new, h)
      <4>1. setup.sink <= n /\ setup.recent <= n
        BY <1>1, <1>3, <2>1, <2>5
      <4>2. /\ setup.sink <= Len(h) /\ setup.recent <= Len(h) /\ keep \in Places(Len(h))
            /\ Sinks \subseteq keep /\ Recents(Len(h)) \subseteq keep
        BY <1>4, <3>1, <4>1 DEF n
      <4>3. SameEnds(Pick(h, keep), h)
        BY ONLY <1>1, <4>2, EndsPicked, setup \in Setups
      <4> QED
        BY <4>3 DEF new
    <3>3. SameEnds(h, t)
      <4>1. Holds(h, t, Len(h))
        BY HoldsAll DEF h, t
      <4> QED
        BY <1>7, <2>5, <4>1 DEF Holds
    <3> QED
      BY <3>2, <3>3 DEF SameEnds
  <2>6. Holds(new, t, left)
    BY <1>7, <2>2, <2>3, <2>4, <2>5 DEF Holds
  <2> QED
    BY <1>4, <2>6 DEF new, n, h, t
<1> QED
  BY <1>6, <1>7

\* Scores stay with the slots: those behind have none yet; eviction moves both; and the
\* attention to a slot is added to its own score.
LEMMA FollowsStep ==
  ASSUME NEW m \in Seq(Slot), NEW k \in Seq(Slot), Follows(m, k)
  PROVE  /\ \A fresh \in Seq(Slot) : Follows(m, k \o fresh)
         /\ Scored(k, m) = k
         /\ \A keep \in Places(Len(k)) :
              Follows(IF m = <<>> \/ keep = 1..Len(k) THEN m ELSE Compact(m, keep),
                      Pick(k, keep))
<1>1. /\ Len(m) \in Nat /\ Len(k) \in Nat /\ Len(m) <= Len(k)
      /\ \A i \in 1..Len(m) : m[i] \in {NoMass, k[i]} /\ i \in 1..Len(k)
  BY DEF Follows
<1>2. ASSUME NEW fresh \in Seq(Slot) PROVE Follows(m, k \o fresh)
  <2>1. /\ Len(k \o fresh) = Len(k) + Len(fresh) /\ Len(fresh) \in Nat
        /\ \A i \in 1..Len(k) : (k \o fresh)[i] = k[i]
    BY Joined
  <2> DEFINE t == k \o fresh
  <2> HIDE DEF t
  <2>2. Len(m) <= Len(t) /\ \A i \in 1..Len(m) : m[i] \in {NoMass, t[i]}
    BY <1>1, <2>1 DEF t
  <2> QED
    BY <2>2 DEF Follows, t
<1>3. Scored(k, m) = k
  BY <1>1, ScoredShape
<1>4. ASSUME NEW keep \in Places(Len(k))
      PROVE  Follows(IF m = <<>> \/ keep = 1..Len(k) THEN m ELSE Compact(m, keep),
                     Pick(k, keep))
  <2> DEFINE p == Pick(k, keep)
             c == Cardinality(keep)
             q == Compact(m, keep)
  <2>1. /\ p \in Seq(Slot) /\ Len(p) = c /\ c \in Nat
        /\ \A i \in 1..c : Nth(keep, i) \in 1..Len(k) /\ p[i] = k[Nth(keep, i)]
    BY PickShape
  <2>2. CASE m = <<>>
    <3>1. Len(m) = 0 /\ Len(p) \in Nat
      BY <2>1, <2>2
    <3> HIDE DEF p
    <3>2. Follows(m, p)
      BY <3>1 DEF Follows
    <3> QED
      BY <2>2, <3>2 DEF p
  <2>3. CASE m # <<>> /\ keep = 1..Len(k)
    <3>1. p = k
      BY <2>3, PickAll
    <3> HIDE DEF p
    <3> QED
      BY <2>3, <3>1 DEF p
  <2>4. CASE m # <<>> /\ keep # 1..Len(k)
    <3>1. /\ Len(q) = c
          /\ \A i \in 1..c : \/ Nth(keep, i) \in 1..Len(m) /\ q[i] = m[Nth(keep, i)]
                             \/ q[i] = NoMass
      BY <1>1, CompactShape
    <3> HIDE DEF p, q, c
    <3>2. \A i \in 1..c : q[i] \in {NoMass, p[i]}
      BY <1>1, <2>1, <3>1
    <3>3. Follows(q, p)
      BY <2>1, <3>1, <3>2 DEF Follows
    <3> QED
      BY <2>4, <3>3 DEF p, q
  <2> QED
    BY <2>2, <2>3, <2>4
<1> QED
  BY <1>2, <1>3, <1>4

\* Where every slot has its score, they stay together.
LEMMA FullScores ==
  ASSUME NEW k \in Seq(Slot), NEW keep \in Places(Len(k))
  PROVE  Pick(k, keep) =
           IF k = <<>> \/ keep = 1..Len(k) THEN k ELSE Compact(k, keep)
<1> DEFINE p == Pick(k, keep)
           c == Cardinality(keep)
           q == Compact(k, keep)
<1>1. /\ p \in Seq(Slot) /\ Len(p) = c /\ c \in 0..Len(k) /\ Len(k) \in Nat
      /\ \A i \in 1..c : Nth(keep, i) \in 1..Len(k) /\ p[i] = k[Nth(keep, i)]
  BY PickShape
<1>2. CASE keep = 1..Len(k)
  BY <1>2, PickAll
<1>3. CASE k = <<>>
  <2>1. Len(p) = 0
    BY <1>1, <1>3
  <2> QED
    BY <1>1, <1>3, <2>1
<1>4. CASE k # <<>> /\ keep # 1..Len(k)
  <2>1. q = [n \in 1..c |-> IF Nth(keep, n) <= Len(k) THEN k[Nth(keep, n)] ELSE NoMass]
    BY DEF Compact
  <2>2. p = [n \in 1..c |-> k[Nth(keep, n)]]
    BY DEF Pick
  <2> HIDE DEF p, q, c
  <2>3. \A n \in 1..c : Nth(keep, n) <= Len(k)
    BY <1>1
  <2>4. p = q
    BY <2>1, <2>2, <2>3
  <2> QED
    BY <1>4, <2>4 DEF p, q
<1> QED
  BY <1>2, <1>3, <1>4

\* s is the text up to position r: every token at its position, in order, and none left
\* out but, with a policy, the last token of an answer.
FedUpTo(s, text, r) ==
  /\ r <= Len(text) /\ Len(s) <= r
  /\ Plain => Len(s) = r
  /\ Increasing(s)
  /\ \A i \in 1..Len(s) : s[i][1] \in 1..r /\ text[s[i][1]] = s[i][2]
  /\ \A p \in 1..r : (\A i \in 1..Len(s) : s[i][1] # p) =>
       ~Plain /\ text[p] % 2 = 1 /\ p < Len(text) /\ text[p + 1] # text[p]

\* What was fed is the text, as far as the passes have come; between calls, up to what
\* the provider has noted.
FedInv ==
  Sound =>
    /\ chat.at \in {"free", "called"} =>
         IF Plain THEN FedUpTo(fed, ids, Len(ids))
         ELSE /\ ids = talk /\ Len(ids) >= 1 /\ ids[Len(ids)] % 2 = 1
              /\ FedUpTo(fed, ids, Len(ids) - 1)
    /\ chat.at \in {"prepared", "generate", "written"} => FedUpTo(fed, Text, Base)

\* Every layer holds of it what the policy keeps.
HoldInv == Sound => \A l \in Layers : Holds(kv[l], fed, pend[l])

\* A score is that of its slot.
ScoreInv ==
  setup.policy = "h2o" => \A l \in Layers :
    /\ Follows(mass[l], kv[l])
    /\ Sound => mass[l] = kv[l] /\ (setup.sample = 0 => pend[l] = 0)

TextInv == FedInv /\ HoldInv /\ ScoreInv

\* The next tokens of the text are fed.
LEMMA FedStep ==
  ASSUME NEW s \in Seq(Slot), NEW text \in Seq(Nat), NEW r \in Nat, FedUpTo(s, text, r),
         NEW fresh \in Seq(Slot), r + Len(fresh) <= Len(text),
         \A i \in 1..Len(fresh) : fresh[i] = <<r + i, text[r + i]>>
  PROVE  FedUpTo(s \o fresh, text, r + Len(fresh))
<1> DEFINE t == s \o fresh
           q == r + Len(fresh)
<1>1. /\ t \in Seq(Slot) /\ Len(t) = Len(s) + Len(fresh)
      /\ Len(s) \in Nat /\ Len(fresh) \in Nat
      /\ \A i \in 1..Len(s) : t[i] = s[i]
      /\ \A i \in 1..Len(fresh) : t[Len(s) + i] = fresh[i]
      /\ \A i \in 1..Len(t) : i \in 1..Len(s) \/ i - Len(s) \in 1..Len(fresh)
  BY Joined
<1>2. /\ r <= Len(text) /\ Len(s) <= r /\ (Plain => Len(s) = r) /\ Len(text) \in Nat
      /\ \A i \in 1..Len(s) : s[i][1] \in 1..r /\ text[s[i][1]] = s[i][2]
      /\ \A i, j \in 1..Len(s) : i < j => s[i][1] < s[j][1]
      /\ \A p \in 1..r : (\A i \in 1..Len(s) : s[i][1] # p) =>
           ~Plain /\ text[p] % 2 = 1 /\ p < Len(text) /\ text[p + 1] # text[p]
  BY DEF FedUpTo, Increasing
<1>3. q \in Nat /\ q = r + Len(fresh) /\ q <= Len(text) /\ Len(t) <= q /\ (Plain => Len(t) = q)
  <2>1. q \in Nat /\ q = r + Len(fresh) /\ q <= Len(text)
    BY <1>1
  <2> HIDE DEF t, q
  <2>2. Len(t) <= q
    BY <1>1, <1>2, <2>1
  <2>3. Plain => Len(t) = q
    BY <1>1, <1>2, <2>1
  <2> QED
    BY <2>1, <2>2, <2>3
<1> HIDE DEF t, q
<1>4. ASSUME NEW i \in 1..Len(t), i \notin 1..Len(s)
      PROVE  t[i] = <<r + (i - Len(s)), text[r + (i - Len(s))]>> /\ i - Len(s) \in 1..Len(fresh)
  <2> DEFINE k == i - Len(s)
  <2>1. k \in 1..Len(fresh) /\ Len(s) + k = i
    BY <1>1, <1>4
  <2> HIDE DEF k
  <2>2. t[i] = fresh[k]
    BY <1>1, <2>1
  <2>3. t[i] = <<r + k, text[r + k]>>
    BY <2>1, <2>2
  <2> QED
    BY <2>1, <2>3 DEF k
<1>5. ASSUME NEW i \in 1..Len(t)
      PROVE  /\ t[i][1] \in 1..q /\ text[t[i][1]] = t[i][2]
             /\ t[i][1] <= r <=> i \in 1..Len(s)
  <2>1. CASE i \in 1..Len(s)
    <3>1. s[i][1] \in 1..r /\ text[s[i][1]] = s[i][2] /\ t[i] = s[i]
      BY <1>1, <1>2, <2>1
    <3> QED
      <4>1. t[i][1] \in 1..r /\ text[t[i][1]] = t[i][2]
        BY ONLY <3>1
      <4>2. r \in Nat /\ q \in Nat /\ r <= q
        BY <1>1, <1>3
      <4>3. t[i][1] \in 1..q /\ t[i][1] <= r
        BY ONLY <4>1, <4>2
      <4> QED
        BY ONLY <2>1, <4>1, <4>3
  <2>2. CASE i \notin 1..Len(s)
    <3> DEFINE k == i - Len(s)
    <3>1. k \in 1..Len(fresh) /\ t[i] = <<r + k, text[r + k]>>
      BY <1>4, <2>2
    <3> HIDE DEF k
    <3> QED
      <4>1. t[i][1] = r + k /\ t[i][2] = text[r + k]
        BY ONLY <3>1
      <4>2. r \in Nat /\ Len(fresh) \in Nat /\ q = r + Len(fresh)
        BY <1>1, <1>3
      <4>3. r + k \in 1..q /\ ~(r + k <= r)
        BY ONLY <3>1, <4>2
      <4> QED
        BY ONLY <2>2, <4>1, <4>3
  <2> QED
    BY <2>1, <2>2
<1>6. ASSUME NEW i \in 1..Len(t), NEW j \in 1..Len(t), i < j
      PROVE  t[i][1] < t[j][1]
  <2>1. CASE j \in 1..Len(s)
    <3>1. i \in 1..Len(s)
      BY <1>1, <1>6, <2>1
    <3> QED
      BY <1>1, <1>2, <1>6, <2>1, <3>1
  <2>2. CASE j \notin 1..Len(s) /\ i \in 1..Len(s)
    <3> DEFINE x == t[i][1]
               y == t[j][1]
    <3>1. x <= r /\ ~(y <= r) /\ x \in 1..q /\ y \in 1..q
      BY <1>5, <2>2
    <3> HIDE DEF x, y
    <3>2. x < y
      BY <1>3, <3>1
    <3> QED
      BY <3>2 DEF x, y
  <2>3. CASE j \notin 1..Len(s) /\ i \notin 1..Len(s)
    <3>1. t[i][1] = r + (i - Len(s)) /\ t[j][1] = r + (j - Len(s))
      <4>1. /\ t[i] = <<r + (i - Len(s)), text[r + (i - Len(s))]>>
            /\ t[j] = <<r + (j - Len(s)), text[r + (j - Len(s))]>>
        BY <1>4, <2>3
      <4> QED
        BY ONLY <4>1
    <3> QED
      BY <1>1, <1>6, <3>1
  <2> QED
    BY <2>1, <2>2, <2>3
<1>7. ASSUME NEW p \in 1..q, \A i \in 1..Len(t) : t[i][1] # p
      PROVE  ~Plain /\ text[p] % 2 = 1 /\ p < Len(text) /\ text[p + 1] # text[p]
  <2>1. p <= r
    <3> SUFFICES ASSUME ~(p <= r) PROVE FALSE
      OBVIOUS
    <3> DEFINE k == p - r
               i == Len(s) + k
    <3>1. k \in 1..Len(fresh) /\ r + k = p
      BY <1>1, <1>3
    <3> HIDE DEF k
    <3>2. t[i] = fresh[k] /\ fresh[k] = <<r + k, text[r + k]>>
      BY <1>1, <3>1
    <3>3. i \in 1..Len(t)
      BY <1>1, <3>1
    <3>4. t[i][1] = r + k
      BY <3>2
    <3> HIDE DEF i
    <3> QED
      BY <1>7, <3>1, <3>3, <3>4
  <2>2. p \in 1..r /\ \A i \in 1..Len(s) : s[i][1] # p
    <3>1. \A i \in 1..Len(s) : i \in 1..Len(t)
      BY <1>1
    <3>2. p \in 1..r
      BY <1>3, <2>1
    <3> QED
      BY <1>1, <1>7, <3>1, <3>2
  <2> QED
    BY <1>2, <2>2
<1>8. FedUpTo(t, text, q)
  BY <1>3, <1>5, <1>6, <1>7 DEF FedUpTo, Increasing
<1> QED
  BY <1>8 DEF t, q

\* What a pass is about to put in is the next of the text.
LEMMA NextOfText ==
  ASSUME CacheInv, Generating
  PROVE  /\ Base \in Nat /\ Base + Len(Fresh) <= Len(Text) /\ Len(Fresh) >= 1
         /\ Fresh \in Seq(Slot) /\ Text \in Seq(Nat)
         /\ \A i \in 1..Len(Fresh) : Fresh[i] = <<Base + i, Text[Base + i]>>
         /\ Len(chat.prompt) + chat.forwards = Base + Len(Fresh)
         /\ First => Base + Len(Fresh) = Len(chat.prompt)
         /\ Len(Fresh) = Len(Input)
<1>1. /\ RunTypes /\ CallInv /\ chat.at = "generate" /\ chat.forwards < chat.size
      /\ chat \in CallRecord
  BY DEF CacheInv, CacheTypes, RunTypes, ChatInv, Generating
<1>2. /\ Fresh \in Seq(Slot) /\ Len(Fresh) = Len(Input) /\ Len(Input) \in Nat \ {0}
      /\ Base \in Nat /\ \A i \in 1..Len(Fresh) : Fresh[i] = <<Base + i, Input[i]>>
  BY <1>1, FreshShape
<1>3. /\ Text \in Seq(Nat) /\ Len(Text) = Len(chat.prompt) + chat.size
      /\ \A i \in 1..Len(chat.prompt) : Text[i] = chat.prompt[i]
      /\ \A i \in 1..chat.size : Text[Len(chat.prompt) + i] = Generated(made)
  BY <1>1, TextShape
<1>4. /\ Len(chat.prompt) \in Nat /\ chat.size \in Nat /\ chat.forwards \in Nat
      /\ Len(chat.delta) \in 1..Len(chat.prompt)
      /\ \A i \in 1..Len(chat.delta) :
           chat.delta[i] = chat.prompt[Len(chat.prompt) - Len(chat.delta) + i]
  <2>1. chat.prompt \in Seq(Nat) /\ chat.size \in Nat /\ chat.forwards \in Nat
    BY <1>1 DEF CallRecord
  <2>2. /\ Len(chat.delta) \in 1..Len(chat.prompt)
        /\ \A i \in 1..Len(chat.delta) :
             chat.delta[i] = chat.prompt[Len(chat.prompt) - Len(chat.delta) + i]
    BY <1>1 DEF CallInv
  <2>3. Len(chat.prompt) \in Nat
    BY <2>1
  <2> QED
    BY <2>1, <2>2, <2>3
<1>5. CASE First
  <2>1. Input = chat.delta /\ Base = Len(chat.prompt) - Len(chat.delta) /\ chat.forwards = 0
    BY <1>5 DEF Input, Base, First
  <2> HIDE DEF Input, Base, Text, Fresh
  <2>2. Base + Len(Fresh) = Len(chat.prompt) /\ Len(Fresh) >= 1
    BY <1>2, <1>4, <2>1
  <2>3. ASSUME NEW i \in 1..Len(Fresh) PROVE Fresh[i] = <<Base + i, Text[Base + i]>>
    <3> DEFINE d == Len(chat.delta)
               n == Len(chat.prompt)
    <3>1. Len(Fresh) = d /\ Base = n - d /\ n \in Nat /\ d \in 1..n
      BY <1>2, <1>4, <2>1
    <3> HIDE DEF d, n
    <3>2. i \in 1..d /\ Base + i \in 1..n
      BY <3>1
    <3>3. i \in 1..Len(chat.delta) /\ Base + i \in 1..Len(chat.prompt)
      BY <3>2 DEF d, n
    <3>4. Text[Base + i] = Input[i]
      BY <1>3, <1>4, <2>1, <3>3
    <3> QED
      BY <1>2, <3>4
  <2>4. Base + Len(Fresh) <= Len(Text)
    BY <1>3, <1>4, <2>2
  <2>5. Len(chat.prompt) + chat.forwards = Base + Len(Fresh)
    <3>1. Len(chat.prompt) + 0 = Len(chat.prompt)
      BY <1>4
    <3> QED
      BY ONLY <2>1, <2>2, <3>1
  <2> QED
    BY <1>2, <1>3, <2>2, <2>3, <2>4, <2>5
<1>6. CASE ~First
  <2>1. /\ Input = <<Generated(made)>> /\ Base = Len(chat.prompt) + chat.forwards - 1
        /\ chat.forwards # 0
    BY <1>6 DEF Input, Base, First
  <2>2. Len(Input) = 1 /\ Input[1] = Generated(made)
    BY <2>1
  <2> HIDE DEF Input, Base, Text, Fresh
  <2>3. /\ Base + Len(Fresh) = Len(chat.prompt) + chat.forwards /\ Len(Fresh) = 1
        /\ Base + 1 = Len(chat.prompt) + chat.forwards /\ chat.forwards \in 1..chat.size
    <3>1. Len(Fresh) = 1 /\ Len(chat.prompt) \in Nat
      BY <1>2, <1>4, <2>2
    <3>2. chat.forwards \in Nat /\ chat.size \in Nat /\ chat.forwards < chat.size
      BY <1>1, <1>4
    <3> QED
      BY ONLY <2>1, <3>1, <3>2
  <2>4. Text[Base + 1] = Generated(made) /\ Base + Len(Fresh) <= Len(Text)
    BY <1>1, <1>3, <1>4, <2>3
  <2>5. \A i \in 1..Len(Fresh) : i = 1
    BY <2>3
  <2>6. \A i \in 1..Len(Fresh) : Fresh[i] = <<Base + i, Text[Base + i]>>
    BY <1>2, <2>2, <2>4, <2>5
  <2> QED
    BY <1>2, <1>3, <1>6, <2>3, <2>4, <2>6
<1> QED
  BY <1>5, <1>6

\* An update keeps the scores with the slots.
LEMMA UpdateScores ==
  ASSUME CacheInv, chat.at = "generate", setup.policy = "h2o", NEW l \in Layers,
         Follows(mass[l], kv[l]), NEW u \in Updates(l)
  PROVE  /\ u \in Layer /\ u.kv \in Seq(Slot) /\ u.mass \in Seq(Slot)
         /\ Follows(u.mass, u.kv) /\ Scored(u.kv, u.mass) = u.kv
<1>1. CacheTypes /\ CallInv /\ RunTypes
  BY DEF CacheInv, CacheTypes, ChatInv
<1>2. mass[l] \in Seq(Slot) /\ kv[l] \in Seq(Slot) /\ Fresh \in Seq(Slot)
  BY <1>1, FreshShape DEF CacheTypes, SlotTypes
<1>3. /\ u \in Layer /\ Slots(l) \in Seq(Slot)
      /\ \/ PutOff(l, u)
         \/ \E keep \in Places(Len(Slots(l))) : Cut(Slots(l), mass[l], keep, u)
  BY <1>1, UpdatesShape
<1>4. u.kv \in Seq(Slot) /\ u.mass \in Seq(Slot)
  BY <1>3 DEF Layer
<1>5. Follows(mass[l], Slots(l))
  BY <1>2, FollowsStep DEF Slots
<1>6. Follows(u.mass, u.kv)
  <2>1. CASE PutOff(l, u)
    BY <1>5, <2>1 DEF PutOff
  <2>2. ASSUME NEW keep \in Places(Len(Slots(l))), Cut(Slots(l), mass[l], keep, u)
        PROVE  Follows(u.mass, u.kv)
    BY <1>2, <1>3, <1>5, <2>2, FollowsStep DEF Cut
  <2> QED
    BY <1>3, <2>1, <2>2
<1> QED
  BY <1>3, <1>4, <1>6, FollowsStep

\* And a pass gives every slot its score.
LEMMA PassScores ==
  ASSUME CacheInv, chat.at = "generate", setup.policy = "h2o", NEW l \in Layers,
         Follows(mass[l], kv[l]), NEW shown, NEW r \in Passes(l, shown)
  PROVE  r.mass = r.kv /\ r \in Layer /\ Follows(r.mass, r.kv)
<1>1. CacheTypes /\ CallInv
  BY DEF CacheInv, ChatInv
<1>2. PICK u \in Updates(l) :
        /\ ~Due(u, shown) => r.kv = u.kv /\ r.mass = Scored(u.kv, u.mass)
        /\ Due(u, shown) => \E keep \in Places(Len(u.kv)) : Cut(u.kv, Scored(u.kv, u.mass), keep, r)
  BY <1>1, PassesShape
<1>3. u.kv \in Seq(Slot) /\ Scored(u.kv, u.mass) = u.kv
  BY <1>2, UpdateScores
<1>4. r.mass = r.kv
  <2>1. CASE ~Due(u, shown)
    BY <1>2, <1>3, <2>1
  <2>2. CASE Due(u, shown)
    <3>1. PICK keep \in Places(Len(u.kv)) : Cut(u.kv, u.kv, keep, r)
      BY <1>2, <1>3, <2>2
    <3> QED
      BY <1>3, <3>1, FullScores DEF Cut
  <2> QED
    BY <2>1, <2>2
<1>5. r \in Layer /\ r.kv \in Seq(Slot)
  BY <1>1, PassesShape DEF Layer
<1>6. Follows(r.kv, r.kv)
  <2>1. Len(r.kv) \in Nat
    BY <1>5
  <2> QED
    BY <2>1 DEF Follows
<1> QED
  BY <1>4, <1>5, <1>6

\* As long as no call has failed, a pass leaves in a layer what the policy keeps.
LEMMA PassHolds ==
  ASSUME CacheInv, TextInv, Sound, Generating, NEW l \in Layers,
         NEW shown \in LastShown, NEW r \in Passes(l, shown)
  PROVE  /\ Holds(r.kv, fed \o Fresh, r.pend)
         /\ setup.policy = "h2o" /\ setup.sample = 0 => r.pend = 0
<1>1. /\ CacheTypes /\ CallInv /\ setup \in Setups /\ setup.policy # "off"
      /\ kv[l] \in Seq(Slot) /\ fed \in Seq(Slot) /\ chat.at = "generate"
  BY DEF CacheInv, CacheTypes, RunTypes, SlotTypes, ChatInv, OwnInv, Sound, Generating
<1>2. /\ Base \in Nat /\ Base + Len(Fresh) <= Len(Text) /\ Len(Fresh) >= 1
      /\ Fresh \in Seq(Slot) /\ Text \in Seq(Nat)
      /\ \A i \in 1..Len(Fresh) : Fresh[i] = <<Base + i, Text[Base + i]>>
      /\ First => Base + Len(Fresh) = Len(chat.prompt)
      /\ Len(Fresh) = Len(Input)
  BY NextOfText
<1>3. FedUpTo(fed, Text, Base) /\ Holds(kv[l], fed, pend[l])
  BY <1>1 DEF TextInv, FedInv, HoldInv
<1> DEFINE f == Fresh
           t == Text
           b == Base
<1> HIDE DEF f, t, b
<1>4. Increasing(fed \o Fresh)
  <2>1. FedUpTo(fed \o f, t, b + Len(f))
    <3>1. /\ b \in Nat /\ b + Len(f) <= Len(t) /\ f \in Seq(Slot) /\ t \in Seq(Nat)
          /\ \A i \in 1..Len(f) : f[i] = <<b + i, t[b + i]>> /\ FedUpTo(fed, t, b)
      BY <1>2, <1>3 DEF f, t, b
    <3>2. FedUpTo(fed, t, b)
      BY <1>3 DEF t, b
    <3> QED
      BY <1>1, <3>1, <3>2, FedStep
  <2> QED
    BY <2>1 DEF FedUpTo, f
<1>5. \A scored : \A keep \in Keeps(Len(Slots(l)), scored) :
        \A left : Holds(Pick(Slots(l), keep), fed \o Fresh, left)
  BY <1>1, <1>2, <1>3, <1>4, HoldsStep DEF Slots
<1>6. PICK u \in Updates(l) :
        /\ setup.policy # "h2o" => r = u
        /\ setup.policy = "h2o" /\ ~Due(u, shown) => r.kv = u.kv /\ r.pend = u.pend
        /\ setup.policy = "h2o" /\ Due(u, shown) =>
             \E keep \in Places(Len(u.kv)) :
               /\ keep \in Keeps(Len(u.kv), Len(Scored(u.kv, u.mass)))
               /\ Cut(u.kv, Scored(u.kv, u.mass), keep, r) /\ r.pend = 0
  BY <1>1, PassesShape
<1>7. \/ PutOff(l, u)
      \/ \E keep \in Places(Len(Slots(l))) :
           /\ keep \in Keeps(Len(Slots(l)), Len(mass[l]))
           /\ Cut(Slots(l), mass[l], keep, u) /\ u.pend = pend[l]
  BY <1>1, UpdatesShape
<1>8. ASSUME NEW keep \in Places(Len(Slots(l))),
             keep \in Keeps(Len(Slots(l)), Len(mass[l])),
             Cut(Slots(l), mass[l], keep, u), u.pend = pend[l]
      PROVE  /\ Holds(r.kv, fed \o Fresh, r.pend)
             /\ setup.policy = "h2o" /\ setup.sample = 0 => r.pend = 0
  <2>1. \A left : Holds(u.kv, fed \o Fresh, left)
    BY <1>5, <1>8 DEF Cut
  <2>2. CASE setup.policy # "h2o" \/ ~Due(u, shown)
    BY <1>6, <1>8, <2>1, <2>2 DEF TextInv, ScoreInv
  <2>3. CASE setup.policy = "h2o" /\ Due(u, shown)
    <3>1. PICK again \in Places(Len(u.kv)) :
            /\ again \in Keeps(Len(u.kv), Len(Scored(u.kv, u.mass)))
            /\ Cut(u.kv, Scored(u.kv, u.mass), again, r) /\ r.pend = 0
      BY <1>6, <2>3
    <3>2. u.kv \in Seq(Slot) /\ Len(u.kv) \in Nat /\ Len(u.kv) <= setup.budget
      <4>1. /\ Slots(l) \in Seq(Slot) /\ Len(Slots(l)) \in Nat /\ setup.budget \in Nat
            /\ u.kv = Pick(Slots(l), keep) /\ u \in Layer
        BY <1>1, <1>6, <1>8, UpdatesShape, SetupFacts DEF Cut
      <4>2. /\ Len(u.kv) = Cardinality(keep)
            /\ Len(Slots(l)) > setup.budget => Cardinality(keep) = setup.budget
            /\ Cardinality(keep) <= Len(Slots(l)) /\ Cardinality(keep) \in Nat
        BY <1>1, <1>8, <2>3, <4>1, PickShape, KeepsShape, PlaceFacts DEF Plain
      <4> QED
        BY <4>1, <4>2 DEF Layer
    <3>3. r.kv = u.kv
      BY <1>1, <3>1, <3>2, KeepsShape, PickAll DEF Cut
    <3> QED
      BY <2>1, <3>1, <3>3
  <2> QED
    BY <2>2, <2>3
<1>9. CASE PutOff(l, u)
  <2>1. setup.policy = "h2o" /\ First /\ u.kv = Slots(l) /\ u.pend = Len(Slots(l))
    BY <1>9 DEF PutOff, Unscored
  <2>2. /\ Len(Slots(l)) = Len(kv[l]) + Len(Fresh) /\ Len(kv[l]) \in Nat
        /\ Len(Fresh) \in Nat /\ Len(fed) \in Nat
    <3>1. kv[l] \in Seq(Slot) /\ Fresh \in Seq(Slot) /\ Len(fed) \in Nat
      BY <1>1, <1>2
    <3>2. /\ Len(kv[l] \o Fresh) = Len(kv[l]) + Len(Fresh) /\ Len(kv[l]) \in Nat
          /\ Len(Fresh) \in Nat
      BY ONLY <3>1, Joined
    <3> QED
      BY ONLY <3>1, <3>2 DEF Slots
  <2>3. setup.sample = 0 => Len(kv[l]) <= Len(fed) /\ Len(fed) <= Base
    <3>1. Len(fed) <= Base
      BY <1>3 DEF FedUpTo
    <3>2. setup.sample = 0 => Len(kv[l]) <= Len(fed)
      <4>1. setup.budget \in Nat
        BY <1>1, SetupFacts
      <4>2. setup.sample = 0 => pend[l] = 0
        BY <2>1 DEF TextInv, ScoreInv
      <4> QED
        BY <1>3, <2>2, <4>1, <4>2 DEF Holds
    <3> QED
      BY <3>1, <3>2
  <2>4. ASSUME setup.sample = 0 PROVE Due(u, shown)
    <3>1. Len(u.kv) <= Len(chat.prompt) /\ u.pend # 0
      <4> DEFINE n == Len(Slots(l))
      <4>1. n <= Base + Len(Fresh) /\ n # 0
        <5>1. Base \in Nat /\ Len(Fresh) >= 1
          BY <1>2
        <5> QED
          BY ONLY <2>2, <2>3, <2>4, <5>1
      <4> QED
        BY <1>2, <2>1, <4>1
    <3>2. LastShown = {TRUE}
      BY <2>4 DEF LastShown
    <3>3. shown
      BY <3>2
    <3> QED
      BY <3>1, <3>3 DEF Due, SeenAsPrompt
  <2>5. CASE Due(u, shown)
    <3>1. PICK keep \in Places(Len(u.kv)) :
            /\ keep \in Keeps(Len(u.kv), Len(Scored(u.kv, u.mass)))
            /\ Cut(u.kv, Scored(u.kv, u.mass), keep, r) /\ r.pend = 0
      BY <1>6, <2>1, <2>5
    <3> QED
      BY <1>5, <2>1, <3>1 DEF Cut
  <2>6. CASE ~Due(u, shown)
    <3>1. r.kv = Slots(l) /\ r.pend = Len(Slots(l))
      BY <1>6, <2>1, <2>6
    <3>2. Holds(Slots(l), fed \o Fresh, Len(Slots(l)))
      BY <1>1, <1>2, <1>3, <1>4, HoldsAll DEF Slots
    <3> QED
      BY <2>4, <2>6, <3>1, <3>2
  <2> QED
    BY <2>5, <2>6
<1> QED
  BY <1>7, <1>8, <1>9

\* A step that leaves the cache, and the text of the call.
LEMMA TextStays ==
  ASSUME CacheInv, TextInv, UNCHANGED <<setup, cache, talk>>,
         \/ ~built
         \/ chat.at \in {"free", "called"} /\ chat'.at \in {"free", "called"}
         \/ /\ chat.at \in {"prepared", "generate", "written"}
            /\ chat'.at \in {"prepared", "generate", "written"}
            /\ UNCHANGED made /\ chat'.prompt = chat.prompt /\ chat'.size = chat.size
            /\ chat'.delta = chat.delta /\ chat'.forwards = chat.forwards
  PROVE  TextInv'
<1>1. /\ UNCHANGED <<setup, built, ids, kv, mass, pend, fed, torn, talk>>
      /\ Layers' = Layers /\ (Sound' <=> Sound) /\ (Plain' <=> Plain)
  BY DEF cache, Layers, Sound, Plain
<1>2. /\ \A s, text, r : FedUpTo(s, text, r)' <=> FedUpTo(s, text, r)
      /\ \A h, s, q : Holds(h, s, q)' <=> Holds(h, s, q)
  BY <1>1 DEF FedUpTo, Holds, SameEnds, Plain
<1>3. HoldInv'
  BY <1>1, <1>2 DEF TextInv, HoldInv
<1>4. ScoreInv'
  BY <1>1 DEF TextInv, ScoreInv, Follows
<1>5. FedInv'
  <2>1. CASE ~built
    BY <1>1, <2>1 DEF FedInv, Sound
  <2>2. CASE chat.at \in {"free", "called"} /\ chat'.at \in {"free", "called"}
    BY <1>1, <1>2, <2>2 DEF TextInv, FedInv
  <2>3. CASE /\ chat.at \in {"prepared", "generate", "written"}
             /\ chat'.at \in {"prepared", "generate", "written"}
             /\ UNCHANGED made /\ chat'.prompt = chat.prompt /\ chat'.size = chat.size
             /\ chat'.delta = chat.delta /\ chat'.forwards = chat.forwards
    <3>1. Text' = Text /\ Base' = Base
      BY <2>3 DEF Text, Answer, Base, First, Generated
    <3> QED
      BY <1>1, <1>2, <2>3, <3>1 DEF TextInv, FedInv
  <2> QED
    BY <2>1, <2>2, <2>3
<1> QED
  BY <1>3, <1>4, <1>5 DEF TextInv

\* A cache without slots, of nothing.
LEMMA TextDropped ==
  ASSUME CacheInv, Dropped, setup' = setup
  PROVE  /\ ScoreInv' /\ HoldInv'
         /\ \A text \in Seq(Nat) : FedUpTo(fed', text, 0)
<1>1. /\ Layers' = Layers /\ fed' = <<>>
      /\ \A l \in Layers : kv'[l] = <<>> /\ mass'[l] = <<>> /\ pend'[l] = 0
  BY DEF Dropped, Layers
<1> DEFINE none == <<>>
<1>2. none \in Seq(Slot) /\ Len(none) = 0
  BY EmptySeq
<1>3. setup.budget \in Nat
  BY SetupFacts DEF CacheInv, CacheTypes, RunTypes
<1>4. fed' = none /\ \A l \in Layers : kv'[l] = none /\ mass'[l] = none /\ pend'[l] = 0
  BY <1>1
<1> HIDE DEF none
<1>5. Follows(none, none) /\ Holds(none, none, 0)
  BY <1>2, <1>3 DEF Follows, Holds
<1>6. \A text \in Seq(Nat) : FedUpTo(none, text, 0)
  <2> TAKE text \in Seq(Nat)
  <2>1. 0 <= Len(text)
    OBVIOUS
  <2> QED
    BY <1>2, <2>1 DEF FedUpTo, Increasing
<1>7. \A h, s, q : Holds(h, s, q)' <=> Holds(h, s, q)
  BY DEF Holds, SameEnds, Plain
<1>8. HoldInv'
  BY <1>1, <1>4, <1>5, <1>7 DEF HoldInv
<1>9. ScoreInv'
  BY <1>1, <1>4, <1>5 DEF ScoreInv, Follows
<1> QED
  BY <1>4, <1>6, <1>8, <1>9

\* The prompt that follows goes on where what was fed ends.
LEMMA TextExtends ==
  ASSUME CacheInv, TextInv, Extend
  PROVE  TextInv'
<1>1. /\ chat.at = "called" /\ built /\ IsStrictPrefix(ids, chat.prompt)
      /\ chat' = [chat EXCEPT !.at = "prepared",
                              !.delta = SubSeq(chat.prompt, Len(ids) + 1, Len(chat.prompt)),
                              !.own = TRUE]
      /\ UNCHANGED <<pipeline, calls, made, failed, talk, meta, files>> /\ UNCHANGED cache
  BY DEF Extend, Prepared, Continues
<1>2. /\ UNCHANGED <<setup, built, ids, kv, mass, pend, fed, torn, talk, made>>
      /\ Layers' = Layers /\ (Sound' <=> Sound) /\ (Plain' <=> Plain)
  BY <1>1 DEF cache, Layers, Sound, Plain, pipeline
<1>3. /\ \A s, text, r : FedUpTo(s, text, r)' <=> FedUpTo(s, text, r)
      /\ \A h, s, q : Holds(h, s, q)' <=> Holds(h, s, q)
  BY <1>2 DEF FedUpTo, Holds, SameEnds, Plain
<1>4. HoldInv' /\ ScoreInv'
  BY <1>2, <1>3 DEF TextInv, HoldInv, ScoreInv, Follows
<1> DEFINE p == chat.prompt
           d == SubSeq(p, Len(ids) + 1, Len(p))
           n == Len(ids)
<1>5. /\ RunTypes /\ chat \in CallRecord /\ ids \in Seq(Nat) /\ n \in Nat /\ p \in Seq(Nat)
      /\ CallInv /\ PromptInv /\ fed \in Seq(Slot)
  <2>1. RunTypes /\ chat \in CallRecord /\ ids \in Seq(Nat) /\ CallInv /\ PromptInv
        /\ fed \in Seq(Slot)
    BY DEF CacheInv, CacheTypes, RunTypes, SlotTypes, ChatInv
  <2>2. p \in Seq(Nat)
    BY <2>1 DEF CallRecord
  <2> QED
    BY <2>1, <2>2
<1>6. /\ d \in Seq(Nat) /\ Len(d) = Len(p) - n /\ Len(d) \in 1..Len(p)
      /\ \A i \in 1..n : p[i] = ids[i]
  BY <1>1, <1>5, EndOfPrompt
<1>7. /\ chat'.at = "prepared" /\ chat'.delta = d /\ chat'.prompt = p
      /\ chat'.size = chat.size /\ chat'.forwards = 0
  <2>1. chat.forwards = 0
    BY <1>1, <1>5 DEF CallInv
  <2> HIDE DEF d
  <2>2. chat' = [chat EXCEPT !.at = "prepared", !.delta = d, !.own = TRUE]
    BY <1>1 DEF d
  <2> QED
    BY <1>5, <2>1, <2>2 DEF CallRecord
<1> HIDE DEF d
<1>8. Text' = Text /\ Base' = n
  <2>1. Text' = Text
    BY <1>2, <1>7 DEF Text, Answer, Generated
  <2>2. Base' = Len(p) - Len(d)
    BY <1>7 DEF Base, First
  <2>3. Len(p) \in Nat
    BY <1>5
  <2> HIDE DEF p, n
  <2> QED
    BY <1>5, <1>6, <2>1, <2>2, <2>3
<1>9. /\ Text \in Seq(Nat) /\ n < Len(Text)
      /\ \A i \in 1..n : Text[i] = ids[i]
      /\ n + 1 \in 1..Len(p) /\ Text[n + 1] = p[n + 1]
  <2>1. /\ Text \in Seq(Nat) /\ Len(Text) = Len(p) + chat.size /\ chat.size \in Nat
        /\ \A i \in 1..Len(p) : Text[i] = p[i]
    BY <1>5, TextShape DEF CallRecord
  <2>2. Len(p) \in Nat
    BY <1>5
  <2> HIDE DEF Text, p, n
  <2>3. n < Len(p)
    BY <1>5, <1>6, <2>2
  <2>4. n + 1 \in 1..Len(p) /\ n < Len(Text) /\ \A i \in 1..n : i \in 1..Len(p)
    BY <1>5, <2>1, <2>2, <2>3
  <2> QED
    BY <1>6, <2>1, <2>4
<1>10. Sound => FedUpTo(fed, Text, n)
  <2> SUFFICES ASSUME Sound PROVE FedUpTo(fed, Text, n)
    OBVIOUS
  <2> HIDE DEF Text
  <2>1. CASE Plain
    <3>1. FedUpTo(fed, ids, n)
      BY <1>1, <2>1 DEF TextInv, FedInv
    <3> HIDE DEF p, n
    <3>2. /\ Len(fed) = n /\ Increasing(fed)
          /\ \A i \in 1..Len(fed) : fed[i][1] \in 1..n /\ ids[fed[i][1]] = fed[i][2]
          /\ \A q \in 1..n : \E i \in 1..Len(fed) : fed[i][1] = q
      BY <2>1, <3>1 DEF FedUpTo
    <3>3. \A i \in 1..Len(fed) : Text[fed[i][1]] = fed[i][2]
      BY <1>9, <3>2
    <3>4. n <= Len(Text) /\ Len(fed) <= n
      BY <1>5, <1>9, <3>2
    <3> QED
      BY <3>2, <3>3, <3>4 DEF FedUpTo
  <2>2. CASE ~Plain
    <3>1. /\ ids = talk /\ n >= 1 /\ ids[n] % 2 = 1 /\ FedUpTo(fed, ids, n - 1)
      BY <1>1, <2>2 DEF TextInv, FedInv
    <3>2. p[n + 1] % 2 = 0
      <4>1. \A i \in 1..Len(p) : i > Len(talk) => p[i] % 2 = 0
        BY <1>1, <1>5 DEF PromptInv
      <4>2. Len(talk) = n
        BY <3>1
      <4> HIDE DEF p, n
      <4>3. n + 1 > n
        BY <1>5
      <4> QED
        BY <1>9, <4>1, <4>2, <4>3
    <3> HIDE DEF p, n
    <3>3. Text[n] % 2 = 1 /\ Text[n + 1] # Text[n]
      BY <1>5, <1>9, <3>1, <3>2
    <3>4. /\ n <= Len(Text) /\ Len(fed) <= n /\ Increasing(fed)
          /\ \A i \in 1..Len(fed) : fed[i][1] \in 1..(n - 1) /\ ids[fed[i][1]] = fed[i][2]
      <4>1. /\ Len(fed) <= n - 1 /\ Increasing(fed)
            /\ \A i \in 1..Len(fed) : fed[i][1] \in 1..(n - 1) /\ ids[fed[i][1]] = fed[i][2]
        BY <3>1 DEF FedUpTo
      <4>2. n <= Len(Text) /\ Len(fed) <= n
        <5>1. n \in Nat /\ Len(Text) \in Nat /\ n < Len(Text) /\ Len(fed) \in Nat
          BY <1>1, <1>5, <1>9 DEF TextInv, CacheInv, CacheTypes, SlotTypes
        <5> QED
          BY ONLY <4>1, <5>1
      <4> QED
        BY <4>1, <4>2
    <3>5. \A i \in 1..Len(fed) : fed[i][1] \in 1..n /\ Text[fed[i][1]] = fed[i][2]
      <4>1. \A x \in 1..(n - 1) : x \in 1..n
        BY <1>5
      <4> QED
        BY <1>9, <3>4, <4>1
    <3>6. ASSUME NEW q \in 1..n, \A i \in 1..Len(fed) : fed[i][1] # q
          PROVE  Text[q] % 2 = 1 /\ q < Len(Text) /\ Text[q + 1] # Text[q]
      <4>1. CASE q = n
        BY <1>9, <3>3, <4>1
      <4>2. CASE q # n
        <5>1. q \in 1..(n - 1) /\ q \in 1..n /\ q + 1 \in 1..n
          BY <1>5, <4>2
        <5>2. ids[q] % 2 = 1 /\ ids[q + 1] # ids[q]
          BY <3>1, <3>6, <5>1 DEF FedUpTo
        <5>3. q < Len(Text)
          BY <1>5, <1>9, <5>1
        <5> QED
          BY <1>9, <5>1, <5>2, <5>3
      <4> QED
        BY <4>1, <4>2
    <3> QED
      BY <2>2, <3>4, <3>5, <3>6 DEF FedUpTo
  <2> QED
    BY <2>1, <2>2
<1>11. FedInv'
  <2>1. Sound' => FedUpTo(fed', Text', Base')
    BY <1>2, <1>8, <1>10
  <2>2. Sound' => FedUpTo(fed, Text, Base)'
    BY <1>2, <1>3, <1>8, <2>1
  <2> QED
    BY <1>7, <2>2 DEF FedInv
<1> QED
  BY <1>4, <1>11 DEF TextInv

\* A new cache is fed the prompt from the start.
LEMMA TextBuilds ==
  ASSUME CacheInv, TextInv, Build
  PROVE  TextInv'
<1>1. /\ chat.at = "called" /\ Dropped
      /\ chat' = [chat EXCEPT !.at = "prepared", !.delta = chat.prompt, !.own = TRUE]
      /\ UNCHANGED <<setup, made>>
  BY DEF Build, Prepared, pipeline
<1>2. ScoreInv' /\ HoldInv' /\ \A text \in Seq(Nat) : FedUpTo(fed', text, 0)
  BY <1>1, TextDropped
<1>3. /\ RunTypes /\ chat \in CallRecord /\ CallInv
  BY DEF CacheInv, CacheTypes, RunTypes, ChatInv
<1>4. /\ chat'.at = "prepared" /\ chat'.delta = chat.prompt /\ chat'.prompt = chat.prompt
      /\ chat'.size = chat.size /\ chat'.forwards = 0
  <2>1. chat.forwards = 0
    BY <1>1, <1>3 DEF CallInv
  <2> QED
    BY <1>1, <1>3, <2>1 DEF CallRecord
<1>5. Text' = Text /\ Base' = 0 /\ Text \in Seq(Nat)
  <2>1. Text' = Text
    <3>1. chat'.prompt = chat.prompt /\ chat'.size = chat.size /\ made' = made
      BY <1>1, <1>4
    <3> QED
      BY ONLY <3>1 DEF Text, Answer, Generated
  <2>2. Base' = Len(chat.prompt) - Len(chat.prompt)
    BY <1>4 DEF Base, First
  <2>3. chat.prompt \in Seq(Nat)
    BY <1>3 DEF CallRecord
  <2>4. Len(chat.prompt) \in Nat
    BY <2>3
  <2>5. Text \in Seq(Nat)
    BY <1>3, TextShape
  <2> QED
    BY <2>1, <2>2, <2>4, <2>5
<1>6. \A s, text, r : FedUpTo(s, text, r)' <=> FedUpTo(s, text, r)
  BY <1>1 DEF FedUpTo, Plain
<1>7. FedUpTo(fed, Text, Base)'
  <2>1. FedUpTo(fed', Text', Base')
    BY <1>2, <1>5
  <2> QED
    BY <1>6, <2>1
<1>8. FedInv'
  BY <1>4, <1>7 DEF FedInv
<1> QED
  BY <1>2, <1>8 DEF TextInv

\* A pass feeds the next of the text.
LEMMA TextForward ==
  ASSUME CacheInv, TextInv, Forward
  PROVE  TextInv'
<1>1. /\ Generating /\ chat.at = "generate" /\ chat' = [chat EXCEPT !.forwards = @ + 1]
      /\ UNCHANGED <<setup, made, talk, built, ids, torn>>
  BY DEF Forward, Generating, pipeline
<1>2. /\ RunTypes /\ chat \in CallRecord /\ CacheTypes /\ CallInv /\ setup \in Setups
      /\ OwnInv /\ SlotTypes
  BY DEF CacheInv, CacheTypes, RunTypes, ChatInv
<1>3. /\ Layers' = Layers /\ (Sound' <=> Sound) /\ (Plain' <=> Plain)
      /\ \A s, text, r : FedUpTo(s, text, r)' <=> FedUpTo(s, text, r)
      /\ \A h, s, q : Holds(h, s, q)' <=> Holds(h, s, q)
  BY <1>1 DEF Layers, Sound, Plain, FedUpTo, Holds, SameEnds
<1>4. CASE ~chat.own
  <2>1. ~built /\ UNCHANGED <<kv, mass, pend, fed>>
    BY <1>1, <1>2, <1>4 DEF OwnInv, Forward
  <2> QED
    BY <1>1, <2>1, TextStays DEF cache
<1>5. CASE chat.own
  <2>1. PICK shown \in LastShown : \E r \in AllPass(shown) : Becomes(r)
    BY <1>5 DEF Forward
  <2>2. PICK r : /\ \A l \in Layers : r[l] \in Passes(l, shown)
                 /\ fed' = fed \o Fresh
                 /\ \A l \in Layers : /\ kv'[l] = r[l].kv /\ mass'[l] = r[l].mass
                                      /\ pend'[l] = r[l].pend
    BY <2>1 DEF AllPass, Becomes
  <2>3. HoldInv'
    <3>1. Sound => \A l \in Layers : Holds(kv'[l], fed', pend'[l])
      BY <1>1, <2>2, PassHolds
    <3> QED
      BY <1>3, <3>1 DEF HoldInv
  <2>4. ScoreInv'
    <3> SUFFICES ASSUME setup.policy = "h2o", NEW l \in Layers
                 PROVE  /\ Follows(mass'[l], kv'[l])
                        /\ Sound => mass'[l] = kv'[l] /\ (setup.sample = 0 => pend'[l] = 0)
      BY <1>1, <1>3 DEF ScoreInv, Follows
    <3>1. Follows(mass[l], kv[l])
      BY DEF TextInv, ScoreInv
    <3>2. r[l].mass = r[l].kv /\ Follows(r[l].mass, r[l].kv)
      BY <1>1, <2>2, <3>1, PassScores
    <3>3. Sound => (setup.sample = 0 => r[l].pend = 0)
      BY <1>1, <2>2, PassHolds
    <3> QED
      BY <2>2, <3>2, <3>3
  <2>5. /\ Base \in Nat /\ Base + Len(Fresh) <= Len(Text) /\ Fresh \in Seq(Slot)
        /\ Text \in Seq(Nat) /\ fed \in Seq(Slot)
        /\ \A i \in 1..Len(Fresh) : Fresh[i] = <<Base + i, Text[Base + i]>>
        /\ Len(chat.prompt) + chat.forwards = Base + Len(Fresh)
    BY <1>1, <1>2, NextOfText DEF SlotTypes
  <2>6. Sound => FedUpTo(fed \o Fresh, Text, Base + Len(Fresh))
    <3>1. Sound => FedUpTo(fed, Text, Base)
      BY <1>1 DEF TextInv, FedInv
    <3> DEFINE f == Fresh
               t == Text
               b == Base
    <3> HIDE DEF f, t, b
    <3>2. /\ b \in Nat /\ b + Len(f) <= Len(t) /\ f \in Seq(Slot) /\ t \in Seq(Nat)
          /\ \A i \in 1..Len(f) : f[i] = <<b + i, t[b + i]>>
          /\ (Sound => FedUpTo(fed, t, b)) /\ fed \in Seq(Slot)
      BY <2>5, <3>1 DEF f, t, b
    <3>3. Sound => FedUpTo(fed \o f, t, b + Len(f))
      BY <3>2, FedStep
    <3> QED
      BY <3>3 DEF f, t, b
  <2>7. /\ chat'.at = "generate" /\ Text' = Text /\ Base' = Len(chat.prompt) + chat.forwards
    <3> DEFINE n == chat.forwards + 1
    <3>1. chat.forwards \in Nat
      BY <1>2 DEF CallRecord
    <3>2. n # 0 /\ Len(chat.prompt) + n - 1 = Len(chat.prompt) + chat.forwards
      <4>1. chat.prompt \in Seq(Nat)
        BY <1>2 DEF CallRecord
      <4>2. Len(chat.prompt) \in Nat
        BY <4>1
      <4> QED
        BY <3>1, <4>2
    <3>3. chat' = [chat EXCEPT !.forwards = n]
      BY <1>1
    <3> HIDE DEF n
    <3>4. /\ chat'.at = "generate" /\ chat'.prompt = chat.prompt /\ chat'.size = chat.size
          /\ chat'.forwards = n
      BY <1>1, <1>2, <3>3 DEF CallRecord
    <3>5. Base' = Len(chat.prompt) + n - 1
      BY <3>2, <3>4 DEF Base, First
    <3> QED
      BY <1>1, <3>2, <3>4, <3>5 DEF Text, Answer, Generated
  <2>8. FedInv'
    <3>1. Sound => FedUpTo(fed', Text', Base')
      BY <2>2, <2>5, <2>6, <2>7
    <3>2. Sound' => FedUpTo(fed, Text, Base)'
      BY <1>3, <3>1
    <3> QED
      BY <2>7, <3>2 DEF FedInv
  <2> QED
    BY <2>3, <2>4, <2>8 DEF TextInv
<1> QED
  BY <1>4, <1>5

\* A call that failed after it had begun to use the cache has torn it.
LEMMA TextTorn ==
  ASSUME CacheInv, TextInv, NEW tear, Raise(tear), tear \/ ~built,
         setup.policy = "h2o" => \A l \in Layers : Follows(mass'[l], kv'[l])
  PROVE  TextInv'
<1>1. ~Sound' /\ Layers' = Layers /\ setup' = setup
  BY DEF Raise, Sound, Layers, pipeline
<1> QED
  BY <1>1 DEF TextInv, FedInv, HoldInv, ScoreInv, Follows

\* The calls that fail before a pass, or after the last.
LEMMA TextFails ==
  ASSUME CacheInv, TextInv, OutOfStep \/ CannotBegin \/ FlushFails
  PROVE  TextInv'
<1>1. UNCHANGED <<kv, mass, pend, fed>> /\ OwnInv
  BY DEF OutOfStep, CannotBegin, FlushFails, CacheInv, ChatInv
<1>2. setup.policy = "h2o" => \A l \in Layers : Follows(mass'[l], kv'[l])
  BY <1>1 DEF TextInv, ScoreInv
<1>3. CASE CannotBegin \/ FlushFails
  <2>1. Raise(built) \/ (Raise(chat.own) /\ (chat.own \/ ~built))
    BY <1>1, <1>3 DEF CannotBegin, FlushFails, OwnInv
  <2> QED
    BY <1>2, <2>1, TextTorn
<1>4. CASE OutOfStep
  <2>1. /\ chat.at = "called" /\ Plain /\ chat' = Idle /\ torn' = (torn \/ FALSE)
        /\ UNCHANGED <<ids, built, setup>>
    BY <1>4 DEF OutOfStep, InStep, Raise, pipeline
  <2>2. /\ chat'.at = "free" /\ Layers' = Layers /\ (Sound' => Sound) /\ (Plain' <=> Plain)
        /\ \A s, text, r : FedUpTo(s, text, r)' <=> FedUpTo(s, text, r)
        /\ \A h, s, q : Holds(h, s, q)' <=> Holds(h, s, q)
    <3>1. chat'.at = "free" /\ Layers' = Layers /\ (Sound' => Sound)
      BY <2>1, IdleShape DEF Layers, Sound
    <3>2. Plain' <=> Plain
      BY <2>1 DEF Plain
    <3>3. \A s, text, r : FedUpTo(s, text, r)' <=> FedUpTo(s, text, r)
      BY <3>2 DEF FedUpTo
    <3>4. \A h, s, q : Holds(h, s, q)' <=> Holds(h, s, q)
      BY <2>1, <3>2 DEF Holds, SameEnds
    <3> QED
      BY <3>1, <3>2, <3>3, <3>4
  <2>3. FedInv'
    <3>1. Sound => FedUpTo(fed, ids, Len(ids))
      BY <2>1 DEF TextInv, FedInv
    <3> QED
      BY <1>1, <2>1, <2>2, <3>1 DEF FedInv
  <2>4. HoldInv'
    BY <1>1, <2>2 DEF TextInv, HoldInv
  <2>5. ScoreInv'
    BY <1>1, <2>1, <2>2 DEF TextInv, ScoreInv, Follows
  <2> QED
    BY <2>3, <2>4, <2>5 DEF TextInv
<1> QED
  BY <1>3, <1>4

\* A pass that fails leaves the scores with their slots.
LEMMA TextBreaks ==
  ASSUME CacheInv, TextInv, ForwardFails
  PROVE  TextInv'
<1>1. /\ chat.at = "generate" /\ Raise(chat.own) /\ (chat.own \/ ~built)
      /\ \/ UNCHANGED <<kv, mass, pend, fed>>
         \/ chat.own /\ \E at \in Layers, shown \in LastShown :
              \/ PassesUntil(at, Breaks(at), shown)
              \/ PassesUntil(at, Raises(at, shown), shown)
  BY DEF ForwardFails, Generating, CacheInv, ChatInv, OwnInv
<1>2. ASSUME setup.policy = "h2o", NEW at \in Layers, NEW shown, NEW ways,
             ways = Breaks(at) \/ ways = Raises(at, shown),
             PassesUntil(at, ways, shown), chat.own
      PROVE  \A l \in Layers : Follows(mass'[l], kv'[l])
  <2>1. PICK r \in [Layers -> ways \cup UNION {Passes(l, shown) \cup {Unpassed(l)} :
                                        l \in Layers}] :
          /\ r[at] \in ways
          /\ \A l \in Layers : /\ l < at => r[l] \in Passes(l, shown)
                               /\ l > at => r[l] = Unpassed(l)
          /\ Becomes(r)
    BY <1>2 DEF PassesUntil
  <2>2. \A l \in Layers : kv'[l] = r[l].kv /\ mass'[l] = r[l].mass
    BY <2>1 DEF Becomes
  <2>3. /\ CacheTypes /\ CallInv /\ \A l \in Layers : l \in Nat /\ Follows(mass[l], kv[l])
    BY <1>2, OwnsIt DEF Layers, TextInv, ScoreInv
  <2>4. \A l \in Layers : \A x \in Passes(l, shown) : Follows(x.mass, x.kv)
    BY <1>1, <1>2, <2>3, PassScores
  <2>5. \A l \in Layers : Follows(Unpassed(l).mass, Unpassed(l).kv)
    BY <2>3 DEF Unpassed
  <2>6. \A x \in Updates(at) : Follows(x.mass, x.kv) /\ x.kv \in Seq(Slot)
                              /\ Scored(x.kv, x.mass) = x.kv
    BY <1>1, <1>2, <2>3, UpdateScores
  <2>7. ASSUME NEW x \in ways PROVE Follows(x.mass, x.kv)
    <3>1. CASE x \in Breaks(at)
      BY <2>5, <2>6, <3>1 DEF Breaks
    <3>2. CASE x \in Raises(at, shown)
      <4>1. PICK u \in Updates(at) : x.kv = u.kv /\ x.mass = Scored(u.kv, u.mass)
        BY <1>1, <1>2, <2>3, <3>2, BreaksShape
      <4>2. x.mass = x.kv /\ x.kv \in Seq(Slot)
        BY <2>6, <4>1
      <4>3. Len(x.kv) \in Nat
        BY <4>2
      <4> QED
        BY <4>2, <4>3 DEF Follows
    <3> QED
      BY <1>2, <3>1, <3>2
  <2>8. \A l \in Layers : Follows(r[l].mass, r[l].kv)
    <3> TAKE l \in Layers
    <3>1. l < at \/ l > at \/ l = at
      BY <2>3
    <3> QED
      BY <2>1, <2>4, <2>5, <2>7, <3>1
  <2> QED
    BY <2>2, <2>8
<1>3. setup.policy = "h2o" => \A l \in Layers : Follows(mass'[l], kv'[l])
  <2>1. CASE UNCHANGED <<kv, mass, pend, fed>>
    BY <2>1 DEF TextInv, ScoreInv
  <2> QED
    BY <1>1, <1>2, <2>1
<1> QED
  BY <1>1, <1>3, TextTorn

\* What the provider notes is the text that was fed.
LEMMA TextNoted ==
  ASSUME CacheInv, TextInv, Note
  PROVE  TextInv'
<1>1. /\ chat.at = "written" /\ chat' = Idle
      /\ UNCHANGED <<setup, made, built, kv, mass, pend, fed, torn>>
  BY DEF Note, pipeline
<1>2. /\ chat'.at = "free" /\ Layers' = Layers /\ (Sound' <=> Sound) /\ (Plain' <=> Plain)
      /\ \A s, text, r : FedUpTo(s, text, r)' <=> FedUpTo(s, text, r)
      /\ \A h, s, q : Holds(h, s, q)' <=> Holds(h, s, q)
  BY <1>1, IdleShape DEF Layers, Sound, Plain, FedUpTo, Holds, SameEnds
<1>3. HoldInv' /\ ScoreInv'
  BY <1>1, <1>2 DEF TextInv, HoldInv, ScoreInv, Follows
<1>4. /\ RunTypes /\ CallInv /\ chat \in CallRecord /\ 1 \in Layers /\ fed \in Seq(Slot)
  BY SetupFacts DEF CacheInv, CacheTypes, RunTypes, SlotTypes, ChatInv
<1>5. /\ ids' \in Seq(Nat)
      /\ built /\ ~Plain => ids' = Text
      /\ built /\ Plain /\ Len(kv[1]) <= Len(Text) =>
           Len(ids') = Len(kv[1]) /\ \A i \in 1..Len(ids') : ids'[i] = Text[i]
      /\ Text \in Seq(Nat) /\ talk' = Text
  BY NoteIds
<1>6. /\ Len(Text) = Len(chat.prompt) + chat.size /\ chat.size \in 1..2
      /\ Len(chat.prompt) \in Nat /\ chat.forwards = chat.size
      /\ Text[Len(chat.prompt) + chat.size] = Generated(made) /\ Generated(made) % 2 = 1
  <2>1. chat.size \in 1..2 /\ chat.forwards = chat.size /\ chat.prompt \in Seq(Nat)
    BY <1>1, <1>4 DEF CallInv, CallRecord
  <2>2. /\ Len(Text) = Len(chat.prompt) + chat.size
        /\ \A i \in 1..chat.size : Text[Len(chat.prompt) + i] = Generated(made)
        /\ Generated(made) % 2 = 1
    BY <1>4, TextShape
  <2>3. chat.size \in 1..chat.size /\ Len(chat.prompt) \in Nat
    BY <2>1
  <2> QED
    BY <2>1, <2>2, <2>3
<1>7. Base = Len(Text) - 1 /\ Len(Text) >= 1 /\ Len(Text) \in Nat /\ Text[Len(Text)] % 2 = 1
  <2>1. Base = Len(chat.prompt) + chat.size - 1
    <3>1. chat.forwards = chat.size /\ ~(chat.size = 0)
      BY <1>6
    <3> QED
      BY <3>1 DEF Base, First
  <2> HIDE DEF Text, Base
  <2> QED
    BY <1>6, <2>1
<1> HIDE DEF Text
<1>8. ASSUME Sound
      PROVE  IF Plain THEN FedUpTo(fed, ids', Len(ids'))
             ELSE /\ ids' = talk' /\ Len(ids') >= 1 /\ ids'[Len(ids')] % 2 = 1
                  /\ FedUpTo(fed, ids', Len(ids') - 1)
  <2>1. FedUpTo(fed, Text, Len(Text) - 1) /\ Holds(kv[1], fed, pend[1])
    BY <1>1, <1>4, <1>7, <1>8 DEF TextInv, FedInv, HoldInv
  <2>2. CASE ~Plain
    BY <1>5, <1>7, <1>8, <2>1, <2>2 DEF Sound
  <2>3. CASE Plain
    <3>1. kv[1] = fed
      BY <2>1, <2>3 DEF Holds
    <3> DEFINE n == Len(Text) - 1
    <3>2. /\ Len(fed) = n /\ Increasing(fed)
          /\ \A i \in 1..Len(fed) : fed[i][1] \in 1..n /\ Text[fed[i][1]] = fed[i][2]
          /\ \A q \in 1..n : \E i \in 1..Len(fed) : fed[i][1] = q
      BY <2>1, <2>3 DEF FedUpTo
    <3>3. n \in Nat /\ n <= Len(Text)
      BY <1>7
    <3> HIDE DEF n
    <3>4. Len(ids') = n /\ \A i \in 1..n : ids'[i] = Text[i]
      BY <1>5, <1>7, <1>8, <2>3, <3>1, <3>2, <3>3 DEF Sound
    <3>5. \A i \in 1..Len(fed) : ids'[fed[i][1]] = fed[i][2]
      BY <3>2, <3>4
    <3> DEFINE new == ids'
    <3> HIDE DEF new
    <3>6. /\ Len(new) = n /\ \A i \in 1..Len(fed) : new[fed[i][1]] = fed[i][2]
      BY <3>4, <3>5 DEF new
    <3>7. FedUpTo(fed, new, n)
      <4>1. n <= Len(new) /\ Len(fed) <= n
        BY <3>2, <3>3, <3>6
      <4> QED
        BY <3>2, <3>6, <4>1 DEF FedUpTo
    <3> QED
      BY <2>3, <3>6, <3>7 DEF new
  <2> QED
    BY <2>2, <2>3
<1>9. FedInv'
  <2>1. CASE Plain
    <3>1. Sound => FedUpTo(fed, ids', Len(ids'))
      BY <1>8, <2>1
    <3>2. Sound => FedUpTo(fed, ids, Len(ids))'
      BY <1>1, <1>2, <3>1
    <3> QED
      BY <1>2, <2>1, <3>2 DEF FedInv
  <2>2. CASE ~Plain
    <3>1. Sound => /\ ids' = talk' /\ Len(ids') >= 1 /\ ids'[Len(ids')] % 2 = 1
                   /\ FedUpTo(fed, ids', Len(ids') - 1)
      BY <1>8, <2>2
    <3>2. Sound => FedUpTo(fed, ids, Len(ids) - 1)'
      BY <1>1, <1>2, <3>1
    <3> QED
      BY <1>2, <2>2, <3>1, <3>2 DEF FedInv
  <2> QED
    BY <2>1, <2>2
<1> QED
  BY <1>3, <1>9 DEF TextInv

\* The steps that leave the cache, or drop it.
LEMMA TextAside ==
  ASSUME CacheInv, TextInv,
         \/ Chat \/ NoCache \/ BeginGenerate \/ Flush \/ AwaitIdle \/ PreflightFails
         \/ StartAttempt \/ AgentEnds \/ FinishAttempt \/ FinishFails \/ Exit
  PROVE  TextInv'
<1>1. chat \in CallRecord /\ OwnInv
  BY DEF CacheInv, CacheTypes, RunTypes, ChatInv
<1>2. CASE Chat
  <2>1. /\ chat.at = "free" /\ UNCHANGED <<setup, cache, talk>>
        /\ \E p \in Prompts : \E size \in 1..2 :
             chat' = [Idle EXCEPT !.at = "called", !.idx = calls, !.prompt = p,
                                 !.size = size, !.late = stage \in {"ready", "collect"}]
    BY <1>2 DEF Chat
  <2>2. chat'.at = "called"
    BY <2>1 DEF Idle
  <2> QED
    BY <2>1, <2>2, TextStays
<1>3. CASE NoCache
  <2>1. ~built /\ UNCHANGED <<setup, cache, talk>>
    BY <1>1, <1>3 DEF NoCache, OwnInv, Prepared, pipeline
  <2> QED
    BY <2>1, TextStays
<1>4. CASE BeginGenerate \/ Flush
  <2>1. /\ UNCHANGED <<setup, cache, talk, made>> /\ chat.at \in {"prepared", "generate"}
        /\ \/ chat' = [chat EXCEPT !.at = "generate", !.home = attemptDir]
           \/ chat' = [chat EXCEPT !.at = "written"]
    BY <1>4 DEF BeginGenerate, Flush, pipeline
  <2>2. /\ chat'.at \in {"generate", "written"} /\ chat'.prompt = chat.prompt
        /\ chat'.size = chat.size /\ chat'.delta = chat.delta /\ chat'.forwards = chat.forwards
    BY <1>1, <2>1 DEF CallRecord
  <2> QED
    BY <2>1, <2>2, TextStays
<1>5. CASE AwaitIdle \/ PreflightFails \/ AgentEnds \/ FinishAttempt \/ FinishFails
  <2>1. UNCHANGED <<setup, cache, talk, made, chat>>
    BY <1>5 DEF AwaitIdle, PreflightFails, AgentEnds, FinishAttempt, FinishFails, PipeFrame
  <2>2. chat.at \in {"free", "called", "prepared", "generate", "written"}
    BY <1>1 DEF CallRecord
  <2> QED
    BY <2>1, <2>2, TextStays
<1>6. CASE StartAttempt \/ Exit
  <2>1. Dropped /\ built' = FALSE /\ setup' = setup
    BY <1>6 DEF StartAttempt, Exit, Forgets, PipeFrame
  <2>2. ScoreInv' /\ HoldInv'
    BY <2>1, TextDropped
  <2>3. FedInv'
    BY <2>1 DEF FedInv, Sound
  <2> QED
    BY <2>2, <2>3 DEF TextInv
<1> QED
  BY <1>2, <1>3, <1>4, <1>5, <1>6

\* All together.
LEMMA TextStep ==
  ASSUME CacheInv, TextInv, [CacheNext]_cacheVars
  PROVE  TextInv'
<1>1. CASE UNCHANGED cacheVars
  <2>1. UNCHANGED <<setup, cache, talk, made, chat>>
    BY <1>1 DEF cacheVars, cache
  <2>2. chat.at \in {"free", "called", "prepared", "generate", "written"}
    BY DEF CacheInv, CacheTypes, RunTypes, CallRecord
  <2> QED
    BY <2>1, <2>2, TextStays
<1> QED
  BY <1>1, TextAside, TextBuilds, TextExtends, TextForward, TextFails, TextBreaks, TextNoted
     DEF CacheNext, CallStep

\* There is no cache.
LEMMA TextBegins ==
  ASSUME CacheInit
  PROVE  TextInv
<1>1. built = FALSE /\ kv = [l \in Layers |-> <<>>] /\ mass = kv
  BY DEF CacheInit
<1> DEFINE none == <<>>
<1>2. Len(none) = 0
  OBVIOUS
<1>3. \A l \in Layers : kv[l] = none /\ mass[l] = none
  BY <1>1
<1> HIDE DEF none
<1>4. Follows(none, none)
  BY <1>2 DEF Follows
<1> QED
  BY <1>1, <1>3, <1>4 DEF TextInv, FedInv, HoldInv, ScoreInv, Sound

\* The last m of a sequence.
LEMMA LastPart ==
  ASSUME NEW S, NEW c \in Seq(S), NEW m \in Nat, m <= Len(c)
  PROVE  SubSeq(c, Len(c) - m + 1, Len(c)) = [i \in 1..m |-> c[Len(c) - (m - i)]]
<1>1. Len(c) \in Nat
  OBVIOUS
<1>2. /\ Len(c) - (Len(c) - m + 1) + 1 = m
      /\ \A i \in 1..m : Len(c) - m + 1 + i - 1 = Len(c) - (m - i)
  BY <1>1
<1> QED
  BY <1>1, <1>2

\* The ends of two sequences are the same.
LEMMA EndsEqual ==
  ASSUME setup \in Setups, NEW held \in Seq(Slot), NEW s \in Seq(Slot), SameEnds(held, s),
         setup.sink <= Len(held), setup.sink <= Len(s),
         setup.recent <= Len(held), setup.recent <= Len(s)
  PROVE  /\ Firsts(held, setup.sink) = Firsts(s, setup.sink)
         /\ Lasts(held, setup.recent) = Lasts(s, setup.recent)
<1> DEFINE a == Len(held)
           b == Len(s)
           k == setup.sink
           m == setup.recent
<1>1. a \in Nat /\ b \in Nat /\ k \in Nat /\ m \in Nat
  BY SetupFacts
<1>2. /\ k <= a /\ k <= b /\ m <= a /\ m <= b
      /\ \A i \in 1..k : held[i] = s[i]
      /\ \A j \in 0..(m - 1) : held[a - j] = s[b - j]
  BY DEF SameEnds
<1>3. /\ Firsts(held, k) = SubSeq(held, 1, k) /\ Firsts(s, k) = SubSeq(s, 1, k)
      /\ Lasts(held, m) = SubSeq(held, a - m + 1, a) /\ Lasts(s, m) = SubSeq(s, b - m + 1, b)
  BY DEF Firsts, Lasts
<1> HIDE DEF a, b, k, m
<1>4. SubSeq(held, 1, k) = SubSeq(s, 1, k)
  <2>1. SubSeq(held, 1, k) = [i \in 1..k |-> held[i]] /\ SubSeq(s, 1, k) = [i \in 1..k |-> s[i]]
    BY <1>1, <1>2 DEF a, b
  <2> QED
    BY <1>2, <2>1
<1>5. SubSeq(held, a - m + 1, a) = SubSeq(s, b - m + 1, b)
  <2>1. /\ SubSeq(held, a - m + 1, a) = [i \in 1..m |-> held[a - (m - i)]]
        /\ SubSeq(s, b - m + 1, b) = [i \in 1..m |-> s[b - (m - i)]]
    <3>1. a = Len(held) /\ b = Len(s)
      BY DEF a, b
    <3>2. SubSeq(held, a - m + 1, a) = [i \in 1..m |-> held[a - (m - i)]]
      BY <1>1, <1>2, <3>1, LastPart
    <3>3. SubSeq(s, b - m + 1, b) = [i \in 1..m |-> s[b - (m - i)]]
      BY <1>1, <1>2, <3>1, LastPart
    <3> QED
      BY <3>2, <3>3
  <2>2. ASSUME NEW i \in 1..m PROVE held[a - (m - i)] = s[b - (m - i)]
    <3>1. m - i \in 0..(m - 1)
      BY <1>1
    <3> QED
      BY <1>2, <3>1
  <2> QED
    BY <2>1, <2>2
<1> QED
  BY <1>3, <1>4, <1>5 DEF k, m

\* So the cache is the conversation.
LEMMA TextIsCache ==
  ASSUME CacheInv, TextInv
  PROVE  CacheIsText
<1>1. /\ setup \in Setups /\ ids \in Seq(Nat) /\ fed \in Seq(Slot)
      /\ \A l \in Layers : kv[l] \in Seq(Slot) /\ mass[l] \in Seq(Slot)
      /\ built => setup.policy # "off"
  BY DEF CacheInv, CacheTypes, RunTypes, SlotTypes, ChatInv, OwnInv
<1>2. FedTheText
  <2> SUFFICES ASSUME chat.at = "free", Sound
               PROVE  /\ \A i, j \in 1..Len(fed) : i < j => fed[i][1] < fed[j][1]
                      /\ \A i \in 1..Len(fed) : fed[i][1] <= Len(ids) /\ ids[fed[i][1]] = fed[i][2]
                      /\ \A p \in 1..Len(ids) :
                           (\A i \in 1..Len(fed) : fed[i][1] # p) => ~Plain /\ AnswerEnd(p)
    BY DEF FedTheText
  <2>1. CASE Plain
    <3>1. FedUpTo(fed, ids, Len(ids))
      BY <2>1 DEF TextInv, FedInv
    <3>2. \A x \in 1..Len(ids) : x <= Len(ids)
      BY <1>1
    <3> QED
      BY <2>1, <3>1, <3>2 DEF FedUpTo, Increasing
  <2>2. CASE ~Plain
    <3> DEFINE n == Len(ids)
    <3>1. n \in Nat /\ n >= 1 /\ ids[n] % 2 = 1 /\ FedUpTo(fed, ids, n - 1)
      BY <1>1, <2>2 DEF TextInv, FedInv
    <3> HIDE DEF n
    <3>2. /\ \A i, j \in 1..Len(fed) : i < j => fed[i][1] < fed[j][1]
          /\ \A i \in 1..Len(fed) : fed[i][1] \in 1..(n - 1) /\ ids[fed[i][1]] = fed[i][2]
          /\ \A p \in 1..(n - 1) : (\A i \in 1..Len(fed) : fed[i][1] # p) =>
               ids[p] % 2 = 1 /\ ids[p + 1] # ids[p]
      BY <3>1 DEF FedUpTo, Increasing
    <3>3. \A i \in 1..Len(fed) : fed[i][1] <= n
      BY <3>1, <3>2
    <3>4. ASSUME NEW p \in 1..n, \A i \in 1..Len(fed) : fed[i][1] # p
          PROVE  ids[p] % 2 = 1 /\ (p = n \/ ids[p + 1] # ids[p])
      <4>1. p = n \/ p \in 1..(n - 1)
        BY <3>1
      <4> QED
        BY <3>1, <3>2, <3>4, <4>1
    <3> QED
      BY <2>2, <3>2, <3>3, <3>4 DEF n, AnswerEnd
  <2> QED
    BY <2>1, <2>2
<1>3. Windowed
  <2> SUFFICES ASSUME Sound, NEW l \in Layers, ~(Plain \/ Len(fed) <= setup.budget)
               PROVE  /\ Len(kv[l]) = setup.budget \/ (pend[l] # 0 /\ Len(kv[l]) = pend[l])
                      /\ ToSet(kv[l]) \subseteq ToSet(fed)
                      /\ \A i, j \in 1..Len(kv[l]) : i < j => kv[l][i][1] < kv[l][j][1]
                      /\ setup.policy # "random" =>
                           /\ Firsts(kv[l], setup.sink) = Firsts(fed, setup.sink)
                           /\ Lasts(kv[l], setup.recent) = Lasts(fed, setup.recent)
    BY DEF Windowed, TextInv, HoldInv, Holds
  <2> DEFINE held == kv[l]
  <2>0. setup.budget \in Nat /\ Len(held) \in Nat
    BY <1>1, SetupFacts
  <2>1. /\ Len(held) = setup.budget \/ (Len(held) > setup.budget /\ Len(held) = pend[l])
        /\ Increasing(held) /\ held \in Seq(Slot)
        /\ \A i \in 1..Len(held) : \E j \in 1..Len(fed) : held[i] = fed[j]
        /\ setup.policy # "random" => SameEnds(held, fed)
    BY <1>1 DEF TextInv, HoldInv, Holds
  <2> HIDE DEF held
  <2>2. ToSet(held) \subseteq ToSet(fed)
    <3>1. DOMAIN held = 1..Len(held) /\ DOMAIN fed = 1..Len(fed)
      BY <1>1, <2>1
    <3> QED
      BY <2>1, <3>1 DEF ToSet
  <2>3. ASSUME setup.policy # "random"
        PROVE  /\ Firsts(held, setup.sink) = Firsts(fed, setup.sink)
               /\ Lasts(held, setup.recent) = Lasts(fed, setup.recent)
    <3>1. /\ setup.budget \in Nat /\ setup.sink \in Nat /\ setup.recent \in Nat
          /\ setup.sink <= setup.budget /\ setup.recent <= setup.budget
      BY <1>1, <2>3, SetupFacts DEF Sound, Plain
    <3>2. /\ setup.sink <= Len(held) /\ setup.sink <= Len(fed)
          /\ setup.recent <= Len(held) /\ setup.recent <= Len(fed)
      BY <1>1, <2>0, <2>1, <3>1
    <3> QED
      BY <1>1, <2>1, <2>3, <3>2, EndsEqual
  <2>4. Len(held) = setup.budget \/ (pend[l] # 0 /\ Len(held) = pend[l])
    BY <2>0, <2>1
  <2> QED
    BY <2>1, <2>2, <2>3, <2>4 DEF held, Increasing
<1>4. ScoresFollow
  BY DEF TextInv, ScoreInv, Follows, ScoresFollow
<1> QED
  BY <1>2, <1>3, <1>4 DEF CacheIsText

\* Between calls, as long as none has failed, the cache was fed the conversation the
\* provider believes it holds; every layer holds of it, in order, what the policy keeps,
\* or all that H2O, shown a sample of the rows, has put off to decide; and a score of
\* H2O is that of the slot with its index, also after failures.  For any policy, budget,
\* windows, sample, layers and conversation.
THEOREM CacheKeepsText == CacheSpec => []CacheIsText
<1>1. CacheInv /\ TextInv => CacheIsText
  BY TextIsCache
<1>2. CacheInv /\ TextInv /\ [CacheNext]_cacheVars => TextInv'
  BY TextStep
<1> QED
  BY <1>1, <1>2, CacheRuns, TextBegins, PTL DEF CacheSpec
=============================================================================
