------------------------- MODULE KeysAndUsageProofs -------------------------
(***************************************************************************)
(* Proofs about what the server keeps of the use its accounts make of it:  *)
(* of ProviderKeys, for every number of keys, requests and calls, every    *)
(* limit of keys and of attempts and every set of answers a vendor may     *)
(* give; and of UsageLog, for every number of requests, every size of the  *)
(* buffer and of a batch and every set of signals.                         *)
(*                                                                         *)
(* The two share no state: each part is about the specification it names,  *)
(* Spec of ProviderKeys or UsageSpec.                                      *)
(***************************************************************************)
EXTENDS ProviderKeys, UsageLog, FiniteSetTheorems, SequenceTheorems, TLAPS

(***************************************************************************)
(* The inductive invariant of ProviderKeys.                                *)
(***************************************************************************)
(* What an update writes: what two rows of one account differ in.           *)
Change == {Changed(p[1], p[2]) : p \in {q \in Row \X Row : q[1].account = q[2].account}}

JobRecord ==
  [kind : {"none", "add", "update", "reorder"}, account : Account \cup {None},
   on : Key \cup {None}, gone : BOOLEAN, put : {None, 1} \cup Change, count : 0..MaxKeys,
   list : Seq(Key), todo : SUBSET Nat, fresh : BOOLEAN]

JobOK(x) ==
  /\ x.kind = "add" => x.account \in Account /\ x.put \in {None, 1}
  /\ x.kind = "update" => x.account \in Account /\ x.on \in Key /\ x.put \in Change
  /\ x.kind = "reorder" => x.account \in Account

Entry == [key : Key \cup {BuiltIn}, kind : Kind]

WalkRecord ==
  [at : {"idle", "loading", "trying", "answered", "failed", "ended"},
   actor : Person \cup {None}, provider : Provider \cup {None},
   chain : Seq(Key \cup {BuiltIn}), next : Nat \ {0}, retry : 0..(MaxAttempts - 1),
   log : Seq(Entry), recorded : Nat]

Typed ==
  /\ fallback \in BOOLEAN /\ asked \in Nat /\ moved \in [Walk -> SUBSET Account]
  /\ key \in [Key -> Row \cup {None}]
  /\ made \in Seq(Key) /\ \A k \in Stored : k \in Members(made)
  /\ job \in [Job -> JobRecord] /\ \A j \in Job : JobOK(job[j])
  /\ walk \in [Walk -> WalkRecord]

(* Of one walk: every key of the chain is there once; a key before the one   *)
(* the walk is at is spent, that one was tried as often as it counts, and    *)
(* those after it were not tried.                                            *)
Distinct(s) == \A i, j \in 1..Len(s) : s[i] = s[j] => i = j
TriesOf(x, k) == {i \in 1..Len(x.log) : x.log[i].key = k}
Spent(x, k) ==
  /\ TriesOf(x, k) # {} /\ Cardinality(TriesOf(x, k)) <= MaxAttempts
  /\ \/ Cardinality(TriesOf(x, k)) = MaxAttempts
     \/ \E i \in TriesOf(x, k) : x.log[i].kind \notin RetrySameKey

WalkOK(x) ==
  /\ Distinct(x.chain)
  /\ x.at \in {"idle", "loading"} =>
       x.log = <<>> /\ x.next = 1 /\ x.retry = 0 /\ x.recorded = 0
  /\ x.recorded <= Len(x.log)
  /\ \A i \in 1..Len(x.log) :
       x.log[i].kind \in FatalForChain \cup {"SUCCESS"} => i = Len(x.log) /\ x.at # "trying"
  /\ \A m \in 1..(x.next - 1) : m <= Len(x.chain) /\ Spent(x, x.chain[m])
  /\ x.at = "trying" =>
       /\ x.next <= Len(x.chain)
       /\ Cardinality(TriesOf(x, x.chain[x.next])) = x.retry
       /\ \A i \in TriesOf(x, x.chain[x.next]) : x.log[i].kind \in RetrySameKey
       /\ \A m \in 1..Len(x.chain) : m > x.next => TriesOf(x, x.chain[m]) = {}
  /\ x.at = "failed" /\ (\A i \in 1..Len(x.log) : x.log[i].kind \notin FatalForChain) =>
       \A m \in 1..Len(x.chain) : Spent(x, x.chain[m])

(* A chain is made of keys that were stored, and of the built-in one; before *)
(* the caller's keys are loaded, of the organisation's only.                 *)
ChainOK(w) ==
  /\ \A i \in 1..Len(walk[w].chain) : walk[w].chain[i] \in Members(made) \cup {BuiltIn}
  /\ walk[w].at = "loading" =>
       \A i \in 1..Len(walk[w].chain) : Payer(walk[w].chain[i]) \in {Org, None}

(* An update that will find its row finds it on the account it was asked for.*)
UpdateOK(j) ==
  job[j].kind = "update" /\ ~job[j].gone =>
    job[j].on \in Stored /\ key[job[j].on].account = job[j].account

(* A reorder of every key, that nothing overlapped, has placed those it is   *)
(* done with.                                                                *)
ReorderOK(j) ==
  job[j].kind = "reorder" /\ job[j].fresh /\ Cardinality(Members(job[j].list)) = Len(job[j].list)
    => /\ KeysOf(job[j].account) = Members(job[j].list)
       /\ \A i \in 1..Len(job[j].list) :
            i \notin job[j].todo => key[job[j].list[i]].priority = i

WalksOK == \A w \in Walk : WalkOK(walk[w]) /\ ChainOK(w)
AgesOK == Distinct(made)
JobsOK == \A j \in Job : UpdateOK(j) /\ ReorderOK(j)

KeysInv == Typed /\ AgesOK /\ WalksOK /\ PayersInOrder /\ ChainsInOrder /\ JobsOK

(***************************************************************************)
(* The order keys are read in.                                             *)
(***************************************************************************)

(* What Typed says of the keys that are stored.                              *)
LEMMA StoredLaw ==
  ASSUME Typed
  PROVE  /\ Stored \subseteq Key
         /\ \A k \in Stored : /\ key[k] \in Row /\ key[k].account \in Account
                              /\ key[k].priority \in Nat
                              /\ Age(k) \in Nat /\ made[Age(k)] = k
         /\ \A a : KeysOf(a) \subseteq Stored
         /\ \A S \in SUBSET Key : IsFiniteSet(S) /\ Cardinality(S) \in Nat
<1>1. \A k \in Stored : k \in Key /\ key[k] \in Row
  BY DEF Typed, Stored
<1>2. \A k \in Stored : key[k].account \in Account /\ key[k].priority \in Nat
  BY <1>1 DEF Row
<1>3. ASSUME NEW k \in Stored
      PROVE  Age(k) \in Nat /\ made[Age(k)] = k
  <2>1. \E i \in 1..Len(made) : made[i] = k
    BY <1>3 DEF Typed, Members
  <2>2. Age(k) \in 1..Len(made) /\ made[Age(k)] = k
    BY <2>1 DEF Age
  <2> QED BY <2>2
<1>4. \A S \in SUBSET Key : IsFiniteSet(S) /\ Cardinality(S) \in Nat
  BY IdentifierAssumption, FS_Subset, FS_CardinalityType
<1> QED BY <1>1, <1>2, <1>3, <1>4 DEF Stored, KeysOf

(* Before orders the stored keys: no two of them share an age.               *)
LEMMA BeforeLaw ==
  ASSUME Typed
  PROVE  /\ \A k \in Stored : ~Before(k, k)
         /\ \A j, k, l \in Stored : Before(j, k) /\ Before(k, l) => Before(j, l)
         /\ \A j, k \in Stored : j # k => Before(j, k) \/ Before(k, j)
<1>1. \A k \in Stored : key[k].priority \in Nat /\ Age(k) \in Nat /\ made[Age(k)] = k
  BY StoredLaw
<1>2. \A j, k \in Stored : j # k => Age(j) # Age(k)
  BY <1>1
<1> HIDE DEF Age
<1> QED BY <1>1, <1>2 DEF Before

(* A list with as many members as places has every member once.              *)
LEMMA DistinctLaw ==
  ASSUME NEW S, NEW s \in Seq(S), Cardinality(Members(s)) = Len(s)
  PROVE  Distinct(s)
<1>1. Len(s) \in Nat /\ s \in [1..Len(s) -> Members(s)]
  BY LenProperties DEF Members
<1>2. s \in Surjection(1..Len(s), Members(s))
  BY <1>1 DEF Surjection, Members
<1>3. IsFiniteSet(1..Len(s)) /\ Cardinality(1..Len(s)) = Len(s)
  <2>1. PICK n \in Nat : n = Len(s)
    BY <1>1
  <2>2. IsFiniteSet(1..n) /\ Cardinality(1..n) = n
    <3>1. Cardinality(1..n) = IF 1 > n THEN 0 ELSE n - 1 + 1
      BY FS_Interval
    <3>2. IsFiniteSet(1..n)
      BY FS_Interval
    <3> QED BY <3>1, <3>2
  <2> QED BY <2>1, <2>2
<1>4. s \in Injection(1..Len(s), Members(s))
  BY <1>2, <1>3, FS_Surjection
<1> QED BY <1>1, <1>4 DEF Injection, IsInjective, Distinct

(* The place of a key among those of S: how many come before it.             *)
Rank(k, S) == Cardinality({j \in S : Before(j, k)})

(* Keys of S have different places, in their order.                          *)
LEMMA RankLaw ==
  ASSUME Typed, NEW S \in SUBSET Stored
  PROVE  /\ \A k \in S : Rank(k, S) \in 0..(Cardinality(S) - 1)
         /\ \A j, k \in S : Before(j, k) => Rank(j, S) < Rank(k, S)
         /\ \A j, k \in S : Rank(j, S) = Rank(k, S) => j = k
<1> DEFINE Earlier(k) == {j \in S : Before(j, k)}
<1>1. IsFiniteSet(S) /\ Cardinality(S) \in Nat
  BY StoredLaw DEF Stored
<1>2. \A k \in S : IsFiniteSet(Earlier(k)) /\ Cardinality(Earlier(k)) \in Nat
  BY <1>1, FS_Subset, FS_CardinalityType
<1>3. \A k \in S : k \notin Earlier(k)
  BY BeforeLaw
<1>4. ASSUME NEW k \in S
      PROVE  Cardinality(Earlier(k)) + 1 <= Cardinality(S)
  <2>1. Earlier(k) \cup {k} \in SUBSET S
    OBVIOUS
  <2>2. Cardinality(Earlier(k) \cup {k}) <= Cardinality(S)
    BY <2>1, <1>1, FS_Subset
  <2>3. Cardinality(Earlier(k) \cup {k}) = Cardinality(Earlier(k)) + 1
    BY <1>2, <1>3, FS_AddElement
  <2> QED BY <2>2, <2>3
<1>5. ASSUME NEW j \in S, NEW k \in S, Before(j, k)
      PROVE  Cardinality(Earlier(j)) < Cardinality(Earlier(k))
  <2>1. Earlier(j) \cup {j} \in SUBSET Earlier(k)
    BY <1>5, BeforeLaw
  <2>2. Cardinality(Earlier(j) \cup {j}) <= Cardinality(Earlier(k))
    BY <2>1, <1>2, FS_Subset
  <2>3. Cardinality(Earlier(j) \cup {j}) = Cardinality(Earlier(j)) + 1
    BY <1>2, <1>3, FS_AddElement
  <2>4. Cardinality(Earlier(j)) \in Nat /\ Cardinality(Earlier(k)) \in Nat
    BY <1>2
  <2> HIDE DEF Earlier
  <2> QED BY <2>2, <2>3, <2>4
<1>6. \A k \in S : Rank(k, S) = Cardinality(Earlier(k))
  BY DEF Rank
<1> HIDE DEF Earlier
<1>7. \A k \in S : Rank(k, S) \in 0..(Cardinality(S) - 1)
  BY <1>1, <1>2, <1>4, <1>6
<1>8. \A j, k \in S : Before(j, k) => Rank(j, S) < Rank(k, S)
  BY <1>5, <1>6
<1>9. \A j, k \in S : Rank(j, S) = Rank(k, S) => j = k
  BY <1>7, <1>8, BeforeLaw
<1> QED BY <1>7, <1>8, <1>9

(* An arrangement in order has every key of the set once, each at the place  *)
(* its rank gives.                                                           *)
LEMMA ArrangedLaw ==
  ASSUME Typed, NEW S \in SUBSET Stored, NEW s \in Arrangements(S), InOrder(s)
  PROVE  /\ s \in Seq(S) /\ Len(s) = Cardinality(S)
         /\ Distinct(s) /\ Members(s) = S
         /\ \A i \in 1..Len(s) : Rank(s[i], S) = i - 1
<1> DEFINE n == Cardinality(S)
<1>1. IsFiniteSet(S) /\ n \in Nat
  BY StoredLaw DEF Stored
<1>2. s \in [1..n -> S] /\ s \in Seq(S) /\ Len(s) = n
  BY <1>1 DEF Arrangements
<1>3. \A i, j \in 1..n : i < j => Before(s[i], s[j])
  BY <1>2 DEF InOrder
<1>4. \A i, j \in 1..n : s[i] = s[j] => i = j
  <2> SUFFICES ASSUME NEW i \in 1..n, NEW j \in 1..n, i < j
               PROVE  s[i] # s[j]
    BY <1>1
  <2> QED BY <1>3, <1>2, BeforeLaw
<1>5. \A k \in S : \E i \in 1..n : s[i] = k
  <2>1. s \in Injection(1..n, S)
    BY <1>2, <1>4 DEF Injection, IsInjective
  <2>2. Cardinality(1..n) = n
    BY <1>1, FS_Interval
  <2>3. s \in Surjection(1..n, S)
    BY <2>1, <2>2, <1>1, FS_Injection
  <2> QED BY <2>3 DEF Surjection
<1>6. ASSUME NEW i \in 1..n
      PROVE  Rank(s[i], S) = i - 1
  <2> DEFINE first == [h \in 1..(i - 1) |-> s[h]]
             Earlier == {j \in S : Before(j, s[i])}
  <2>1. \A h \in 1..n : Before(s[h], s[i]) <=> h < i
    <3> SUFFICES ASSUME NEW h \in 1..n
                 PROVE  Before(s[h], s[i]) <=> h < i
      OBVIOUS
    <3>1. s[h] \in Stored /\ s[i] \in Stored
      BY <1>2
    <3>2. CASE h < i
      BY <3>2, <1>3
    <3>3. CASE h = i
      BY <3>3, <3>1, BeforeLaw
    <3>4. CASE i < h
      <4>1. Before(s[i], s[h])
        BY <3>4, <1>3
      <4> QED BY <4>1, <3>1, <3>4, <1>1, BeforeLaw
    <3> QED BY <3>2, <3>3, <3>4, <1>1
  <2>2. first \in [1..(i - 1) -> Earlier]
    BY <2>1, <1>2, <1>1
  <2>3. \A h, g \in 1..(i - 1) : first[h] = first[g] => h = g
    BY <1>4, <1>1
  <2>4. \A k \in Earlier : \E h \in 1..(i - 1) : first[h] = k
    BY <1>5, <2>1, <1>1
  <2> HIDE DEF first, Earlier
  <2>5. first \in Bijection(1..(i - 1), Earlier)
    BY <2>2, <2>3, <2>4 DEF Bijection, Injection, IsInjective, Surjection
  <2>6. IsFiniteSet(1..(i - 1)) /\ Cardinality(1..(i - 1)) = i - 1
    <3>1. i - 1 \in Int /\ 1 \in Int /\ i - 1 >= 0
      BY <1>1
    <3> QED BY <3>1, FS_Interval
  <2>7. Cardinality(Earlier) = i - 1
    BY <2>5, <2>6, FS_Bijection DEF ExistsBijection
  <2> QED BY <2>7 DEF Rank, Earlier
<1>7. Members(s) = S
  BY <1>2, <1>5 DEF Members
<1> QED BY <1>2, <1>4, <1>6, <1>7 DEF Distinct

(* Two of them are equal.                                                    *)
LEMMA OneOrder ==
  ASSUME Typed, NEW S \in SUBSET Stored,
         NEW s \in Arrangements(S), InOrder(s), NEW t \in Arrangements(S), InOrder(t)
  PROVE  s = t
<1>1. Cardinality(S) \in Nat
  BY StoredLaw DEF Stored
<1>2. /\ s \in Seq(S) /\ Len(s) = Cardinality(S)
      /\ t \in Seq(S) /\ Len(t) = Cardinality(S)
  BY ArrangedLaw
<1>3. \A i \in 1..Cardinality(S) : Rank(s[i], S) = i - 1 /\ Rank(t[i], S) = i - 1
  BY ArrangedLaw, <1>2
<1>4. s \in [1..Cardinality(S) -> S] /\ t \in [1..Cardinality(S) -> S]
  BY DEF Arrangements
<1>5. \A i \in 1..Cardinality(S) : s[i] = t[i]
  <2> SUFFICES ASSUME NEW i \in 1..Cardinality(S)
               PROVE  s[i] = t[i]
    OBVIOUS
  <2>1. s[i] \in S /\ t[i] \in S
    BY <1>4
  <2>2. Rank(s[i], S) = Rank(t[i], S)
    BY <1>3
  <2> QED BY <2>1, <2>2, RankLaw
<1> QED BY <1>2, <1>5, SeqEqual

(* There is one, and Sorted is it.                                           *)
LEMMA SortedLaw ==
  ASSUME Typed, NEW S \in SUBSET Stored
  PROVE  Sorted(S) \in Arrangements(S) /\ InOrder(Sorted(S))
<1> DEFINE n == Cardinality(S)
           r == [k \in S |-> Rank(k, S) + 1]
           s == [i \in 1..n |-> CHOOSE k \in S : r[k] = i]
<1>1. IsFiniteSet(S) /\ n \in Nat
  BY StoredLaw DEF Stored
<1>2. r \in [S -> 1..n]
  BY RankLaw, <1>1
<1>3. \A j, k \in S : r[j] = r[k] => j = k
  BY RankLaw, <1>1
<1>4. \A i \in 1..n : \E k \in S : r[k] = i
  <2>1. IsFiniteSet(1..n) /\ Cardinality(1..n) = n
    BY <1>1, FS_Interval
  <2>2. r \in Injection(S, 1..n)
    BY <1>2, <1>3 DEF Injection, IsInjective
  <2>3. r \in Surjection(S, 1..n)
    BY <2>1, <2>2, <1>1, FS_Injection
  <2> QED BY <2>3 DEF Surjection
<1>5. \A i \in 1..n : s[i] \in S /\ r[s[i]] = i
  BY <1>4
<1>6. s \in Arrangements(S)
  BY <1>5 DEF Arrangements
<1>7. Len(s) = n
  BY <1>1
<1>8. ASSUME NEW i \in 1..n, NEW j \in 1..n, i < j
      PROVE  Before(s[i], s[j])
  <2>1. /\ s[i] \in S /\ s[j] \in S
        /\ Rank(s[i], S) + 1 = i /\ Rank(s[j], S) + 1 = j
    BY <1>5
  <2> HIDE DEF s
  <2>2. Rank(s[i], S) \in Nat /\ Rank(s[j], S) \in Nat
    BY <2>1, RankLaw, <1>1
  <2>3. s[i] # s[j] /\ ~(Rank(s[j], S) < Rank(s[i], S))
    BY <2>1, <2>2, <1>8
  <2> QED BY <2>1, <2>3, RankLaw, BeforeLaw
<1>9. InOrder(s)
  BY <1>7, <1>8 DEF InOrder
<1> HIDE DEF s
<1> QED BY <1>6, <1>9 DEF Sorted

(***************************************************************************)
(* One walk.                                                               *)
(***************************************************************************)

(* How often a key was tried is counted.                                     *)
LEMMA TriesLaw ==
  ASSUME NEW x \in WalkRecord, NEW k
  PROVE  IsFiniteSet(TriesOf(x, k)) /\ Cardinality(TriesOf(x, k)) \in Nat
<1>1. Len(x.log) \in Nat /\ 1 \in Int /\ Len(x.log) \in Int
  BY DEF WalkRecord
<1>2. IsFiniteSet(1..Len(x.log))
  BY <1>1, FS_Interval
<1>3. TriesOf(x, k) \in SUBSET (1..Len(x.log))
  BY DEF TriesOf
<1> QED BY <1>2, <1>3, FS_Subset, FS_CardinalityType

(* What an attempt that was answered by kind makes of the call.              *)
Tried(x, kind) ==
  LET on   == AfterFailure(kind, x.retry)
      last == x.next = Len(x.chain)
  IN [x EXCEPT
       !.log   = Append(@, [key |-> x.chain[x.next], kind |-> kind]),
       !.retry = IF kind # "SUCCESS" /\ on = "retry" THEN @ + 1 ELSE 0,
       !.next  = IF kind # "SUCCESS" /\ on = "advance" /\ ~last THEN @ + 1 ELSE @,
       !.at    = IF kind = "SUCCESS" THEN "answered"
                 ELSE IF on = "stop" \/ (on = "advance" /\ last) THEN "failed" ELSE @]

(* An attempt adds one try, of the key the walk is at.                       *)
LEMMA TriedLog ==
  ASSUME NEW x \in WalkRecord, WalkOK(x), x.at = "trying", NEW kind \in Kind
  PROVE  /\ x.chain[x.next] \in Key \cup {BuiltIn} /\ x.next \in 1..Len(x.chain)
         /\ Tried(x, kind).log \in Seq(Entry)
         /\ Len(Tried(x, kind).log) = Len(x.log) + 1
         /\ \A i \in 1..Len(x.log) : Tried(x, kind).log[i] = x.log[i]
         /\ Tried(x, kind).log[Len(x.log) + 1] = [key |-> x.chain[x.next], kind |-> kind]
         /\ TriesOf(Tried(x, kind), x.chain[x.next]) = TriesOf(x, x.chain[x.next]) \cup {Len(x.log) + 1}
         /\ Cardinality(TriesOf(Tried(x, kind), x.chain[x.next])) = x.retry + 1
         /\ \A k : k # x.chain[x.next] => TriesOf(Tried(x, kind), k) = TriesOf(x, k)
         /\ \A k : k # x.chain[x.next] /\ Spent(x, k) => Spent(Tried(x, kind), k)
<1> DEFINE n == Len(x.log)
           c == x.chain[x.next]
           e == [key |-> c, kind |-> kind]
           y == Tried(x, kind)
<1>1. /\ x.log \in Seq(Entry) /\ n \in Nat /\ x.chain \in Seq(Key \cup {BuiltIn})
      /\ x.next \in Nat \ {0} /\ x.next <= Len(x.chain) /\ x.retry \in Nat
  BY LimitAssumption DEF WalkRecord, WalkOK
<1>2. x.next \in 1..Len(x.chain) /\ c \in Key \cup {BuiltIn}
  BY <1>1
<1>3. e \in Entry
  BY <1>2 DEF Entry
<1>4. y.log = Append(x.log, e)
  BY DEF Tried, WalkRecord
<1> HIDE DEF y, e
<1>5. /\ y.log \in Seq(Entry) /\ Len(y.log) = n + 1 /\ y.log[n + 1] = e
      /\ \A i \in 1..n : y.log[i] = x.log[i]
  BY <1>1, <1>3, <1>4
<1>6. e.key = c /\ e.kind = kind
  BY DEF e
<1>7. TriesOf(y, c) = TriesOf(x, c) \cup {n + 1}
  BY <1>1, <1>5, <1>6 DEF TriesOf
<1>8. ASSUME NEW k, k # c
      PROVE  TriesOf(y, k) = TriesOf(x, k)
  <2>1. y.log[n + 1].key # k
    BY <1>5, <1>6, <1>8
  <2>2. 1..Len(y.log) = (1..n) \cup {n + 1}
    BY <1>1, <1>5
  <2>3. \A i \in 1..n : y.log[i].key = x.log[i].key
    BY <1>5
  <2> QED BY <2>1, <2>2, <2>3 DEF TriesOf
<1>9. Cardinality(TriesOf(y, c)) = x.retry + 1
  <2>1. n + 1 \notin TriesOf(x, c)
    BY <1>1 DEF TriesOf
  <2>2. Cardinality(TriesOf(x, c)) = x.retry
    BY DEF WalkOK
  <2> QED BY <2>1, <2>2, <1>7, TriesLaw, FS_AddElement
<1>10. ASSUME NEW k, k # c, Spent(x, k)
       PROVE  Spent(y, k)
  <2>1. TriesOf(y, k) = TriesOf(x, k) /\ TriesOf(x, k) \subseteq 1..n
    BY <1>8, <1>10 DEF TriesOf
  <2>2. \A i \in TriesOf(x, k) : y.log[i] = x.log[i]
    BY <2>1, <1>5
  <2> QED BY <2>1, <2>2, <1>10 DEF Spent
<1> QED BY <1>2, <1>5, <1>7, <1>8, <1>9, <1>10 DEF y, e

(* An attempt keeps the rules of a walk.                                     *)
LEMMA TriedLaw ==
  ASSUME NEW x \in WalkRecord, WalkOK(x), x.at = "trying", NEW kind \in Kind
  PROVE  Tried(x, kind) \in WalkRecord /\ WalkOK(Tried(x, kind))
<1> DEFINE n == Len(x.log)
           c == x.chain[x.next]
           y == Tried(x, kind)
           on == AfterFailure(kind, x.retry)
           last == x.next = Len(x.chain)
<1>1. /\ x.log \in Seq(Entry) /\ n \in Nat /\ x.chain \in Seq(Key \cup {BuiltIn})
      /\ x.next \in Nat \ {0} /\ x.next <= Len(x.chain) /\ x.retry \in 0..(MaxAttempts - 1)
      /\ Len(x.chain) \in Nat /\ x.recorded \in Nat /\ x.recorded <= n
      /\ MaxAttempts \in Nat \ {0}
  BY LimitAssumption DEF WalkRecord, WalkOK
<1>2. /\ y.chain = x.chain /\ y.actor = x.actor /\ y.provider = x.provider
      /\ y.recorded = x.recorded
      /\ y.retry = IF kind # "SUCCESS" /\ on = "retry" THEN x.retry + 1 ELSE 0
      /\ y.next = IF kind # "SUCCESS" /\ on = "advance" /\ ~last THEN x.next + 1 ELSE x.next
      /\ y.at = IF kind = "SUCCESS" THEN "answered"
                ELSE IF on = "stop" \/ (on = "advance" /\ last) THEN "failed" ELSE "trying"
  BY DEF Tried, WalkRecord
<1>3. /\ on = "stop" <=> kind \in FatalForChain
      /\ on = "retry" <=> kind \in RetrySameKey /\ x.retry < MaxAttempts - 1
      /\ on = "advance" <=> ~(on = "stop" \/ on = "retry")
      /\ kind = "SUCCESS" => kind \notin FatalForChain
  BY DEF AfterFailure, FatalForChain, RetrySameKey
<1>4. y \in WalkRecord
  <2>1. y.retry \in 0..(MaxAttempts - 1) /\ y.next \in Nat \ {0}
    BY <1>1, <1>2, <1>3
  <2>2. PICK l, t, m, a : y = [x EXCEPT !.log = l, !.retry = t, !.next = m, !.at = a]
    BY DEF Tried
  <2>3. y.at \in {"answered", "failed", "trying"} /\ y.log \in Seq(Entry)
    BY <1>2, TriedLog
  <2> HIDE DEF y
  <2>4. /\ y.actor \in Person \cup {None} /\ y.provider \in Provider \cup {None}
        /\ y.chain \in Seq(Key \cup {BuiltIn}) /\ y.recorded \in Nat
    BY <1>2 DEF WalkRecord
  <2>5. y.log = l /\ y.retry = t /\ y.next = m /\ y.at = a
    BY <2>2 DEF WalkRecord
  <2> QED BY <2>1, <2>2, <2>3, <2>5 DEF WalkRecord
<1>5. /\ y.log \in Seq(Entry) /\ Len(y.log) = n + 1
      /\ \A i \in 1..n : y.log[i] = x.log[i]
      /\ y.log[n + 1].key = c /\ y.log[n + 1].kind = kind
  <2>1. y.log[n + 1] = [key |-> c, kind |-> kind]
    BY TriedLog
  <2>2. y.log \in Seq(Entry) /\ Len(y.log) = n + 1 /\ \A i \in 1..n : y.log[i] = x.log[i]
    BY TriedLog
  <2> HIDE DEF y, c
  <2> QED BY <2>1, <2>2
<1>6. /\ TriesOf(y, c) = TriesOf(x, c) \cup {n + 1}
      /\ Cardinality(TriesOf(y, c)) = x.retry + 1
  BY TriedLog
<1>7. \A k : k # c => TriesOf(y, k) = TriesOf(x, k)
  BY TriedLog, ZenonT(30)
<1>8. \A k : k # c /\ Spent(x, k) => Spent(y, k)
  BY TriedLog
<1>9. \A m \in 1..Len(x.chain) : m # x.next => x.chain[m] # c
  BY <1>1 DEF WalkOK, Distinct
<1>10. \A m \in 1..(x.next - 1) : m <= Len(x.chain) /\ Spent(x, x.chain[m])
  BY DEF WalkOK
<1>11. \A i \in 1..n : x.log[i].kind \notin FatalForChain \cup {"SUCCESS"}
  BY DEF WalkOK
<1>12. \A i \in TriesOf(x, c) : i \in 1..n /\ x.log[i].kind \in RetrySameKey
  BY DEF WalkOK, TriesOf
<1>13. \A m \in 1..Len(x.chain) : m > x.next => TriesOf(x, x.chain[m]) = {}
  BY DEF WalkOK
<1>21. \A m \in 1..Len(x.chain) : m > x.next => TriesOf(y, x.chain[m]) = {}
  <2> SUFFICES ASSUME NEW m \in 1..Len(x.chain), m > x.next
               PROVE  TriesOf(y, x.chain[m]) = {}
    OBVIOUS
  <2>1. m # x.next
    BY <1>1
  <2> QED BY <2>1, <1>7, <1>9, <1>13
<1>14. ASSUME kind # "SUCCESS", on = "advance"
       PROVE  Spent(y, c)
  <2>1. TriesOf(y, c) # {} /\ Cardinality(TriesOf(y, c)) <= MaxAttempts
    BY SMTT(20), <1>6, <1>1
  <2>2. CASE kind \notin RetrySameKey
    BY <2>1, <2>2, <1>5, <1>6 DEF Spent
  <2>3. CASE x.retry = MaxAttempts - 1
    BY <2>1, <2>3, <1>6, <1>1 DEF Spent
  <2> QED BY <2>2, <2>3, <1>3, <1>14, <1>1
<1> HIDE DEF y, on, last
<1>15. \A m \in 1..(x.next - 1) : m <= Len(y.chain) /\ Spent(y, y.chain[m])
  <2> SUFFICES ASSUME NEW m \in 1..(x.next - 1)
               PROVE  m <= Len(x.chain) /\ Spent(y, x.chain[m])
    BY <1>2
  <2>1. m \in 1..Len(x.chain) /\ m # x.next
    BY <1>1
  <2> QED BY <2>1, <1>8, <1>9, <1>10
<1>16. \A m \in 1..(y.next - 1) : m <= Len(y.chain) /\ Spent(y, y.chain[m])
  <2>1. CASE y.next = x.next
    BY <2>1, <1>15
  <2>2. CASE y.next = x.next + 1
    <3>1. kind # "SUCCESS" /\ on = "advance" /\ ~last
      BY <2>2, <1>1, <1>2
    <3> SUFFICES ASSUME NEW m \in 1..x.next
                 PROVE  m <= Len(y.chain) /\ Spent(y, y.chain[m])
      BY <2>2, <1>1
    <3>2. CASE m = x.next
      BY <3>1, <3>2, <1>14, <1>1, <1>2
    <3>3. CASE m \in 1..(x.next - 1)
      BY <3>3, <1>15
    <3> QED BY <3>2, <3>3, <1>1
  <2> QED BY <2>1, <2>2, <1>2
<1>17. \A i \in 1..Len(y.log) :
         y.log[i].kind \in FatalForChain \cup {"SUCCESS"} => i = Len(y.log) /\ y.at # "trying"
  <2> SUFFICES ASSUME NEW i \in 1..(n + 1), y.log[i].kind \in FatalForChain \cup {"SUCCESS"}
               PROVE  i = n + 1 /\ y.at # "trying"
    BY <1>5
  <2>1. i = n + 1
    BY SMTT(20), <1>1, <1>5, <1>11
  <2> QED BY <2>1, <1>2, <1>3, <1>5
<1>18. ASSUME y.at = "trying"
       PROVE  /\ y.next <= Len(y.chain)
              /\ Cardinality(TriesOf(y, y.chain[y.next])) = y.retry
              /\ \A i \in TriesOf(y, y.chain[y.next]) : y.log[i].kind \in RetrySameKey
              /\ \A m \in 1..Len(y.chain) : m > y.next => TriesOf(y, y.chain[m]) = {}
  <2>1. kind # "SUCCESS" /\ (on = "retry" \/ (on = "advance" /\ ~last))
    BY <1>18, <1>2, <1>3
  <2>2. CASE on = "retry"
    <3>1. y.next = x.next /\ y.retry = x.retry + 1 /\ kind \in RetrySameKey
      BY <2>1, <2>2, <1>2, <1>3
    <3>2. \A i \in TriesOf(y, c) : y.log[i].kind \in RetrySameKey
      BY <3>1, <1>5, <1>6, <1>12
    <3> QED BY <3>1, <3>2, <1>21, <1>1, <1>2, <1>6
  <2>3. CASE on = "advance" /\ ~last
    <3>1. y.next = x.next + 1 /\ y.retry = 0 /\ y.next \in 1..Len(x.chain)
      BY <2>1, <2>3, <1>1, <1>2, <1>3 DEF last
    <3>2. y.next > x.next
      BY <3>1, <1>1
    <3>3. TriesOf(y, x.chain[y.next]) = {}
      BY <3>1, <3>2, <1>21
    <3>4. \A m \in 1..Len(x.chain) : m > y.next => TriesOf(y, x.chain[m]) = {}
      <4> SUFFICES ASSUME NEW m \in 1..Len(x.chain), m > y.next
                   PROVE  TriesOf(y, x.chain[m]) = {}
        OBVIOUS
      <4>1. m > x.next
        BY <3>1, <1>1
      <4> QED BY <4>1, <1>21
    <3>5. Cardinality(TriesOf(y, x.chain[y.next])) = 0
      BY <3>3, FS_EmptySet
    <3>6. \A i \in TriesOf(y, x.chain[y.next]) : y.log[i].kind \in RetrySameKey
      BY <3>3
    <3>7. y.next <= Len(x.chain) /\ y.chain = x.chain
      BY <3>1, <1>2
    <3> QED BY <3>1, <3>4, <3>5, <3>6, <3>7
  <2> QED BY <2>1, <2>2, <2>3
<1>19. ASSUME y.at = "failed", \A i \in 1..Len(y.log) : y.log[i].kind \notin FatalForChain
       PROVE  \A m \in 1..Len(y.chain) : Spent(y, y.chain[m])
  <2>1. kind \notin FatalForChain
    BY <1>19, <1>1, <1>5
  <2>2. kind # "SUCCESS" /\ on = "advance" /\ last
    BY <2>1, <1>19, <1>2, <1>3
  <2> SUFFICES ASSUME NEW m \in 1..Len(x.chain)
               PROVE  Spent(y, x.chain[m])
    BY <1>2
  <2>3. CASE m = x.next
    BY <2>2, <2>3, <1>14
  <2>4. CASE m \in 1..(x.next - 1)
    BY <2>4, <1>15, <1>2
  <2> QED BY <2>2, <2>3, <2>4, <1>1 DEF last
<1>20. Distinct(y.chain) /\ y.recorded <= Len(y.log) /\ y.at \notin {"idle", "loading"}
  BY <1>1, <1>2, <1>5 DEF WalkOK
<1> QED BY <1>4, <1>16, <1>17, <1>18, <1>19, <1>20 DEF WalkOK, y

(***************************************************************************)
(* What a step that writes keys leaves to the others.                      *)
(***************************************************************************)
(* Of the keys ever stored, none comes back and none changes hands.          *)
RowsKept ==
  \A k \in Key :
    k \in Members(made) /\ k \in Stored' => k \in Stored /\ key'[k].account = key[k].account

(* Only the keys of account a change.                                        *)
OthersKept(a) ==
  \A k \in Key :
    key'[k] # key[k] => /\ k \in Stored => key[k].account = a
                        /\ k \in Stored' => key'[k].account = a

PayersOK(w) ==
  \A i \in 1..Len(walk[w].chain) :
    /\ Payer(walk[w].chain[i]) \in {Org, walk[w].actor, None}
    /\ Payer(walk[w].chain[i]) = Org =>
         \A h \in 1..i : Payer(walk[w].chain[h]) \in {Org, None}

(* Of one chain: keys of one account, of which none changed since it was     *)
(* read, are in order.                                                       *)
OrderOK(w) ==
  \A h, i \in 1..Len(walk[w].chain) :
    h < i /\ Payer(walk[w].chain[h]) = Payer(walk[w].chain[i])
      /\ Payer(walk[w].chain[i]) \notin moved[w] \cup {None}
    => Before(walk[w].chain[h], walk[w].chain[i])

(* The keys stored since were stored after those there were.                 *)
Extended ==
  /\ made' \in Seq(Key) /\ Distinct(made')
  /\ \A i \in 1..Len(made) : i \in 1..Len(made') /\ made'[i] = made[i]

(* A change of other accounts' keys leaves the order of these.               *)
LEMMA BeforeKept ==
  ASSUME Typed, Typed', Extended,
         NEW j \in Stored, NEW k \in Stored, j \in Stored', k \in Stored',
         key'[j].priority = key[j].priority, key'[k].priority = key[k].priority, Before(j, k)
  PROVE  Before(j, k)'
<1>1. \A i \in Stored : Age(i) \in 1..Len(made) /\ made[Age(i)] = i
  <2> SUFFICES ASSUME NEW i \in Stored
               PROVE  Age(i) \in 1..Len(made) /\ made[Age(i)] = i
    OBVIOUS
  <2>1. \E n \in 1..Len(made) : made[n] = i
    BY DEF Typed, Members
  <2> QED BY <2>1 DEF Age
<1>2. \A i \in Stored' : Age(i)' \in 1..Len(made') /\ made'[Age(i)'] = i
  <2> SUFFICES ASSUME NEW i \in Stored'
               PROVE  Age(i)' \in 1..Len(made') /\ made'[Age(i)'] = i
    OBVIOUS
  <2>1. \E n \in 1..Len(made') : made'[n] = i
    BY DEF Typed, Members
  <2> QED BY <2>1 DEF Age
<1>3. ASSUME NEW i \in Stored, i \in Stored'
      PROVE  Age(i)' = Age(i)
  <2>1. PICK a \in 1..Len(made) : a = Age(i) /\ made[a] = i
    BY <1>1
  <2>2. PICK b \in 1..Len(made') : b = Age(i)' /\ made'[b] = i
    BY <1>2, <1>3
  <2>3. a \in 1..Len(made') /\ made'[a] = i
    BY <2>1 DEF Extended
  <2>4. a = b
    BY <2>2, <2>3 DEF Extended, Distinct
  <2> QED BY <2>1, <2>2, <2>4
<1>4. Age(j)' = Age(j) /\ Age(k)' = Age(k)
  BY <1>3
<1> HIDE DEF Age
<1> QED BY <1>4 DEF Before

(* So the payer of a key of a chain stays, until the key is removed.         *)
LEMMA PayerKept ==
  ASSUME Typed, RowsKept
  PROVE  \A k \in Members(made) \cup {BuiltIn} : Payer(k)' \in {Payer(k), None}
<1> SUFFICES ASSUME NEW k \in Members(made) \cup {BuiltIn}
             PROVE  Payer(k)' \in {Payer(k), None}
  OBVIOUS
<1>1. CASE k \in Stored'
  <2>1. k \in Key
    BY <1>1 DEF Stored
  <2>2. k \in Members(made)
    BY <2>1, IdentifierAssumption
  <2>3. k \in Stored /\ key'[k].account = key[k].account
    BY <2>1, <2>2, <1>1 DEF RowsKept
  <2> QED BY <2>3, <1>1 DEF Payer
<1>2. CASE k \notin Stored'
  BY <1>2 DEF Payer
<1> QED BY <1>1, <1>2

(* A walk the step leaves alone stays as it should be.                       *)
LEMMA WalkKept ==
  ASSUME Typed, RowsKept, Members(made) \subseteq Members(made)', NEW w,
         walk'[w] = walk[w], WalkOK(walk[w]), ChainOK(w), PayersOK(w)
  PROVE  WalkOK(walk[w])' /\ ChainOK(w)' /\ PayersOK(w)'
<1>1. PICK x : x = walk[w] /\ x = walk'[w]
  OBVIOUS
<1>2. \A i \in 1..Len(x.chain) : x.chain[i] \in Members(made) \cup {BuiltIn}
  BY <1>1 DEF ChainOK
<1>3. \A i \in 1..Len(x.chain) : Payer(x.chain[i])' \in {Payer(x.chain[i]), None}
  BY <1>2, PayerKept
<1>4. \A i \in 1..Len(x.chain) : x.chain[i] \in Members(made)' \cup {BuiltIn}
  BY <1>2
<1>5. ChainOK(w)'
  BY <1>1, <1>3, <1>4 DEF ChainOK
<1>6. ASSUME NEW i \in 1..Len(x.chain)
      PROVE  /\ Payer(x.chain[i])' \in {Org, x.actor, None}
             /\ Payer(x.chain[i])' = Org => \A h \in 1..i : Payer(x.chain[h])' \in {Org, None}
  <2>1. Payer(x.chain[i]) \in {Org, x.actor, None}
    BY <1>1 DEF PayersOK
  <2>2. Payer(x.chain[i]) = Org => \A h \in 1..i : Payer(x.chain[h]) \in {Org, None}
    BY <1>1 DEF PayersOK
  <2>3. Org # None
    BY IdentifierAssumption
  <2>4. ASSUME Payer(x.chain[i])' = Org, NEW h \in 1..i
        PROVE  Payer(x.chain[h])' \in {Org, None}
    <3>1. Payer(x.chain[i]) = Org
      BY <2>4, <2>3, <1>3
    <3>2. Payer(x.chain[h]) \in {Org, None}
      BY <3>1, <2>2
    <3>3. h \in 1..Len(x.chain)
      OBVIOUS
    <3> QED BY <3>2, <3>3, <1>3
  <2> QED BY <2>1, <2>4, <1>3
<1>7. PayersOK(w)'
  BY <1>1, <1>6 DEF PayersOK
<1>8. WalkOK(walk[w])'
  <2>1. WalkOK(x)
    BY <1>1
  <2> QED BY <2>1, <1>1
<1> QED BY <1>5, <1>7, <1>8

(* What Touch does to the requests of others.                                *)
LEMMA TouchLaw ==
  ASSUME Typed, NEW j, NEW a, NEW mine \in JobRecord, JobOK(mine), NEW removed,
         Touch(j, a, mine, removed)
  PROVE  /\ job' \in [Job -> JobRecord] /\ \A i \in Job : JobOK(job'[i])
         /\ j \in Job => job'[j] = mine
         /\ \A i \in Job : i # j =>
              /\ job'[i].kind = job[i].kind /\ job'[i].account = job[i].account
              /\ job'[i].on = job[i].on
              /\ job[i].account # a => job'[i] = job[i]
              /\ job[i].account = a /\ job[i].kind = "reorder" => ~job'[i].fresh
              /\ job[i].account = a /\ ~job'[i].gone => ~job[i].gone /\ job[i].on \notin removed
<1> DEFINE new(i) == [job[i] EXCEPT !.fresh = @ /\ job[i].kind = "update",
                                    !.gone = @ \/ job[i].on \in removed]
<1>1. job' = [i \in Job |-> IF i = j THEN mine ELSE IF job[i].account = a THEN new(i) ELSE job[i]]
  BY DEF Touch
<1>2. \A i \in Job : job[i] \in JobRecord /\ JobOK(job[i])
  BY DEF Typed
<1>3. ASSUME NEW i \in Job
      PROVE  /\ new(i) \in JobRecord /\ JobOK(new(i))
             /\ new(i).kind = job[i].kind /\ new(i).account = job[i].account
             /\ new(i).on = job[i].on
             /\ job[i].kind = "reorder" => ~new(i).fresh
             /\ ~new(i).gone => ~job[i].gone /\ job[i].on \notin removed
  <2>1. PICK x \in JobRecord : x = job[i]
    BY <1>2
  <2>2. PICK f \in BOOLEAN : f = (x.fresh /\ x.kind = "update")
    OBVIOUS
  <2>3. PICK g \in BOOLEAN : g = (x.gone \/ x.on \in removed)
    OBVIOUS
  <2>4. new(i) = [x EXCEPT !.fresh = f, !.gone = g]
    BY <2>1, <2>2, <2>3
  <2>5. /\ [x EXCEPT !.fresh = f, !.gone = g] \in JobRecord
        /\ [x EXCEPT !.fresh = f, !.gone = g].kind = x.kind
        /\ [x EXCEPT !.fresh = f, !.gone = g].account = x.account
        /\ [x EXCEPT !.fresh = f, !.gone = g].on = x.on
        /\ [x EXCEPT !.fresh = f, !.gone = g].put = x.put
        /\ [x EXCEPT !.fresh = f, !.gone = g].fresh = f
        /\ [x EXCEPT !.fresh = f, !.gone = g].gone = g
    <3> HIDE DEF new
    <3>1. [x EXCEPT !.fresh = f, !.gone = g] \in JobRecord
      BY ZenonT(30) DEF JobRecord
    <3>2. /\ [x EXCEPT !.fresh = f, !.gone = g].kind = x.kind
          /\ [x EXCEPT !.fresh = f, !.gone = g].account = x.account
          /\ [x EXCEPT !.fresh = f, !.gone = g].on = x.on
          /\ [x EXCEPT !.fresh = f, !.gone = g].put = x.put
      BY SMTT(20) DEF JobRecord
    <3>3. /\ [x EXCEPT !.fresh = f, !.gone = g].fresh = f
          /\ [x EXCEPT !.fresh = f, !.gone = g].gone = g
      BY SMTT(20) DEF JobRecord
    <3> QED BY <3>1, <3>2, <3>3, Zenon
  <2>6. JobOK(x)
    BY <2>1, <1>2
  <2> HIDE DEF new
  <2>7. new(i) \in JobRecord /\ JobOK(new(i))
    BY <2>4, <2>5, <2>6 DEF JobOK
  <2>8. /\ new(i).kind = x.kind /\ new(i).account = x.account /\ new(i).on = x.on
        /\ new(i).fresh = f /\ new(i).gone = g
    BY <2>4, <2>5
  <2>9. x.kind = "reorder" => ~f
    BY <2>2
  <2>10. ~g => ~x.gone /\ x.on \notin removed
    BY <2>3
  <2> QED BY <2>1, <2>7, <2>8, <2>9, <2>10
<1> HIDE DEF new
<1>4. \A i \in Job : /\ i = j => job'[i] = mine
                     /\ i # j /\ job[i].account = a => job'[i] = new(i)
                     /\ i # j /\ job[i].account # a => job'[i] = job[i]
  BY <1>1
<1>5. \A i \in Job : job'[i] \in JobRecord /\ JobOK(job'[i])
  BY <1>2, <1>3, <1>4
<1>6. job' \in [Job -> JobRecord]
  BY <1>1, <1>5
<1> QED BY <1>3, <1>4, <1>5, <1>6

(* With the keys of an account written, the requests of others are as they   *)
(* should be.                                                                *)
LEMMA JobsKept ==
  ASSUME Typed, JobsOK, RowsKept, NEW j, NEW a \in Account, OthersKept(a),
         NEW mine \in JobRecord, JobOK(mine), NEW removed, Touch(j, a, mine, removed),
         \A k \in Stored : k \notin Stored' => k \in removed
  PROVE  \A i \in Job : i # j => UpdateOK(i)' /\ ReorderOK(i)'
<1> SUFFICES ASSUME NEW i \in Job, i # j
             PROVE  UpdateOK(i)' /\ ReorderOK(i)'
  OBVIOUS
<1>1. PICK x \in JobRecord : x = job[i]
  BY DEF Typed
<1>2. PICK y \in JobRecord : y = job'[i]
  BY TouchLaw
<1>3. /\ y.kind = x.kind /\ y.account = x.account /\ y.on = x.on
      /\ x.account # a => y = x
      /\ x.account = a /\ x.kind = "reorder" => ~y.fresh
      /\ x.account = a /\ ~y.gone => ~x.gone /\ x.on \notin removed
  BY <1>1, <1>2, TouchLaw
<1>4. \A k \in Stored : k \in Key /\ k \in Members(made)
  BY DEF Typed, Stored
<1>5. ASSUME y.kind = "update", ~y.gone
      PROVE  y.on \in Stored' /\ key'[y.on].account = y.account
  <2>1. x.kind = "update" /\ ~x.gone
    BY <1>3, <1>5
  <2>2. x.on \in Stored /\ key[x.on].account = x.account
    BY <2>1, <1>1 DEF JobsOK, UpdateOK
  <2>3. x.on \in Key /\ x.on \in Members(made)
    BY <2>2, <1>4
  <2>4. CASE x.account = a
    <3>1. x.on \in Stored'
      BY <2>2, <2>4, <1>3, <1>5
    <3>2. key'[x.on].account = key[x.on].account
      BY <3>1, <2>3 DEF RowsKept
    <3> QED BY <3>1, <3>2, <2>2, <1>3
  <2>5. CASE x.account # a
    <3>1. key'[x.on] = key[x.on]
      BY <2>2, <2>3, <2>5 DEF OthersKept
    <3> QED BY <3>1, <2>2, <2>3, <1>3 DEF Stored
  <2> QED BY <2>4, <2>5
<1>6. ASSUME y.kind = "reorder", y.fresh, Cardinality(Members(y.list)) = Len(y.list)
      PROVE  /\ KeysOf(y.account)' = Members(y.list)
             /\ \A h \in 1..Len(y.list) : h \notin y.todo => key'[y.list[h]].priority = h
  <2>1. x.account # a /\ y = x
    BY <1>3, <1>6
  <2>2. /\ KeysOf(x.account) = Members(x.list)
        /\ \A h \in 1..Len(x.list) : h \notin x.todo => key[x.list[h]].priority = h
    BY <2>1, <1>1, <1>6 DEF JobsOK, ReorderOK
  <2>3. \A k \in Key : key[k] # key'[k] => k \notin KeysOf(x.account) /\ k \notin KeysOf(x.account)'
    BY <2>1 DEF OthersKept, KeysOf
  <2>4. KeysOf(x.account)' = KeysOf(x.account)
    BY <2>3 DEF KeysOf, Stored
  <2>5. \A h \in 1..Len(x.list) : x.list[h] \in KeysOf(x.account) /\ x.list[h] \in Key
    BY <2>2 DEF Members, KeysOf, Stored
  <2>6. \A h \in 1..Len(x.list) : key'[x.list[h]] = key[x.list[h]]
    BY <2>3, <2>5
  <2> QED BY <2>1, <2>2, <2>4, <2>6
<1> QED BY <1>2, <1>5, <1>6 DEF UpdateOK, ReorderOK

(* A request the step leaves alone, and the keys with it.                    *)
LEMMA JobKept ==
  ASSUME NEW i, job'[i] = job[i], key' = key, UpdateOK(i), ReorderOK(i)
  PROVE  UpdateOK(i)' /\ ReorderOK(i)'
BY DEF UpdateOK, ReorderOK, KeysOf, Stored

(***************************************************************************)
(* The steps that change keys.                                             *)
(***************************************************************************)

(* A change of account a's keys leaves the order of the others in a chain.   *)
LEMMA OrderKeptBy ==
  ASSUME KeysInv, Typed', Extended, RowsKept, NEW a, OthersKept(a), walk' = walk,
         moved' = [w \in Walk |-> moved[w] \cup {a}]
  PROVE  ChainsInOrder'
<1> SUFFICES ASSUME NEW w \in Walk, NEW h \in 1..Len(walk[w].chain), NEW i \in 1..Len(walk[w].chain),
                    h < i, Payer(walk[w].chain[h])' = Payer(walk[w].chain[i])',
                    Payer(walk[w].chain[i])' \notin moved'[w] \cup {None}
             PROVE  Before(walk[w].chain[h], walk[w].chain[i])'
  BY DEF ChainsInOrder
<1>1. PICK j, k : j = walk[w].chain[h] /\ k = walk[w].chain[i]
  OBVIOUS
<1>2. j \in Members(made) \cup {BuiltIn} /\ k \in Members(made) \cup {BuiltIn}
  BY <1>1 DEF KeysInv, WalksOK, ChainOK
<1>3. PICK b : b = Payer(k)'
  OBVIOUS
<1>4. Payer(j)' = b /\ Payer(k)' = b /\ b \notin moved[w] /\ b # a /\ b # None
  BY <1>1, <1>3
<1>5. Payer(j) = b /\ Payer(k) = b
  BY <1>2, <1>4, PayerKept DEF KeysInv
<1>6. Before(j, k)
  BY <1>1, <1>4, <1>5 DEF KeysInv, ChainsInOrder
<1>7. /\ j \in Stored /\ k \in Stored /\ key[j].account = b /\ key[k].account = b
      /\ j \in Stored' /\ k \in Stored'
  BY <1>4, <1>5 DEF Payer
<1>8. j \in Key /\ k \in Key
  BY <1>7 DEF Stored
<1>9. key'[j] = key[j] /\ key'[k] = key[k]
  BY <1>4, <1>7, <1>8 DEF OthersKept
<1>10. Before(j, k)'
  BY <1>6, <1>7, <1>9, BeforeKept DEF KeysInv
<1> QED BY <1>1, <1>10

(* Who pays for what, walk by walk.                                          *)
LEMMA WalksKept ==
  ASSUME KeysInv, RowsKept, Members(made) \subseteq Members(made)', walk' = walk
  PROVE  WalksOK' /\ PayersInOrder'
<1>1. ASSUME NEW w \in Walk
      PROVE  WalkOK(walk[w])' /\ ChainOK(w)' /\ PayersOK(w)'
  <2>1. walk'[w] = walk[w] /\ WalkOK(walk[w]) /\ ChainOK(w) /\ PayersOK(w) /\ Typed
    BY DEF KeysInv, WalksOK, PayersInOrder, PayersOK
  <2> QED BY <2>1, WalkKept
<1> QED BY <1>1 DEF WalksOK, PayersInOrder, PayersOK

(* A step that writes no key, and one request.                               *)
LEMMA OneJob ==
  ASSUME KeysInv, UNCHANGED <<fallback, key, made, walk, moved>>, asked' \in Nat, NEW j \in Job,
         NEW x \in JobRecord, JobOK(x), job' = [job EXCEPT ![j] = x],
         x.kind = "update" => x.on \in Stored /\ key[x.on].account = x.account,
         x.kind = "reorder" /\ Cardinality(Members(x.list)) = Len(x.list) =>
           /\ KeysOf(x.account) = Members(x.list)
           /\ \A i \in 1..Len(x.list) : i \notin x.todo => key[x.list[i]].priority = i
  PROVE  KeysInv'
<1>1. Typed'
  <2>1. Stored' = Stored /\ Members(made)' = Members(made)
    BY DEF Stored, Members
  <2>2. job' \in [Job -> JobRecord] /\ \A i \in Job : JobOK(job'[i])
    BY DEF KeysInv, Typed
  <2> QED BY <2>1, <2>2 DEF KeysInv, Typed
<1>2. RowsKept /\ Members(made) \subseteq Members(made)'
  BY DEF RowsKept, Stored, Members
<1>3. WalksOK' /\ PayersInOrder'
  BY <1>2, WalksKept
<1>4. ASSUME NEW i \in Job
      PROVE  UpdateOK(i)' /\ ReorderOK(i)'
  <2>1. CASE i = j
    <3>1. job'[i] = x
      BY <2>1 DEF KeysInv, Typed
    <3> QED BY <3>1 DEF UpdateOK, ReorderOK, KeysOf, Stored
  <2>2. CASE i # j
    <3>1. job'[i] = job[i] /\ key' = key /\ UpdateOK(i) /\ ReorderOK(i)
      BY <2>2 DEF KeysInv, Typed, JobsOK
    <3> QED BY <3>1, JobKept
  <2> QED BY <2>1, <2>2
<1>5. ChainsInOrder' /\ AgesOK'
  <2>1. ChainsInOrder /\ AgesOK
    BY DEF KeysInv
  <2>2. \A h, k : Before(h, k)' <=> Before(h, k)
    BY DEF Before, Age
  <2>3. \A k : Payer(k)' = Payer(k)
    BY DEF Payer, Stored
  <2>4. AgesOK'
    BY <2>1 DEF AgesOK, Distinct
  <2> QED BY <2>1, <2>2, <2>3, <2>4 DEF ChainsInOrder
<1> QED BY <1>1, <1>3, <1>4, <1>5 DEF KeysInv, JobsOK

(* A step that writes keys of account a.                                     *)
LEMMA KeysWritten ==
  ASSUME KeysInv, UNCHANGED <<fallback, walk>>, asked' \in Nat, Extended, RowsKept, NEW j, NEW a \in Account, OthersKept(a),
         NEW x \in JobRecord, JobOK(x), NEW removed, Touch(j, a, x, removed),
         \A k \in Stored : k \notin Stored' => k \in removed,
         key' \in [Key -> Row \cup {None}],
         Members(made) \subseteq Members(made)',
         \A k \in Stored' : k \in Members(made)',
         j \in Job => UpdateOK(j)' /\ ReorderOK(j)'
  PROVE  KeysInv'
<1>1. Typed /\ JobsOK
  BY DEF KeysInv
<1>2. Typed'
  <2>1. job' \in [Job -> JobRecord] /\ \A i \in Job : JobOK(job'[i])
    BY <1>1, TouchLaw
  <2>2. moved' \in [Walk -> SUBSET Account]
    BY <1>1 DEF Typed, Touch
  <2> QED BY <1>1, <2>1, <2>2 DEF Typed, Extended
<1>3. WalksOK' /\ PayersInOrder'
  BY WalksKept
<1>4. \A i \in Job : i # j => UpdateOK(i)' /\ ReorderOK(i)'
  BY <1>1, JobsKept
<1>5. JobsOK'
  BY <1>4 DEF JobsOK
<1>6. ChainsInOrder'
  <2>1. moved' = [w \in Walk |-> moved[w] \cup {a}]
    BY DEF Touch
  <2> QED BY <1>2, <2>1, OrderKeptBy
<1>7. AgesOK'
  BY DEF Extended, AgesOK
<1> QED BY <1>2, <1>3, <1>5, <1>6, <1>7 DEF KeysInv

(* A free slot is a request of no kind.                                      *)
LEMMA NoJobLaw == NoJob \in JobRecord /\ JobOK(NoJob) /\ NoJob.kind = "none"
<1>1. 0 \in 0..MaxKeys /\ <<>> \in Seq(Key) /\ {} \in SUBSET Nat
  BY LimitAssumption
<1> QED BY <1>1 DEF NoJob, JobRecord, JobOK

(* A step that stores no key.                                                *)
LEMMA MadeKept == Typed /\ AgesOK /\ made' = made => Extended
BY DEF Typed, AgesOK, Extended

(* Requests are counted.                                                     *)
LEMMA AskLaw == Typed /\ (Ask \/ asked' = asked) => asked' \in Nat
BY DEF Typed, Ask

(* A request to add a key has written nothing yet.                           *)
LEMMA BeginAddStep ==
  ASSUME KeysInv, NEW j \in Job, NEW a \in Account, NEW wanted \in {None, 1}, BeginAdd(j, a, wanted)
  PROVE  KeysInv'
<1> DEFINE n == Cardinality(KeysOf(a))
<1>1. n \in 0..MaxKeys
  <2>1. n \in Nat
    BY StoredLaw DEF KeysInv
  <2> QED BY <2>1, LimitAssumption DEF BeginAdd
<1>2. PICK m \in 0..MaxKeys : m = n
  BY <1>1
<1>3. PICK x : x = [NoJob EXCEPT !.kind = "add", !.account = a, !.put = wanted, !.count = m]
  OBVIOUS
<1>4. x \in JobRecord /\ JobOK(x) /\ x.kind = "add"
  BY <1>3, NoJobLaw DEF JobRecord, JobOK
<1>5. job' = [job EXCEPT ![j] = x] /\ UNCHANGED <<fallback, key, made, walk, moved>>
  BY <1>2, <1>3 DEF BeginAdd
<1>6. asked' \in Nat
  BY AskLaw DEF BeginAdd, KeysInv
<1> QED BY <1>4, <1>5, <1>6, OneJob

(* A request that ends leaves its slot free.                                 *)
LEMMA EndJobStep ==
  ASSUME KeysInv, NEW j \in Job, EndJob(j)
  PROVE  KeysInv'
<1>1. job' = [job EXCEPT ![j] = NoJob] /\ UNCHANGED <<fallback, key, made, walk, moved>>
  BY DEF EndJob, Finish
<1>2. PICK x : x = NoJob
  OBVIOUS
<1>3. asked' \in Nat
  BY AskLaw DEF EndJob, KeysInv
<1> QED BY <1>1, <1>2, <1>3, NoJobLaw, OneJob

(* An update finds its row on the account it was asked for.                  *)
LEMMA BeginUpdateStep ==
  ASSUME KeysInv, NEW j \in Job, NEW k \in Key, BeginUpdate(j, k)
  PROVE  KeysInv'
<1>1. PICK r \in Row : r = key[k]
  BY DEF BeginUpdate, KeysInv, Typed, Stored
<1>2. PICK put \in Puts(k) :
        job' = [job EXCEPT ![j] = [NoJob EXCEPT !.kind = "update", !.account = key[k].account,
                                                !.on = k, !.put = Changed(key[k], put)]]
  BY DEF BeginUpdate
<1>3. put \in Row /\ put.account = r.account
  <2>1. CASE \E m \in {1, MaxKeys + 1} : put = [r EXCEPT !.priority = m]
    <3>1. PICK m \in {1, MaxKeys + 1} : put = [r EXCEPT !.priority = m]
      BY <2>1
    <3>2. m \in Nat
      BY LimitAssumption
    <3> QED BY <3>1, <3>2 DEF Row
  <2>2. CASE put = [r EXCEPT !.active = ~@]
    <3>1. PICK b \in BOOLEAN : b = ~r.active
      OBVIOUS
    <3>2. put = [r EXCEPT !.active = b]
      BY <2>2, <3>1
    <3> QED BY <3>2 DEF Row
  <2>3. CASE put = [r EXCEPT !.secret = ~@, !.error = "none"]
    <3>1. PICK b \in BOOLEAN : b = ~r.secret
      OBVIOUS
    <3>2. put = [r EXCEPT !.secret = b, !.error = "none"]
      BY <2>3, <3>1
    <3> QED BY <3>2 DEF Row
  <2> QED BY <1>1, <1>2, <2>1, <2>2, <2>3 DEF Puts
<1>4. PICK c : c = Changed(r, put)
  OBVIOUS
<1>5. c \in Change
  <2>1. <<r, put>> \in {q \in Row \X Row : q[1].account = q[2].account}
    BY <1>3
  <2>2. c = Changed(<<r, put>>[1], <<r, put>>[2])
    BY <1>4
  <2> QED BY <2>1, <2>2 DEF Change
<1>6. PICK x : x = [NoJob EXCEPT !.kind = "update", !.account = r.account, !.on = k, !.put = c]
  OBVIOUS
<1>7. r.account \in Account
  BY DEF Row
<1>8. /\ x \in JobRecord /\ x.kind = "update" /\ x.account = r.account /\ x.on = k /\ x.put = c
  BY <1>5, <1>6, <1>7, NoJobLaw DEF JobRecord
<1>9. JobOK(x)
  BY <1>5, <1>7, <1>8 DEF JobOK
<1>10. job' = [job EXCEPT ![j] = x]
  BY <1>1, <1>2, <1>4, <1>6
<1>11. UNCHANGED <<fallback, key, made, walk, moved>> /\ k \in Stored /\ asked' \in Nat
  BY AskLaw DEF BeginUpdate, KeysInv
<1> QED BY <1>1, <1>8, <1>9, <1>10, <1>11, OneJob

(* A list as long as the account has keys, without repetition, names them    *)
(* all.                                                                      *)
LEMMA BeginReorderStep ==
  ASSUME KeysInv, NEW j \in Job, NEW a \in Account, BeginReorder(j, a)
  PROVE  KeysInv'
<1>1. PICK S \in SUBSET Key : S = KeysOf(a)
  BY DEF KeysOf, Stored
<1>2. IsFiniteSet(S) /\ Cardinality(S) \in Nat
  BY StoredLaw DEF KeysInv
<1>3. PICK n \in Nat : n = Cardinality(S)
  BY <1>2
<1>4. PICK list \in [1..n -> S] :
        job' = [job EXCEPT ![j] = [NoJob EXCEPT !.kind = "reorder", !.account = a,
                                                !.list = list, !.todo = 1..n]]
  BY <1>1, <1>3 DEF BeginReorder
<1>5. list \in Seq(Key) /\ Len(list) = n /\ 1..n \in SUBSET Nat
  OBVIOUS
<1>6. PICK x : x = [NoJob EXCEPT !.kind = "reorder", !.account = a, !.list = list, !.todo = 1..n]
  OBVIOUS
<1>7. x \in JobRecord /\ x.kind = "reorder" /\ x.account = a /\ x.list = list /\ x.todo = 1..n
  BY <1>5, <1>6, NoJobLaw DEF JobRecord
<1>8. JobOK(x)
  BY <1>7 DEF JobOK
<1>9. Cardinality(Members(list)) = n => KeysOf(a) = Members(list)
  <2>1. Members(list) \in SUBSET S
    BY <1>5 DEF Members
  <2> QED BY <2>1, <1>1, <1>2, <1>3, FS_Subset
<1>10. job' = [job EXCEPT ![j] = x] /\ UNCHANGED <<fallback, key, made, walk, moved>>
  BY <1>4, <1>6 DEF BeginReorder
<1>11. asked' \in Nat
  BY AskLaw DEF BeginReorder, KeysInv
<1> QED BY <1>5, <1>7, <1>8, <1>9, <1>10, <1>11, OneJob

(* A change of a row is saved on the account the row is of.                  *)
LEMMA SavedLaw ==
  ASSUME NEW r \in Row, NEW c \in Change
  PROVE  Saved(r, c) \in Row /\ Saved(r, c).account = r.account
<1>1. PICK p \in Row \X Row : p[1].account = p[2].account /\ c = Changed(p[1], p[2])
  BY DEF Change
<1>2. PICK s \in Row, t \in Row : s = p[1] /\ t = p[2]
  OBVIOUS
<1>3. DOMAIN c = {b \in DOMAIN t : t[b] # s[b]} /\ \A b \in DOMAIN c : c[b] = t[b]
  BY <1>1, <1>2 DEF Changed
<1>4. /\ DOMAIN r = {"account", "provider", "priority", "active", "secret", "error"}
      /\ DOMAIN t = {"account", "provider", "priority", "active", "secret", "error"}
  BY DEF Row
<1>5. "account" \notin DOMAIN c
  BY <1>1, <1>2, <1>3
<1>6. PICK z \in Row :
        /\ z.account = r.account
        /\ z.provider = IF "provider" \in DOMAIN c THEN t.provider ELSE r.provider
        /\ z.priority = IF "priority" \in DOMAIN c THEN t.priority ELSE r.priority
        /\ z.active = IF "active" \in DOMAIN c THEN t.active ELSE r.active
        /\ z.secret = IF "secret" \in DOMAIN c THEN t.secret ELSE r.secret
        /\ z.error = IF "error" \in DOMAIN c THEN t.error ELSE r.error
  <2>1. PICK active \in BOOLEAN : active = IF "active" \in DOMAIN c THEN t.active ELSE r.active
    BY DEF Row
  <2>2. PICK secret \in BOOLEAN : secret = IF "secret" \in DOMAIN c THEN t.secret ELSE r.secret
    BY DEF Row
  <2> DEFINE z == [account |-> r.account,
                   provider |-> IF "provider" \in DOMAIN c THEN t.provider ELSE r.provider,
                   priority |-> IF "priority" \in DOMAIN c THEN t.priority ELSE r.priority,
                   active |-> active, secret |-> secret,
                   error |-> IF "error" \in DOMAIN c THEN t.error ELSE r.error]
  <2>3. z \in Row
    BY DEF Row
  <2> QED BY <2>1, <2>2, <2>3
<1>7. Saved(r, c) = [a \in DOMAIN r |-> IF a \in DOMAIN c THEN t[a] ELSE r[a]]
  BY <1>3 DEF Saved
<1>8. z = [a \in DOMAIN r |-> z[a]]
  BY <1>4 DEF Row
<1>9. \A a \in DOMAIN r : z[a] = IF a \in DOMAIN c THEN t[a] ELSE r[a]
  BY <1>4, <1>5, <1>6
<1>10. Saved(r, c) = z
  BY <1>7, <1>8, <1>9
<1> QED BY <1>6, <1>10

(* A new key was never stored before.                                        *)
LEMMA InsertKeyStep ==
  ASSUME KeysInv, NEW j \in Job, NEW k \in Key, NEW v \in Provider, InsertKey(j, k, v)
  PROVE  KeysInv'
<1>1. PICK x \in JobRecord : x = job[j] /\ JobOK(x) /\ x.kind = "add"
  BY DEF KeysInv, Typed, InsertKey
<1>2. x.account \in Account /\ x.put \in {None, 1} /\ x.count \in Nat
  BY <1>1, LimitAssumption DEF JobOK, JobRecord
<1>3. PICK m \in Nat : m = IF x.put = None THEN x.count + 1 ELSE x.put
  BY <1>2
<1>4. PICK r : r = [account |-> x.account, provider |-> v, active |-> TRUE, secret |-> TRUE,
                    priority |-> m, error |-> "none"]
  OBVIOUS
<1>5. r \in Row /\ r.account = x.account
  BY <1>2, <1>4 DEF Row
<1>6. /\ key' = [key EXCEPT ![k] = r] /\ made' = Append(made, k) /\ k \notin Members(made)
      /\ Touch(j, x.account, NoJob, {}) /\ UNCHANGED <<fallback, walk>>
  BY <1>1, <1>3, <1>4 DEF InsertKey
<1>7. key \in [Key -> Row \cup {None}] /\ made \in Seq(Key) /\ \A i \in Stored : i \in Members(made)
  BY DEF KeysInv, Typed
<1>8. key' \in [Key -> Row \cup {None}] /\ key'[k] = r /\ \A i \in Key : i # k => key'[i] = key[i]
  BY <1>5, <1>6, <1>7
<1>9. Extended /\ Members(made)' = Members(made) \cup {k}
  <2>1. Len(made) \in Nat /\ Len(made') = Len(made) + 1 /\ made' \in Seq(Key)
    BY <1>6, <1>7
  <2>2. \A i \in 1..Len(made) : made'[i] = made[i]
    BY <1>6, <1>7
  <2>3. made'[Len(made) + 1] = k
    BY <1>6, <1>7
  <2>4. 1..Len(made') = (1..Len(made)) \cup {Len(made) + 1}
    BY <2>1
  <2>5. \A i \in 1..Len(made) : made[i] # k
    BY <1>6 DEF Members
  <2>6. Distinct(made)
    BY DEF KeysInv, AgesOK
  <2>7. Distinct(made')
    BY <2>2, <2>3, <2>4, <2>5, <2>6 DEF Distinct
  <2>8. Members(made)' = Members(made) \cup {k}
    BY <2>1, <2>2, <2>3, <2>4 DEF Members
  <2> QED BY <2>1, <2>2, <2>4, <2>7, <2>8 DEF Extended
<1>10. Stored' = Stored \cup {k}
  BY <1>5, <1>8, RowAssumption DEF Stored
<1>11. RowsKept
  BY <1>6, <1>8, <1>10 DEF RowsKept
<1>12. k \notin Stored
  BY <1>6, <1>7
<1>13. OthersKept(x.account)
  BY <1>5, <1>8, <1>12 DEF OthersKept
<1>14. UpdateOK(j)' /\ ReorderOK(j)'
  <2>1. job'[j] = NoJob
    BY <1>6 DEF Touch
  <2> QED BY <2>1, NoJobLaw DEF UpdateOK, ReorderOK
<1>15. PICK new : new = NoJob
  OBVIOUS
<1>16. asked' \in Nat
  BY AskLaw DEF InsertKey, KeysInv
<1> QED BY <1>2, <1>16, <1>6, <1>7, <1>8, <1>9, <1>10, <1>11, <1>13, <1>14, <1>15, NoJobLaw, KeysWritten

(* An update writes the row it loaded, or finds it removed.                  *)
LEMMA SaveKeyStep ==
  ASSUME KeysInv, NEW j \in Job, SaveKey(j)
  PROVE  KeysInv'
<1>1. PICK x \in JobRecord : x = job[j] /\ JobOK(x) /\ x.kind = "update"
  BY DEF KeysInv, Typed, SaveKey
<1>2. x.account \in Account /\ x.on \in Key /\ x.put \in Change
  BY <1>1 DEF JobOK
<1>15. PICK new : new = NoJob
  OBVIOUS
<1>16. asked' \in Nat
  BY AskLaw DEF SaveKey, KeysInv
<1>3. CASE x.gone
  <2>1. job' = [job EXCEPT ![j] = NoJob] /\ UNCHANGED <<fallback, key, made, walk, moved>>
    BY <1>1, <1>3 DEF SaveKey, Finish
  <2> QED BY <2>1, <1>15, <1>16, NoJobLaw, OneJob
<1>4. CASE ~x.gone
  <2>1. x.on \in Stored /\ key[x.on].account = x.account
    BY <1>1, <1>4 DEF KeysInv, JobsOK, UpdateOK
  <2>2. PICK r \in Row : r = key[x.on]
    BY <2>1, StoredLaw DEF KeysInv
  <2>3. PICK s \in Row : s = Saved(r, x.put) /\ s.account = r.account
    BY <1>2, SavedLaw
  <2>4. /\ key' = [key EXCEPT ![x.on] = s] /\ Touch(j, x.account, NoJob, {})
        /\ UNCHANGED <<fallback, made, walk>>
    BY <1>1, <1>4, <2>2, <2>3 DEF SaveKey
  <2>5. key \in [Key -> Row \cup {None}] /\ made \in Seq(Key) /\ \A i \in Stored : i \in Members(made)
    BY DEF KeysInv, Typed
  <2>6. key' \in [Key -> Row \cup {None}] /\ key'[x.on] = s /\ \A i \in Key : i # x.on => key'[i] = key[i]
    BY <1>2, <2>4, <2>5
  <2>7. Stored' = Stored
    BY <2>1, <2>6, RowAssumption DEF Stored
  <2>8. RowsKept
    BY <2>1, <2>2, <2>3, <2>6, <2>7 DEF RowsKept
  <2>9. OthersKept(x.account)
    BY <2>1, <2>2, <2>3, <2>6 DEF OthersKept
  <2>10. UpdateOK(j)' /\ ReorderOK(j)'
    <3>1. job'[j] = NoJob
      BY <2>4 DEF Touch
    <3> QED BY <3>1, NoJobLaw DEF UpdateOK, ReorderOK
  <2>11. Members(made)' = Members(made) /\ Extended
    BY <2>4, MadeKept DEF Members, KeysInv
  <2> QED BY <1>2, <1>15, <1>16, <2>4, <2>5, <2>6, <2>7, <2>8, <2>9, <2>10, <2>11, NoJobLaw, KeysWritten
<1> QED BY <1>3, <1>4

(* A removed key is gone for those who loaded it.                            *)
LEMMA RemoveKeyStep ==
  ASSUME KeysInv, NEW k \in Key, RemoveKey(k)
  PROVE  KeysInv'
<1>1. k \in Stored
  BY DEF RemoveKey
<1>2. PICK a \in Account : a = key[k].account
  BY <1>1, StoredLaw DEF KeysInv
<1>3. /\ key' = [key EXCEPT ![k] = None] /\ Touch(None, a, NoJob, {k})
      /\ UNCHANGED <<fallback, made, walk>>
  BY <1>2 DEF RemoveKey
<1>4. key \in [Key -> Row \cup {None}] /\ made \in Seq(Key) /\ \A i \in Stored : i \in Members(made)
  BY DEF KeysInv, Typed
<1>5. key' \in [Key -> Row \cup {None}] /\ key'[k] = None /\ \A i \in Key : i # k => key'[i] = key[i]
  BY <1>3, <1>4
<1>6. Stored' = Stored \ {k}
  BY <1>5 DEF Stored
<1>7. RowsKept
  BY <1>5, <1>6 DEF RowsKept
<1>8. OthersKept(a)
  BY <1>2, <1>5, <1>6 DEF OthersKept
<1>9. Members(made)' = Members(made) /\ Extended /\ asked' \in Nat
  BY <1>3, MadeKept, AskLaw DEF Members, KeysInv, RemoveKey
<1>10. PICK new : new = NoJob
  OBVIOUS
<1>11. None \notin Job
  BY IdentifierAssumption
<1> QED BY <1>3, <1>4, <1>5, <1>6, <1>7, <1>8, <1>9, <1>10, <1>11, NoJobLaw, KeysWritten

(* One update of a reorder places one key of its list.                       *)
LEMMA ReorderOneStep ==
  ASSUME KeysInv, NEW j \in Job, NEW i \in 1..Len(job[j].list), ReorderOne(j, i)
  PROVE  KeysInv'
<1>1. PICK x \in JobRecord : x = job[j] /\ JobOK(x) /\ x.kind = "reorder"
  BY DEF KeysInv, Typed, ReorderOne
<1>2. x.account \in Account /\ x.list \in Seq(Key) /\ Len(x.list) \in Nat /\ i \in 1..Len(x.list)
  BY <1>1 DEF JobOK, JobRecord
<1>3. PICK k \in Key : k = x.list[i]
  BY <1>2
<1>4. PICK new : new = [x EXCEPT !.todo = @ \ {i}]
  OBVIOUS
<1>5. /\ new \in JobRecord /\ new.kind = "reorder" /\ new.account = x.account /\ new.list = x.list
      /\ new.todo = x.todo \ {i} /\ new.fresh = x.fresh
  <2>1. x.todo \ {i} \in SUBSET Nat
    BY DEF JobRecord
  <2> QED BY <1>1, <1>4, <2>1 DEF JobRecord
<1>6. JobOK(new)
  BY <1>2, <1>5 DEF JobOK
<1>7. /\ Touch(j, x.account, new, {}) /\ UNCHANGED <<fallback, made, walk>>
      /\ key' = IF k \in KeysOf(x.account) THEN [key EXCEPT ![k].priority = i] ELSE key
  BY <1>1, <1>3, <1>4 DEF ReorderOne, Place
<1>8. key \in [Key -> Row \cup {None}] /\ made \in Seq(Key) /\ \A h \in Stored : h \in Members(made)
  BY DEF KeysInv, Typed
<1>9. \A h \in Key : h # k => key'[h] = key[h]
  BY <1>7, <1>8
<1>10. k \in KeysOf(x.account) =>
         /\ k \in Stored /\ key[k].account = x.account
         /\ key'[k] \in Row /\ key'[k].account = x.account /\ key'[k].priority = i
  <2> SUFFICES ASSUME k \in KeysOf(x.account)
               PROVE  /\ k \in Stored /\ key[k].account = x.account
                      /\ key'[k] \in Row /\ key'[k].account = x.account /\ key'[k].priority = i
    OBVIOUS
  <2>1. k \in Stored /\ key[k].account = x.account
    BY DEF KeysOf
  <2>2. PICK r \in Row : r = key[k]
    BY <2>1, StoredLaw DEF KeysInv
  <2>3. key'[k] = [r EXCEPT !.priority = i]
    BY <1>7, <1>8, <2>2
  <2>4. i \in Nat
    BY <1>2
  <2> QED BY <2>1, <2>2, <2>3, <2>4 DEF Row
<1>11. k \notin KeysOf(x.account) => key' = key
  BY <1>7
<1>12. key' \in [Key -> Row \cup {None}]
  BY <1>7, <1>8, <1>9, <1>10, <1>11
<1>13. Stored' = Stored
  BY <1>9, <1>10, <1>11, RowAssumption DEF Stored
<1>14. \A h \in Stored : h \in Key /\ key'[h].account = key[h].account
  BY <1>9, <1>10, <1>11 DEF Stored
<1>15. RowsKept
  BY <1>13, <1>14 DEF RowsKept
<1>16. OthersKept(x.account)
  BY <1>9, <1>10, <1>11 DEF OthersKept
<1>17. job'[j] = new
  BY <1>7 DEF Touch
<1>18. ReorderOK(j)'
  <2> SUFFICES ASSUME x.fresh, Cardinality(Members(x.list)) = Len(x.list)
               PROVE  /\ KeysOf(x.account)' = Members(x.list)
                      /\ \A h \in 1..Len(x.list) :
                           h \notin x.todo \ {i} => key'[x.list[h]].priority = h
    BY <1>5, <1>17 DEF ReorderOK
  <2>1. /\ KeysOf(x.account) = Members(x.list)
        /\ \A h \in 1..Len(x.list) : h \notin x.todo => key[x.list[h]].priority = h
    BY <1>1 DEF KeysInv, JobsOK, ReorderOK
  <2>2. KeysOf(x.account)' = KeysOf(x.account)
    BY <1>13, <1>14 DEF KeysOf
  <2>3. k \in KeysOf(x.account)
    BY <2>1, <1>2, <1>3 DEF Members
  <2>4. ASSUME NEW h \in 1..Len(x.list), h \notin x.todo \ {i}
        PROVE  key'[x.list[h]].priority = h
    <3>1. CASE h = i
      BY <3>1, <2>3, <1>3, <1>10
    <3>2. CASE h # i
      <4>1. x.list[h] # k
        BY <3>2, <1>2, <1>3, DistinctLaw DEF Distinct
      <4>2. x.list[h] \in Key
        BY <1>2
      <4>3. key'[x.list[h]] = key[x.list[h]]
        BY <4>1, <4>2, <1>9
      <4> QED BY <4>3, <2>1, <2>4, <3>2
    <3> QED BY <3>1, <3>2
  <2> QED BY <2>1, <2>2, <2>4
<1>19. UpdateOK(j)'
  BY <1>5, <1>17 DEF UpdateOK
<1>20. Members(made)' = Members(made) /\ Extended /\ asked' \in Nat
  BY <1>7, MadeKept, AskLaw DEF Members, KeysInv, ReorderOne
<1> QED BY <1>2, <1>5, <1>6, <1>7, <1>8, <1>12, <1>13, <1>15, <1>16, <1>18, <1>19, <1>20, KeysWritten

(***************************************************************************)
(* The steps of a walk.                                                    *)
(***************************************************************************)

(* A step that writes no key, and one walk.                                  *)
LEMMA OneWalk ==
  ASSUME KeysInv, UNCHANGED <<fallback, key, made, job, asked>>, NEW w \in Walk,
         NEW x \in WalkRecord, WalkOK(x), walk' = [walk EXCEPT ![w] = x],
         NEW since \in SUBSET Account, moved' = [moved EXCEPT ![w] = since],
         \A i \in 1..Len(x.chain) : x.chain[i] \in Members(made) \cup {BuiltIn},
         \A h, i \in 1..Len(x.chain) :
           h < i /\ Payer(x.chain[h]) = Payer(x.chain[i]) /\ Payer(x.chain[i]) \notin since \cup {None}
             => Before(x.chain[h], x.chain[i]),
         x.at = "loading" => \A i \in 1..Len(x.chain) : Payer(x.chain[i]) \in {Org, None},
         \A i \in 1..Len(x.chain) :
           /\ Payer(x.chain[i]) \in {Org, x.actor, None}
           /\ Payer(x.chain[i]) = Org => \A h \in 1..i : Payer(x.chain[h]) \in {Org, None}
  PROVE  KeysInv'
<1>1. Stored' = Stored /\ Members(made)' = Members(made) /\ \A k : Payer(k)' = Payer(k)
  BY DEF Stored, Members, Payer
<1>2. Typed' /\ AgesOK'
  BY <1>1 DEF KeysInv, Typed, AgesOK, Distinct
<1>3. RowsKept
  BY <1>1 DEF RowsKept
<1>6. ChainsInOrder'
  <2>1. \A j, k : Before(j, k)' <=> Before(j, k)
    BY DEF Before, Age
  <2> SUFFICES ASSUME NEW v \in Walk
               PROVE  OrderOK(v)'
    BY DEF ChainsInOrder, OrderOK
  <2>2. CASE v = w
    <3>1. walk'[v] = x /\ moved'[v] = since
      BY <2>2 DEF KeysInv, Typed
    <3> QED BY <3>1, <1>1, <2>1 DEF OrderOK
  <2>3. CASE v # w
    <3>1. walk'[v] = walk[v] /\ moved'[v] = moved[v]
      BY <2>3 DEF KeysInv, Typed
    <3>2. OrderOK(v)
      BY DEF KeysInv, ChainsInOrder, OrderOK
    <3> QED BY <3>1, <3>2, <1>1, <2>1 DEF OrderOK
  <2> QED BY <2>2, <2>3
<1>4. ASSUME NEW v \in Walk
      PROVE  WalkOK(walk[v])' /\ ChainOK(v)' /\ PayersOK(v)'
  <2>1. CASE v = w
    <3>1. walk'[v] = x
      BY <2>1 DEF KeysInv, Typed
    <3>2. ChainOK(v)'
      BY <3>1, <1>1 DEF ChainOK
    <3>3. PayersOK(v)'
      BY <3>1, <1>1 DEF PayersOK
    <3> QED BY <3>1, <3>2, <3>3
  <2>2. CASE v # w
    <3>1. walk'[v] = walk[v] /\ WalkOK(walk[v]) /\ ChainOK(v) /\ PayersOK(v) /\ Typed
      BY <2>2 DEF KeysInv, Typed, WalksOK, PayersInOrder, PayersOK
    <3> QED BY <3>1, <1>1, <1>3, WalkKept
  <2> QED BY <2>1, <2>2
<1>5. ASSUME NEW j \in Job
      PROVE  UpdateOK(j)' /\ ReorderOK(j)'
  <2>1. job'[j] = job[j] /\ key' = key /\ UpdateOK(j) /\ ReorderOK(j)
    BY DEF KeysInv, JobsOK
  <2> QED BY <2>1, JobKept
<1> QED BY <1>2, <1>4, <1>5, <1>6 DEF KeysInv, WalksOK, PayersInOrder, PayersOK, JobsOK

(* A step of a walk that leaves its chain alone.                             *)
LEMMA SameChain ==
  ASSUME KeysInv, UNCHANGED <<fallback, key, made, job, asked, moved>>, NEW w \in Walk,
         NEW x \in WalkRecord, WalkOK(x), walk' = [walk EXCEPT ![w] = x],
         x.chain = walk[w].chain, x.actor = walk[w].actor, x.at # "loading"
  PROVE  KeysInv'
<1>1. PICK since \in SUBSET Account : since = moved[w]
  BY DEF KeysInv, Typed
<1>2. moved' = [moved EXCEPT ![w] = since]
  BY <1>1 DEF KeysInv, Typed
<1>3. PICK y : y = walk[w]
  OBVIOUS
<1>4. ChainOK(w) /\ PayersOK(w) /\ OrderOK(w)
  BY DEF KeysInv, WalksOK, PayersInOrder, PayersOK, ChainsInOrder, OrderOK
<1>5. x.chain = y.chain /\ x.actor = y.actor
  BY <1>3
<1>6. \A i \in 1..Len(x.chain) : x.chain[i] \in Members(made) \cup {BuiltIn}
  BY <1>3, <1>4, <1>5 DEF ChainOK
<1>7. \A i \in 1..Len(x.chain) :
        /\ Payer(x.chain[i]) \in {Org, x.actor, None}
        /\ Payer(x.chain[i]) = Org => \A h \in 1..i : Payer(x.chain[h]) \in {Org, None}
  BY <1>3, <1>4, <1>5 DEF PayersOK
<1>8. \A h, i \in 1..Len(x.chain) :
        h < i /\ Payer(x.chain[h]) = Payer(x.chain[i]) /\ Payer(x.chain[i]) \notin since \cup {None}
          => Before(x.chain[h], x.chain[i])
  BY <1>1, <1>3, <1>4, <1>5 DEF OrderOK
<1> QED BY <1>2, <1>6, <1>7, <1>8, OneWalk

(* What a read of an account's usable keys returns.                          *)
LEMMA UsableLaw ==
  ASSUME Typed, NEW a, NEW v
  PROVE  /\ Usable(a, v) \in Seq(Key) /\ Distinct(Usable(a, v))
         /\ \A i \in 1..Len(Usable(a, v)) :
              /\ Usable(a, v)[i] \in Members(made)
              /\ Payer(Usable(a, v)[i]) = a
              /\ a \in Account
         /\ \A h, i \in 1..Len(Usable(a, v)) : h < i => Before(Usable(a, v)[h], Usable(a, v)[i])
<1> DEFINE S == {k \in KeysOf(a) : key[k].active /\ (v = None \/ key[k].provider = v)}
           s == Sorted(S)
<1>1. S \in SUBSET Stored
  BY DEF KeysOf
<1>2. Usable(a, v) = s
  BY DEF Usable
<1>3. \A k \in S : k \in Stored /\ key[k].account = a /\ k \in Key
  BY DEF KeysOf, Stored
<1> HIDE DEF S
<1>4. s \in Arrangements(S) /\ InOrder(s)
  BY <1>1, SortedLaw
<1> HIDE DEF s
<1>5. s \in Seq(S) /\ Distinct(s)
  BY <1>1, <1>4, ArrangedLaw
<1>6. s \in Seq(Key)
  BY <1>3, <1>5, SeqMonotonic
<1>7. ASSUME NEW i \in 1..Len(s)
      PROVE  s[i] \in Members(made) /\ Payer(s[i]) = a /\ a \in Account
  <2>1. s[i] \in S
    BY <1>5
  <2>2. s[i] \in Stored /\ key[s[i]].account = a
    BY <2>1, <1>3
  <2> QED BY <2>2, StoredLaw DEF Payer, Typed
<1>8. \A h, i \in 1..Len(s) : h < i => Before(s[h], s[i])
  BY <1>4 DEF InOrder
<1> QED BY <1>2, <1>5, <1>6, <1>7, <1>8

(* The first read of a chain returns keys of the organisation, or is left    *)
(* out.                                                                      *)
LEMMA BeginWalkStep ==
  ASSUME KeysInv, NEW w \in Walk, NEW p \in Person, NEW ns, NEW v \in Provider \cup {None},
         BeginWalk(w, p, ns, v)
  PROVE  KeysInv'
<1>1. Typed
  BY DEF KeysInv
<1>2. PICK chain : chain = IF ns = Org THEN Usable(Org, v) ELSE <<>>
  OBVIOUS
<1>3. /\ chain \in Seq(Key) /\ Distinct(chain)
      /\ \A i \in 1..Len(chain) : chain[i] \in Members(made) /\ Payer(chain[i]) = Org
      /\ \A h, i \in 1..Len(chain) : h < i => Before(chain[h], chain[i])
  <2>1. CASE ns = Org
    BY <2>1, <1>1, <1>2, UsableLaw
  <2>2. CASE ns # Org
    BY <2>2, <1>2 DEF Distinct
  <2> QED BY <2>1, <2>2
<1>4. PICK x : x = [NoWalk EXCEPT !.at = "loading", !.actor = p, !.provider = v, !.chain = chain]
  OBVIOUS
<1>5. chain \in Seq(Key \cup {BuiltIn})
  BY <1>3, SeqMonotonic
<1>6. /\ x.at = "loading" /\ x.actor = p /\ x.chain = chain /\ x.next = 1 /\ x.retry = 0
      /\ x.log = <<>> /\ x.recorded = 0
  BY <1>4 DEF NoWalk
<1>7. x \in WalkRecord
  <2>1. 0 \in 0..(MaxAttempts - 1) /\ <<>> \in Seq(Entry) /\ 1 \in Nat \ {0}
    BY LimitAssumption
  <2> QED BY <1>4, <1>5, <2>1 DEF NoWalk, WalkRecord
<1>8. WalkOK(x)
  BY <1>3, <1>6 DEF WalkOK
<1>9. /\ walk' = [walk EXCEPT ![w] = x] /\ moved' = [moved EXCEPT ![w] = {}]
      /\ UNCHANGED <<fallback, key, made, job, asked>>
  BY <1>2, <1>4 DEF BeginWalk
<1>10. \A i \in 1..Len(chain) : \A h \in 1..i : h \in 1..Len(chain)
  BY <1>3
<1>11. \A h, i \in 1..Len(x.chain) :
         h < i /\ Payer(x.chain[h]) = Payer(x.chain[i]) /\ Payer(x.chain[i]) \notin {} \cup {None}
           => Before(x.chain[h], x.chain[i])
  BY <1>3, <1>6
<1>12. /\ \A i \in 1..Len(x.chain) : x.chain[i] \in Members(made) \cup {BuiltIn}
       /\ x.at = "loading" => \A i \in 1..Len(x.chain) : Payer(x.chain[i]) \in {Org, None}
  BY <1>3, <1>6
<1>13. \A i \in 1..Len(x.chain) :
         /\ Payer(x.chain[i]) \in {Org, x.actor, None}
         /\ Payer(x.chain[i]) = Org => \A h \in 1..i : Payer(x.chain[h]) \in {Org, None}
  BY <1>3, <1>6, <1>10
<1>14. {} \in SUBSET Account /\ UNCHANGED <<fallback, key, made, job, asked>>
  BY <1>9
<1> QED BY <1>7, <1>8, <1>9, <1>11, <1>12, <1>13, <1>14, OneWalk

(* The chain is settled, and the first try of it is the next step if it has  *)
(* one.                                                                      *)
LEMMA LoadedLaw ==
  ASSUME KeysInv, NEW w \in Walk, NEW x \in WalkRecord, x = walk[w], x.at = "loading", WalkOK(x),
         NEW chain \in Seq(Key \cup {BuiltIn}), Distinct(chain),
         UNCHANGED <<fallback, key, made, job, asked>>,
         NEW since \in SUBSET Account, moved' = [moved EXCEPT ![w] = since],
         \A h, i \in 1..Len(chain) :
           h < i /\ Payer(chain[h]) = Payer(chain[i]) /\ Payer(chain[i]) \notin since \cup {None}
             => Before(chain[h], chain[i]),
         walk' = [walk EXCEPT ![w].chain = chain,
                              ![w].at = IF chain = <<>> THEN "failed" ELSE "trying"],
         \A i \in 1..Len(chain) : /\ chain[i] \in Members(made) \cup {BuiltIn}
                                  /\ Payer(chain[i]) \in {Org, x.actor, None},
         \A i \in 1..Len(chain) : Payer(chain[i]) = Org =>
           \A h \in 1..i : Payer(chain[h]) \in {Org, None}
  PROVE  KeysInv'
<1>1. PICK at \in {"failed", "trying"} : at = IF chain = <<>> THEN "failed" ELSE "trying"
  OBVIOUS
<1>2. PICK y : y = [x EXCEPT !.chain = chain, !.at = at]
  OBVIOUS
<1>3. /\ y \in WalkRecord /\ y.at = at /\ y.chain = chain /\ y.actor = x.actor
      /\ y.log = x.log /\ y.next = x.next /\ y.recorded = x.recorded /\ y.retry = x.retry
  BY <1>2 DEF WalkRecord
<1>4. walk' = [walk EXCEPT ![w] = y]
  BY <1>1, <1>2 DEF KeysInv, Typed
<1>5. x.log = <<>> /\ x.next = 1 /\ x.retry = 0 /\ x.recorded = 0
  BY DEF WalkOK
<1>6. Len(chain) \in Nat /\ (chain = <<>> <=> Len(chain) = 0)
  BY EmptySeq
<1>7. \A k : TriesOf(y, k) = {}
  BY <1>3, <1>5 DEF TriesOf
<1>8. Cardinality({}) = 0
  BY FS_EmptySet
<1>9. WalkOK(y)
  <2>1. /\ Len(y.log) = 0 /\ y.recorded = 0 /\ y.next = 1 /\ y.retry = 0
        /\ y.at \notin {"idle", "loading"} /\ 1..0 = {}
    BY <1>1, <1>3, <1>5
  <2>2. Distinct(y.chain) /\ \A m \in 1..(y.next - 1) : FALSE
    BY <1>3, <2>1
  <2>3. y.at = "trying" =>
          /\ y.next <= Len(y.chain)
          /\ Cardinality(TriesOf(y, y.chain[y.next])) = y.retry
          /\ \A i \in TriesOf(y, y.chain[y.next]) : FALSE
          /\ \A m \in 1..Len(y.chain) : TriesOf(y, y.chain[m]) = {}
    <3>1. TriesOf(y, y.chain[y.next]) = {} /\ Cardinality(TriesOf(y, y.chain[y.next])) = 0
      BY <1>7, <1>8
    <3>2. y.at = "trying" => y.next <= Len(y.chain)
      BY <1>1, <1>3, <1>6, <2>1
    <3> QED BY <3>1, <3>2, <1>7, <2>1
  <2>4. y.at = "failed" => \A m \in 1..Len(y.chain) : FALSE
    BY <1>1, <1>3, <1>6
  <2> QED BY <2>1, <2>2, <2>3, <2>4 DEF WalkOK
<1> QED BY <1>1, <1>3, <1>4, <1>9, OneWalk

(* The second read adds the caller's keys behind them.                       *)
LEMMA LoadOwnStep ==
  ASSUME KeysInv, NEW w \in Walk, LoadOwn(w)
  PROVE  KeysInv'
<1>1. Typed
  BY DEF KeysInv
<1>2. PICK x \in WalkRecord : x = walk[w] /\ x.at = "loading" /\ WalkOK(x)
  BY DEF KeysInv, Typed, WalksOK, LoadOwn
<1>3. /\ x.chain \in Seq(Key \cup {BuiltIn}) /\ Len(x.chain) \in Nat /\ Distinct(x.chain)
      /\ \A i \in 1..Len(x.chain) : /\ x.chain[i] \in Members(made) \cup {BuiltIn}
                                    /\ Payer(x.chain[i]) \in {Org, None}
  BY <1>2 DEF KeysInv, WalksOK, ChainOK, WalkOK, WalkRecord
<1>4. PICK own : own = Usable(x.actor, x.provider)
  OBVIOUS
<1>5. /\ own \in Seq(Key) /\ Distinct(own)
      /\ \A i \in 1..Len(own) : /\ own[i] \in Members(made) /\ Payer(own[i]) = x.actor
                                /\ x.actor \in Account
      /\ \A h, i \in 1..Len(own) : h < i => Before(own[h], own[i])
  BY <1>1, <1>4, UsableLaw
<1>6. own \in Seq(Key \cup {BuiltIn}) /\ Len(own) \in Nat
  BY <1>5, SeqMonotonic
<1>7. PICK whole : whole = x.chain \o own
  OBVIOUS
<1>8. /\ whole \in Seq(Key \cup {BuiltIn}) /\ Len(whole) = Len(x.chain) + Len(own)
      /\ \A i \in 1..Len(x.chain) + Len(own) :
           whole[i] = IF i <= Len(x.chain) THEN x.chain[i] ELSE own[i - Len(x.chain)]
  BY <1>3, <1>6, <1>7, ConcatProperties
<1>9. \A i \in 1..Len(whole) :
        \/ i \in 1..Len(x.chain) /\ whole[i] = x.chain[i]
        \/ i > Len(x.chain) /\ i - Len(x.chain) \in 1..Len(own) /\ whole[i] = own[i - Len(x.chain)]
  BY <1>3, <1>6, <1>8
<1>10. x.actor # Org /\ Org # None /\ None \notin Account
  <2>1. x.actor \in Person \cup {None}
    BY DEF WalkRecord
  <2> QED BY <2>1, IdentifierAssumption DEF Account
<1>11. \A i \in 1..Len(whole) : /\ whole[i] \in Members(made) \cup {BuiltIn}
                                /\ Payer(whole[i]) \in {Org, x.actor, None}
  BY <1>3, <1>5, <1>9
<1>12. ASSUME NEW i \in 1..Len(whole), Payer(whole[i]) = Org, NEW h \in 1..i
       PROVE  Payer(whole[h]) \in {Org, None}
  <2>1. i \in 1..Len(x.chain)
    BY <1>5, <1>9, <1>10, <1>12
  <2>2. h \in 1..Len(x.chain) /\ h \in 1..Len(whole)
    BY <2>1, <1>3, <1>8, <1>6
  <2>3. whole[h] = x.chain[h]
    BY <2>2, <1>8, <1>3, <1>6
  <2> QED BY <2>2, <2>3, <1>3
<1>13. Distinct(whole)
  <2> SUFFICES ASSUME NEW i \in 1..Len(whole), NEW h \in 1..Len(whole), whole[i] = whole[h], i < h
               PROVE  FALSE
    BY <1>8, <1>3, <1>6 DEF Distinct
  <2>1. CASE h \in 1..Len(x.chain)
    <3>1. i \in 1..Len(x.chain)
      BY <2>1, <1>3
    <3>2. whole[i] = x.chain[i] /\ whole[h] = x.chain[h]
      BY <3>1, <2>1, <1>8, <1>3, <1>6
    <3>3. i = h
      BY <3>1, <3>2, <2>1, <1>3 DEF Distinct
    <3> QED BY <3>3
  <2>2. CASE h \notin 1..Len(x.chain) /\ i \in 1..Len(x.chain)
    <3>1. Payer(whole[h]) = x.actor /\ x.actor \in Account
      BY <2>2, <1>9, <1>5
    <3>2. Payer(whole[i]) \in {Org, None}
      BY <2>2, <1>8, <1>3, <1>6
    <3> QED BY <3>1, <3>2, <1>10
  <2>3. CASE h \notin 1..Len(x.chain) /\ i \notin 1..Len(x.chain)
    <3>1. /\ i - Len(x.chain) \in 1..Len(own) /\ whole[i] = own[i - Len(x.chain)]
          /\ h - Len(x.chain) \in 1..Len(own) /\ whole[h] = own[h - Len(x.chain)]
      BY <2>3, <1>9
    <3>2. i - Len(x.chain) = h - Len(x.chain)
      BY <3>1, <1>5 DEF Distinct
    <3> QED BY <3>2, <1>3
  <2> QED BY <2>1, <2>2, <2>3
<1>18. PICK since \in SUBSET Account : since = moved[w] \ {x.actor}
  BY <1>1 DEF Typed
<1>19. ASSUME NEW h \in 1..Len(whole), NEW i \in 1..Len(whole), h < i,
              Payer(whole[h]) = Payer(whole[i]), Payer(whole[i]) \notin since \cup {None}
       PROVE  Before(whole[h], whole[i])
  <2>1. CASE i \in 1..Len(x.chain)
    <3>1. h \in 1..Len(x.chain) /\ whole[h] = x.chain[h] /\ whole[i] = x.chain[i]
      BY <2>1, <1>19, <1>8, <1>3, <1>6
    <3>2. Payer(x.chain[i]) \in {Org, None}
      BY <2>1, <1>3
    <3>3. Payer(x.chain[i]) = Org /\ Payer(x.chain[h]) = Org
      BY <3>1, <3>2, <1>19
    <3>4. Org \notin moved[w] \cup {None}
      BY <3>1, <3>3, <1>10, <1>18, <1>19
    <3>5. OrderOK(w)
      BY DEF KeysInv, ChainsInOrder, OrderOK
    <3>6. Before(x.chain[h], x.chain[i])
      BY <2>1, <3>1, <3>3, <3>4, <3>5, <1>2, <1>19 DEF OrderOK
    <3> QED BY <3>1, <3>6
  <2>2. CASE i \notin 1..Len(x.chain) /\ h \in 1..Len(x.chain)
    <3>1. Payer(whole[i]) = x.actor /\ x.actor \in Account
      <4>1. i - Len(x.chain) \in 1..Len(own) /\ whole[i] = own[i - Len(x.chain)]
        BY <2>2, <1>9
      <4> QED BY <4>1, <1>5
    <3>2. Payer(whole[h]) \in {Org, None}
      BY <2>2, <1>8, <1>3, <1>6
    <3> QED BY <3>1, <3>2, <1>10, <1>19, SMTT(20)
  <2>3. CASE i \notin 1..Len(x.chain) /\ h \notin 1..Len(x.chain)
    <3>1. /\ i - Len(x.chain) \in 1..Len(own) /\ whole[i] = own[i - Len(x.chain)]
          /\ h - Len(x.chain) \in 1..Len(own) /\ whole[h] = own[h - Len(x.chain)]
      BY <2>3, <1>9
    <3>2. h - Len(x.chain) < i - Len(x.chain)
      BY <1>19, <1>3
    <3> QED BY <3>1, <3>2, <1>5
  <2> QED BY <2>1, <2>2, <2>3
<1>14. PICK chain : chain = IF whole = <<>> /\ fallback THEN <<BuiltIn>> ELSE whole
  OBVIOUS
<1>17. /\ walk' = [walk EXCEPT ![w].chain = chain,
                               ![w].at = IF chain = <<>> THEN "failed" ELSE "trying"]
       /\ moved' = [moved EXCEPT ![w] = since] /\ UNCHANGED <<fallback, key, made, job, asked>>
  BY <1>2, <1>4, <1>7, <1>14, <1>18 DEF LoadOwn, Chained
<1>15. CASE whole = <<>> /\ fallback
  <2>1. chain = <<BuiltIn>>
    BY <1>14, <1>15
  <2>2. chain \in Seq(Key \cup {BuiltIn}) /\ Len(chain) = 1 /\ chain[1] = BuiltIn
    BY <2>1
  <2>3. Payer(BuiltIn) = None
    BY IdentifierAssumption DEF Payer, Stored
  <2>4. Distinct(chain)
    BY <2>2 DEF Distinct
  <2>5. \A i \in 1..1 : i = 1 /\ \A h \in 1..i : h = 1
    OBVIOUS
  <2>6. /\ \A i \in 1..Len(chain) : /\ chain[i] \in Members(made) \cup {BuiltIn}
                                    /\ Payer(chain[i]) \in {Org, x.actor, None}
        /\ \A i \in 1..Len(chain) : Payer(chain[i]) = Org =>
             \A h \in 1..i : Payer(chain[h]) \in {Org, None}
        /\ \A h, i \in 1..Len(chain) : ~(h < i)
    BY <2>2, <2>3, <2>5
  <2> QED BY <2>2, <2>4, <2>6, <1>2, <1>17, LoadedLaw
<1>16. CASE ~(whole = <<>> /\ fallback)
  <2>1. chain = whole
    BY <1>14, <1>16
  <2>2. \A i \in 1..Len(chain) : Payer(chain[i]) = Org =>
             \A h \in 1..i : Payer(chain[h]) \in {Org, None}
    BY <2>1, <1>12
  <2> QED BY <2>1, <2>2, <1>8, <1>11, <1>13, <1>19, <1>2, <1>17, LoadedLaw
<1> QED BY <1>15, <1>16

(* An attempt writes its outcome to the log of its call.                     *)
LEMMA AttemptStep ==
  ASSUME KeysInv, NEW w \in Walk, NEW reply \in DOMAIN KindOf, Attempt(w, reply)
  PROVE  KeysInv'
<1>1. PICK x \in WalkRecord : x = walk[w] /\ x.at = "trying" /\ WalkOK(x)
  BY DEF KeysInv, Typed, WalksOK, Attempt
<1>2. PICK kind \in Kind : kind = KindOf[reply]
  BY DEF Kind
<1>3. PICK y : y = Tried(x, kind)
  OBVIOUS
<1>4. y \in WalkRecord /\ WalkOK(y)
  BY <1>1, <1>3, TriedLaw
<1>5. walk' = [walk EXCEPT ![w] = y] /\ UNCHANGED <<fallback, key, made, job, asked, moved>>
  <2>1. UNCHANGED <<fallback, key, made, job, asked, moved>>
    BY DEF Attempt
  <2>2. walk' = [walk EXCEPT ![w] = Tried(x, kind)]
    <3>1. PICK l, t, m, a :
            /\ l = Append(x.log, [key |-> x.chain[x.next], kind |-> kind])
            /\ t = IF kind # "SUCCESS" /\ AfterFailure(kind, x.retry) = "retry" THEN x.retry + 1 ELSE 0
            /\ m = IF kind # "SUCCESS" /\ AfterFailure(kind, x.retry) = "advance" /\ ~(x.next = Len(x.chain))
                    THEN x.next + 1 ELSE x.next
            /\ a = IF kind = "SUCCESS" THEN "answered"
                    ELSE IF \/ AfterFailure(kind, x.retry) = "stop"
                            \/ AfterFailure(kind, x.retry) = "advance" /\ x.next = Len(x.chain)
                      THEN "failed" ELSE x.at
      OBVIOUS
    <3>2. walk' = [walk EXCEPT ![w].log = l, ![w].retry = t, ![w].next = m, ![w].at = a]
      BY <1>1, <1>2, <3>1, Zenon DEF Attempt
    <3>3. Tried(x, kind) = [x EXCEPT !.log = l, !.retry = t, !.next = m, !.at = a]
      BY <3>1, Zenon DEF Tried
    <3>4. walk \in [Walk -> WalkRecord] /\ x = walk[w]
      BY <1>1 DEF KeysInv, Typed
    <3>5. [walk EXCEPT ![w].log = l, ![w].retry = t, ![w].next = m, ![w].at = a]
            = [walk EXCEPT ![w] = [walk[w] EXCEPT !.log = l, !.retry = t, !.next = m, !.at = a]]
      <4>1. w \in Walk /\ walk \in [Walk -> WalkRecord]
        BY <3>4
      <4> QED BY <4>1, ZenonT(30)
    <3> QED BY <3>2, <3>3, <3>4, <3>5
  <2> QED BY <2>1, <2>2, <1>3
<1>6. y.chain = x.chain /\ y.actor = x.actor /\ y.at # "loading"
  <2>1. PICK l, t, m, a : y = [x EXCEPT !.log = l, !.retry = t, !.next = m, !.at = a]
    BY <1>3 DEF Tried
  <2>2. y.at \in {"answered", "failed", "trying"}
    BY <1>1, <1>3 DEF Tried, WalkRecord
  <2> QED BY <2>1, <2>2 DEF WalkRecord
<1> QED BY <1>1, <1>4, <1>5, <1>6, SameChain

(* A call ends with what it tried, or on a statement that failed.            *)
LEMMA EndWalkStep ==
  ASSUME KeysInv, NEW w \in Walk, EndWalk(w) \/ StatementFails(w)
  PROVE  KeysInv'
<1>1. PICK x \in WalkRecord :
        x = walk[w] /\ x.at \in {"loading", "answered", "failed"} /\ WalkOK(x)
  BY DEF KeysInv, Typed, WalksOK, EndWalk, StatementFails
<1>2. PICK y : y = [x EXCEPT !.at = "ended"]
  OBVIOUS
<1>3. /\ y \in WalkRecord /\ y.at = "ended" /\ y.chain = x.chain /\ y.actor = x.actor
      /\ y.log = x.log /\ y.next = x.next /\ y.recorded = x.recorded
  BY <1>2 DEF WalkRecord
<1>4. WalkOK(y)
  <2>1. \A k : TriesOf(y, k) = TriesOf(x, k) /\ (Spent(x, k) <=> Spent(y, k))
    BY <1>3 DEF Spent, TriesOf
  <2> QED BY <2>1, <1>1, <1>3 DEF WalkOK
<1>5. walk' = [walk EXCEPT ![w] = y] /\ UNCHANGED <<fallback, key, made, job, asked, moved>>
  BY <1>1, <1>2 DEF EndWalk, StatementFails
<1> QED BY <1>1, <1>3, <1>4, <1>5, SameChain

(* Recording an outcome changes the error of a key, and nothing of its       *)
(* place.                                                                    *)
LEMMA RecordAttemptStep ==
  ASSUME KeysInv, NEW w \in Walk, RecordAttempt(w)
  PROVE  KeysInv'
<1>1. PICK x \in WalkRecord :
        x = walk[w] /\ x.at \in {"answered", "failed"} /\ x.recorded < Len(x.log) /\ WalkOK(x)
  BY DEF KeysInv, Typed, WalksOK, RecordAttempt
<1>2. PICK y : y = [x EXCEPT !.recorded = @ + 1]
  OBVIOUS
<1>3. /\ y \in WalkRecord /\ y.at = x.at /\ y.chain = x.chain /\ y.actor = x.actor
      /\ y.log = x.log /\ y.next = x.next /\ y.recorded = x.recorded + 1
  <2>1. PICK m \in Nat : m = x.recorded + 1
    BY DEF WalkRecord
  <2>2. y = [x EXCEPT !.recorded = m]
    BY <1>2, <2>1
  <2> QED BY <2>1, <2>2 DEF WalkRecord
<1>4. x.log \in Seq(Entry) /\ Len(x.log) \in Nat /\ x.recorded \in Nat
  BY DEF WalkRecord
<1>5. WalkOK(y)
  <2>1. \A k : TriesOf(y, k) = TriesOf(x, k) /\ (Spent(x, k) <=> Spent(y, k))
    BY <1>3 DEF Spent, TriesOf
  <2>2. y.recorded <= Len(y.log)
    BY <1>1, <1>3, <1>4
  <2> QED BY <2>1, <2>2, <1>1, <1>3 DEF WalkOK
<1>6. PICK e \in Entry : e = x.log[x.recorded + 1]
  BY <1>1, <1>4
<1>7. PICK k : k = e.key
  OBVIOUS
<1>8. PICK error \in (Kind \ {"SUCCESS"}) \cup {"none"} : error = Result(e)
  BY DEF Result, Entry
<1>9. /\ key' = IF k \in Stored THEN [key EXCEPT ![k].error = error] ELSE key
      /\ walk' = [walk EXCEPT ![w] = y] /\ UNCHANGED <<fallback, made, job, asked, moved>>
  BY <1>1, <1>2, <1>6, <1>7, <1>8 DEF RecordAttempt
<1>10. key \in [Key -> Row \cup {None}] /\ walk \in [Walk -> WalkRecord]
  BY DEF KeysInv, Typed
<1>11. \A h \in Key : h # k => key'[h] = key[h]
  BY <1>9, <1>10
<1>12. k \in Stored => /\ k \in Key /\ key'[k] \in Row /\ key'[k].account = key[k].account
                       /\ key'[k].priority = key[k].priority
  <2> SUFFICES ASSUME k \in Stored
               PROVE  /\ k \in Key /\ key'[k] \in Row /\ key'[k].account = key[k].account
                      /\ key'[k].priority = key[k].priority
    OBVIOUS
  <2>1. PICK r \in Row : r = key[k]
    BY StoredLaw DEF KeysInv
  <2>2. k \in Key
    BY DEF Stored
  <2>3. key'[k] = [r EXCEPT !.error = error]
    BY <1>9, <1>10, <2>1, <2>2
  <2> QED BY <2>1, <2>2, <2>3, <1>8 DEF Row
<1>13. k \notin Stored => key' = key
  BY <1>9
<1>14. key' \in [Key -> Row \cup {None}]
  BY <1>9, <1>10, <1>11, <1>12, <1>13
<1>15. Stored' = Stored
  BY <1>11, <1>12, <1>13, RowAssumption DEF Stored
<1>16. \A h \in Stored : key'[h].account = key[h].account /\ key'[h].priority = key[h].priority
  BY <1>11, <1>12, <1>13 DEF Stored
<1>17. RowsKept
  BY <1>15, <1>16 DEF RowsKept
<1>18. Members(made)' = Members(made)
  BY <1>9 DEF Members
<1>19. Typed'
  <2>1. walk' \in [Walk -> WalkRecord]
    BY <1>3, <1>9, <1>10
  <2> QED BY <2>1, <1>9, <1>14, <1>15, <1>18 DEF KeysInv, Typed
<1>20. ASSUME NEW v \in Walk
       PROVE  WalkOK(walk[v])' /\ ChainOK(v)' /\ PayersOK(v)'
  <2>1. WalkOK(walk[v]) /\ ChainOK(v) /\ PayersOK(v) /\ Typed
    BY DEF KeysInv, WalksOK, PayersInOrder, PayersOK
  <2>2. \A h : Payer(h)' = Payer(h)
    BY <1>15, <1>16 DEF Payer
  <2>3. CASE v = w
    <3>1. walk'[v] = y /\ walk[v] = x
      BY <2>3, <1>1, <1>9, <1>10
    <3>2. ChainOK(v)'
      BY <2>1, <2>2, <3>1, <1>3, <1>18 DEF ChainOK
    <3>3. PayersOK(v)'
      BY <2>1, <2>2, <3>1, <1>3 DEF PayersOK
    <3> QED BY <3>1, <3>2, <3>3, <1>5
  <2>4. CASE v # w
    <3>1. walk'[v] = walk[v]
      BY <2>4, <1>9, <1>10
    <3> QED BY <3>1, <2>1, <1>17, <1>18, WalkKept
  <2> QED BY <2>3, <2>4
<1>21. ASSUME NEW j \in Job
       PROVE  UpdateOK(j)' /\ ReorderOK(j)'
  <2>1. PICK z \in JobRecord : z = job[j] /\ z = job'[j]
    BY <1>9 DEF KeysInv, Typed
  <2>2. UpdateOK(j)'
    <3> SUFFICES ASSUME job'[j].kind = "update", ~job'[j].gone
                 PROVE  job'[j].on \in Stored' /\ key'[job'[j].on].account = job'[j].account
      BY DEF UpdateOK
    <3>1. job'[j] = job[j]
      BY <2>1
    <3>2. job[j].on \in Stored /\ key[job[j].on].account = job[j].account
      BY <3>1 DEF KeysInv, JobsOK, UpdateOK
    <3> QED BY <3>1, <3>2, <1>15, <1>16
  <2>3. \A a : KeysOf(a)' = KeysOf(a)
    BY <1>15, <1>16 DEF KeysOf
  <2>4. ASSUME z.kind = "reorder", z.fresh, Cardinality(Members(z.list)) = Len(z.list)
        PROVE  /\ KeysOf(z.account)' = Members(z.list)
               /\ \A i \in 1..Len(z.list) : i \notin z.todo => key'[z.list[i]].priority = i
    <3>1. /\ KeysOf(z.account) = Members(z.list)
          /\ \A i \in 1..Len(z.list) : i \notin z.todo => key[z.list[i]].priority = i
      BY <2>1, <2>4 DEF KeysInv, JobsOK, ReorderOK
    <3>2. \A i \in 1..Len(z.list) : z.list[i] \in Stored
      BY <3>1 DEF KeysOf, Members
    <3> QED BY <3>1, <3>2, <2>3, <1>16
  <2>5. ReorderOK(j)'
    BY <2>1, <2>4 DEF ReorderOK
  <2> QED BY <2>2, <2>5
<1>22. ChainsInOrder' /\ AgesOK'
  <2>1. AgesOK'
    BY <1>9 DEF KeysInv, AgesOK, Distinct
  <2>2. \A h, i \in Stored : Before(h, i) => Before(h, i)'
    BY <1>9, <1>16 DEF Before, Age
  <2>3. \A h : Payer(h)' = Payer(h)
    BY <1>15, <1>16 DEF Payer
  <2> SUFFICES ASSUME NEW v \in Walk
               PROVE  OrderOK(v)'
    BY <2>1 DEF ChainsInOrder, OrderOK
  <2>4. walk'[v].chain = walk[v].chain /\ moved'[v] = moved[v]
    BY <1>1, <1>3, <1>9, <1>10
  <2>5. OrderOK(v)
    BY DEF KeysInv, ChainsInOrder, OrderOK
  <2>6. \A i \in 1..Len(walk[v].chain) : Payer(walk[v].chain[i]) # None => walk[v].chain[i] \in Stored
    BY DEF Payer
  <2> QED BY <2>2, <2>3, <2>4, <2>5, <2>6 DEF OrderOK
<1> QED BY <1>19, <1>20, <1>21, <1>22 DEF KeysInv, WalksOK, PayersInOrder, PayersOK, JobsOK

(***************************************************************************)
(* The invariant.                                                          *)
(***************************************************************************)

(* The invariant holds of every initial state.                               *)
LEMMA InitInv == Init => KeysInv
<1> SUFFICES ASSUME Init
             PROVE  KeysInv
  OBVIOUS
<1>1. fallback \in BOOLEAN /\ asked \in Nat /\ moved \in [Walk -> SUBSET Account]
  BY DEF Init
<1>2. /\ key \in [Key -> Row \cup {None}] /\ made \in Seq(Key) /\ Distinct(made)
      /\ \A k \in Stored : k \in Members(made)
  <2>1. Start \in SUBSET Key /\ IsFiniteSet(Start)
    BY IdentifierAssumption, FS_Subset
  <2>2. PICK n \in Nat : n = Cardinality(Start)
    BY <2>1, FS_CardinalityType
  <2>3. made \in [1..n -> Start] /\ Len(made) = n /\ Members(made) = Start
    <3>1. made = CHOOSE s \in Arrangements(Start) : Members(s) = Start
      BY DEF Init
    <3>2. PICK f \in Bijection(1..n, Start) : TRUE
      BY <2>1, <2>2, FS_CardinalityType DEF ExistsBijection
    <3>3. f \in [1..n -> Start] /\ \A k \in Start : \E i \in 1..n : f[i] = k
      BY <3>2 DEF Bijection, Injection, Surjection
    <3>4. f \in Arrangements(Start) /\ Len(f) = n
      BY <2>2, <3>3 DEF Arrangements
    <3>5. Members(f) = Start
      BY <3>3, <3>4 DEF Members
    <3>6. made \in Arrangements(Start) /\ Members(made) = Start
      BY <3>1, <3>4, <3>5
    <3> QED BY <2>2, <3>6 DEF Arrangements
  <2>4. made \in Seq(Key)
    BY <2>1, <2>3
  <2>5. Distinct(made)
    BY <2>2, <2>3, <2>4, DistinctLaw
  <2>6. PICK owner \in [Start -> Account], odd \in Start \cup {None}, v \in Odd[mix] :
          key = [k \in Key |->
            IF k \in Start
              THEN [account |-> owner[k], provider |-> IF k = odd THEN v ELSE Called, priority |-> 1,
                    active |-> k # odd \/ v # Called, secret |-> TRUE, error |-> "none"]
              ELSE None]
    BY DEF Init
  <2>7. Called \in Provider /\ v \in Provider
    BY IdentifierAssumption DEF Called, Init
  <2>8. ASSUME NEW k \in Start
        PROVE  key[k] \in Row
    <3>1. PICK b \in BOOLEAN : b = (k # odd \/ v # Called)
      OBVIOUS
    <3>2. PICK u \in Provider : u = IF k = odd THEN v ELSE Called
      BY <2>7
    <3>3. key[k] = [account |-> owner[k], provider |-> u, priority |-> 1, active |-> b,
                    secret |-> TRUE, error |-> "none"]
      BY <2>1, <2>6, <3>1, <3>2
    <3> QED BY <3>3 DEF Row
  <2>9. \A k \in Key : k \notin Start => key[k] = None
    BY <2>6
  <2>10. key \in [Key -> Row \cup {None}]
    BY <2>6, <2>8, <2>9
  <2>11. Stored \subseteq Start
    BY <2>9 DEF Stored
  <2> QED BY <2>3, <2>4, <2>5, <2>10, <2>11
<1>3. job = [j \in Job |-> NoJob] /\ walk = [w \in Walk |-> NoWalk]
  BY DEF Init
<1>4. NoWalk \in WalkRecord /\ WalkOK(NoWalk) /\ NoWalk.chain = <<>> /\ NoWalk.at = "idle"
  <2>1. 0 \in 0..(MaxAttempts - 1) /\ <<>> \in Seq(Entry) /\ <<>> \in Seq(Key \cup {BuiltIn})
    BY LimitAssumption
  <2>2. NoWalk \in WalkRecord
    BY <2>1 DEF NoWalk, WalkRecord
  <2>3. /\ NoWalk.chain = <<>> /\ NoWalk.at = "idle" /\ NoWalk.log = <<>> /\ NoWalk.next = 1
        /\ NoWalk.retry = 0 /\ NoWalk.recorded = 0
    BY DEF NoWalk
  <2>4. WalkOK(NoWalk)
    BY <2>3 DEF WalkOK, Distinct
  <2> QED BY <2>2, <2>3, <2>4
<1>5. Typed
  BY <1>1, <1>2, <1>3, <1>4, NoJobLaw DEF Typed
<1>6. WalksOK /\ PayersInOrder /\ ChainsInOrder /\ AgesOK
  BY <1>2, <1>3, <1>4 DEF WalksOK, ChainOK, PayersInOrder, ChainsInOrder, AgesOK
<1>7. JobsOK
  BY <1>3, NoJobLaw DEF JobsOK, UpdateOK, ReorderOK
<1> QED BY <1>5, <1>6, <1>7 DEF KeysInv

(* A step of nobody keeps the invariant.                                     *)
LEMMA StutterStep == KeysInv /\ UNCHANGED vars => KeysInv'
<1> SUFFICES ASSUME KeysInv, UNCHANGED vars
             PROVE  KeysInv'
  OBVIOUS
<1>1. UNCHANGED <<fallback, key, made, job, asked, walk, moved>>
  BY DEF vars
<1>2. Typed' /\ AgesOK'
  BY <1>1 DEF KeysInv, Typed, Stored, AgesOK
<1>3. WalksOK' /\ PayersInOrder'
  BY <1>1 DEF KeysInv, WalksOK, ChainOK, PayersInOrder, Payer, Stored
<1>4. ChainsInOrder'
  <2>1. \A j, k : Before(j, k)' <=> Before(j, k)
    BY <1>1 DEF Before, Age
  <2>2. \A k : Payer(k)' = Payer(k)
    BY <1>1 DEF Payer, Stored
  <2> QED BY <1>1, <2>1, <2>2 DEF KeysInv, ChainsInOrder
<1>5. JobsOK'
  BY <1>1 DEF KeysInv, JobsOK, UpdateOK, ReorderOK, KeysOf, Stored
<1> QED BY <1>2, <1>3, <1>4, <1>5 DEF KeysInv

(* The two accounts of the requests.                                         *)
LEMMA CallerOK == \A a \in {Org, Caller} : a \in Account
BY IdentifierAssumption DEF Caller, Account

(* Every step keeps the invariant.                                           *)
LEMMA NextInv == mix \in Mix /\ KeysInv /\ [Next]_vars => KeysInv'
<1> SUFFICES ASSUME mix \in Mix, KeysInv, [Next]_vars
             PROVE  KeysInv'
  OBVIOUS
<1>1. CASE UNCHANGED vars
  BY <1>1, StutterStep
<1>2. ASSUME NEW j \in Job, NEW a \in {Org, Caller}, NEW wanted \in {None, 1}, BeginAdd(j, a, wanted)
      PROVE  KeysInv'
  BY <1>2, BeginAddStep, CallerOK
<1>3. ASSUME NEW j \in Job, NEW a \in {Org, Caller}, BeginReorder(j, a)
      PROVE  KeysInv'
  BY <1>3, BeginReorderStep, CallerOK
<1>4. ASSUME NEW j \in Job, Key # Members(made),
             InsertKey(j, CHOOSE k \in Key \ Members(made) : TRUE, Called)
      PROVE  KeysInv'
  <2>1. Members(made) \subseteq Key
    BY DEF KeysInv, Typed, Members
  <2>2. PICK k \in Key : k = CHOOSE i \in Key \ Members(made) : TRUE
    BY <2>1, <1>4
  <2>3. PICK v \in Provider : v = Called
    BY IdentifierAssumption DEF Called
  <2> QED BY <1>4, <2>2, <2>3, InsertKeyStep
<1>5. ASSUME NEW j \in Job, NEW k \in Key, BeginUpdate(j, k)
      PROVE  KeysInv'
  BY <1>5, BeginUpdateStep
<1>6. ASSUME NEW j \in Job, SaveKey(j) \/ EndJob(j)
      PROVE  KeysInv'
  BY <1>6, SaveKeyStep, EndJobStep
<1>7. ASSUME NEW j \in Job, NEW i \in 1..Len(job[j].list), ReorderOne(j, i)
      PROVE  KeysInv'
  BY <1>7, ReorderOneStep
<1>8. ASSUME NEW k \in Key, RemoveKey(k)
      PROVE  KeysInv'
  BY <1>8, RemoveKeyStep
<1>9. ASSUME NEW w \in Walk, NEW p \in Person, NEW ns \in Account, NEW v \in Provider \cup {None},
             BeginWalk(w, p, ns, v)
      PROVE  KeysInv'
  BY <1>9, BeginWalkStep
<1>10. ASSUME NEW w \in Walk, WalkStep(w) \/ StatementFails(w)
       PROVE  KeysInv'
  <2>1. \A reply \in Reply[mix] : reply \in DOMAIN KindOf
    BY ReplyAssumption
  <2> QED BY <1>10, <2>1, LoadOwnStep, AttemptStep, RecordAttemptStep, EndWalkStep DEF WalkStep
<1> QED BY <1>1, <1>2, <1>3, <1>4, <1>5, <1>6, <1>7, <1>8, <1>9, <1>10 DEF Next

(* No step changes what the behaviour is about.                              *)
LEMMA MixStays == mix \in Mix /\ [Next]_vars => (mix \in Mix)'
<1> SUFFICES ASSUME mix \in Mix, [Next]_vars
             PROVE  UNCHANGED mix
  OBVIOUS
<1>1. ASSUME NEW j \in Job,
             \/ \E a \in {Org, Caller} : BeginReorder(j, a) \/ \E wanted \in {None, 1} : BeginAdd(j, a, wanted)
             \/ \E k \in Key : BeginUpdate(j, k)
             \/ SaveKey(j) \/ EndJob(j)
             \/ \E i \in 1..Len(job[j].list) : ReorderOne(j, i)
      PROVE  UNCHANGED mix
  BY <1>1 DEF BeginReorder, BeginAdd, InsertKey, BeginUpdate, SaveKey, EndJob, ReorderOne
<1>2. ASSUME NEW k \in Key, RemoveKey(k)
      PROVE  UNCHANGED mix
  BY <1>2 DEF RemoveKey
<1>3. ASSUME NEW w \in Walk, WalkStep(w) \/ StatementFails(w)
      PROVE  UNCHANGED mix
  BY <1>3 DEF WalkStep, LoadOwn, Attempt, RecordAttempt, EndWalk, StatementFails
<1>4. ASSUME NEW w \in Walk, NEW p \in Person, NEW ns \in Account, NEW v \in Provider \cup {None},
             BeginWalk(w, p, ns, v)
      PROVE  UNCHANGED mix
  BY <1>4 DEF BeginWalk
<1>5. CASE UNCHANGED vars
  BY <1>5 DEF vars
<1>6. ASSUME NEW j \in Job, NEW k, InsertKey(j, k, Called)
      PROVE  UNCHANGED mix
  BY <1>6 DEF InsertKey
<1> QED BY <1>1, <1>2, <1>3, <1>4, <1>5, <1>6 DEF Next

(* The inductive invariant of ProviderKeys holds in every state it reaches.  *)
THEOREM KeysInvariance == Spec => [](mix \in Mix /\ KeysInv)
<1>1. Init => mix \in Mix
  BY DEF Init
<1> QED BY <1>1, InitInv, NextInv, MixStays, PTL DEF Spec

(***************************************************************************)
(* What follows.                                                           *)
(***************************************************************************)

(* Whatever keys are added, changed, reordered and removed while a call      *)
(* runs (accountKey.service.js), its chain is paid for by the organisation   *)
(* first, then by the caller, and by nobody else (loadDecryptedKeys); and    *)
(* every row and record keeps its type.                                      *)
THEOREM KeysSoundTheorem == Spec => []KeysSound
<1>1. ASSUME KeysInv, mix \in Mix
      PROVE  KeysSound
  <2>1. ASSUME NEW j \in Job
        PROVE  /\ job[j].kind \in {"none", "add", "update", "reorder"}
               /\ job[j].count \in 0..MaxKeys
    BY <1>1 DEF KeysInv, Typed, JobRecord
  <2>2. ASSUME NEW w \in Walk
        PROVE  /\ walk[w].at \in {"idle", "loading", "trying", "answered", "failed", "ended"}
               /\ walk[w].chain \in Seq(Key \cup {BuiltIn})
               /\ walk[w].retry \in 0..(MaxAttempts - 1)
               /\ walk[w].recorded \in 0..Len(walk[w].log)
    <3>1. PICK x \in WalkRecord : x = walk[w] /\ WalkOK(x)
      BY <1>1 DEF KeysInv, Typed, WalksOK
    <3>2. x.log \in Seq(Entry) /\ x.recorded \in Nat /\ x.recorded <= Len(x.log)
      BY <3>1 DEF WalkRecord, WalkOK
    <3>3. x.recorded \in 0..Len(x.log)
      BY <3>2
    <3> QED BY <3>1, <3>3 DEF WalkRecord
  <2> QED BY <1>1, <2>1, <2>2 DEF KeysInv, Typed, KeysSound, TypeOK
<1> QED BY <1>1, KeysInvariance, PTL

(* A malformed request, or an answer, is the last thing a chain sees, and a  *)
(* key is given up on only after the attempts it is due                      *)
(* (runWithKeyFallback).                                                     *)
THEOREM WalkIsFairTheorem == Spec => []WalkIsFair
<1>1. ASSUME KeysInv
      PROVE  WalkIsFair
  <2> SUFFICES ASSUME NEW w \in Walk
               PROVE  /\ \A i \in 1..Len(walk[w].log) :
                           walk[w].log[i].kind \in FatalForChain \cup {"SUCCESS"} =>
                             i = Len(walk[w].log) /\ walk[w].at # "trying"
                      /\ \A k \in GivenUp(w) :
                           /\ Tries(w, k) # {} /\ Cardinality(Tries(w, k)) <= MaxAttempts
                           /\ \/ Cardinality(Tries(w, k)) = MaxAttempts
                              \/ \E i \in Tries(w, k) : walk[w].log[i].kind \notin RetrySameKey
    BY DEF WalkIsFair
  <2>1. PICK x \in WalkRecord : x = walk[w] /\ WalkOK(x)
    BY <1>1 DEF KeysInv, Typed, WalksOK
  <2>2. \A k : Spent(x, k) =>
          /\ Tries(w, k) # {} /\ Cardinality(Tries(w, k)) <= MaxAttempts
          /\ \/ Cardinality(Tries(w, k)) = MaxAttempts
             \/ \E i \in Tries(w, k) : walk[w].log[i].kind \notin RetrySameKey
    BY <2>1 DEF Spent, TriesOf, Tries
  <2>3. ASSUME NEW k \in GivenUp(w)
        PROVE  Spent(x, k)
    <3>1. CASE \E i \in 1..(x.next - 1) : k = x.chain[i]
      BY <2>1, <3>1 DEF WalkOK
    <3>2. CASE x.at = "failed" /\ Kinds(w) \cap FatalForChain = {} /\ k \in Members(x.chain)
      <4>1. \A i \in 1..Len(x.log) : x.log[i].kind \notin FatalForChain
        BY <2>1, <3>2 DEF Kinds
      <4> QED BY <4>1, <2>1, <3>2 DEF WalkOK, Members
    <3> QED BY <3>1, <3>2, <2>1, <2>3 DEF GivenUp
  <2> QED BY <2>1, <2>2, <2>3 DEF WalkOK
<1> QED BY <1>1, KeysInvariance, PTL

(* A reorder of every key that nothing overlapped leaves the chain in the    *)
(* order asked for, in whatever order its updates ran (reorderApiKeys).      *)
THEOREM ReorderedTheorem == Spec => []ReorderedAsAsked
<1>1. ASSUME KeysInv
      PROVE  ReorderedAsAsked
  <2> SUFFICES ASSUME NEW j \in Job, job[j].kind = "reorder", job[j].todo = {}, job[j].fresh,
                      Cardinality(Members(job[j].list)) = Len(job[j].list)
               PROVE  Listed(job[j].account) = job[j].list
    BY DEF ReorderedAsAsked
  <2>1. Typed
    BY <1>1 DEF KeysInv
  <2>2. PICK x \in JobRecord : x = job[j]
    BY <2>1 DEF Typed
  <2>3. /\ KeysOf(x.account) = Members(x.list)
        /\ \A i \in 1..Len(x.list) : key[x.list[i]].priority = i
    BY <1>1, <2>2 DEF KeysInv, JobsOK, ReorderOK
  <2>4. x.list \in Seq(Key) /\ Len(x.list) \in Nat
    BY DEF JobRecord
  <2>5. PICK S \in SUBSET Stored : S = KeysOf(x.account)
    BY DEF KeysOf
  <2>6. x.list \in Arrangements(S)
    <3>1. x.list \in [1..Len(x.list) -> S]
      BY <2>3, <2>4, <2>5, LenProperties DEF Members
    <3>2. Len(x.list) = Cardinality(S)
      BY <2>2, <2>3, <2>5
    <3> QED BY <3>1, <3>2 DEF Arrangements
  <2>7. InOrder(x.list)
    BY <2>3, <2>4 DEF InOrder, Before
  <2>8. Sorted(S) \in Arrangements(S) /\ InOrder(Sorted(S))
    BY <2>1, SortedLaw
  <2>9. PICK s : s = Sorted(S)
    OBVIOUS
  <2>10. s = x.list
    BY <2>1, <2>6, <2>7, <2>8, <2>9, OneOrder
  <2> QED BY <2>2, <2>5, <2>9, <2>10 DEF Listed
<1> QED BY <1>1, KeysInvariance, PTL

(***************************************************************************)
(* The inductive invariant of UsageLog.                                    *)
(***************************************************************************)
Inserting(w) == batch[w] # <<>>

(* The flag tells whether an insert is under way, and there is one at most.  *)
OneFlush ==
  /\ \A w \in Flusher : Inserting(w) => flushing
  /\ flushing => \E w \in Flusher : Inserting(w)
  /\ \A v, w \in Flusher : Inserting(v) /\ Inserting(w) => v = w

(* Every request that ended with an account was recorded, and every entry    *)
(* recorded is accounted for.                                                *)
Recorded == recorded = Cardinality(Ended)
Accounted ==
  /\ recorded = stats.written + stats.dropped + Len(buffer) + Cardinality(InFlight)
  /\ stats.written = Len(rows)

(* Entries are in the order they were recorded: those written first, then    *)
(* those of the insert under way, then those that wait.                      *)
Rising(s) == \A i, j \in 1 .. Len(s) : i < j => s[i] < s[j]
Below(s, t) == \A i \in 1 .. Len(s), j \in 1 .. Len(t) : s[i] < t[j]

Ordered ==
  /\ Rising(buffer) /\ Rising(rows)
  /\ Below(rows, buffer)
  /\ \A i \in 1 .. Len(buffer) : buffer[i] <= recorded
  /\ \A i \in 1 .. Len(rows) : rows[i] <= recorded
  /\ \A w \in Flusher : /\ Rising(batch[w]) /\ Below(rows, batch[w]) /\ Below(batch[w], buffer)
                        /\ \A i \in 1 .. Len(batch[w]) : batch[w][i] <= recorded

(* An insert for a shutdown is awaited by it.                                *)
AwaitedOK == \A s \in Signal : Inserting(s) => down[s] = "flushing"

(* From the moment a shutdown called stopFlushing, nothing is recorded and   *)
(* the interval is not set; unless one overlapped a flush, what was left is  *)
(* in the insert of that shutdown, and nothing is left once it was awaited.  *)
StopOK ==
  \A s \in Signal : down[s] \in {"flushing", "flushed", "closed"} =>
    /\ \A i \in Request : Closed(i)
    /\ ~timer
    /\ ~overlapped => \/ buffer = <<>> /\ \A w \in Flusher : ~Inserting(w)
                      \/ down[s] = "flushing" /\ Inserting(s)

ExitOK == process = "exited" /\ ~cut => \E s \in Signal : down[s] = "closed"

UsageInv ==
  /\ UsageTypeOK /\ OneFlush /\ Recorded /\ Accounted /\ Ordered /\ AwaitedOK /\ StopOK /\ ExitOK

(***************************************************************************)
(* Sequences.                                                              *)
(***************************************************************************)

(* What a batch takes off the buffer, and what it leaves.                    *)
LEMMA TakeLaw ==
  ASSUME NEW s \in Seq(Nat), NEW k \in Nat \ {0}, s # <<>>
  PROVE  \E n \in 1 .. k :
           /\ n <= Len(s)
           /\ Leading(k, s) \in Seq(Nat) /\ Len(Leading(k, s)) = n
           /\ \A i \in 1 .. n : Leading(k, s)[i] = s[i]
           /\ Following(k, s) \in Seq(Nat) /\ Len(Following(k, s)) = Len(s) - n
           /\ \A i \in 1 .. Len(s) - n : Following(k, s)[i] = s[n + i]
<1>1. Len(s) \in Nat \ {0}
  OBVIOUS
<1>2. CASE k < Len(s)
  <2>1. Leading(k, s) = SubSeq(s, 1, k) /\ Following(k, s) = SubSeq(s, k + 1, Len(s))
    BY <1>2 DEF Leading, Following
  <2>2. /\ SubSeq(s, 1, k) \in Seq(Nat) /\ Len(SubSeq(s, 1, k)) = k
        /\ \A i \in 1 .. k : SubSeq(s, 1, k)[i] = s[i]
    BY <1>1, <1>2, SubSeqProperties
  <2>3. /\ SubSeq(s, k + 1, Len(s)) \in Seq(Nat) /\ Len(SubSeq(s, k + 1, Len(s))) = Len(s) - k
        /\ \A i \in 1 .. Len(s) - k : SubSeq(s, k + 1, Len(s))[i] = s[k + i]
    <3>1. k + 1 \in Int /\ Len(s) \in Int /\ \A i \in k + 1 .. Len(s) : s[i] \in Nat
      BY <1>1, <1>2
    <3>2. \A i \in 1 .. Len(s) - (k + 1) + 1 : /\ i \in 1 .. Len(s) - k
                                             /\ (k + 1) + i - 1 = k + i
      BY <1>1, <1>2
    <3>3. Len(s) - (k + 1) + 1 = Len(s) - k
      BY <1>1
    <3>4. /\ SubSeq(s, k + 1, Len(s)) \in Seq(Nat)
          /\ Len(SubSeq(s, k + 1, Len(s))) = IF k + 1 <= Len(s) THEN Len(s) - (k + 1) + 1 ELSE 0
          /\ \A i \in 1 .. Len(s) - (k + 1) + 1 : SubSeq(s, k + 1, Len(s))[i] = s[(k + 1) + i - 1]
      BY <3>1, SubSeqProperties
    <3>5. k + 1 <= Len(s)
      BY <1>1, <1>2
    <3>6. Len(SubSeq(s, k + 1, Len(s))) = Len(s) - k
      BY <3>3, <3>4, <3>5, Zenon
    <3>7. ASSUME NEW i \in 1 .. Len(s) - k
          PROVE  SubSeq(s, k + 1, Len(s))[i] = s[k + i]
      <4>1. i \in 1 .. Len(s) - (k + 1) + 1
        BY <3>3, Zenon
      <4>2. (k + 1) + i - 1 = k + i
        BY <3>2, <4>1, Zenon
      <4> QED BY <3>4, <4>1, <4>2, Zenon
    <3> QED BY <3>4, <3>6, <3>7, Zenon
  <2>4. k \in 1 .. k /\ k <= Len(s)
    BY <1>2, <1>1
  <2> QED BY <2>1, <2>2, <2>3, <2>4
<1>3. CASE ~(k < Len(s))
  <2>1. Leading(k, s) = SubSeq(s, 1, Len(s)) /\ Following(k, s) = SubSeq(s, k + 1, Len(s))
    BY <1>3 DEF Leading, Following
  <2>2. /\ SubSeq(s, 1, Len(s)) \in Seq(Nat) /\ Len(SubSeq(s, 1, Len(s))) = Len(s)
        /\ \A i \in 1 .. Len(s) : SubSeq(s, 1, Len(s))[i] = s[i]
    BY <1>1, SubSeqProperties
  <2>3. SubSeq(s, k + 1, Len(s)) = <<>>
    BY <1>1, <1>3, SubSeqProperties
  <2>4. Len(s) \in 1 .. k /\ Len(s) <= Len(s) /\ Len(s) - Len(s) = 0
    BY <1>1, <1>3
  <2>5. <<>> \in Seq(Nat) /\ Len(<<>>) = 0 /\ \A i \in 1 .. 0 : FALSE
    OBVIOUS
  <2>6. /\ Following(k, s) \in Seq(Nat) /\ Len(Following(k, s)) = Len(s) - Len(s)
        /\ \A i \in 1 .. Len(s) - Len(s) : Following(k, s)[i] = s[Len(s) + i]
    BY <2>1, <2>3, <2>4, <2>5
  <2>7. /\ Leading(k, s) \in Seq(Nat) /\ Len(Leading(k, s)) = Len(s)
        /\ \A i \in 1 .. Len(s) : Leading(k, s)[i] = s[i]
    BY <2>1, <2>2
  <2> QED BY <2>4, <2>6, <2>7
<1> QED BY <1>2, <1>3

(***************************************************************************)
(* How much is under way, and what a step does with it.                    *)
(***************************************************************************)

(* With one insert under way at most, its batch is all that is in flight.    *)
LEMMA SizeLaw ==
  ASSUME NEW b \in [Flusher -> Seq(Nat)], NEW w \in Flusher, Len(b[w]) <= BatchSize,
         \A v \in Flusher : b[v] # <<>> => v = w
  PROVE  Cardinality({x \in Flusher \X (1 .. BatchSize) : x[2] \in DOMAIN b[x[1]]}) = Len(b[w])
<1> DEFINE flight == {x \in Flusher \X (1 .. BatchSize) : x[2] \in DOMAIN b[x[1]]}
           n == Len(b[w])
<1>1. n \in Nat /\ DOMAIN b[w] = 1 .. n /\ n <= BatchSize /\ BatchSize \in Nat
  BY UsageAssumption
<1>2. \A v \in Flusher : v # w => DOMAIN b[v] = {}
  OBVIOUS
<1>3. flight = {w} \X (1 .. n)
  BY <1>1, <1>2
<1>4. IsFiniteSet({w}) /\ Cardinality({w}) = 1
  BY FS_Singleton
<1> HIDE DEF n
<1>5. IsFiniteSet(1 .. n) /\ Cardinality(1 .. n) = n
  <2>1. 1 \in Int /\ n \in Int /\ (1 > n => n = 0)
    BY <1>1
  <2>2. IsFiniteSet(1 .. n) /\ Cardinality(1 .. n) = IF 1 > n THEN 0 ELSE n - 1 + 1
    BY <2>1, FS_Interval
  <2> QED BY <2>1, <2>2
<1>6. Cardinality({w} \X (1 .. n)) = Cardinality({w}) * Cardinality(1 .. n)
  BY <1>4, <1>5, FS_Product
<1>7. Cardinality({w} \X (1 .. n)) = n
  BY <1>1, <1>4, <1>5, <1>6
<1> QED BY <1>3, <1>7 DEF n

(* With none under way, nothing is in flight.                                *)
LEMMA NoneLaw ==
  ASSUME NEW b \in [Flusher -> Seq(Nat)], \A v \in Flusher : b[v] = <<>>
  PROVE  /\ {x \in Flusher \X (1 .. BatchSize) : x[2] \in DOMAIN b[x[1]]} = {}
         /\ Cardinality({x \in Flusher \X (1 .. BatchSize) : x[2] \in DOMAIN b[x[1]]}) = 0
<1>1. \A v \in Flusher : DOMAIN b[v] = {}
  OBVIOUS
<1>2. {x \in Flusher \X (1 .. BatchSize) : x[2] \in DOMAIN b[x[1]]} = {}
  BY <1>1
<1> QED BY <1>2, FS_EmptySet

(* The numbers of a state that satisfies the invariant's first parts.        *)
LEMMA NumbersOK ==
  ASSUME UsageTypeOK
  PROVE  /\ Len(buffer) \in Nat /\ Len(rows) \in Nat /\ recorded \in Nat
         /\ MaxBuffered \in Nat \ {0} /\ BatchSize \in Nat \ {0} /\ Len(buffer) <= MaxBuffered
         /\ stats.written \in Nat /\ stats.dropped \in Nat /\ stats.failures \in Nat
         /\ \A w \in Flusher : batch[w] \in Seq(Nat) /\ Len(batch[w]) \in 0 .. BatchSize
<1>1. buffer \in Seq(Nat) /\ rows \in Seq(Nat) /\ recorded \in 0 .. Requests
  BY DEF UsageTypeOK
<1>2. \A w \in Flusher : batch[w] \in Seq(Nat) /\ Len(batch[w]) <= BatchSize
  BY DEF UsageTypeOK
<1>3. stats.written \in Nat /\ stats.dropped \in Nat /\ stats.failures \in Nat
  BY DEF UsageTypeOK
<1> QED BY <1>1, <1>2, <1>3, UsageAssumption DEF UsageTypeOK

(* A batch is the beginning of the buffer.                                   *)
LEMMA StartLaw ==
  ASSUME UsageTypeOK, NEW w \in Flusher, StartFlush(w), buffer # <<>>
  PROVE  \E n \in 1 .. BatchSize :
           /\ n <= Len(buffer)
           /\ batch' \in [Flusher -> Seq(Nat)] /\ Len(batch'[w]) = n /\ batch'[w] # <<>>
           /\ \A i \in 1 .. n : batch'[w][i] = buffer[i]
           /\ \A v \in Flusher : v # w => batch'[v] = batch[v]
           /\ buffer' \in Seq(Nat) /\ Len(buffer') = Len(buffer) - n
           /\ \A i \in 1 .. Len(buffer) - n : buffer'[i] = buffer[n + i]
<1>1. buffer \in Seq(Nat) /\ batch \in [Flusher -> Seq(Nat)] /\ BatchSize \in Nat \ {0}
  BY UsageAssumption DEF UsageTypeOK
<1>2. batch' = [batch EXCEPT ![w] = Leading(BatchSize, buffer)] /\ buffer' = Following(BatchSize, buffer)
  BY DEF StartFlush
<1>3. PICK n \in 1 .. BatchSize :
        /\ n <= Len(buffer)
        /\ Leading(BatchSize, buffer) \in Seq(Nat) /\ Len(Leading(BatchSize, buffer)) = n
        /\ \A i \in 1 .. n : Leading(BatchSize, buffer)[i] = buffer[i]
        /\ Following(BatchSize, buffer) \in Seq(Nat) /\ Len(Following(BatchSize, buffer)) = Len(buffer) - n
        /\ \A i \in 1 .. Len(buffer) - n : Following(BatchSize, buffer)[i] = buffer[n + i]
  BY <1>1, TakeLaw
<1>4. batch' \in [Flusher -> Seq(Nat)] /\ batch'[w] = Leading(BatchSize, buffer)
  BY <1>1, <1>2, <1>3
<1>5. batch'[w] # <<>>
  BY <1>3, <1>4
<1>6. \A v \in Flusher : v # w => batch'[v] = batch[v]
  BY <1>1, <1>2
<1> QED BY <1>2, <1>3, <1>4, <1>5, <1>6

(* An entry is added at the end, and at the ceiling the first one is gone.   *)
LEMMA RecordLaw ==
  ASSUME UsageTypeOK, Record
  PROVE  \E d \in {0, 1} :
           /\ d <= Len(buffer) /\ recorded' = recorded + 1
           /\ buffer' \in Seq(Nat) /\ Len(buffer') = Len(buffer) - d + 1 /\ Len(buffer') <= MaxBuffered
           /\ buffer'[Len(buffer) - d + 1] = recorded + 1
           /\ \A i \in 1 .. Len(buffer) - d : buffer'[i] = buffer[d + i]
           /\ stats' = [stats EXCEPT !.dropped = stats.dropped + d]
<1> DEFINE full == Len(buffer) >= MaxBuffered
           kept == IF full THEN Tail(buffer) ELSE buffer
<1>1. /\ buffer \in Seq(Nat) /\ Len(buffer) \in Nat /\ Len(buffer) <= MaxBuffered
      /\ MaxBuffered \in Nat \ {0} /\ recorded \in Nat
  BY NumbersOK DEF UsageTypeOK
<1>2. /\ buffer' = Append(kept, recorded + 1) /\ recorded' = recorded + 1
      /\ stats' = [stats EXCEPT !.dropped = IF full THEN stats.dropped + 1 ELSE stats.dropped]
  BY DEF Record
<1>3. ASSUME NEW d \in {0, 1}, kept \in Seq(Nat), d <= Len(buffer), Len(kept) = Len(buffer) - d,
             Len(kept) < MaxBuffered, \A i \in 1 .. Len(buffer) - d : kept[i] = buffer[d + i]
      PROVE  /\ buffer' \in Seq(Nat) /\ Len(buffer') = Len(buffer) - d + 1 /\ Len(buffer') <= MaxBuffered
             /\ buffer'[Len(buffer) - d + 1] = recorded + 1
             /\ \A i \in 1 .. Len(buffer) - d : buffer'[i] = buffer[d + i]
  <2> HIDE DEF kept
  <2>1. /\ buffer' \in Seq(Nat) /\ Len(buffer') = Len(kept) + 1
        /\ buffer'[Len(kept) + 1] = recorded + 1 /\ \A i \in 1 .. Len(kept) : buffer'[i] = kept[i]
    BY <1>1, <1>2, <1>3, AppendProperties
  <2>2. Len(kept) \in Nat /\ Len(kept) + 1 <= MaxBuffered
    BY <1>1, <1>3
  <2> QED BY <1>3, <2>1, <2>2
<1>4. CASE full
  <2>1. /\ kept \in Seq(Nat) /\ 1 <= Len(buffer) /\ Len(kept) = Len(buffer) - 1
        /\ Len(kept) < MaxBuffered /\ \A i \in 1 .. Len(buffer) - 1 : kept[i] = buffer[1 + i]
    BY <1>1, <1>4
  <2>2. stats' = [stats EXCEPT !.dropped = stats.dropped + 1]
    BY <1>2, <1>4
  <2> QED BY <1>2, <1>3, <2>1, <2>2
<1>5. CASE ~full
  <2>1. /\ kept \in Seq(Nat) /\ 0 <= Len(buffer) /\ Len(kept) = Len(buffer) - 0
        /\ Len(kept) < MaxBuffered /\ \A i \in 1 .. Len(buffer) - 0 : kept[i] = buffer[0 + i]
    BY <1>1, <1>5
  <2>2. stats' = [stats EXCEPT !.dropped = stats.dropped + 0]
    BY <1>2, <1>5, NumbersOK
  <2> QED BY <1>2, <1>3, <2>1, <2>2
<1> QED BY <1>4, <1>5

(***************************************************************************)
(* What a step does to the entries: nothing, or it records one, or starts a  *)
(* flush, or ends an insert.                                               *)
(***************************************************************************)
Quiet == UNCHANGED <<recorded, buffer, batch, flushing, stats, rows>>
Records == Record /\ UNCHANGED <<batch, flushing, rows>>
Takes(w) == StartFlush(w) /\ ~Busy /\ UNCHANGED <<recorded, stats, rows>>

(* Every step is one of these.                                              *)
LEMMA StepCases ==
  ASSUME [UsageNext]_usageVars
  PROVE  \/ Quiet \/ Records \/ \E w \in Flusher : Takes(w)
         \/ \E w \in Flusher, wrote \in BOOLEAN : InsertEnds(w, wrote)
<1>1. CASE Tick
  BY <1>1 DEF Tick, Takes, Flusher
<1>2. ASSUME NEW s \in Signal, StopFlushing(s) PROVE Quiet \/ Takes(s)
  BY <1>2 DEF StopFlushing, Quiet, Takes
<1>3. ASSUME NEW i \in Request, NEW event \in {"finish", "close"}, Responds(i, event)
      PROVE  Quiet \/ Records
  BY <1>3 DEF Responds, Quiet, Records
<1>4. CASE \/ TimeOut \/ UNCHANGED usageVars \/ (\E i \in Request : Arrive(i))
           \/ \E s \in Signal : Signalled(s) \/ Flushed(s) \/ CloseDatabase(s) \/ Exit(s)
  BY <1>4 DEF TimeOut, usageVars, Arrive, Signalled, Flushed, CloseDatabase, Exit, Quiet
<1> QED BY <1>1, <1>2, <1>3, <1>4 DEF UsageNext, Flusher

(* The types of the variables a flush changes.                               *)
EntryTypes ==
  /\ buffer \in Seq(Nat) /\ Len(buffer) <= MaxBuffered
  /\ batch \in [Flusher -> Seq(Nat)] /\ \A w \in Flusher : Len(batch[w]) <= BatchSize
  /\ flushing \in BOOLEAN /\ rows \in Seq(Nat)
  /\ stats \in [written : Nat, dropped : Nat, failures : Nat]

(* The batches and the buffer keep their types and their limits.             *)
LEMMA EntryTypesKept ==
  ASSUME UsageTypeOK, [UsageNext]_usageVars
  PROVE  EntryTypes'
<1>0. /\ buffer \in Seq(Nat) /\ Len(buffer) <= MaxBuffered /\ Len(buffer) \in Nat
      /\ MaxBuffered \in Nat /\ BatchSize \in Nat \ {0}
      /\ batch \in [Flusher -> Seq(Nat)] /\ (\A w \in Flusher : Len(batch[w]) \in 0 .. BatchSize)
      /\ flushing \in BOOLEAN /\ rows \in Seq(Nat)
      /\ stats \in [written : Nat, dropped : Nat, failures : Nat]
  BY NumbersOK DEF UsageTypeOK
<1>1. CASE Quiet
  BY <1>0, <1>1 DEF Quiet, EntryTypes
<1>2. CASE Records
  <2>1. PICK d \in {0, 1} :
           /\ buffer' \in Seq(Nat) /\ Len(buffer') <= MaxBuffered
           /\ stats' = [stats EXCEPT !.dropped = stats.dropped + d]
    BY <1>2, RecordLaw DEF Records
  <2>2. stats' \in [written : Nat, dropped : Nat, failures : Nat]
    <3>1. stats.dropped \in Nat /\ d \in Nat
      BY <1>0
    <3>2. stats.dropped + d \in Nat
      BY <3>1
    <3> QED BY <1>0, <2>1, <3>2
  <2> QED BY <1>0, <1>2, <2>1, <2>2 DEF Records, EntryTypes
<1>3. ASSUME NEW w \in Flusher, StartFlush(w), buffer # <<>>
      PROVE  /\ buffer' \in Seq(Nat) /\ Len(buffer') <= MaxBuffered /\ flushing' \in BOOLEAN
             /\ batch' \in [Flusher -> Seq(Nat)] /\ \A v \in Flusher : Len(batch'[v]) <= BatchSize
  <2>1. PICK n \in 1 .. BatchSize :
           /\ n <= Len(buffer)
           /\ batch' \in [Flusher -> Seq(Nat)] /\ Len(batch'[w]) = n
           /\ \A v \in Flusher : v # w => batch'[v] = batch[v]
           /\ buffer' \in Seq(Nat) /\ Len(buffer') = Len(buffer) - n
    BY <1>3, StartLaw
  <2>2. ASSUME NEW v \in Flusher PROVE Len(batch'[v]) <= BatchSize
    <3>1. CASE v = w
      BY <1>0, <2>1, <3>1
    <3>2. CASE v # w
      BY <1>0, <2>1, <3>2
    <3> QED BY <3>1, <3>2
  <2>3. Len(buffer') <= MaxBuffered /\ flushing' = TRUE
    BY <1>0, <1>3, <2>1 DEF StartFlush
  <2> QED BY <2>1, <2>2, <2>3
<1>4. ASSUME NEW w \in Flusher, Takes(w) PROVE EntryTypes'
  BY <1>0, <1>3, <1>4 DEF Takes, Busy, EntryTypes
<1>5. ASSUME NEW w \in Flusher, NEW wrote \in BOOLEAN, InsertEnds(w, wrote) PROVE EntryTypes'
  <2>1. batch[w] \in Seq(Nat) /\ Len(batch[w]) \in Nat
    BY <1>0
  <2>2. rows' \in Seq(Nat)
    BY <1>0, <1>5, <2>1 DEF InsertEnds
  <2>3. stats' \in [written : Nat, dropped : Nat, failures : Nat]
    <3>1. Counted(w, wrote)
      BY <1>5 DEF InsertEnds
    <3>2. PICK n \in Nat : n = Len(batch[w])
      BY <2>1
    <3>3. /\ stats.written \in Nat /\ stats.dropped \in Nat /\ stats.failures \in Nat
          /\ stats.written + n \in Nat /\ stats.dropped + n \in Nat /\ stats.failures + 1 \in Nat
      BY <1>0
    <3>4. CASE wrote
      <4>1. stats' = [stats EXCEPT !.written = stats.written + n, !.dropped = stats.dropped,
                                   !.failures = stats.failures]
        BY <3>1, <3>2, <3>4 DEF Counted
      <4> QED BY <1>0, <3>3, <4>1
    <3>5. CASE ~wrote
      <4>1. stats' = [stats EXCEPT !.written = stats.written, !.dropped = stats.dropped + n,
                                   !.failures = stats.failures + 1]
        BY <3>1, <3>2, <3>5 DEF Counted
      <4> QED BY <1>0, <3>3, <4>1
    <3> QED BY <3>4, <3>5
  <2>4. CASE buffer = <<>>
    <3>1. batch' = [batch EXCEPT ![w] = <<>>] /\ flushing' = FALSE /\ buffer' = buffer
      BY <1>5, <2>4 DEF InsertEnds, AfterFlush
    <3>2. batch' \in [Flusher -> Seq(Nat)] /\ \A v \in Flusher : Len(batch'[v]) <= BatchSize
      <4>1. <<>> \in Seq(Nat) /\ Len(<<>>) = 0
        BY EmptySeq
      <4>2. batch' \in [Flusher -> Seq(Nat)]
        BY <1>0, <3>1, <4>1
      <4>3. \A v \in Flusher : batch'[v] = batch[v] \/ batch'[v] = <<>>
        BY <1>0, <3>1
      <4> QED BY <1>0, <4>1, <4>2, <4>3
    <3> QED BY <1>0, <2>2, <2>3, <3>1, <3>2 DEF EntryTypes
  <2>5. CASE buffer # <<>>
    BY <1>3, <1>5, <2>2, <2>3, <2>5 DEF InsertEnds, EntryTypes
  <2> QED BY <2>4, <2>5
<1> QED BY <1>1, <1>2, <1>4, <1>5, StepCases

(* One flush at a time.                                                      *)
LEMMA OneFlushKept ==
  ASSUME UsageTypeOK, OneFlush, [UsageNext]_usageVars
  PROVE  OneFlush'
<1>0. batch \in [Flusher -> Seq(Nat)] /\ flushing \in BOOLEAN
  BY DEF UsageTypeOK
<1>1. CASE Quiet \/ Records
  BY <1>1 DEF Quiet, Records, OneFlush, Inserting
<1>2. ASSUME NEW w \in Flusher, StartFlush(w), buffer # <<>>, \A v \in Flusher : Inserting(v) => v = w
      PROVE  OneFlush'
  <2>1. batch'[w] # <<>> /\ \A v \in Flusher : v # w => batch'[v] = batch[v]
    BY <1>2, StartLaw
  <2>2. flushing' = TRUE
    BY <1>2 DEF StartFlush
  <2> QED BY <1>2, <2>1, <2>2 DEF OneFlush, Inserting
<1>3. ASSUME NEW w \in Flusher, Takes(w) PROVE OneFlush'
  BY <1>2, <1>3 DEF Takes, Busy, OneFlush
<1>4. ASSUME NEW w \in Flusher, NEW wrote \in BOOLEAN, InsertEnds(w, wrote) PROVE OneFlush'
  <2>1. Inserting(w) /\ \A v \in Flusher : Inserting(v) => v = w
    BY <1>4 DEF InsertEnds, OneFlush, Inserting
  <2>2. CASE buffer = <<>>
    <3>1. batch' = [batch EXCEPT ![w] = <<>>] /\ flushing' = FALSE
      BY <1>4, <2>2 DEF InsertEnds, AfterFlush
    <3>2. \A v \in Flusher : batch'[v] = <<>>
      BY <1>0, <2>1, <3>1 DEF Inserting
    <3> QED BY <3>1, <3>2 DEF OneFlush, Inserting
  <2>3. CASE buffer # <<>>
    BY <1>2, <1>4, <2>1, <2>3 DEF InsertEnds
  <2> QED BY <2>2, <2>3
<1> QED BY <1>1, <1>3, <1>4, StepCases

(* What is known of a request.                                               *)
RequestRow == [at : {"due", "open", "finish", "close"}, account : BOOLEAN]

(* The requests that ended are counted once each.                            *)
LEMMA RecordedKept ==
  ASSUME UsageTypeOK, Recorded, [UsageNext]_usageVars
  PROVE  Recorded' /\ recorded' \in 0 .. Requests
         /\ request' \in [Request -> RequestRow]
<1>0. request \in [Request -> RequestRow]
  BY DEF UsageTypeOK, RequestRow
<1>a. /\ IsFiniteSet(Request) /\ Cardinality(Request) = Requests
      /\ Ended \subseteq Request /\ IsFiniteSet(Ended) /\ Requests \in Nat /\ recorded \in Nat
  <2>1. Requests \in Nat /\ 1 \in Int /\ Requests \in Int /\ (1 > Requests => Requests = 0)
    BY UsageAssumption
  <2>2. IsFiniteSet(Request) /\ Cardinality(Request) = Requests
    BY <2>1, FS_Interval DEF Request
  <2>3. Ended \subseteq Request
    BY DEF Ended
  <2> QED BY <2>1, <2>2, <2>3, FS_Subset, NumbersOK
<1>1. ASSUME recorded' = recorded, request' \in [Request -> RequestRow],
             Ended' = Ended
      PROVE  Recorded'
  BY <1>1 DEF Recorded
<1>2. ASSUME NEW i \in Request, Arrive(i)
      PROVE  /\ request' \in [Request -> RequestRow]
             /\ Recorded'
  <2>1. /\ request' = [request EXCEPT ![i].at = "open"] /\ request[i].at = "due" /\ recorded' = recorded
    BY <1>2 DEF Arrive
  <2>2. request' \in [Request -> RequestRow]
    BY <1>0, <2>1 DEF RequestRow
  <2>3. \A j \in Request : j # i => request'[j] = request[j]
    BY <1>0, <2>1
  <2>4. request'[i].at = "open"
    BY <1>0, <2>1
  <2>5. Ended' = Ended
    BY <2>1, <2>3, <2>4 DEF Ended
  <2> QED BY <1>1, <2>1, <2>2, <2>5
<1>3. ASSUME NEW i \in Request, NEW event \in {"finish", "close"}, Responds(i, event)
      PROVE  /\ request' \in [Request -> RequestRow]
             /\ Recorded'
  <2>1. request' = [request EXCEPT ![i].at = event] /\ request[i].at \in {"open", "finish"}
    BY <1>3 DEF Responds
  <2>2. request' \in [Request -> RequestRow]
    BY <1>0, <2>1 DEF RequestRow
  <2>3. /\ \A j \in Request : j # i => request'[j] = request[j]
        /\ request'[i].at = event /\ request'[i].account = request[i].account
    BY <1>0, <2>1
  <2>4. CASE FirstEvent(i)
    <3>1. recorded' = recorded + 1
      BY <1>3, <2>4 DEF Responds, Record
    <3>2. i \notin Ended /\ Ended' = Ended \cup {i}
      BY <2>3, <2>4 DEF Ended, FirstEvent
    <3>3. Cardinality(Ended') = Cardinality(Ended) + 1
      BY <1>a, <3>2, FS_AddElement
    <3> QED BY <2>2, <3>1, <3>3 DEF Recorded
  <2>5. CASE ~FirstEvent(i)
    <3>1. recorded' = recorded
      BY <1>3, <2>5 DEF Responds
    <3>2. Ended' = Ended
      BY <2>1, <2>3, <2>5 DEF Ended, FirstEvent
    <3> QED BY <1>1, <2>2, <3>1, <3>2
  <2> QED BY <2>4, <2>5
<1>4. ASSUME request' = request, recorded' = recorded
      PROVE  /\ request' \in [Request -> RequestRow]
             /\ Recorded'
  BY <1>0, <1>4 DEF Recorded, Ended
<1>5. \/ (\E i \in Request : Arrive(i) \/ \E event \in {"finish", "close"} : Responds(i, event))
      \/ request' = request /\ recorded' = recorded
  BY DEF UsageNext, Tick, TimeOut, InsertEnds, Signalled, StopFlushing, Flushed, CloseDatabase, Exit, usageVars
<1>6. /\ request' \in [Request -> RequestRow]
      /\ Recorded'
  BY <1>2, <1>3, <1>4, <1>5
<1>7. recorded' \in 0 .. Requests
  <2>1. Ended' \subseteq Request
    BY DEF Ended
  <2>2. Cardinality(Ended') \in Nat /\ Cardinality(Ended') <= Requests
    BY <1>a, <2>1, FS_Subset, FS_CardinalityType
  <2> QED BY <1>6, <2>2 DEF Recorded
<1> QED BY <1>6, <1>7

(* No entry is lost without being counted.                                   *)
LEMMA AccountedKept ==
  ASSUME UsageTypeOK, OneFlush, Accounted, [UsageNext]_usageVars
  PROVE  Accounted'
<1>0. /\ Len(buffer) \in Nat /\ Len(rows) \in Nat /\ recorded \in Nat /\ rows \in Seq(Nat)
      /\ stats.written \in Nat /\ stats.dropped \in Nat
      /\ batch \in [Flusher -> Seq(Nat)] /\ (\A w \in Flusher : Len(batch[w]) \in 0 .. BatchSize)
      /\ stats \in [written : Nat, dropped : Nat, failures : Nat]
  BY NumbersOK DEF UsageTypeOK
<1>a. EntryTypes' /\ OneFlush'
  BY EntryTypesKept, OneFlushKept
<1>b. \A w \in Flusher : batch'[w] \in Seq(Nat) /\ Len(batch'[w]) \in Nat
  BY <1>a DEF EntryTypes
<1>1. CASE Quiet
  <2>1. InFlight' = InFlight
    BY <1>1 DEF Quiet, InFlight
  <2> QED BY <1>1, <2>1 DEF Quiet, Accounted
<1>2. CASE Records
  <2>1. PICK d \in {0, 1} :
           /\ recorded' = recorded + 1 /\ d <= Len(buffer) /\ Len(buffer') = Len(buffer) - d + 1
           /\ stats' = [stats EXCEPT !.dropped = stats.dropped + d]
    BY <1>2, RecordLaw DEF Records
  <2>2. stats'.dropped = stats.dropped + d /\ stats'.written = stats.written /\ d \in Nat
    BY <1>0, <2>1
  <2>3. InFlight' = InFlight /\ rows' = rows
    BY <1>2 DEF Records, InFlight
  <2>4. PICK c : c = Cardinality(InFlight)
    OBVIOUS
  <2>5. Cardinality(InFlight') = c
    BY <2>3, <2>4
  <2>6. c \in Nat
    <3>1. CASE \E w \in Flusher : Inserting(w)
      <4>1. PICK w \in Flusher : Inserting(w)
        BY <3>1
      <4>2. \A v \in Flusher : batch[v] # <<>> => v = w
        BY <4>1 DEF OneFlush, Inserting
      <4>3. Cardinality(InFlight) = Len(batch[w])
        <5>1. Len(batch[w]) <= BatchSize
          BY NumbersOK
        <5> QED BY <1>0, <4>2, <5>1, SizeLaw DEF InFlight
      <4> QED BY <1>0, <2>4, <4>3
    <3>2. CASE ~ \E w \in Flusher : Inserting(w)
      BY <1>0, <2>4, <3>2, NoneLaw DEF InFlight, Inserting
    <3> QED BY <3>1, <3>2
  <2>7. recorded = stats.written + stats.dropped + Len(buffer) + c /\ stats.written = Len(rows)
    BY <2>4 DEF Accounted
  <2>8. recorded' = stats'.written + stats'.dropped + Len(buffer') + c
    <3>1. PICK m \in Nat, q \in Nat, b \in Nat : m = stats.written /\ q = stats.dropped /\ b = Len(buffer)
      BY <1>0
    <3>2. /\ recorded' = (m + q + b + c) + 1 /\ stats'.written = m /\ stats'.dropped = q + d
          /\ Len(buffer') = b - d + 1
      BY <2>1, <2>2, <2>7, <3>1
    <3>3. (m + q + b + c) + 1 = m + (q + d) + (b - d + 1) + c
      BY <2>2, <2>6
    <3> QED BY <3>2, <3>3
  <2> QED BY <2>2, <2>3, <2>5, <2>7, <2>8 DEF Accounted
<1>3. ASSUME NEW w \in Flusher, StartFlush(w), buffer # <<>>, \A v \in Flusher : batch[v] # <<>> => v = w
      PROVE  /\ Cardinality(InFlight') \in Nat
             /\ Len(buffer') + Cardinality(InFlight') = Len(buffer)
  <2>1. PICK n \in 1 .. BatchSize :
           /\ n <= Len(buffer) /\ batch' \in [Flusher -> Seq(Nat)] /\ Len(batch'[w]) = n
           /\ \A v \in Flusher : v # w => batch'[v] = batch[v]
           /\ Len(buffer') = Len(buffer) - n
    BY <1>3, StartLaw
  <2>2. \A v \in Flusher : batch'[v] # <<>> => v = w
    BY <1>3, <2>1
  <2>3. Len(batch'[w]) <= BatchSize /\ n \in Nat
    BY <2>1, UsageAssumption
  <2>4. Cardinality(InFlight') = n
    BY <2>1, <2>2, <2>3, SizeLaw DEF InFlight
  <2> QED BY <1>0, <2>1, <2>3, <2>4
<1>4. ASSUME NEW w \in Flusher, Takes(w) PROVE Accounted'
  <2>1. \A v \in Flusher : batch[v] = <<>>
    BY <1>4 DEF Takes, Busy, OneFlush, Inserting
  <2>2. Cardinality(InFlight) = 0
    BY <1>0, <2>1, NoneLaw DEF InFlight
  <2>3. /\ Cardinality(InFlight') \in Nat /\ Len(buffer') + Cardinality(InFlight') = Len(buffer)
        /\ UNCHANGED <<recorded, stats, rows>>
    BY <1>3, <1>4, <2>1 DEF Takes, Busy
  <2>4. Len(buffer') \in Nat
    BY <1>a DEF EntryTypes
  <2>5. PICK c \in Nat, m \in Nat : c = Cardinality(InFlight') /\ m = Len(buffer')
    BY <2>3, <2>4
  <2>6. recorded = stats.written + stats.dropped + m + c
    BY <1>0, <2>2, <2>3, <2>5 DEF Accounted
  <2> QED BY <2>3, <2>5, <2>6 DEF Accounted
<1>5. ASSUME NEW w \in Flusher, NEW wrote \in BOOLEAN, InsertEnds(w, wrote) PROVE Accounted'
  <2>1. \A v \in Flusher : batch[v] # <<>> => v = w
    BY <1>5 DEF InsertEnds, OneFlush, Inserting
  <2>2. PICK n \in Nat : n = Len(batch[w])
    BY <1>0
  <2>3. Cardinality(InFlight) = n
    <3>1. Len(batch[w]) <= BatchSize
      BY NumbersOK
    <3> QED BY <1>0, <2>1, <2>2, <3>1, SizeLaw DEF InFlight
  <2>4. PICK c \in Nat, m \in Nat : c = Cardinality(InFlight') /\ m = Len(buffer') /\ m + c = Len(buffer)
    <3>1. Len(buffer') \in Nat
      BY <1>a DEF EntryTypes
    <3>2. CASE buffer = <<>>
      <4>1. batch' = [batch EXCEPT ![w] = <<>>] /\ buffer' = buffer
        BY <1>5, <3>2 DEF InsertEnds
      <4>2. batch' \in [Flusher -> Seq(Nat)] /\ \A v \in Flusher : batch'[v] = <<>>
        BY <1>0, <1>a, <2>1, <4>1 DEF EntryTypes
      <4>3. Cardinality(InFlight') = 0
        BY <4>2, NoneLaw DEF InFlight
      <4>4. Len(buffer') + 0 = Len(buffer)
        BY <1>0, <4>1
      <4> QED BY <3>1, <4>3, <4>4
    <3>3. CASE buffer # <<>>
      <4>1. Cardinality(InFlight') \in Nat /\ Len(buffer') + Cardinality(InFlight') = Len(buffer)
        BY <1>3, <1>5, <2>1, <3>3 DEF InsertEnds
      <4> QED BY <3>1, <4>1
    <3> QED BY <3>2, <3>3
  <2>5. Counted(w, wrote) /\ recorded' = recorded /\ rows' = IF wrote THEN rows \o batch[w] ELSE rows
    BY <1>5 DEF InsertEnds
  <2>6. recorded = stats.written + stats.dropped + Len(buffer) + n /\ stats.written = Len(rows)
    BY <2>3 DEF Accounted
  <2>7. CASE wrote
    <3>1. stats'.written = stats.written + n /\ stats'.dropped = stats.dropped
      BY <1>0, <2>2, <2>5, <2>7 DEF Counted
    <3>2. Len(rows') = Len(rows) + n
      BY <1>0, <2>2, <2>5, <2>7, ConcatProperties
    <3>3. recorded' = stats'.written + stats'.dropped + m + c
      <4>1. PICK x \in Nat, q \in Nat : x = stats.written /\ q = stats.dropped
        BY <1>0
      <4>2. recorded' = x + q + (m + c) + n /\ stats'.written = x + n /\ stats'.dropped = q
        BY <2>4, <2>5, <2>6, <3>1, <4>1
      <4>3. x + q + (m + c) + n = (x + n) + q + m + c
        OBVIOUS
      <4> QED BY <4>2, <4>3
    <3> QED BY <1>0, <2>2, <2>4, <2>6, <3>1, <3>2, <3>3 DEF Accounted
  <2>8. CASE ~wrote
    <3>1. stats'.written = stats.written /\ stats'.dropped = stats.dropped + n /\ rows' = rows
      BY <1>0, <2>2, <2>5, <2>8 DEF Counted
    <3>2. recorded' = stats'.written + stats'.dropped + m + c
      <4>1. PICK x \in Nat, q \in Nat : x = stats.written /\ q = stats.dropped
        BY <1>0
      <4>2. recorded' = x + q + (m + c) + n /\ stats'.written = x /\ stats'.dropped = q + n
        BY <2>4, <2>5, <2>6, <3>1, <4>1
      <4>3. x + q + (m + c) + n = x + (q + n) + m + c
        OBVIOUS
      <4> QED BY <4>2, <4>3
    <3> QED BY <2>4, <2>6, <3>1, <3>2 DEF Accounted
  <2> QED BY <2>7, <2>8
<1> QED BY <1>1, <1>2, <1>4, <1>5, StepCases

(***************************************************************************)
(* The order of the entries.                                               *)
(***************************************************************************)

(* Taking a batch off the buffer keeps the order, whatever was written just  *)
(* before.                                                                   *)
LEMMA TakeOrder ==
  ASSUME UsageTypeOK, NEW w \in Flusher, StartFlush(w), buffer # <<>>,
         \A v \in Flusher : batch[v] # <<>> => v = w,
         rows' \in Seq(Nat), recorded' = recorded,
         Rising(rows'), Below(rows', buffer), \A i \in 1 .. Len(rows') : rows'[i] <= recorded,
         Rising(buffer), \A i \in 1 .. Len(buffer) : buffer[i] <= recorded
  PROVE  Ordered'
<1>0. buffer \in Seq(Nat) /\ Len(buffer) \in Nat /\ batch \in [Flusher -> Seq(Nat)] /\ BatchSize \in Nat
  BY NumbersOK DEF UsageTypeOK
<1>1. PICK n \in 1 .. BatchSize :
        /\ n <= Len(buffer) /\ batch' \in [Flusher -> Seq(Nat)] /\ Len(batch'[w]) = n
        /\ \A i \in 1 .. n : batch'[w][i] = buffer[i]
        /\ \A v \in Flusher : v # w => batch'[v] = batch[v]
        /\ buffer' \in Seq(Nat) /\ Len(buffer') = Len(buffer) - n
        /\ \A i \in 1 .. Len(buffer) - n : buffer'[i] = buffer[n + i]
  BY StartLaw
<1>2. /\ n \in Nat /\ \A i \in 1 .. n : i \in 1 .. Len(buffer)
      /\ \A i \in 1 .. Len(buffer') : n + i \in 1 .. Len(buffer) /\ i \in Nat
  BY <1>0, <1>1
<1>3. Rising(buffer')
  <2>1. SUFFICES ASSUME NEW i \in 1 .. Len(buffer'), NEW j \in 1 .. Len(buffer'), i < j
                 PROVE  buffer'[i] < buffer'[j]
    BY DEF Rising
  <2>a. n + i \in 1 .. Len(buffer) /\ n + j \in 1 .. Len(buffer) /\ i \in Nat /\ j \in Nat
    BY <1>2
  <2>b. n + i < n + j
    BY <1>2, <2>1, <2>a
  <2>2. n + i \in 1 .. Len(buffer) /\ n + j \in 1 .. Len(buffer) /\ n + i < n + j
    BY <2>a, <2>b
  <2>3. buffer'[i] = buffer[n + i] /\ buffer'[j] = buffer[n + j]
    BY <1>1, <2>1
  <2> QED BY <2>2, <2>3 DEF Rising
<1>4. Below(rows', buffer') /\ \A i \in 1 .. Len(buffer') : buffer'[i] <= recorded
  BY <1>1, <1>2 DEF Below
<1>5. ASSUME NEW v \in Flusher
      PROVE  /\ Rising(batch'[v]) /\ Below(rows', batch'[v]) /\ Below(batch'[v], buffer')
             /\ \A i \in 1 .. Len(batch'[v]) : batch'[v][i] <= recorded
  <2>1. CASE v = w
    <3>1. Rising(batch'[w])
      BY <1>1, <1>2 DEF Rising
    <3>2. Below(rows', batch'[w]) /\ \A i \in 1 .. n : batch'[w][i] <= recorded
      BY <1>1, <1>2 DEF Below
    <3>3. Below(batch'[w], buffer')
      <4>1. SUFFICES ASSUME NEW i \in 1 .. n, NEW j \in 1 .. Len(buffer') PROVE buffer[i] < buffer[n + j]
        BY <1>1 DEF Below
      <4>2. i \in 1 .. Len(buffer) /\ n + j \in 1 .. Len(buffer) /\ i < n + j
        BY <1>2, <4>1
      <4> QED BY <4>2 DEF Rising
    <3> QED BY <1>1, <2>1, <3>1, <3>2, <3>3
  <2>2. CASE v # w
    <3>0. batch'[v] = <<>>
      BY <1>1, <2>2
    <3>1. batch'[v] = <<>> /\ Len(batch'[v]) = 0
      BY <3>0
    <3> QED BY <3>1 DEF Rising, Below
  <2> QED BY <2>1, <2>2
<1> QED BY <1>3, <1>4, <1>5 DEF Ordered, Rising, Below

(* The order is kept by every step.                                          *)
LEMMA OrderedKept ==
  ASSUME UsageTypeOK, OneFlush, Ordered, [UsageNext]_usageVars
  PROVE  Ordered'
<1>0. /\ buffer \in Seq(Nat) /\ rows \in Seq(Nat) /\ Len(buffer) \in Nat /\ Len(rows) \in Nat
      /\ recorded \in Nat /\ batch \in [Flusher -> Seq(Nat)]
      /\ \A w \in Flusher : batch[w] \in Seq(Nat) /\ Len(batch[w]) \in Nat
  BY NumbersOK DEF UsageTypeOK
<1>1. CASE Quiet
  BY <1>1 DEF Quiet, Ordered, Rising, Below
<1>2. CASE Records
  <2>1. PICK d \in {0, 1} :
           /\ d <= Len(buffer) /\ recorded' = recorded + 1
           /\ buffer' \in Seq(Nat) /\ Len(buffer') = Len(buffer) - d + 1
           /\ buffer'[Len(buffer) - d + 1] = recorded + 1
           /\ \A i \in 1 .. Len(buffer) - d : buffer'[i] = buffer[d + i]
    BY <1>2, RecordLaw DEF Records
  <2>2. UNCHANGED <<batch, rows>>
    BY <1>2 DEF Records
  <2>a. d \in Nat
    BY <2>1
  <2>3. PICK m \in Nat : m = Len(buffer) - d
    <3>1. d <= Len(buffer) /\ Len(buffer) \in Nat
      BY <1>0, <2>1
    <3>2. Len(buffer) - d \in Nat
      BY <2>a, <3>1
    <3> QED BY <3>2
  <2>4. d \in Nat /\ Len(buffer') = m + 1 /\ buffer'[m + 1] = recorded + 1 /\ d + m = Len(buffer)
    BY <1>0, <2>1, <2>3
  <2>5. \A i \in 1 .. m : d + i \in 1 .. Len(buffer) /\ buffer'[i] = buffer[d + i]
    BY <1>0, <2>1, <2>3, <2>4
  <2>6. \A i \in 1 .. m + 1 : i \in 1 .. m \/ i = m + 1
    OBVIOUS
  <2>7. \A i \in 1 .. Len(buffer) : buffer[i] \in Nat /\ buffer[i] <= recorded
    BY <1>0 DEF Ordered
  <2>8. ASSUME NEW i \in 1 .. m PROVE buffer'[i] \in Nat /\ buffer'[i] < recorded + 1
    <3>1. PICK x \in Nat : x = buffer[d + i] /\ x <= recorded
      BY <2>5, <2>7
    <3>2. x < recorded + 1
      BY <1>0, <3>1
    <3> QED BY <2>5, <3>1, <3>2
  <2>9. Rising(buffer')
    <3>1. SUFFICES ASSUME NEW i \in 1 .. m + 1, NEW j \in 1 .. m + 1, i < j PROVE buffer'[i] < buffer'[j]
      BY <2>4 DEF Rising
    <3>2. i \in 1 .. m
      BY <3>1
    <3>3. CASE j \in 1 .. m
      <4>1. d + i \in 1 .. Len(buffer) /\ d + j \in 1 .. Len(buffer) /\ d + i < d + j
        <5>1. d + i \in 1 .. Len(buffer) /\ d + j \in 1 .. Len(buffer)
          BY <2>5, <3>2, <3>3
        <5>2. d + i < d + j
          BY <2>4, <3>1
        <5> QED BY <5>1, <5>2
      <4> QED BY <2>5, <3>2, <3>3, <4>1 DEF Ordered, Rising
    <3>4. CASE j = m + 1
      BY <2>4, <2>8, <3>2, <3>4
    <3> QED BY <2>6, <3>3, <3>4
  <2>10. Below(rows, buffer') /\ \A w \in Flusher : Below(batch[w], buffer')
    <3>1. ASSUME NEW s \in Seq(Nat), Below(s, buffer), \A i \in 1 .. Len(s) : s[i] <= recorded
          PROVE  Below(s, buffer')
      <4>1. SUFFICES ASSUME NEW i \in 1 .. Len(s), NEW j \in 1 .. m + 1 PROVE s[i] < buffer'[j]
        BY <2>4 DEF Below
      <4>2. s[i] \in Nat /\ s[i] <= recorded
        BY <3>1
      <4>3. CASE j \in 1 .. m
        BY <2>5, <3>1, <4>3 DEF Below
      <4>4. CASE j = m + 1
        BY <1>0, <2>4, <4>2, <4>4
      <4> QED BY <2>6, <4>3, <4>4
    <3> QED BY <1>0, <3>1 DEF Ordered
  <2>11. ASSUME NEW i \in 1 .. Len(buffer') PROVE buffer'[i] <= recorded'
    <3>1. CASE i \in 1 .. m
      <4>1. PICK y \in Nat : y = buffer'[i] /\ y < recorded + 1
        BY <2>8, <3>1
      <4>2. y <= recorded + 1
        BY <1>0, <4>1
      <4> QED BY <2>1, <4>1, <4>2
    <3>2. CASE i = m + 1
      BY <1>0, <2>1, <2>4, <3>2
    <3> QED BY <2>4, <2>6, <3>1, <3>2
  <2>12. /\ \A i \in 1 .. Len(rows) : rows[i] <= recorded'
         /\ \A w \in Flusher : \A i \in 1 .. Len(batch[w]) : batch[w][i] <= recorded'
    <3>1. ASSUME NEW s \in Seq(Nat), \A i \in 1 .. Len(s) : s[i] <= recorded
          PROVE  \A i \in 1 .. Len(s) : s[i] <= recorded'
      <4> SUFFICES ASSUME NEW i \in 1 .. Len(s) PROVE s[i] <= recorded + 1
        BY <2>1
      <4>1. PICK y \in Nat : y = s[i] /\ y <= recorded
        BY <3>1
      <4> QED BY <1>0, <4>1
    <3> QED BY <1>0, <3>1 DEF Ordered
  <2> QED BY <2>2, <2>9, <2>10, <2>11, <2>12 DEF Ordered, Rising, Below
<1>3. ASSUME NEW w \in Flusher, Takes(w) PROVE Ordered'
  <2>1. /\ \A v \in Flusher : batch[v] = <<>>
        /\ buffer # <<>> /\ StartFlush(w) /\ rows' = rows /\ recorded' = recorded
    BY <1>3 DEF Takes, Busy, OneFlush, Inserting
  <2>2. Rising(rows') /\ Below(rows', buffer) /\ \A i \in 1 .. Len(rows') : rows'[i] <= recorded
    BY <2>1 DEF Ordered
  <2> QED BY <1>0, <2>1, <2>2, TakeOrder DEF Ordered
<1>4. ASSUME NEW w \in Flusher, NEW wrote \in BOOLEAN, InsertEnds(w, wrote) PROVE Ordered'
  <2>1. /\ \A v \in Flusher : batch[v] # <<>> => v = w
        /\ rows' = (IF wrote THEN rows \o batch[w] ELSE rows) /\ recorded' = recorded
    BY <1>4 DEF InsertEnds, OneFlush, Inserting
  <2>2. /\ rows' \in Seq(Nat) /\ Rising(rows') /\ Below(rows', buffer)
        /\ \A i \in 1 .. Len(rows') : rows'[i] <= recorded
    <3>1. CASE ~wrote
      BY <1>0, <2>1, <3>1 DEF Ordered
    <3>2. CASE wrote
      <4> DEFINE b == batch[w]
      <4>1. /\ b \in Seq(Nat) /\ Len(b) \in Nat /\ Rising(b) /\ Below(rows, b) /\ Below(b, buffer)
            /\ \A i \in 1 .. Len(b) : b[i] <= recorded
        BY <1>0 DEF Ordered
      <4>2. rows' = rows \o b
        BY <2>1, <3>2
      <4> HIDE DEF b
      <4>3. /\ rows' \in Seq(Nat) /\ Len(rows') = Len(rows) + Len(b)
            /\ \A i \in 1 .. Len(rows') :
                 rows'[i] = IF i <= Len(rows) THEN rows[i] ELSE b[i - Len(rows)]
        BY <1>0, <4>1, <4>2, ConcatProperties
      <4>4. ASSUME NEW i \in 1 .. Len(rows'), ~(i <= Len(rows)) PROVE i - Len(rows) \in 1 .. Len(b) /\ i \in Nat
        BY <1>0, <4>1, <4>3, <4>4
      <4>5. Rising(rows')
        <5>1. SUFFICES ASSUME NEW i \in 1 .. Len(rows'), NEW j \in 1 .. Len(rows'), i < j
                       PROVE  rows'[i] < rows'[j]
          BY DEF Rising
        <5>2. CASE j <= Len(rows)
          <6>1. i \in 1 .. Len(rows) /\ j \in 1 .. Len(rows)
            BY <1>0, <5>1, <5>2
          <6> QED BY <4>3, <5>1, <5>2, <6>1 DEF Ordered, Rising
        <5>3. CASE ~(j <= Len(rows)) /\ i <= Len(rows)
          <6>1. i \in 1 .. Len(rows) /\ j - Len(rows) \in 1 .. Len(b)
            BY <1>0, <4>4, <5>1, <5>3
          <6> QED BY <4>1, <4>3, <5>3, <6>1 DEF Below
        <5>4. CASE ~(j <= Len(rows)) /\ ~(i <= Len(rows))
          <6>1. i - Len(rows) \in 1 .. Len(b) /\ j - Len(rows) \in 1 .. Len(b) /\ i \in Nat /\ j \in Nat
            BY <4>4, <5>1, <5>4
          <6>2. i - Len(rows) < j - Len(rows)
            BY <1>0, <5>1, <6>1
          <6> QED BY <4>1, <4>3, <5>4, <6>1, <6>2 DEF Rising
        <5> QED BY <5>2, <5>3, <5>4
      <4>6. ASSUME NEW i \in 1 .. Len(rows')
            PROVE  rows'[i] <= recorded /\ \A j \in 1 .. Len(buffer) : rows'[i] < buffer[j]
        <5>1. CASE i <= Len(rows)
          <6>1. i \in 1 .. Len(rows) /\ rows'[i] = rows[i]
            BY <1>0, <4>3, <5>1
          <6> QED BY <6>1 DEF Ordered, Below
        <5>2. CASE ~(i <= Len(rows))
          <6>1. i - Len(rows) \in 1 .. Len(b) /\ rows'[i] = b[i - Len(rows)]
            BY <4>3, <4>4, <5>2
          <6> QED BY <4>1, <6>1 DEF Below
        <5> QED BY <5>1, <5>2
      <4> QED BY <4>3, <4>5, <4>6 DEF Below
    <3> QED BY <3>1, <3>2
  <2>3. CASE buffer = <<>>
    <3>1. batch' = [batch EXCEPT ![w] = <<>>] /\ buffer' = buffer
      BY <1>4, <2>3 DEF InsertEnds
    <3>2. \A v \in Flusher : batch'[v] = <<>> /\ Len(batch'[v]) = 0
      BY <1>0, <2>1, <3>1
    <3>3. Len(buffer') = 0
      BY <2>3, <3>1
    <3> QED BY <2>1, <2>2, <3>2, <3>3 DEF Ordered, Rising, Below
  <2>4. CASE buffer # <<>>
    <3>1. StartFlush(w)
      BY <1>4, <2>4 DEF InsertEnds
    <3> QED BY <2>1, <2>2, <2>4, <3>1, TakeOrder DEF Ordered
  <2> QED BY <2>3, <2>4
<1> QED BY <1>1, <1>2, <1>3, <1>4, StepCases

(***************************************************************************)
(* The shutdown.                                                           *)
(***************************************************************************)

(* The types of the variables a shutdown changes.                            *)
ControlTypes ==
  /\ timer \in BOOLEAN /\ overlapped \in BOOLEAN /\ cut \in BOOLEAN
  /\ connection \in {"open", "closing", "closed"} /\ process \in {"up", "exited"}
  /\ down \in [Signal -> {"none", "waiting", "flushing", "flushed", "closed"}]

(* The types.                                                                *)
LEMMA TypeKept ==
  ASSUME UsageTypeOK, Recorded, [UsageNext]_usageVars
  PROVE  UsageTypeOK'
<1>1. /\ EntryTypes' /\ recorded' \in 0 .. Requests
      /\ request' \in [Request -> RequestRow]
  BY EntryTypesKept, RecordedKept
<1>2. ControlTypes /\ flushing \in BOOLEAN
  BY DEF UsageTypeOK, ControlTypes
<1>3. ASSUME NEW s \in Signal, StopFlushing(s) PROVE ControlTypes'
  <2>1. down' \in [Signal -> {"none", "waiting", "flushing", "flushed", "closed"}]
    BY <1>2, <1>3 DEF StopFlushing, ControlTypes
  <2> QED BY <1>2, <1>3, <2>1 DEF StopFlushing, ControlTypes
<1>4. ASSUME NEW s \in Signal, Signalled(s) \/ Flushed(s) \/ CloseDatabase(s) \/ Exit(s)
      PROVE  ControlTypes'
  BY <1>2, <1>4 DEF Signalled, Flushed, CloseDatabase, Exit, ControlTypes
<1>5. ASSUME NEW w \in Flusher, NEW wrote \in BOOLEAN, InsertEnds(w, wrote)
      PROVE  ControlTypes'
  BY <1>2, <1>5 DEF InsertEnds, ControlTypes
<1>6. ASSUME TimeOut PROVE ControlTypes'
  BY <1>2, <1>6 DEF TimeOut, ControlTypes
<1>7. ASSUME \/ Tick \/ UNCHANGED usageVars
             \/ \E i \in Request : Arrive(i) \/ \E event \in {"finish", "close"} : Responds(i, event)
      PROVE  ControlTypes'
  <2>1. UNCHANGED <<timer, overlapped, cut, connection, process, down>>
    BY <1>7 DEF Tick, usageVars, Arrive, Responds
  <2> QED BY <1>2, <2>1 DEF ControlTypes
<1>8. ControlTypes'
  BY <1>3, <1>4, <1>5, <1>6, <1>7 DEF UsageNext
<1> QED BY <1>1, <1>8 DEF UsageTypeOK, EntryTypes, ControlTypes, RequestRow

(* An insert a shutdown started is awaited by it.                            *)
LEMMA AwaitedKept ==
  ASSUME UsageTypeOK, OneFlush, AwaitedOK, [UsageNext]_usageVars
  PROVE  AwaitedOK'
<1>0. batch \in [Flusher -> Seq(Nat)] /\ down \in [Signal -> {"none", "waiting", "flushing", "flushed", "closed"}]
  BY DEF UsageTypeOK
<1>1. Signal \subseteq Flusher /\ "interval" \in Flusher /\ "interval" \notin Signal
  BY UsageAssumption DEF Flusher
<1>2. CASE Tick
  <2>1. StartFlush("interval") /\ buffer # <<>> /\ down' = down
    BY <1>2 DEF Tick, Busy
  <2>2. \A v \in Flusher : v # "interval" => batch'[v] = batch[v]
    BY <1>1, <2>1, StartLaw
  <2> QED BY <1>1, <2>1, <2>2 DEF AwaitedOK, Inserting
<1>3. ASSUME NEW s \in Signal, StopFlushing(s) PROVE AwaitedOK'
  <2>1. CASE Busy
    <3>1. batch' = batch /\ down' = [down EXCEPT ![s] = "flushed"] /\ down[s] = "waiting"
      BY <1>3, <2>1 DEF StopFlushing
    <3> QED BY <1>0, <3>1 DEF AwaitedOK, Inserting
  <2>2. CASE ~Busy
    <3>1. /\ down' = [down EXCEPT ![s] = "flushing"] /\ StartFlush(s) /\ buffer # <<>>
          /\ \A v \in Flusher : ~Inserting(v)
      BY <1>3, <2>2 DEF StopFlushing, Busy, OneFlush
    <3>2. \A v \in Flusher : v # s => batch'[v] = batch[v]
      BY <1>1, <3>1, StartLaw
    <3> QED BY <1>0, <1>1, <3>1, <3>2 DEF AwaitedOK, Inserting
  <2> QED BY <2>1, <2>2
<1>4. ASSUME NEW s \in Signal, \/ Signalled(s) \/ Flushed(s) \/ CloseDatabase(s) \/ Exit(s) PROVE AwaitedOK'
  <2>1. /\ batch' = batch
        /\ \/ down' = down
           \/ \E stage \in {"waiting", "flushed", "closed"} : down' = [down EXCEPT ![s] = stage]
        /\ down' # down => ~Inserting(s)
    BY <1>4 DEF Signalled, Flushed, Awaited, CloseDatabase, Exit, AwaitedOK, Inserting
  <2> QED BY <1>0, <2>1 DEF AwaitedOK, Inserting
<1>5. ASSUME NEW w \in Flusher, NEW wrote \in BOOLEAN, InsertEnds(w, wrote) PROVE AwaitedOK'
  <2>1. Inserting(w) /\ down' = down
    BY <1>5 DEF InsertEnds, Inserting
  <2>2. \A v \in Flusher : v # w => batch'[v] = batch[v]
    <3>1. CASE buffer = <<>>
      BY <1>0, <1>5, <3>1 DEF InsertEnds
    <3>2. CASE buffer # <<>>
      BY <1>5, <3>2, StartLaw DEF InsertEnds
    <3> QED BY <3>1, <3>2
  <2> QED BY <1>1, <2>1, <2>2 DEF AwaitedOK, Inserting
<1>6. CASE \/ TimeOut \/ UNCHANGED usageVars
           \/ \E i \in Request : Arrive(i) \/ \E event \in {"finish", "close"} : Responds(i, event)
  BY <1>6 DEF TimeOut, usageVars, Arrive, Responds, AwaitedOK, Inserting
<1> QED BY <1>2, <1>3, <1>4, <1>5, <1>6 DEF UsageNext

(* What was left when flushing stopped is written by the shutdown that       *)
(* stopped it, or nothing was.                                               *)
LEMMA StopKept ==
  ASSUME UsageTypeOK, OneFlush, StopOK, [UsageNext]_usageVars
  PROVE  StopOK'
<1>0. /\ batch \in [Flusher -> Seq(Nat)] /\ overlapped \in BOOLEAN /\ timer \in BOOLEAN
      /\ down \in [Signal -> {"none", "waiting", "flushing", "flushed", "closed"}]
  BY DEF UsageTypeOK
<1>1. Signal \subseteq Flusher
  BY DEF Flusher
<1> DEFINE Stopped(s) == down[s] \in {"flushing", "flushed", "closed"}
           Left == buffer # <<>> \/ \E w \in Flusher : Inserting(w)
<1>2. ASSUME UNCHANGED <<request, timer, overlapped, buffer, batch>>,
             \A s \in Signal : Stopped(s)' => Stopped(s) /\ (down'[s] = down[s] \/ batch[s] = <<>>)
      PROVE  StopOK'
  BY <1>0, <1>2 DEF StopOK, Closed, Inserting
<1>3. ASSUME NEW i \in Request, Arrive(i) PROVE StopOK'
  BY <1>0, <1>3 DEF Arrive, StopOK
<1>4. ASSUME NEW i \in Request, NEW event \in {"finish", "close"}, Responds(i, event) PROVE StopOK'
  <2>1. ~Closed(i) /\ down' = down
    BY <1>4 DEF Responds, Closed
  <2> QED BY <2>1 DEF StopOK
<1>5. CASE Tick
  BY <1>5 DEF Tick, StopOK
<1>6. ASSUME NEW s \in Signal, Signalled(s) PROVE StopOK'
  <2>1. UNCHANGED <<request, timer, overlapped, buffer, batch>> /\ down' = [down EXCEPT ![s] = "waiting"]
    BY <1>6 DEF Signalled
  <2> QED BY <1>0, <1>2, <2>1
<1>7. ASSUME NEW s \in Signal, Flushed(s) PROVE StopOK'
  <2>1. /\ UNCHANGED <<request, timer, overlapped, buffer, batch>> /\ down' = [down EXCEPT ![s] = "flushed"]
        /\ down[s] = "flushing" /\ batch[s] = <<>>
    BY <1>7 DEF Flushed, Awaited
  <2> QED BY <1>0, <1>2, <2>1
<1>8. ASSUME NEW s \in Signal, CloseDatabase(s) PROVE StopOK'
  <2>1. /\ UNCHANGED <<request, timer, overlapped, buffer, batch>> /\ down' = [down EXCEPT ![s] = "closed"]
        /\ down[s] = "flushed"
    BY <1>8 DEF CloseDatabase
  <2>2. Stopped(s)
    BY <2>1
  <2>3. \A r \in Signal : r # s => down'[r] = down[r]
    BY <1>0, <2>1
  <2> QED BY <1>0, <2>1, <2>2, <2>3 DEF StopOK, Closed, Inserting
<1>9. CASE TimeOut \/ UNCHANGED usageVars \/ \E s \in Signal : Exit(s)
  <2>1. UNCHANGED <<request, timer, overlapped, buffer, batch, down>>
    BY <1>9 DEF TimeOut, usageVars, Exit
  <2> QED BY <1>2, <2>1
<1>10. ASSUME NEW w \in Flusher, NEW wrote \in BOOLEAN, InsertEnds(w, wrote) PROVE StopOK'
  <2>1. UNCHANGED <<request, timer, overlapped, down>> /\ Inserting(w) /\ batch[w] # <<>>
    BY <1>10 DEF InsertEnds, Inserting
  <2>2. SUFFICES ASSUME NEW s \in Signal, Stopped(s), ~overlapped
                 PROVE  \/ buffer' = <<>> /\ \A v \in Flusher : ~Inserting(v)'
                        \/ down[s] = "flushing" /\ Inserting(s)'
    BY <1>0, <2>1 DEF StopOK, Closed
  <2>3. down[s] = "flushing" /\ s = w
    BY <1>1, <2>1, <2>2 DEF StopOK, OneFlush
  <2>4. CASE buffer = <<>>
    <3>1. batch' = [batch EXCEPT ![w] = <<>>] /\ buffer' = <<>>
      BY <1>10, <2>4 DEF InsertEnds
    <3>2. \A v \in Flusher : batch'[v] = <<>>
      BY <1>0, <2>1, <3>1 DEF OneFlush, Inserting
    <3> QED BY <3>1, <3>2 DEF Inserting
  <2>5. CASE buffer # <<>>
    <3>1. batch'[w] # <<>>
      BY <1>10, <2>5, StartLaw DEF InsertEnds
    <3> QED BY <2>3, <3>1 DEF Inserting
  <2> QED BY <2>4, <2>5
<1>11. ASSUME NEW s \in Signal, StopFlushing(s) PROVE StopOK'
  <2>1. /\ request' = request /\ timer' = FALSE /\ (\A i \in Request : Closed(i))
        /\ overlapped' = (overlapped \/ flushing)
        /\ \A r \in Signal : r # s => down'[r] = down[r]
    BY <1>0, <1>11 DEF StopFlushing
  <2>2. SUFFICES ASSUME NEW r \in Signal, down'[r] \in {"flushing", "flushed", "closed"}, ~overlapped, ~flushing
                 PROVE  \/ buffer' = <<>> /\ \A v \in Flusher : ~Inserting(v)'
                        \/ down'[r] = "flushing" /\ Inserting(r)'
    BY <2>1 DEF StopOK, Closed
  <2>3. \A v \in Flusher : batch[v] = <<>>
    BY <2>2 DEF OneFlush, Inserting
  <2>4. CASE buffer = <<>>
    <3>1. buffer' = <<>> /\ batch' = batch
      BY <1>11, <2>4 DEF StopFlushing, Busy
    <3> QED BY <2>3, <3>1 DEF Inserting
  <2>5. CASE buffer # <<>>
    <3>1. StartFlush(s) /\ down' = [down EXCEPT ![s] = "flushing"]
      BY <1>11, <2>2, <2>5 DEF StopFlushing, Busy
    <3>2. r = s
      <4>1. SUFFICES ASSUME r # s PROVE FALSE
        OBVIOUS
      <4>2. Stopped(r)
        BY <2>1, <2>2, <4>1
      <4> QED BY <1>1, <2>2, <2>3, <2>5, <4>2 DEF StopOK, Inserting
    <3>3. batch'[s] # <<>>
      BY <1>1, <2>5, <3>1, StartLaw
    <3> QED BY <1>0, <3>1, <3>2, <3>3 DEF Inserting
  <2> QED BY <2>4, <2>5
<1> QED BY <1>3, <1>4, <1>5, <1>6, <1>7, <1>8, <1>9, <1>10, <1>11 DEF UsageNext

(* The process exits when a shutdown is through, or is cut short.            *)
LEMMA ExitKept ==
  ASSUME UsageTypeOK, ExitOK, [UsageNext]_usageVars
  PROVE  ExitOK'
<1>0. process \in {"up", "exited"} /\ cut \in BOOLEAN
  BY DEF UsageTypeOK
<1>1. ASSUME NEW s \in Signal, Exit(s) PROVE ExitOK'
  BY <1>1 DEF Exit, ExitOK
<1>2. CASE TimeOut
  BY <1>2 DEF TimeOut, ExitOK
<1>3. CASE UNCHANGED usageVars
  BY <1>3 DEF usageVars, ExitOK
<1>4. ASSUME NEW s \in Signal, Signalled(s) \/ StopFlushing(s) \/ Flushed(s) \/ CloseDatabase(s)
      PROVE  process' = "up"
  BY <1>4 DEF Signalled, StopFlushing, Flushed, CloseDatabase, Up
<1>5. ASSUME \/ Tick \/ (\E i \in Request : Arrive(i) \/ \E event \in {"finish", "close"} : Responds(i, event))
             \/ \E w \in Flusher, wrote \in BOOLEAN : InsertEnds(w, wrote)
      PROVE  process' = "up"
  BY <1>5 DEF Tick, Arrive, Responds, InsertEnds, Up
<1>6. process' = "up" => ExitOK'
  BY DEF ExitOK
<1> QED BY <1>1, <1>2, <1>3, <1>4, <1>5, <1>6 DEF UsageNext

(***************************************************************************)
(* The theorems.                                                           *)
(***************************************************************************)

(* A process that has just started satisfies the invariant.                  *)
LEMMA InvInit == UsageInit => UsageInv
<1>1. SUFFICES ASSUME UsageInit PROVE UsageInv
  OBVIOUS
<1>2. buffer \in Seq(Nat) /\ rows \in Seq(Nat) /\ Len(buffer) = 0 /\ Len(rows) = 0 /\ recorded = 0
  BY <1>1 DEF UsageInit
<1>3. batch \in [Flusher -> Seq(Nat)] /\ \A w \in Flusher : batch[w] = <<>> /\ Len(batch[w]) = 0
  BY <1>1 DEF UsageInit
<1>4. request \in [Request -> RequestRow] /\ \A i \in Request : request[i].at = "due"
  BY <1>1 DEF UsageInit, RequestRow
<1>5. UsageTypeOK
  <2>1. recorded \in 0 .. Requests /\ Len(buffer) <= MaxBuffered /\ \A w \in Flusher : Len(batch[w]) <= BatchSize
    BY <1>2, <1>3, UsageAssumption
  <2>2. stats \in [written : Nat, dropped : Nat, failures : Nat]
    BY <1>1 DEF UsageInit
  <2> QED BY <1>1, <1>2, <1>3, <1>4, <2>1, <2>2 DEF UsageInit, UsageTypeOK, RequestRow
<1>6. OneFlush
  BY <1>1, <1>3 DEF UsageInit, OneFlush, Inserting
<1>7. Recorded
  <2>1. Ended = {}
    BY <1>4 DEF Ended
  <2> QED BY <1>2, <2>1, FS_EmptySet DEF Recorded
<1>8. Accounted
  <2>1. Cardinality(InFlight) = 0
    BY <1>3, NoneLaw DEF InFlight
  <2>2. stats.written = 0 /\ stats.dropped = 0
    BY <1>1 DEF UsageInit
  <2> QED BY <1>2, <2>1, <2>2 DEF Accounted
<1>9. Ordered
  BY <1>2, <1>3 DEF Ordered, Rising, Below
<1>10. AwaitedOK
  BY <1>3 DEF AwaitedOK, Inserting, Flusher
<1>11. StopOK /\ ExitOK
  BY <1>1 DEF UsageInit, StopOK, ExitOK
<1> QED BY <1>5, <1>6, <1>7, <1>8, <1>9, <1>10, <1>11 DEF UsageInv

(* The invariant is inductive.                                               *)
THEOREM InvInvariant == UsageSpec => []UsageInv
<1>1. UsageInv /\ [UsageNext]_usageVars => UsageInv'
  BY TypeKept, OneFlushKept, RecordedKept, AccountedKept, OrderedKept, AwaitedKept, StopKept, ExitKept DEF UsageInv
<1> QED BY <1>1, InvInit, PTL DEF UsageSpec

(* In every state each request that was authenticated and ended is counted   *)
(* as written, dropped, waiting or under way, and the rows are in the order  *)
(* of the requests (usage.service.js).                                       *)
THEOREM UsageSoundTheorem == UsageSpec => []UsageSound
<1>1. ASSUME UsageInv PROVE CountersAddUp
  BY <1>1 DEF UsageInv, Recorded, Accounted, CountersAddUp
<1>2. ASSUME UsageInv PROVE OrderKept
  <2>1. rows \in Seq(Nat) /\ Len(rows) \in Nat /\ Rising(rows)
    BY <1>2, NumbersOK DEF UsageInv, UsageTypeOK, Ordered
  <2>2. ASSUME NEW k \in 2 .. Len(rows) PROVE rows[k - 1] < rows[k]
    <3>1. k - 1 \in 1 .. Len(rows) /\ k \in 1 .. Len(rows) /\ k - 1 < k
      BY <2>1
    <3> QED BY <2>1, <3>1 DEF Rising
  <2> QED BY <2>2 DEF OrderKept
<1>3. UsageInv => UsageSound
  BY <1>1, <1>2 DEF UsageSound, UsageInv
<1> QED BY <1>3, InvInvariant, PTL

(* A shutdown that found no flush running leaves nothing behind, for any     *)
(* number of signals (stopFlushing, shutdown).                               *)
THEOREM DrainedTheorem == UsageSpec => []DrainedUnlessOverlapped
<1>1. ASSUME UsageInv, process = "exited", ~cut, ~overlapped PROVE buffer = <<>> /\ InFlight = {}
  <2>1. PICK s \in Signal : down[s] = "closed"
    BY <1>1 DEF UsageInv, ExitOK
  <2>2. buffer = <<>> /\ \A w \in Flusher : batch[w] = <<>>
    BY <1>1, <2>1 DEF UsageInv, StopOK, Inserting
  <2>3. batch \in [Flusher -> Seq(Nat)]
    BY <1>1 DEF UsageInv, UsageTypeOK
  <2> QED BY <2>2, <2>3, NoneLaw DEF InFlight
<1>2. UsageInv => DrainedUnlessOverlapped
  BY <1>1 DEF DrainedUnlessOverlapped
<1> QED BY <1>2, InvInvariant, PTL

=============================================================================
