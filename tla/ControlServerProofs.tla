------------------------- MODULE ControlServerProofs -------------------------
(***************************************************************************)
(* Proofs about ControlServer and PolicyCompiler for every set of          *)
(* connections, peers, requests and policies, and every set of uids that   *)
(* may be registered.                                                      *)
(*                                                                         *)
(* First the compiler: what Compile and the staging make of a valid policy *)
(* is what its rules say.  The lists are flattened by a recursive          *)
(* function, so the argument is an induction, written with the             *)
(* least-element form of well-foundedness: a counterexample has a smallest *)
(* one.                                                                    *)
(***************************************************************************)
EXTENDS ControlServer, Integers, WellFoundedInduction, TLAPS

(***************************************************************************)
(* A non-empty set of naturals has a least member.                         *)
(***************************************************************************)
LEMMA LeastNat ==
    ASSUME NEW T, T \subseteq Nat, T # {}
    PROVE  \E x \in T : \A y \in T : x <= y
  <1>1. PICK x \in T : \A y \in T : ~(<<y, x>> \in OpToRel(<, Nat))
    BY WFMin, NatLessThanWellFounded
  <1>2. ASSUME NEW y \in T PROVE x <= y
    <2>1. y < x => <<y, x>> \in OpToRel(<, Nat)
      BY DEF OpToRel
    <2>2. ~(y < x)
      BY <1>1, <2>1, Zenon
    <2> QED
      BY <2>2
  <1> QED
    BY <1>2

(***************************************************************************)
(* The Max of a non-empty set of positions is its last member.             *)
(***************************************************************************)
LEMMA MaxFacts ==
    ASSUME NEW T, NEW n \in Nat, T \subseteq 1..n, T # {}
    PROVE  Max(T) \in T /\ \A y \in T : Max(T) >= y
  <1> DEFINE U == {n - i : i \in T}
  <1>1. PICK x \in U : \A y \in U : x <= y
    <2>1. U \subseteq Nat
      OBVIOUS
    <2>2. PICK i \in T : TRUE
      OBVIOUS
    <2>3. n - i \in U
      OBVIOUS
    <2> HIDE DEF U
    <2> QED
      BY <2>1, <2>3, LeastNat
  <1>2. PICK i \in T : x = n - i
    BY <1>1
  <1>3. ASSUME NEW j \in T PROVE i >= j
    <2>1. n - j \in U
      OBVIOUS
    <2>2. n - i <= n - j
      BY <1>1, <1>2, <2>1
    <2> QED
      BY <2>2
  <1> QED
    BY <1>3 DEF Max

-----------------------------------------------------------------------------
(***************************************************************************)
(* f is the function FlattenSeq computes by recursion, up to position m.   *)
(***************************************************************************)
IsFlattening(f, seqs, m) ==
    f = [i \in 1..m |-> IF i = 1 THEN seqs[i] ELSE f[i - 1] \o seqs[i]]

(***************************************************************************)
(* The recursion defines a function.                                       *)
(***************************************************************************)
LEMMA FlatteningExists ==
    ASSUME NEW seqs, NEW n \in Nat, n # 0
    PROVE  \E f : IsFlattening(f, seqs, n)
  <1> DEFINE T == {m \in Nat : m # 0 /\ ~ \E f : IsFlattening(f, seqs, m)}
  <1> SUFFICES ASSUME T # {} PROVE FALSE
    OBVIOUS
  <1>1. PICK x \in T : \A y \in T : x <= y
    <2>1. T \subseteq Nat
      OBVIOUS
    <2> HIDE DEF T
    <2> QED
      BY <2>1, LeastNat
  <1>2. x \in Nat /\ x # 0 /\ ~ \E f : IsFlattening(f, seqs, x)
    OBVIOUS
  <1>3. CASE x = 1
    <2>1. IsFlattening([i \in 1..1 |-> seqs[i]], seqs, 1)
      BY DEF IsFlattening
    <2> QED
      BY <1>2, <1>3, <2>1
  <1>4. CASE x # 1
    <2>1. PICK g : IsFlattening(g, seqs, x - 1)
      BY <1>1, <1>2, <1>4
    <2> DEFINE h == [i \in 1..x |-> IF i < x THEN g[i] ELSE g[x - 1] \o seqs[x]]
    <2>2. ASSUME NEW i \in 1..x
          PROVE  h[i] = IF i = 1 THEN seqs[i] ELSE h[i - 1] \o seqs[i]
      <3>1. CASE i < x
        <4>1. i \in 1..(x - 1)
          BY <1>2, <3>1
        <4>2. g[i] = IF i = 1 THEN seqs[i] ELSE g[i - 1] \o seqs[i]
          BY <2>1, <4>1 DEF IsFlattening
        <4>3. i # 1 => i - 1 \in 1..x /\ i - 1 < x
          BY <1>2, <3>1
        <4> QED
          BY <3>1, <4>2, <4>3
      <3>2. CASE i = x
        <4>1. x \in 1..x /\ ~(x < x)
          BY <1>2
        <4>2. h[x] = g[x - 1] \o seqs[x]
          BY <4>1
        <4>3. h[x - 1] = g[x - 1]
          BY <1>2, <1>4
        <4> QED
          BY <1>4, <3>2, <4>2, <4>3
      <3> QED
        BY <1>2, <3>1, <3>2
    <2>3. IsFlattening(h, seqs, x)
      BY <2>2 DEF IsFlattening
    <2> QED
      BY <1>2, <2>3
  <1> QED
    BY <1>3, <1>4

(***************************************************************************)
(* FlattenSeq is the last value of that function.                          *)
(***************************************************************************)
LEMMA FlattenSeqIs ==
    ASSUME NEW S, NEW seqs \in Seq(S), seqs # <<>>
    PROVE  \E f : IsFlattening(f, seqs, Len(seqs)) /\ FlattenSeq(seqs) = f[Len(seqs)]
  <1> DEFINE f == CHOOSE f : f = [i \in 1..Len(seqs) |->
                                     IF i = 1 THEN seqs[i] ELSE f[i - 1] \o seqs[i]]
  <1>1. Len(seqs) \in Nat /\ Len(seqs) # 0
    OBVIOUS
  <1>2. FlattenSeq(seqs) = f[Len(seqs)]
    BY <1>1 DEF FlattenSeq
  <1>3. IsFlattening(f, seqs, Len(seqs))
    BY <1>1, FlatteningExists DEF IsFlattening
  <1> QED
    BY <1>2, <1>3

(***************************************************************************)
(* The members of F are those of the first m sequences of seqs, in their   *)
(* order: own names the sequence a position of F comes from.               *)
(***************************************************************************)
Owned(F, seqs, m, own) ==
    /\ own \in [1..Len(F) -> 1..m]
    /\ \A i, j \in 1..Len(F) : i <= j => own[i] <= own[j]
    /\ \A i \in 1..Len(F) : \E x \in 1..Len(seqs[own[i]]) : F[i] = seqs[own[i]][x]
    /\ \A r \in 1..m : \A x \in 1..Len(seqs[r]) :
          \E i \in 1..Len(F) : own[i] = r /\ F[i] = seqs[r][x]

(***************************************************************************)
(* One more sequence appended.                                             *)
(***************************************************************************)
LEMMA OwnedConcat ==
    ASSUME NEW S, NEW F \in Seq(S), NEW seqs, NEW m \in Nat, NEW own,
           Owned(F, seqs, m, own), seqs[m + 1] \in Seq(S)
    PROVE  \E o : Owned(F \o seqs[m + 1], seqs, m + 1, o)
  <1> DEFINE s == seqs[m + 1]
             G == F \o s
             o == [i \in 1..Len(G) |-> IF i <= Len(F) THEN own[i] ELSE m + 1]
  <1>1. /\ Len(F) \in Nat /\ Len(s) \in Nat
        /\ Len(G) = Len(F) + Len(s)
        /\ \A i \in 1..Len(F) : G[i] = F[i]
        /\ \A i \in 1..Len(s) : G[Len(F) + i] = s[i]
    OBVIOUS
  <1>2. \A i \in 1..Len(F) : own[i] \in 1..m
    BY DEF Owned
  <1> HIDE DEF G, s
  <1>3. /\ \A i \in 1..Len(F) : i \in 1..Len(G) /\ o[i] = own[i]
        /\ \A i \in 1..Len(s) : Len(F) + i \in 1..Len(G) /\ o[Len(F) + i] = m + 1
    BY <1>1
  <1>4. \A i \in 1..Len(G) : i \in 1..Len(F) \/ \E j \in 1..Len(s) : i = Len(F) + j
    <2>1. ASSUME NEW i \in 1..Len(G), i \notin 1..Len(F)
          PROVE  i - Len(F) \in 1..Len(s) /\ i = Len(F) + (i - Len(F))
      BY <1>1, <2>1
    <2> QED
      BY <2>1
  <1>5. o \in [1..Len(G) -> 1..(m + 1)]
    <2>1. \A i \in 1..Len(G) : o[i] \in 1..(m + 1)
      BY <1>2, <1>3, <1>4
    <2> QED
      BY <2>1
  <1> HIDE DEF o
  <1>6. ASSUME NEW i \in 1..Len(G), NEW j \in 1..Len(G), i <= j PROVE o[i] <= o[j]
    <2>1. CASE j \in 1..Len(F)
      <3>1. i \in 1..Len(F)
        BY <1>1, <1>6, <2>1
      <3>2. own[i] <= own[j]
        BY <1>6, <2>1, <3>1 DEF Owned
      <3> QED
        BY <1>3, <2>1, <3>1, <3>2
    <2>2. CASE j \notin 1..Len(F)
      <3>1. o[j] = m + 1
        BY <1>3, <1>4, <2>2
      <3> QED
        BY <1>5, <3>1
    <2> QED
      BY <2>1, <2>2
  <1>7. ASSUME NEW i \in 1..Len(G)
        PROVE  \E x \in 1..Len(seqs[o[i]]) : G[i] = seqs[o[i]][x]
    <2>1. CASE i \in 1..Len(F)
      BY <1>1, <1>3, <2>1 DEF Owned
    <2>2. ASSUME NEW j \in 1..Len(s), i = Len(F) + j
          PROVE  \E x \in 1..Len(seqs[o[i]]) : G[i] = seqs[o[i]][x]
      <3>1. seqs[o[i]] = s /\ G[i] = s[j]
        BY <1>1, <1>3, <2>2 DEF s
      <3> QED
        BY <3>1
    <2> QED
      BY <1>4, <2>1, <2>2
  <1>8. ASSUME NEW r \in 1..(m + 1), NEW x \in 1..Len(seqs[r])
        PROVE  \E i \in 1..Len(G) : o[i] = r /\ G[i] = seqs[r][x]
    <2>1. CASE r \in 1..m
      <3>1. PICK i \in 1..Len(F) : own[i] = r /\ F[i] = seqs[r][x]
        BY <1>8, <2>1 DEF Owned
      <3> QED
        BY <1>1, <1>3, <3>1
    <2>2. CASE r = m + 1
      <3>1. seqs[r] = s
        BY <2>2 DEF s
      <3>2. x \in 1..Len(s)
        BY <1>8, <3>1
      <3>3. Len(F) + x \in 1..Len(G) /\ o[Len(F) + x] = m + 1 /\ G[Len(F) + x] = s[x]
        BY <1>1, <1>3, <3>2
      <3> QED
        BY <2>2, <3>1, <3>3
    <2> QED
      BY <2>1, <2>2
  <1>9. Owned(G, seqs, m + 1, o)
    BY <1>5, <1>6, <1>7, <1>8 DEF Owned
  <1> QED
    BY <1>9 DEF G, s

(***************************************************************************)
(* What FlattenSeq computes, for every sequence of sequences.              *)
(***************************************************************************)
LEMMA FlattenOwned ==
    ASSUME NEW S, NEW seqs \in Seq(Seq(S))
    PROVE  /\ FlattenSeq(seqs) \in Seq(S)
           /\ \E own : Owned(FlattenSeq(seqs), seqs, Len(seqs), own)
  <1>1. CASE seqs = <<>>
    <2>1. FlattenSeq(seqs) = <<>>
      BY <1>1 DEF FlattenSeq
    <2>2. Owned(<<>>, seqs, Len(seqs), <<>>)
      BY <1>1 DEF Owned
    <2> QED
      BY <2>1, <2>2
  <1>2. CASE seqs # <<>>
    <2> DEFINE n == Len(seqs)
    <2>1. PICK f : IsFlattening(f, seqs, n) /\ FlattenSeq(seqs) = f[n]
      BY <1>2, FlattenSeqIs
    <2>2. n \in Nat /\ n >= 1 /\ \A i \in 1..n : seqs[i] \in Seq(S)
      BY <1>2
    <2> HIDE DEF n
    <2> DEFINE Good(m) == f[m] \in Seq(S) /\ \E own : Owned(f[m], seqs, m, own)
               T == {m \in 1..n : ~Good(m)}
    <2>3. SUFFICES ASSUME T # {} PROVE FALSE
      <3>1. n \in 1..n
        BY <2>2
      <3>2. n \in T \/ Good(n)
        BY <3>1
      <3> HIDE DEF T
      <3>3. T = {} => Good(n)
        BY <3>2
      <3> QED
        BY <2>1, <2>3, <3>3 DEF n
    <2>4. PICK x \in T : \A y \in T : x <= y
      <3>1. T \subseteq Nat
        BY <2>2
      <3> HIDE DEF T
      <3> QED
        BY <2>3, <3>1, LeastNat
    <2>5. x \in 1..n /\ ~Good(x)
      OBVIOUS
    <2>6. CASE x = 1
      <3>1. f[1] = seqs[1]
        BY <2>1, <2>2 DEF IsFlattening
      <3>2. seqs[1] \in Seq(S) /\ seqs[0 + 1] \in Seq(S)
        BY <2>2
      <3>3. <<>> \in Seq(S) /\ 0 \in Nat
        OBVIOUS
      <3>4. Owned(<<>>, seqs, 0, <<>>)
        BY DEF Owned
      <3>5. \E own : Owned(<<>> \o seqs[0 + 1], seqs, 0 + 1, own)
        BY <3>2, <3>3, <3>4, OwnedConcat
      <3>6. <<>> \o seqs[0 + 1] = seqs[1] /\ 0 + 1 = 1
        BY <3>2
      <3>7. \E own : Owned(seqs[1], seqs, 1, own)
        BY <3>5, <3>6
      <3> QED
        BY <2>5, <2>6, <3>1, <3>2, <3>7
    <2>7. CASE x # 1
      <3>1. x - 1 \in 1..n /\ x - 1 \in Nat /\ (x - 1) + 1 = x /\ ~(x <= x - 1)
        BY <2>2, <2>5, <2>7
      <3>2. Good(x - 1)
        BY <2>4, <3>1
      <3>3. f[x] = f[x - 1] \o seqs[x]
        BY <2>1, <2>5, <2>7 DEF IsFlattening
      <3>4. seqs[x] \in Seq(S)
        BY <2>2, <2>5
      <3>5. \E own : Owned(f[x - 1] \o seqs[(x - 1) + 1], seqs, (x - 1) + 1, own)
        BY <3>1, <3>2, <3>4, OwnedConcat
      <3>6. f[x] \in Seq(S)
        BY <3>2, <3>3, <3>4
      <3> QED
        BY <2>5, <3>1, <3>3, <3>5, <3>6
    <2> QED
      BY <2>6, <2>7
  <1> QED
    BY <1>1, <1>2

-----------------------------------------------------------------------------
(***************************************************************************)
(* Sequence r of lists holds an entry for key k.                           *)
(***************************************************************************)
Lists(lists, r, k) == \E x \in 1..Len(lists[r]) : lists[r][x].key = k

(***************************************************************************)
(* A is the segment of E after position o, and holds all of E's entries    *)
(* for key k.                                                              *)
(***************************************************************************)
IsSegment(E, A, o, k) ==
    /\ o + Len(A) <= Len(E)
    /\ \A i \in 1..Len(A) : E[o + i] = A[i]
    /\ \A i \in 1..Len(E) : E[i].key = k => i \in (o + 1)..(o + Len(A))

EntriesFor(E, k) == {i \in DOMAIN E : E[i].key = k}

(***************************************************************************)
(* There is no entry for key k when no list has one, and the last entry    *)
(* comes from the last list that has one.                                  *)
(***************************************************************************)
LastListed(E, lists, m, k) ==
    /\ EntriesFor(E, k) = {} <=> \A r \in 1..m : ~Lists(lists, r, k)
    /\ EntriesFor(E, k) # {} =>
          /\ Max(EntriesFor(E, k)) \in DOMAIN E
          /\ \E r \in 1..m :
               /\ \E x \in 1..Len(lists[r]) :
                     lists[r][x].key = k /\ E[Max(EntriesFor(E, k))] = lists[r][x]
               /\ \A q \in 1..m : q > r => ~Lists(lists, q, k)

(***************************************************************************)
(* The entries for key k lie in one segment A of E, the flattening of      *)
(* lists.                                                                  *)
(***************************************************************************)
LEMMA SegmentLast ==
    ASSUME NEW E \in Seq(Entry), NEW A \in Seq(Entry), NEW o \in Nat, NEW k,
           IsSegment(E, A, o, k),
           NEW lists, NEW m \in Nat, NEW own, Owned(A, lists, m, own)
    PROVE  LastListed(E, lists, m, k)
  <1> DEFINE at == EntriesFor(E, k)
  <1>0. /\ o + Len(A) <= Len(E)
        /\ \A i \in 1..Len(A) : E[o + i] = A[i]
        /\ \A i \in 1..Len(E) : E[i].key = k => i \in (o + 1)..(o + Len(A))
        /\ at = {i \in DOMAIN E : E[i].key = k}
    BY DEF IsSegment, EntriesFor
  <1> HIDE DEF at
  <1>1. Len(A) \in Nat /\ Len(E) \in Nat /\ DOMAIN E = 1..Len(E)
    OBVIOUS
  <1>2. ASSUME NEW r \in 1..m, NEW x \in 1..Len(lists[r]), lists[r][x].key = k
        PROVE  \E i \in 1..Len(A) : own[i] = r /\ o + i \in at
    <2>1. PICK i \in 1..Len(A) : own[i] = r /\ A[i] = lists[r][x]
      BY DEF Owned
    <2>2. o + i \in 1..Len(E)
      BY <1>0, <1>1
    <2>3. E[o + i].key = k
      BY <1>0, <1>2, <2>1
    <2> QED
      BY <1>0, <1>1, <2>1, <2>2, <2>3
  <1>3. ASSUME NEW j \in at
        PROVE  \E i \in 1..Len(A) : j = o + i /\ E[j] = A[i] /\ A[i].key = k
    <2>1. j \in 1..Len(E) /\ E[j].key = k
      BY <1>0, <1>1
    <2>2. j \in (o + 1)..(o + Len(A))
      BY <1>0, <2>1
    <2>3. j - o \in 1..Len(A) /\ j = o + (j - o)
      BY <1>1, <2>2
    <2>4. E[o + (j - o)] = A[j - o]
      BY <1>0, <2>3
    <2> QED
      BY <2>1, <2>3, <2>4
  <1>4. ASSUME NEW i \in 1..Len(A)
        PROVE  \E x \in 1..Len(lists[own[i]]) : A[i] = lists[own[i]][x]
    BY DEF Owned
  <1>5. \A i \in 1..Len(A) : own[i] \in 1..m
    BY DEF Owned
  <1>6. at = {} <=> \A r \in 1..m : ~Lists(lists, r, k)
    <2>1. ASSUME NEW r \in 1..m, Lists(lists, r, k) PROVE at # {}
      BY <1>2, <2>1 DEF Lists
    <2>2. ASSUME NEW j \in at PROVE \E r \in 1..m : Lists(lists, r, k)
      <3>1. PICK i \in 1..Len(A) : A[i].key = k
        BY <1>3
      <3> QED
        BY <1>4, <1>5, <3>1 DEF Lists
    <2> QED
      BY <2>1, <2>2
  <1>7. ASSUME at # {}
        PROVE  /\ Max(at) \in DOMAIN E
               /\ \E r \in 1..m :
                    /\ \E x \in 1..Len(lists[r]) :
                          lists[r][x].key = k /\ E[Max(at)] = lists[r][x]
                    /\ \A q \in 1..m : q > r => ~Lists(lists, q, k)
    <2>1. at \subseteq 1..Len(E)
      BY <1>0, <1>1
    <2>2. Max(at) \in at /\ \A y \in at : Max(at) >= y
      BY <1>1, <1>7, <2>1, MaxFacts
    <2>3. PICK i \in 1..Len(A) : Max(at) = o + i /\ E[Max(at)] = A[i] /\ A[i].key = k
      BY <1>3, <2>2
    <2>4. PICK x \in 1..Len(lists[own[i]]) : A[i] = lists[own[i]][x]
      BY <1>4
    <2>5. own[i] \in 1..m
      BY <1>5
    <2>6. ASSUME NEW q \in 1..m, q > own[i], Lists(lists, q, k) PROVE FALSE
      <3>1. PICK j \in 1..Len(A) : own[j] = q /\ o + j \in at
        BY <1>2, <2>6 DEF Lists
      <3>2. o + i >= o + j
        BY <2>2, <2>3, <3>1
      <3>3. j <= i
        BY <3>2, <1>1
      <3>4. own[j] <= own[i]
        BY <3>3 DEF Owned
      <3> QED
        BY <2>5, <2>6, <3>1, <3>4
    <2> QED
      BY <1>1, <2>1, <2>2, <2>3, <2>4, <2>5, <2>6
  <1> QED
    BY <1>6, <1>7 DEF at, LastListed

-----------------------------------------------------------------------------
(***************************************************************************)
(* A rule of a valid policy.                                               *)
(***************************************************************************)
ValidRule(r) ==
    /\ r \in SourceRule
    /\ RuleValid(r)
    /\ Verdict(r) \in Rule
    /\ Verdict(r) \in AllowRule <=> r.action = "allow"
    /\ ToSet(r.ports) \X {"tcp", "udp", "icmp"} \subseteq Port

(***************************************************************************)
(* L is a list of entries with keys in S that carry the verdict of rule r. *)
(***************************************************************************)
IsList(L, r, S) ==
    /\ L \in Seq(Entry)
    /\ \A x \in 1..Len(L) : L[x].key \in S /\ L[x].rule = Verdict(r)

(***************************************************************************)
(* Validate accepts policies of valid rules with distinct ids.             *)
(***************************************************************************)
LEMMA ValidFacts ==
    ASSUME NEW p \in Source, Validate(p)
    PROVE  /\ p.rules \in Seq(SourceRule)
           /\ \A i \in DOMAIN p.rules : ValidRule(p.rules[i])
           /\ \A i, j \in DOMAIN p.rules : p.rules[i].id = p.rules[j].id => i = j
  <1>1. p.rules \in Seq(SourceRule)
    BY SourceAssumption
  <1>2. \A i \in DOMAIN p.rules : p.rules[i] \in SourceRule
    BY <1>1
  <1>3. ASSUME NEW i \in DOMAIN p.rules, NEW j \in DOMAIN p.rules, j < i
        PROVE  p.rules[i].id # p.rules[j].id
    <2>1. j \in 1..(i - 1)
      BY <1>1, <1>3
    <2> QED
      BY <2>1 DEF Validate
  <1>4. ASSUME NEW i \in DOMAIN p.rules, NEW j \in DOMAIN p.rules, i # j
        PROVE  p.rules[i].id # p.rules[j].id
    <2>1. j < i \/ i < j
      BY <1>1, <1>4
    <2> QED
      BY <1>3, <2>1
  <1> QED
    BY <1>1, <1>2, <1>4, VerdictAssumption DEF Validate, ValidRule

(***************************************************************************)
(* The three lists of one rule.                                            *)
(***************************************************************************)
LEMMA CIDRBlocksFacts ==
    ASSUME NEW r, ValidRule(r)
    PROVE  /\ IsList(CIDRBlocks(r), r, Cidr)
           /\ \A k \in Cidr : (\E x \in 1..Len(CIDRBlocks(r)) : CIDRBlocks(r)[x].key = k)
                                <=> Names(r, k)
  <1> DEFINE L == CIDRBlocks(r)
  <1>1. r.cidrs \in Seq(CidrText) /\ \A t \in ToSet(r.cidrs) : CidrOf[t] # Malformed
    BY DEF ValidRule, SourceRule, RuleValid
  <1>2. DOMAIN r.cidrs = 1..Len(r.cidrs) /\ Len(r.cidrs) \in Nat
    BY <1>1
  <1>3. ASSUME NEW x \in 1..Len(r.cidrs)
        PROVE  /\ r.cidrs[x] \in ToSet(r.cidrs)
               /\ CidrOf[r.cidrs[x]] \in Cidr
    BY <1>1, <1>2, CidrOfAssumption DEF ToSet
  <1>4. /\ L = [i \in 1..Len(r.cidrs) |-> [key |-> CidrOf[r.cidrs[i]], rule |-> Verdict(r)]]
        /\ L \in Seq(Entry)
    BY <1>2, <1>3 DEF CIDRBlocks, Entry, Key, ValidRule
  <1>5. Len(L) = Len(r.cidrs)
    BY <1>2, <1>4
  <1>6. \A x \in 1..Len(L) : L[x].key = CidrOf[r.cidrs[x]] /\ L[x].rule = Verdict(r)
    BY <1>4, <1>5
  <1> HIDE DEF L
  <1>7. ASSUME NEW k \in Cidr
        PROVE  (\E x \in 1..Len(L) : L[x].key = k) <=> \E t \in ToSet(r.cidrs) : CidrOf[t] = k
    BY <1>2, <1>3, <1>5, <1>6 DEF ToSet
  <1> QED
    BY <1>3, <1>4, <1>5, <1>6, <1>7 DEF L, IsList, Names

(***************************************************************************)
(* The cgroup entries of a rule.                                           *)
(***************************************************************************)
LEMMA CgroupBlocksFacts ==
    ASSUME NEW r, ValidRule(r)
    PROVE  /\ IsList(CgroupBlocks(r), r, Cgroup)
           /\ \A k \in Cgroup : (\E x \in 1..Len(CgroupBlocks(r)) : CgroupBlocks(r)[x].key = k)
                                  <=> Names(r, k)
  <1> DEFINE L == CgroupBlocks(r)
  <1>1. r.cgroups \in Seq(Cgroup)
    BY DEF ValidRule, SourceRule
  <1>2. DOMAIN r.cgroups = 1..Len(r.cgroups) /\ Len(r.cgroups) \in Nat
    BY <1>1
  <1>3. /\ L = [i \in 1..Len(r.cgroups) |-> [key |-> r.cgroups[i], rule |-> Verdict(r)]]
        /\ L \in Seq(Entry)
    BY <1>1, <1>2 DEF CgroupBlocks, Entry, Key, ValidRule
  <1>4. Len(L) = Len(r.cgroups)
    BY <1>2, <1>3
  <1>5. \A x \in 1..Len(L) : L[x].key = r.cgroups[x] /\ L[x].rule = Verdict(r)
    BY <1>3, <1>4
  <1> HIDE DEF L
  <1>6. ASSUME NEW k \in Cgroup
        PROVE  (\E x \in 1..Len(L) : L[x].key = k) <=> k \in ToSet(r.cgroups)
    BY <1>2, <1>4, <1>5 DEF ToSet
  <1>7. \A k \in Cgroup : k \notin Cidr
    BY KeysDisjoint
  <1> QED
    BY <1>1, <1>3, <1>4, <1>5, <1>6, <1>7 DEF L, IsList, Names

(***************************************************************************)
(* The protocols of a rule with ports are the ones it names, or tcp and    *)
(* udp.                                                                    *)
(***************************************************************************)
LEMMA ProtocolsFacts ==
    ASSUME NEW r, ValidRule(r)
    PROVE  /\ Protocols(r) \in Seq({"tcp", "udp", "icmp"})
           /\ r.ports # <<>> => ToSet(Protocols(r)) =
                  (IF r.protos = <<>> THEN {"tcp", "udp"} ELSE ToSet(r.protos))
  <1>1. r.protos \in Seq(STRING) /\ ToSet(r.protos) \subseteq {"tcp", "udp", "icmp"}
    BY DEF ValidRule, SourceRule, RuleValid
  <1>2. r.protos \in Seq({"tcp", "udp", "icmp"})
    <2>1. \A i \in 1..Len(r.protos) : r.protos[i] \in {"tcp", "udp", "icmp"}
      <3>1. \A i \in DOMAIN r.protos : r.protos[i] \in ToSet(r.protos)
        BY DEF ToSet
      <3> QED
        BY <1>1, <3>1
    <2> QED
      BY <1>1, <2>1
  <1>3. <<"tcp", "udp">> \in Seq({"tcp", "udp", "icmp"})
    OBVIOUS
  <1>4. ToSet(<<"tcp", "udp">>) = {"tcp", "udp"}
    <2>1. DOMAIN <<"tcp", "udp">> = {1, 2}
      OBVIOUS
    <2> QED
      BY <2>1 DEF ToSet
  <1> QED
    BY <1>2, <1>3, <1>4 DEF Protocols

(***************************************************************************)
(* The port entries of a rule: one for each of its ports and protocols.    *)
(***************************************************************************)
LEMMA PortRulesFacts ==
    ASSUME NEW r, ValidRule(r)
    PROVE  /\ IsList(PortRules(r), r, Port)
           /\ \A k \in Port : (\E x \in 1..Len(PortRules(r)) : PortRules(r)[x].key = k)
                                <=> Names(r, k)
  <1> DEFINE Q == Protocols(r)
             P == r.ports
             V == Verdict(r)
             K(i, j) == <<P[i], Q[j]>>
             E(i, j) == [key |-> K(i, j), rule |-> V]
             M(i) == [j \in 1..Len(Q) |-> E(i, j)]
             N == [i \in 1..Len(P) |-> M(i)]
             L == PortRules(r)
  <1>1. P \in Seq(Nat) /\ Q \in Seq({"tcp", "udp", "icmp"}) /\ V \in Rule
    BY ProtocolsFacts DEF ValidRule, SourceRule
  <1>2. /\ DOMAIN P = 1..Len(P) /\ Len(P) \in Nat
        /\ DOMAIN Q = 1..Len(Q) /\ Len(Q) \in Nat
        /\ \A j \in 1..Len(Q) : Q[j] \in {"tcp", "udp", "icmp"}
    BY <1>1
  <1>3. L = FlattenSeq(N)
    BY <1>2 DEF PortRules
  <1>4. ASSUME NEW i \in 1..Len(P), NEW j \in 1..Len(Q)
        PROVE  /\ K(i, j) \in Port
               /\ E(i, j) \in Entry
               /\ E(i, j).key = K(i, j) /\ E(i, j).rule = V
    <2>1. P[i] \in ToSet(P)
      BY <1>2 DEF ToSet
    <2>2. K(i, j) \in Port
      BY <1>2, <2>1 DEF ValidRule
    <2> HIDE DEF K
    <2> QED
      BY <1>1, <2>2 DEF Entry, Key
  <1> HIDE DEF P, Q, V, L, K, E
  <1>5. \A i \in 1..Len(P) : M(i) \in Seq(Entry) /\ Len(M(i)) = Len(Q)
    <2>1. ASSUME NEW i \in 1..Len(P) PROVE M(i) \in [1..Len(Q) -> Entry]
      BY <1>4
    <2>2. ASSUME NEW i \in 1..Len(P) PROVE M(i) \in Seq(Entry) /\ Len(M(i)) = Len(Q)
      <3>1. M(i) \in [1..Len(Q) -> Entry] /\ DOMAIN M(i) = 1..Len(Q)
        BY <2>1
      <3> HIDE DEF M
      <3> QED
        BY <1>2, <3>1
    <2> QED
      BY <2>2
  <1>6. \A i \in 1..Len(P), j \in 1..Len(Q) : M(i)[j] = E(i, j)
    OBVIOUS
  <1> HIDE DEF M
  <1>7. N \in Seq(Seq(Entry)) /\ Len(N) = Len(P) /\ \A i \in 1..Len(P) : N[i] = M(i)
    BY <1>2, <1>5
  <1> HIDE DEF N
  <1>8. PICK own : L \in Seq(Entry) /\ Owned(L, N, Len(N), own)
    BY <1>3, <1>7, FlattenOwned
  <1>9. ASSUME NEW x \in 1..Len(L)
        PROVE  \E i \in 1..Len(P), j \in 1..Len(Q) : L[x] = E(i, j)
    <2>1. own[x] \in 1..Len(P)
      BY <1>7, <1>8 DEF Owned
    <2>2. PICK j \in 1..Len(N[own[x]]) : L[x] = N[own[x]][j]
      BY <1>8 DEF Owned
    <2>3. N[own[x]] = M(own[x]) /\ j \in 1..Len(Q)
      BY <1>5, <1>7, <2>1, <2>2
    <2> QED
      BY <1>6, <2>1, <2>2, <2>3
  <1>10. ASSUME NEW i \in 1..Len(P), NEW j \in 1..Len(Q)
         PROVE  \E x \in 1..Len(L) : L[x].key = K(i, j)
    <2>1. N[i] = M(i) /\ j \in 1..Len(N[i]) /\ i \in 1..Len(N)
      BY <1>5, <1>7
    <2>2. PICK x \in 1..Len(L) : L[x] = N[i][j]
      BY <1>8, <2>1 DEF Owned
    <2> QED
      BY <1>4, <1>6, <2>1, <2>2
  <1>11. IsList(L, r, Port)
    <2>1. \A x \in 1..Len(L) : L[x].key \in Port /\ L[x].rule = V
      BY <1>4, <1>9
    <2> QED
      BY <1>8, <2>1 DEF IsList, V
  <1>12. ASSUME NEW k \in Port, NEW x \in 1..Len(L), L[x].key = k PROVE NamesPort(r, k)
    <2>1. PICK i \in 1..Len(P), j \in 1..Len(Q) : k = K(i, j)
      BY <1>4, <1>9, <1>12
    <2>2. k[1] \in ToSet(P) /\ k[2] \in ToSet(Q)
      BY <1>2, <2>1 DEF K, ToSet
    <2>3. P # <<>>
      BY <2>1
    <2> QED
      BY <2>2, <2>3, ProtocolsFacts DEF NamesPort, P, Q
  <1>13. ASSUME NEW k \in Port, NamesPort(r, k) PROVE \E x \in 1..Len(L) : L[x].key = k
    <2>1. k[1] \in ToSet(P)
      BY <1>13 DEF NamesPort, P
    <2>2. P # <<>>
      BY <2>1, <1>2 DEF ToSet
    <2>3. k[2] \in ToSet(Q)
      BY <1>13, <2>2, ProtocolsFacts DEF NamesPort, P, Q
    <2>4. PICK i \in 1..Len(P), j \in 1..Len(Q) : k[1] = P[i] /\ k[2] = Q[j]
      BY <1>2, <2>1, <2>3 DEF ToSet
    <2>5. k = K(i, j)
      BY <2>4, PortAssumption DEF K
    <2> QED
      BY <1>10, <2>5
  <1>14. \A k \in Port : Names(r, k) <=> NamesPort(r, k)
    BY KeysDisjoint DEF Names
  <1> QED
    BY <1>11, <1>12, <1>13, <1>14 DEF L

-----------------------------------------------------------------------------
(***************************************************************************)
(* The lists the rules of a policy contribute, one per rule.               *)
(***************************************************************************)
CIDRLists(p) == [i \in DOMAIN p.rules |-> CIDRBlocks(p.rules[i])]

CgroupLists(p) == [i \in DOMAIN p.rules |-> CgroupBlocks(p.rules[i])]

PortLists(p) == [i \in DOMAIN p.rules |-> PortRules(p.rules[i])]

(***************************************************************************)
(* lists holds, for each rule of p, the entries with keys in S that the    *)
(* rule names.                                                             *)
(***************************************************************************)
ListsOf(lists, p, S) ==
    /\ lists \in Seq(Seq(Entry)) /\ Len(lists) = Len(p.rules)
    /\ \A i \in DOMAIN p.rules : IsList(lists[i], p.rules[i], S)
    /\ \A i \in DOMAIN p.rules : \A k \in S : Lists(lists, i, k) <=> Names(p.rules[i], k)

(***************************************************************************)
(* A function on 1..n is a sequence of length n.                           *)
(***************************************************************************)
LEMMA SeqOfFunction ==
    ASSUME NEW S, NEW n \in Nat, NEW f \in [1..n -> S]
    PROVE  f \in Seq(S) /\ Len(f) = n
  OBVIOUS

(***************************************************************************)
(* The three lists of a valid policy.                                      *)
(***************************************************************************)
LEMMA ListsFacts ==
    ASSUME NEW p \in Source, Validate(p)
    PROVE  /\ ListsOf(CIDRLists(p), p, Cidr)
           /\ ListsOf(CgroupLists(p), p, Cgroup)
           /\ ListsOf(PortLists(p), p, Port)
  <1>1. /\ p.rules \in Seq(SourceRule)
        /\ \A i \in DOMAIN p.rules : ValidRule(p.rules[i])
    BY ValidFacts
  <1>2. DOMAIN p.rules = 1..Len(p.rules) /\ Len(p.rules) \in Nat
    BY <1>1
  <1>3. ListsOf(CIDRLists(p), p, Cidr)
    <2>1. \A i \in DOMAIN p.rules : CIDRLists(p)[i] = CIDRBlocks(p.rules[i])
      BY DEF CIDRLists
    <2>2. \A i \in DOMAIN p.rules : IsList(CIDRLists(p)[i], p.rules[i], Cidr)
      BY <1>1, <2>1, CIDRBlocksFacts
    <2>3. CIDRLists(p) \in Seq(Seq(Entry)) /\ Len(CIDRLists(p)) = Len(p.rules)
      <3>1. \A i \in 1..Len(p.rules) : CIDRLists(p)[i] \in Seq(Entry)
        BY <1>2, <2>2 DEF IsList
      <3>2. CIDRLists(p) \in [1..Len(p.rules) -> Seq(Entry)]
        BY <1>2, <2>1, <3>1 DEF CIDRLists
      <3> QED
        BY <1>2, <3>2, SeqOfFunction
    <2>4. ASSUME NEW i \in DOMAIN p.rules, NEW k \in Cidr
          PROVE  Lists(CIDRLists(p), i, k) <=> Names(p.rules[i], k)
      BY <1>1, <2>1, CIDRBlocksFacts DEF Lists
    <2> QED
      BY <2>2, <2>3, <2>4 DEF ListsOf
  <1>4. ListsOf(CgroupLists(p), p, Cgroup)
    <2>1. \A i \in DOMAIN p.rules : CgroupLists(p)[i] = CgroupBlocks(p.rules[i])
      BY DEF CgroupLists
    <2>2. \A i \in DOMAIN p.rules : IsList(CgroupLists(p)[i], p.rules[i], Cgroup)
      BY <1>1, <2>1, CgroupBlocksFacts
    <2>3. CgroupLists(p) \in Seq(Seq(Entry)) /\ Len(CgroupLists(p)) = Len(p.rules)
      <3>1. \A i \in 1..Len(p.rules) : CgroupLists(p)[i] \in Seq(Entry)
        BY <1>2, <2>2 DEF IsList
      <3>2. CgroupLists(p) \in [1..Len(p.rules) -> Seq(Entry)]
        BY <1>2, <2>1, <3>1 DEF CgroupLists
      <3> QED
        BY <1>2, <3>2, SeqOfFunction
    <2>4. ASSUME NEW i \in DOMAIN p.rules, NEW k \in Cgroup
          PROVE  Lists(CgroupLists(p), i, k) <=> Names(p.rules[i], k)
      BY <1>1, <2>1, CgroupBlocksFacts DEF Lists
    <2> QED
      BY <2>2, <2>3, <2>4 DEF ListsOf
  <1>5. ListsOf(PortLists(p), p, Port)
    <2>1. \A i \in DOMAIN p.rules : PortLists(p)[i] = PortRules(p.rules[i])
      BY DEF PortLists
    <2>2. \A i \in DOMAIN p.rules : IsList(PortLists(p)[i], p.rules[i], Port)
      BY <1>1, <2>1, PortRulesFacts
    <2>3. PortLists(p) \in Seq(Seq(Entry)) /\ Len(PortLists(p)) = Len(p.rules)
      <3>1. \A i \in 1..Len(p.rules) : PortLists(p)[i] \in Seq(Entry)
        BY <1>2, <2>2 DEF IsList
      <3>2. PortLists(p) \in [1..Len(p.rules) -> Seq(Entry)]
        BY <1>2, <2>1, <3>1 DEF PortLists
      <3> QED
        BY <1>2, <3>2, SeqOfFunction
    <2>4. ASSUME NEW i \in DOMAIN p.rules, NEW k \in Port
          PROVE  Lists(PortLists(p), i, k) <=> Names(p.rules[i], k)
      BY <1>1, <2>1, PortRulesFacts DEF Lists
    <2> QED
      BY <2>2, <2>3, <2>4 DEF ListsOf
  <1> QED
    BY <1>3, <1>4, <1>5

(***************************************************************************)
(* A flattened list has keys of its own map only.                          *)
(***************************************************************************)
LEMMA FlatKeys ==
    ASSUME NEW p, p.rules \in Seq(SourceRule), NEW S, NEW lists, ListsOf(lists, p, S)
    PROVE  /\ FlattenSeq(lists) \in Seq(Entry)
           /\ \A i \in 1..Len(FlattenSeq(lists)) : FlattenSeq(lists)[i].key \in S
           /\ \E own : Owned(FlattenSeq(lists), lists, Len(p.rules), own)
  <1> DEFINE F == FlattenSeq(lists)
  <1>1. PICK own : F \in Seq(Entry) /\ Owned(F, lists, Len(p.rules), own)
    BY FlattenOwned DEF ListsOf
  <1>2. DOMAIN p.rules = 1..Len(p.rules)
    OBVIOUS
  <1> HIDE DEF F
  <1>3. ASSUME NEW i \in 1..Len(F) PROVE F[i].key \in S
    <2>1. own[i] \in DOMAIN p.rules
      BY <1>1, <1>2 DEF Owned
    <2>2. PICK x \in 1..Len(lists[own[i]]) : F[i] = lists[own[i]][x]
      BY <1>1 DEF Owned
    <2> QED
      BY <2>1, <2>2 DEF ListsOf, IsList
  <1> QED
    BY <1>1, <1>3 DEF F

(***************************************************************************)
(* What the last entry for a key in the staging order says of the policy:  *)
(* there is one exactly when a rule names the key, and it carries the      *)
(* verdict of the last rule that does.                                     *)
(***************************************************************************)
LastSays(p, E, k) ==
    /\ EntriesFor(E, k) = {} <=> \A r \in DOMAIN p.rules : ~Names(p.rules[r], k)
    /\ EntriesFor(E, k) # {} =>
          /\ Max(EntriesFor(E, k)) \in DOMAIN E
          /\ \E r \in DOMAIN p.rules :
               /\ Names(p.rules[r], k)
               /\ E[Max(EntriesFor(E, k))].rule = Verdict(p.rules[r])
               /\ \A q \in DOMAIN p.rules : q > r => ~Names(p.rules[q], k)

(***************************************************************************)
(* One of the three lists, as a segment of the whole staging order.        *)
(***************************************************************************)
LEMMA SegmentSays ==
    ASSUME NEW p, p.rules \in Seq(SourceRule), NEW S, NEW lists, ListsOf(lists, p, S),
           NEW E \in Seq(Entry), NEW o \in Nat,
           NEW k \in S, IsSegment(E, FlattenSeq(lists), o, k)
    PROVE  LastSays(p, E, k)
  <1> DEFINE at == EntriesFor(E, k)
  <1>1. PICK own : /\ FlattenSeq(lists) \in Seq(Entry)
                   /\ Owned(FlattenSeq(lists), lists, Len(p.rules), own)
    BY FlatKeys
  <1>2. DOMAIN p.rules = 1..Len(p.rules) /\ Len(p.rules) \in Nat
    OBVIOUS
  <1>3. LastListed(E, lists, Len(p.rules), k)
    BY <1>1, <1>2, SegmentLast
  <1>4. \A r \in DOMAIN p.rules : Lists(lists, r, k) <=> Names(p.rules[r], k)
    BY DEF ListsOf
  <1>5. \A r \in DOMAIN p.rules : \A x \in 1..Len(lists[r]) : lists[r][x].rule = Verdict(p.rules[r])
    BY DEF ListsOf, IsList
  <1>6. at = {} <=> \A r \in DOMAIN p.rules : ~Names(p.rules[r], k)
    BY <1>2, <1>3, <1>4 DEF LastListed
  <1>7. ASSUME at # {}
        PROVE  /\ Max(at) \in DOMAIN E
               /\ \E r \in DOMAIN p.rules :
                    /\ Names(p.rules[r], k)
                    /\ E[Max(at)].rule = Verdict(p.rules[r])
                    /\ \A q \in DOMAIN p.rules : q > r => ~Names(p.rules[q], k)
    <2>1. PICK r \in 1..Len(p.rules) :
              /\ \E x \in 1..Len(lists[r]) : lists[r][x].key = k /\ E[Max(at)] = lists[r][x]
              /\ \A q \in 1..Len(p.rules) : q > r => ~Lists(lists, q, k)
      BY <1>3, <1>7 DEF LastListed
    <2>2. Lists(lists, r, k) /\ E[Max(at)].rule = Verdict(p.rules[r])
      BY <1>2, <1>5, <2>1 DEF Lists
    <2> QED
      BY <1>2, <1>3, <1>4, <1>7, <2>1, <2>2 DEF LastListed
  <1> QED
    BY <1>6, <1>7 DEF LastSays

(***************************************************************************)
(* The entries of a valid policy, in the order they are staged.            *)
(***************************************************************************)
LEMMA CompileSays ==
    ASSUME NEW p \in Source, Validate(p)
    PROVE  /\ Compile(p) \in Seq(Entry)
           /\ \A k \in Key : LastSays(p, Compile(p), k)
  <1> DEFINE A == FlattenSeq(CIDRLists(p))
             B == FlattenSeq(CgroupLists(p))
             C == FlattenSeq(PortLists(p))
             E == Compile(p)
  <1>1. E = A \o B \o C
    BY DEF Compile, CIDRLists, CgroupLists, PortLists
  <1>2. p.rules \in Seq(SourceRule)
    BY ValidFacts
  <1>3. /\ ListsOf(CIDRLists(p), p, Cidr)
        /\ ListsOf(CgroupLists(p), p, Cgroup)
        /\ ListsOf(PortLists(p), p, Port)
    BY ListsFacts
  <1>4. /\ A \in Seq(Entry) /\ \A i \in 1..Len(A) : A[i].key \in Cidr
        /\ B \in Seq(Entry) /\ \A i \in 1..Len(B) : B[i].key \in Cgroup
        /\ C \in Seq(Entry) /\ \A i \in 1..Len(C) : C[i].key \in Port
    BY <1>2, <1>3, FlatKeys
  <1> DEFINE a == Len(A)
             b == Len(B)
             c == Len(C)
  <1> HIDE DEF A, B, C, E
  <1>5. a \in Nat /\ b \in Nat /\ c \in Nat
    BY <1>4
  <1>6. E \in Seq(Entry) /\ Len(E) = a + b + c
    BY <1>1, <1>4
  <1>7. /\ \A i \in 1..a : E[0 + i] = A[i]
        /\ \A i \in 1..b : E[a + i] = B[i]
        /\ \A i \in 1..c : E[(a + b) + i] = C[i]
    BY <1>1, <1>4
  <1>8. \A i \in 1..Len(E) : /\ E[i].key \in Cidr \/ i \notin (0 + 1)..(0 + a)
                             /\ E[i].key \in Cgroup \/ i \notin (a + 1)..(a + b)
                             /\ E[i].key \in Port \/ i \notin ((a + b) + 1)..((a + b) + c)
    <2>1. ASSUME NEW i \in (0 + 1)..(0 + a) PROVE E[i].key \in Cidr
      <3>1. i \in 1..a /\ 0 + i = i
        BY <1>5
      <3> QED
        BY <1>4, <1>7, <3>1
    <2>2. ASSUME NEW i \in (a + 1)..(a + b) PROVE E[i].key \in Cgroup
      <3>1. i - a \in 1..b /\ a + (i - a) = i
        BY <1>5
      <3> QED
        BY <1>4, <1>7, <3>1
    <2>3. ASSUME NEW i \in ((a + b) + 1)..((a + b) + c) PROVE E[i].key \in Port
      <3>1. i - (a + b) \in 1..c /\ (a + b) + (i - (a + b)) = i
        BY <1>5
      <3> QED
        BY <1>4, <1>7, <3>1
    <2> QED
      BY <2>1, <2>2, <2>3
  <1>9. \A i \in 1..Len(E) : \/ i \in (0 + 1)..(0 + a)
                             \/ i \in (a + 1)..(a + b)
                             \/ i \in ((a + b) + 1)..((a + b) + c)
    BY <1>5, <1>6
  <1>10. ASSUME NEW k \in Cidr PROVE LastSays(p, E, k)
    <2>1. IsSegment(E, A, 0, k)
      BY <1>5, <1>6, <1>7, <1>8, <1>9, KeysDisjoint DEF IsSegment
    <2> QED
      BY <1>2, <1>3, <1>6, <2>1, SegmentSays DEF A
  <1>11. ASSUME NEW k \in Cgroup PROVE LastSays(p, E, k)
    <2>1. IsSegment(E, B, a, k)
      BY <1>5, <1>6, <1>7, <1>8, <1>9, KeysDisjoint DEF IsSegment
    <2> QED
      BY <1>2, <1>3, <1>5, <1>6, <2>1, SegmentSays DEF B
  <1>12. ASSUME NEW k \in Port PROVE LastSays(p, E, k)
    <2>1. IsSegment(E, C, a + b, k)
      BY <1>5, <1>6, <1>7, <1>8, <1>9, KeysDisjoint DEF IsSegment
    <2>2. a + b \in Nat
      BY <1>5
    <2> QED
      BY <1>2, <1>3, <1>6, <2>1, <2>2, SegmentSays DEF C
  <1> QED
    BY <1>6, <1>10, <1>11, <1>12 DEF E, Key

(***************************************************************************)
(* The table a valid policy leaves in an empty generation: an entry        *)
(* exactly for the keys its rules name, with the verdict of the last rule  *)
(* that names the key.                                                     *)
(***************************************************************************)
LEMMA TableSays ==
    ASSUME NEW p \in Source, Validate(p), NEW k \in Key, NEW t, t = TableOf(Compile(p))
    PROVE  \/ /\ t[k] = NoRule
              /\ \A r \in DOMAIN p.rules : ~Names(p.rules[r], k)
           \/ \E r \in DOMAIN p.rules :
                 /\ t[k] = Verdict(p.rules[r])
                 /\ Names(p.rules[r], k)
                 /\ \A q \in DOMAIN p.rules : q > r => ~Names(p.rules[q], k)
  <1> DEFINE E == Compile(p)
  <1>1. LastSays(p, E, k)
    BY CompileSays
  <1> HIDE DEF E
  <1>2. t[k] = IF EntriesFor(E, k) = {} THEN NoRule ELSE E[Max(EntriesFor(E, k))].rule
    BY DEF TableOf, EntriesFor, E
  <1> QED
    BY <1>1, <1>2 DEF LastSays

(***************************************************************************)
(* It is a table of rules.                                                 *)
(***************************************************************************)
LEMMA TableTyped ==
    ASSUME NEW p \in Source, Validate(p)
    PROVE  TableOf(Compile(p)) \in Table
  <1> DEFINE t == TableOf(Compile(p))
  <1>1. \A r \in DOMAIN p.rules : Verdict(p.rules[r]) \in Rule
    BY VerdictAssumption
  <1>2. ASSUME NEW k \in Key PROVE t[k] \in Rule \cup {NoRule}
    <2> HIDE DEF t
    <2>1. t = TableOf(Compile(p))
      BY DEF t
    <2> QED
      BY <1>1, <2>1, TableSays
  <1> QED
    BY <1>2 DEF TableOf, Table

(***************************************************************************)
(* What the table of a valid policy holds under a key says whether a rule  *)
(* names the key, and under a port key the action of a rule that does.     *)
(***************************************************************************)
LEMMA TableFacts ==
    ASSUME NEW p \in Source, Validate(p), NEW t, t = TableOf(Compile(p)), NEW k \in Key
    PROVE  /\ t[k] # NoRule <=> \E r \in DOMAIN p.rules : Names(p.rules[r], k)
           /\ t[k] # NoRule =>
                 \E r \in DOMAIN p.rules :
                    /\ Names(p.rules[r], k)
                    /\ t[k] \in Rule
                    /\ t[k] \in AllowRule <=> p.rules[r].action = "allow"
                    /\ p.rules[r].action \in {"allow", "deny"}
  <1>1. \A r \in DOMAIN p.rules :
           /\ Verdict(p.rules[r]) \in Rule
           /\ Verdict(p.rules[r]) \in AllowRule <=> p.rules[r].action = "allow"
           /\ p.rules[r].action \in {"allow", "deny"}
    BY VerdictAssumption DEF Validate, RuleValid
  <1>2. \/ /\ t[k] = NoRule
           /\ \A r \in DOMAIN p.rules : ~Names(p.rules[r], k)
        \/ \E r \in DOMAIN p.rules : t[k] = Verdict(p.rules[r]) /\ Names(p.rules[r], k)
    BY TableSays, Zenon
  <1>3. \A r \in DOMAIN p.rules : Verdict(p.rules[r]) # NoRule
    BY <1>1, NoRuleAssumption, Zenon
  <1>4. t[k] # NoRule <=> \E r \in DOMAIN p.rules : Names(p.rules[r], k)
    BY <1>2, <1>3, Zenon
  <1>5. ASSUME t[k] # NoRule
        PROVE  \E r \in DOMAIN p.rules :
                    /\ Names(p.rules[r], k)
                    /\ t[k] \in Rule
                    /\ t[k] \in AllowRule <=> p.rules[r].action = "allow"
                    /\ p.rules[r].action \in {"allow", "deny"}
    <2>1. PICK r \in DOMAIN p.rules : t[k] = Verdict(p.rules[r]) /\ Names(p.rules[r], k)
      BY <1>2, <1>5, Zenon
    <2>2. /\ t[k] \in Rule
          /\ t[k] \in AllowRule <=> p.rules[r].action = "allow"
          /\ p.rules[r].action \in {"allow", "deny"}
      BY <1>1, <2>1, Zenon
    <2> QED
      BY <2>1, <2>2, Zenon
  <1> QED
    BY <1>4, <1>5, Zenon

(***************************************************************************)
(* A plain rule applies to a packet exactly when it names one of the keys  *)
(* the packet is looked up with, and it denies if that is no port.         *)
(***************************************************************************)
LEMMA PlainApplies ==
    ASSUME NEW r \in SourceRule, PlainRule(r), NEW pkt \in PacketFields
    PROVE  /\ Applies(r, pkt) <=> \E k \in pkt.cgroup \cup pkt.src \cup pkt.port : Names(r, k)
           /\ \A k \in pkt.cgroup \cup pkt.src : Names(r, k) => r.action = "deny"
  <1>1. /\ r.cidrs \in Seq(CidrText) /\ r.cgroups \in Seq(Cgroup)
        /\ r.ports \in Seq(Nat) /\ r.protos \in Seq(STRING)
    BY DEF SourceRule
  <1>2. pkt.cgroup \subseteq Cgroup /\ pkt.src \subseteq Cidr /\ pkt.port \subseteq Port
    BY DEF PacketFields
  <1>3. /\ r.cidrs = <<>> => ToSet(r.cidrs) = {}
        /\ r.cgroups = <<>> => ToSet(r.cgroups) = {}
        /\ r.ports = <<>> => ToSet(r.ports) = {}
    BY DEF ToSet
  <1>4. /\ \A k \in pkt.src : Names(r, k) <=> \E x \in ToSet(r.cidrs) : CidrOf[x] = k
        /\ \A k \in pkt.cgroup : Names(r, k) <=> k \in ToSet(r.cgroups)
        /\ \A k \in pkt.port : Names(r, k) <=> NamesPort(r, k)
    BY <1>2, KeysDisjoint DEF Names
  <1>5. \A k \in pkt.port : NamesPort(r, k) =>
           k[1] \in ToSet(r.ports) /\ (r.protos # <<>> => k[2] \in ToSet(r.protos))
    BY DEF NamesPort
  <1>6. CASE r.ports # <<>> /\ r.cidrs = <<>> /\ r.cgroups = <<>>
    BY <1>3, <1>4, <1>5, <1>6 DEF Applies
  <1>7. CASE r.action = "deny" /\ r.ports = <<>> /\ r.protos = <<>>
             /\ r.cidrs # <<>> /\ r.cgroups = <<>>
    BY <1>3, <1>4, <1>5, <1>7 DEF Applies
  <1>8. CASE r.action = "deny" /\ r.ports = <<>> /\ r.protos = <<>>
             /\ r.cidrs = <<>> /\ r.cgroups # <<>>
    BY <1>3, <1>4, <1>5, <1>8 DEF Applies
  <1> QED
    BY <1>6, <1>7, <1>8 DEF PlainRule

(***************************************************************************)
(* The compiler is correct for the policies the maps can express: for      *)
(* every plain policy Validate accepts and every packet, the lookups of    *)
(* the XDP program on the staged table give the packet the action of a     *)
(* rule that applies to it, or the default if none does.                   *)
(***************************************************************************)
THEOREM CompileCorrect ==
    ASSUME NEW p \in Source, Validate(p), Plain(p), NEW pkt \in Packet
    PROVE  Enforces(TableOf(Compile(p)), p, pkt)
  <1> DEFINE t == TableOf(Compile(p))
             hits == pkt.cgroup \cup pkt.src
             keys == hits \cup pkt.port
             applying == {i \in DOMAIN p.rules : Applies(p.rules[i], pkt)}
  <1>1. /\ pkt \in PacketFields
        /\ keys \subseteq Key
        /\ pkt.port \subseteq Port /\ pkt.src \subseteq Cidr /\ pkt.cgroup \subseteq Cgroup
    BY PacketAssumption DEF PacketFields, Key
  <1>2. \A i \in DOMAIN p.rules : p.rules[i] \in SourceRule /\ PlainRule(p.rules[i])
    BY ValidFacts DEF Plain
  <1>3. \A k \in Key :
           /\ t[k] # NoRule <=> \E r \in DOMAIN p.rules : Names(p.rules[r], k)
           /\ t[k] # NoRule =>
                 \E r \in DOMAIN p.rules :
                    /\ Names(p.rules[r], k)
                    /\ t[k] \in Rule
                    /\ t[k] \in AllowRule <=> p.rules[r].action = "allow"
                    /\ p.rules[r].action \in {"allow", "deny"}
    BY TableFacts
  <1>4. \A i \in DOMAIN p.rules :
           /\ i \in applying <=> \E k \in keys : Names(p.rules[i], k)
           /\ \A k \in hits : Names(p.rules[i], k) => p.rules[i].action = "deny"
    BY <1>1, <1>2, PlainApplies
  <1>5. \A i \in DOMAIN p.rules : p.rules[i].action \in {"allow", "deny"}
    BY DEF Validate, RuleValid
  <1>6. Drops(t, pkt) <=> \/ \E k \in hits : t[k] # NoRule
                          \/ \E k \in pkt.port : t[k] \in Rule \ AllowRule
    BY DEF Drops, CgroupHit, LpmHit, PortDeny
  <1>7. Says(p, pkt) = IF applying = {} THEN {"allow"} ELSE {p.rules[i].action : i \in applying}
    BY DEF Says, Plain
  <1> HIDE DEF t, applying
  <1>8. ASSUME Drops(t, pkt) PROVE "deny" \in Says(p, pkt)
    <2> SUFFICES \E i \in applying : p.rules[i].action = "deny"
      BY <1>7
    <2>1. applying \subseteq DOMAIN p.rules
      BY DEF applying
    <2>2. ASSUME NEW k \in hits, t[k] # NoRule
          PROVE  \E i \in applying : p.rules[i].action = "deny"
      <3>1. PICK r \in DOMAIN p.rules : Names(p.rules[r], k)
        BY <1>1, <1>3, <2>2
      <3> QED
        BY <1>4, <3>1
    <2>3. ASSUME NEW k \in pkt.port, t[k] \in Rule \ AllowRule
          PROVE  \E i \in applying : p.rules[i].action = "deny"
      <3>1. k \in Key /\ t[k] # NoRule
        BY <1>1, <2>3, NoRuleAssumption
      <3>2. PICK r \in DOMAIN p.rules :
                    /\ Names(p.rules[r], k)
                    /\ t[k] \in AllowRule <=> p.rules[r].action = "allow"
                    /\ p.rules[r].action \in {"allow", "deny"}
        BY <1>3, <3>1
      <3> QED
        BY <1>4, <2>3, <3>2
    <2> QED
      BY <1>6, <1>8, <2>2, <2>3
  <1>9. ASSUME ~Drops(t, pkt) PROVE "allow" \in Says(p, pkt)
    <2>1. CASE applying = {}
      BY <1>7, <2>1
    <2>2. ASSUME NEW i \in applying PROVE "allow" \in Says(p, pkt)
      <3>1. i \in DOMAIN p.rules
        BY DEF applying
      <3>2. PICK k \in keys : Names(p.rules[i], k)
        BY <1>4, <3>1
      <3>3. k \in Key /\ t[k] # NoRule
        BY <1>1, <1>3, <3>1, <3>2
      <3>4. k \in pkt.port /\ t[k] \notin Rule \ AllowRule
        BY <1>6, <1>9, <3>2, <3>3
      <3>5. PICK r \in DOMAIN p.rules :
                    /\ Names(p.rules[r], k)
                    /\ t[k] \in Rule
                    /\ t[k] \in AllowRule <=> p.rules[r].action = "allow"
        BY <1>3, <3>3
      <3>6. r \in applying /\ p.rules[r].action = "allow"
        BY <1>4, <3>2, <3>4, <3>5
      <3> QED
        BY <1>7, <3>6
    <2> QED
      BY <2>1, <2>2
  <1> QED
    BY <1>8, <1>9 DEF Enforces, t

-----------------------------------------------------------------------------
(***************************************************************************)
(* The server.  The locals of the goroutines, as the actions update them,  *)
(* and the history of installs.                                            *)
(***************************************************************************)
ConnState ==
    [at : Stage, peer : Peer \cup {Nobody, None}, role : Role \cup {None},
     req : Request \cup {None}, resp : Response \cup {None}, since : Nat]

Install == [by : Conn, source : Source]

ServerTypes ==
    /\ listening \in BOOLEAN /\ live \in BOOLEAN
    /\ adminUIDs \subseteq Nat /\ operatorUIDs \subseteq Nat
    /\ generation \in Nat
    /\ table \in Table
    /\ conn \in [Conn -> ConnState]
    /\ installs \in Seq(Install)
    /\ Len(installs) = generation

(***************************************************************************)
(* The active table is the one compiled from the policy last installed,    *)
(* which Validate accepted.                                                *)
(***************************************************************************)
TableInstalled ==
    IF installs = <<>> THEN table = EmptyTable
    ELSE /\ Last(installs).source \in Source
         /\ Validate(Last(installs).source)
         /\ table = TableOf(Compile(Last(installs).source))

(***************************************************************************)
(* The response x of connection c is true of the installs ins up to        *)
(* generation gen.                                                         *)
(***************************************************************************)
Truthful(x, c, gen, ins) ==
    IF ~x.resp.success THEN \A g \in DOMAIN ins : ins[g].by # c
    ELSE IF x.req.command = "apply_policy"
    THEN x.resp.gen \in DOMAIN ins /\ ins[x.resp.gen] = [by |-> c, source |-> x.req.source]
    ELSE x.resp.gen \in x.since..gen

Privileged(peer, adm, op) == peer.uid \in adm \cup op \/ peer.gid \in AdminGIDs

(***************************************************************************)
(* What holds of the locals x of connection c, with administrators adm,    *)
(* operators op, active generation gen and installs ins: it has installed  *)
(* nothing before it answers, its answer is truthful, and past the RBAC    *)
(* check an apply_policy comes from an Admin or Operator.                  *)
(***************************************************************************)
ConnOK(x, c, adm, op, gen, ins) ==
    /\ x.at \in {"received", "allowed", "apply"} => x.req \in Request
    /\ x.at \in {"new", "accepted", "decoding"} => x.req = None
    /\ x.at = "apply" => /\ x.req.command = "apply_policy" /\ x.req.lower
                         /\ x.req.source \in Source
                         /\ Validate(x.req.source)
    /\ x.since <= gen
    /\ x.at # "reply" => x.resp = None
    /\ x.at = "reply" => Truthful(x, c, gen, ins)
    /\ x.at \notin {"reply", "closed"} => \A g \in DOMAIN ins : ins[g].by # c
    /\ x.at = "accepted" => x.peer \in Peer
    /\ x.at \in {"decoding", "received", "allowed", "apply"} /\ x.role \in {"Admin", "Operator"}
          => Privileged(x.peer, adm, op)
    /\ x.at \in {"allowed", "apply"} => Permitted(x.role, x.req.command)

Conns == \A c \in Conn : ConnOK(conn[c], c, adminUIDs, operatorUIDs, generation, installs)

ServerInv == ServerTypes /\ TableInstalled /\ Conns

(***************************************************************************)
(* Registering more uids takes no privilege away.                          *)
(***************************************************************************)
LEMMA RegisterOK ==
    ASSUME NEW x, NEW c, NEW adm, NEW op, NEW gen, NEW ins, ConnOK(x, c, adm, op, gen, ins),
           NEW adm2, NEW op2, adm \subseteq adm2, op \subseteq op2
    PROVE  ConnOK(x, c, adm2, op2, gen, ins)
  BY DEF ConnOK, Privileged

(***************************************************************************)
(* Another connection's install makes no answer untrue.                    *)
(***************************************************************************)
LEMMA InstallOK ==
    ASSUME NEW x \in ConnState, NEW c, NEW adm, NEW op, NEW gen \in Nat, NEW ins \in Seq(Install),
           ConnOK(x, c, adm, op, gen, ins), NEW e \in Install, e.by # c
    PROVE  ConnOK(x, c, adm, op, gen + 1, Append(ins, e))
  <1> DEFINE new == Append(ins, e)
  <1>1. /\ DOMAIN ins = 1..Len(ins) /\ DOMAIN new = 1..(Len(ins) + 1) /\ Len(ins) \in Nat
        /\ \A g \in 1..Len(ins) : new[g] = ins[g]
        /\ new[Len(ins) + 1] = e
    OBVIOUS
  <1> HIDE DEF new
  <1>2. (\A g \in DOMAIN ins : ins[g].by # c) => \A g \in DOMAIN new : new[g].by # c
    BY <1>1
  <1>3. \A g \in DOMAIN ins : g \in DOMAIN new /\ new[g] = ins[g]
    BY <1>1
  <1>4. x.since \in Nat
    BY DEF ConnState
  <1>5. x.since <= gen => x.since <= gen + 1
    BY <1>4
  <1>6. \A n : n \in x.since..gen => n \in x.since..(gen + 1)
    BY <1>4
  <1>7. Truthful(x, c, gen, ins) => Truthful(x, c, gen + 1, new)
    BY <1>2, <1>3, <1>6 DEF Truthful
  <1>8. ConnOK(x, c, adm, op, gen + 1, new)
    BY <1>2, <1>5, <1>7 DEF ConnOK
  <1> QED
    BY <1>8 DEF new

(***************************************************************************)
(* A connection's own step, with nothing else changed.                     *)
(***************************************************************************)
LEMMA ConnStep ==
    ASSUME ServerInv, NEW c \in Conn, NEW x \in ConnState,
           ConnOK(x, c, adminUIDs, operatorUIDs, generation, installs),
           conn' = [conn EXCEPT ![c] = x],
           UNCHANGED <<server, rbac, rules>>
    PROVE  ServerInv'
  <1> USE DEF server, rbac, rules
  <1>1. ServerTypes'
    BY DEF ServerInv, ServerTypes
  <1>2. TableInstalled'
    BY DEF ServerInv, TableInstalled
  <1>3. conn'[c] = x /\ \A d \in Conn \ {c} : conn'[d] = conn[d]
    BY DEF ServerInv, ServerTypes
  <1>4. Conns'
    BY <1>3 DEF ServerInv, Conns
  <1> QED
    BY <1>1, <1>2, <1>4 DEF ServerInv

(***************************************************************************)
(* What the invariant says of one connection.                              *)
(***************************************************************************)
LEMMA ConnFacts ==
    ASSUME ServerInv, NEW c \in Conn
    PROVE  /\ conn[c] \in ConnState
           /\ ConnOK(conn[c], c, adminUIDs, operatorUIDs, generation, installs)
           /\ generation \in Nat
  BY DEF ServerInv, ServerTypes, Conns

(***************************************************************************)
(* A request that fails before it is applied has installed nothing.        *)
(***************************************************************************)
LEMMA FailureStep ==
    ASSUME ServerInv, NEW c \in Conn, NEW from \in {"decoding", "received", "allowed", "apply"},
           Respond(c, from, Failure), UNCHANGED <<server, rbac, rules>>
    PROVE  ServerInv'
  <1> DEFINE y == conn[c]
             x == [y EXCEPT !.at = "reply", !.resp = Failure]
  <1>1. y.at = from /\ conn' = [conn EXCEPT ![c] = x]
    BY DEF Respond, Step
  <1>2. y \in ConnState /\ ConnOK(y, c, adminUIDs, operatorUIDs, generation, installs)
    BY ConnFacts
  <1> HIDE DEF y
  <1>3. x \in ConnState /\ x.at = "reply" /\ x.since = y.since /\ ~x.resp.success
    BY <1>2 DEF ConnState, Stage, Response, Failure
  <1> HIDE DEF x
  <1>4. ConnOK(x, c, adminUIDs, operatorUIDs, generation, installs)
    BY <1>1, <1>2, <1>3 DEF ConnOK, Truthful
  <1> QED
    BY <1>1, <1>3, <1>4, ConnStep

(***************************************************************************)
(* Accept, Identify and the reading of the request.                        *)
(***************************************************************************)
LEMMA ReadSteps ==
    ASSUME ServerInv, NEW c \in Conn,
           Accept(c) \/ Identify(c) \/ Receive(c) \/ ReceiveGarbage(c) \/ ReceiveNothing(c)
    PROVE  ServerInv'
  <1> DEFINE y == conn[c]
  <1>1. /\ y \in ConnState /\ ConnOK(y, c, adminUIDs, operatorUIDs, generation, installs)
        /\ generation \in Nat
    BY ConnFacts
  <1>2. CASE Accept(c)
    <2>1. PICK p \in Peer :
              Step(c, "new", [Fresh EXCEPT !.at = "accepted", !.peer = p, !.since = generation])
      BY <1>2 DEF Accept
    <2> DEFINE x == [Fresh EXCEPT !.at = "accepted", !.peer = p, !.since = generation]
    <2>2. /\ x \in ConnState /\ x.at = "accepted" /\ x.since = generation
          /\ x.resp = None /\ x.peer \in Peer /\ x.req = None
      BY <1>1 DEF Fresh, ConnState, Stage
    <2>3. y.at = "new" /\ conn' = [conn EXCEPT ![c] = x] /\ UNCHANGED <<server, rbac, rules>>
      BY <1>2, <2>1 DEF Accept, Step
    <2> HIDE DEF x, y
    <2>4. ConnOK(x, c, adminUIDs, operatorUIDs, generation, installs)
      BY <1>1, <2>2, <2>3 DEF ConnOK
    <2> QED
      BY <2>2, <2>3, <2>4, ConnStep
  <1>3. CASE Identify(c)
    <2>1. y.at = "accepted" /\ UNCHANGED <<server, rbac, rules>>
      BY <1>3 DEF Identify, Step
    <2>2. CASE Step(c, "accepted", [y EXCEPT !.at = "decoding", !.role = ResolveRole(y.peer)])
      <3> DEFINE r == ResolveRole(y.peer)
                 x == [y EXCEPT !.at = "decoding", !.role = r]
      <3>1. conn' = [conn EXCEPT ![c] = x]
        BY <2>2 DEF Step
      <3>2. r \in Role /\ (r \in {"Admin", "Operator"} => Privileged(y.peer, adminUIDs, operatorUIDs))
        BY DEF ResolveRole, Role, Privileged
      <3> HIDE DEF y, r
      <3>3. /\ x \in ConnState /\ x.at = "decoding" /\ x.since = y.since
            /\ x.resp = y.resp /\ x.peer = y.peer /\ x.role = r /\ x.req = y.req
        BY <1>1, <3>2 DEF ConnState, Stage
      <3> HIDE DEF x
      <3>4. ConnOK(x, c, adminUIDs, operatorUIDs, generation, installs)
        BY <1>1, <2>1, <3>2, <3>3 DEF ConnOK
      <3> QED
        BY <2>1, <3>1, <3>3, <3>4, ConnStep
    <2>3. CASE Step(c, "accepted", [y EXCEPT !.at = "decoding", !.peer = Nobody, !.role = "Viewer"])
      <3> DEFINE x == [y EXCEPT !.at = "decoding", !.peer = Nobody, !.role = "Viewer"]
      <3>1. conn' = [conn EXCEPT ![c] = x]
        BY <2>3 DEF Step
      <3> HIDE DEF y
      <3>2. /\ x \in ConnState /\ x.at = "decoding" /\ x.since = y.since
            /\ x.resp = y.resp /\ x.role = "Viewer" /\ x.req = y.req
        BY <1>1 DEF ConnState, Stage, Role
      <3> HIDE DEF x
      <3>3. ConnOK(x, c, adminUIDs, operatorUIDs, generation, installs)
        BY <1>1, <2>1, <3>2 DEF ConnOK
      <3> QED
        BY <2>1, <3>1, <3>2, <3>3, ConnStep
    <2> QED
      BY <1>3, <2>2, <2>3 DEF Identify
  <1>4. CASE Receive(c)
    <2>1. PICK r \in Request : Step(c, "decoding", [y EXCEPT !.at = "received", !.req = r])
      BY <1>4 DEF Receive
    <2> DEFINE x == [y EXCEPT !.at = "received", !.req = r]
    <2>2. y.at = "decoding" /\ conn' = [conn EXCEPT ![c] = x] /\ UNCHANGED <<server, rbac, rules>>
      BY <1>4, <2>1 DEF Receive, Step
    <2> HIDE DEF y
    <2>3. /\ x \in ConnState /\ x.at = "received" /\ x.since = y.since
          /\ x.resp = y.resp /\ x.peer = y.peer /\ x.role = y.role /\ x.req = r
      BY <1>1 DEF ConnState, Stage
    <2> HIDE DEF x
    <2>4. ConnOK(x, c, adminUIDs, operatorUIDs, generation, installs)
      BY <1>1, <2>2, <2>3 DEF ConnOK
    <2> QED
      BY <2>2, <2>3, <2>4, ConnStep
  <1>5. CASE ReceiveGarbage(c)
    BY <1>5, FailureStep DEF ReceiveGarbage
  <1>6. CASE ReceiveNothing(c)
    <2>1. conn' = [conn EXCEPT ![c] = Closed] /\ UNCHANGED <<server, rbac, rules>>
      BY <1>6 DEF ReceiveNothing, Step
    <2>2. Closed \in ConnState /\ ConnOK(Closed, c, adminUIDs, operatorUIDs, generation, installs)
      BY <1>1 DEF Closed, Fresh, ConnState, Stage, ConnOK
    <2> QED
      BY <2>1, <2>2, ConnStep
  <1> QED
    BY <1>2, <1>3, <1>4, <1>5, <1>6

(***************************************************************************)
(* The RBAC check and the dispatch: only a permitted, valid apply_policy   *)
(* gets through to ApplyPolicyAtomic, and a status answers with the        *)
(* generation that is active.                                              *)
(***************************************************************************)
LEMMA DecideSteps ==
    ASSUME ServerInv, NEW c \in Conn, Authorize(c) \/ Dispatch(c)
    PROVE  ServerInv'
  <1> DEFINE y == conn[c]
  <1>1. /\ y \in ConnState /\ ConnOK(y, c, adminUIDs, operatorUIDs, generation, installs)
        /\ generation \in Nat
    BY ConnFacts
  <1>2. CASE Authorize(c)
    <2>1. y.at = "received" /\ UNCHANGED <<server, rbac, rules>>
      BY <1>2 DEF Authorize
    <2>2. CASE Permitted(y.role, y.req.command)
      <3> DEFINE x == [y EXCEPT !.at = "allowed"]
      <3>1. conn' = [conn EXCEPT ![c] = x]
        BY <1>2, <2>2 DEF Authorize, Step
      <3> HIDE DEF y
      <3>2. /\ x \in ConnState /\ x.at = "allowed" /\ x.since = y.since /\ x.req = y.req
            /\ x.resp = y.resp /\ x.peer = y.peer /\ x.role = y.role
        BY <1>1 DEF ConnState, Stage
      <3> HIDE DEF x
      <3>3. ConnOK(x, c, adminUIDs, operatorUIDs, generation, installs)
        BY <1>1, <2>1, <2>2, <3>2 DEF ConnOK
      <3> QED
        BY <2>1, <3>1, <3>2, <3>3, ConnStep
    <2>3. CASE ~Permitted(y.role, y.req.command)
      <3>1. Respond(c, "received", Failure)
        BY <1>2, <2>3 DEF Authorize
      <3> QED
        BY <2>1, <3>1, FailureStep
    <2> QED
      BY <2>2, <2>3
  <1>3. CASE Dispatch(c)
    <2>1. y.at = "allowed" /\ UNCHANGED <<server, rbac, rules>>
      BY <1>3 DEF Dispatch
    <2>2. CASE Respond(c, "allowed", Failure)
      BY <2>1, <2>2, FailureStep
    <2>3. CASE /\ y.req.command = "apply_policy" /\ y.req.lower /\ Validate(y.req.source)
               /\ Step(c, "allowed", [y EXCEPT !.at = "apply"])
      <3> DEFINE x == [y EXCEPT !.at = "apply"]
      <3>1. conn' = [conn EXCEPT ![c] = x]
        BY <2>3 DEF Step
      <3>2. y.req.command = "apply_policy" /\ y.req.lower /\ Validate(y.req.source)
        BY <2>3
      <3> HIDE DEF y
      <3>3. /\ x \in ConnState /\ x.at = "apply" /\ x.since = y.since /\ x.req = y.req
            /\ x.resp = y.resp /\ x.peer = y.peer /\ x.role = y.role
        BY <1>1 DEF ConnState, Stage
      <3>4. y.req \in Request
        BY <1>1, <2>1 DEF ConnOK
      <3>5. y.req.source \in Source
        BY <3>2, <3>4, RequestAssumption DEF IsRequest
      <3> HIDE DEF x
      <3>6. ConnOK(x, c, adminUIDs, operatorUIDs, generation, installs)
        BY <1>1, <2>1, <3>2, <3>3, <3>5 DEF ConnOK
      <3> QED
        BY <2>1, <3>1, <3>3, <3>6, ConnStep
    <2>4. CASE /\ y.req.command # "apply_policy"
               /\ Respond(c, "allowed", [success |-> TRUE, gen |-> generation])
      <3> DEFINE x == [y EXCEPT !.at = "reply", !.resp = [success |-> TRUE, gen |-> generation]]
      <3>1. conn' = [conn EXCEPT ![c] = x]
        BY <2>4 DEF Respond, Step
      <3>2. y.req.command # "apply_policy"
        BY <2>4
      <3> HIDE DEF y
      <3>3. [success |-> TRUE, gen |-> generation] \in Response
        BY <1>1 DEF Response
      <3>4. /\ x \in ConnState /\ x.at = "reply" /\ x.since = y.since /\ x.req = y.req
            /\ x.resp = [success |-> TRUE, gen |-> generation]
        BY <1>1, <3>3 DEF ConnState, Stage
      <3>5. x.resp.success /\ x.resp.gen = generation
        BY <3>4
      <3> HIDE DEF x
      <3>6. y.since \in Nat /\ y.since <= generation
        BY <1>1 DEF ConnOK, ConnState
      <3>7. x.resp.gen \in x.since..generation
        BY <1>1, <3>4, <3>5, <3>6
      <3>8. ConnOK(x, c, adminUIDs, operatorUIDs, generation, installs)
        BY <3>2, <3>4, <3>5, <3>6, <3>7 DEF ConnOK, Truthful
      <3> QED
        BY <2>1, <3>1, <3>4, <3>8, ConnStep
    <2> QED
      BY <1>3, <2>2, <2>3, <2>4 DEF Dispatch
  <1> QED
    BY <1>2, <1>3

(***************************************************************************)
(* ApplyPolicyAtomic succeeds: the new generation is the one the response  *)
(* names, and its table the one compiled from the request's policy.        *)
(***************************************************************************)
LEMMA ApplyStep ==
    ASSUME ServerInv, NEW c \in Conn, Apply(c)
    PROVE  ServerInv'
  <1> DEFINE y == conn[c]
             x == [y EXCEPT !.at = "reply", !.resp = [success |-> TRUE, gen |-> generation + 1]]
             e == [by |-> c, source |-> y.req.source]
  <1>1. /\ y \in ConnState /\ ConnOK(y, c, adminUIDs, operatorUIDs, generation, installs)
        /\ generation \in Nat
    BY ConnFacts
  <1>2. /\ y.at = "apply"
        /\ table' = TableOf(Compile(y.req.source))
        /\ generation' = generation + 1
        /\ installs' = Append(installs, e)
        /\ conn' = [conn EXCEPT ![c] = x]
        /\ UNCHANGED <<server, rbac>>
    BY DEF Apply, Respond, Step
  <1>3. /\ y.req.command = "apply_policy" /\ y.req.source \in Source
        /\ Validate(y.req.source)
    BY <1>1, <1>2 DEF ConnOK
  <1>4. installs \in Seq(Install) /\ Len(installs) = generation /\ conn \in [Conn -> ConnState]
    BY DEF ServerInv, ServerTypes
  <1> HIDE DEF y
  <1>5. e \in Install /\ e.by = c /\ e.source = y.req.source
    BY <1>3 DEF Install
  <1>6. [success |-> TRUE, gen |-> generation + 1] \in Response
    BY <1>1 DEF Response
  <1>7. /\ x \in ConnState /\ x.at = "reply" /\ x.since = y.since /\ x.req = y.req
        /\ x.resp = [success |-> TRUE, gen |-> generation + 1]
    BY <1>1, <1>6 DEF ConnState, Stage
  <1>8. x.resp.success /\ x.resp.gen = generation + 1
    BY <1>7
  <1> HIDE DEF x
  <1>9. /\ installs' \in Seq(Install) /\ installs' # <<>>
        /\ Len(installs') = generation + 1
        /\ DOMAIN installs' = 1..(generation + 1)
        /\ installs'[generation + 1] = e
    <2> HIDE DEF e
    <2> QED
      BY <1>1, <1>2, <1>4, <1>5
  <1>10. ServerTypes'
    <2>1. table' \in Table
      BY <1>2, <1>3, TableTyped
    <2>2. conn' \in [Conn -> ConnState]
      BY <1>2, <1>4, <1>7
    <2>3. generation' \in Nat
      BY <1>1, <1>2
    <2> QED
      BY <1>2, <1>9, <2>1, <2>2, <2>3 DEF ServerInv, ServerTypes, server, rbac
  <1>11. TableInstalled'
    <2>1. Last(installs') = e
      BY <1>9 DEF Last
    <2> QED
      BY <1>2, <1>3, <1>5, <1>9, <2>1 DEF TableInstalled
  <1>12. Conns'
    <2>1. ASSUME NEW d \in Conn, d # c
          PROVE  ConnOK(conn'[d], d, adminUIDs', operatorUIDs', generation', installs')
      <3>1. /\ conn'[d] = conn[d] /\ conn[d] \in ConnState
            /\ ConnOK(conn[d], d, adminUIDs, operatorUIDs, generation, installs)
        BY <1>2, <1>4, <2>1, ConnFacts
      <3>2. ConnOK(conn[d], d, adminUIDs, operatorUIDs, generation + 1, Append(installs, e))
        BY <1>1, <1>4, <1>5, <2>1, <3>1, InstallOK
      <3> QED
        BY <1>2, <3>1, <3>2 DEF rbac
    <2>2. ConnOK(x, c, adminUIDs', operatorUIDs', generation', installs')
      <3>1. x.since <= generation'
        BY <1>1, <1>2, <1>7 DEF ConnOK, ConnState
      <3>2. Truthful(x, c, generation', installs')
        <4>1. x.resp.gen \in DOMAIN installs'
          BY <1>1, <1>8, <1>9
        <4>2. installs'[x.resp.gen] = [by |-> c, source |-> x.req.source]
          BY <1>7, <1>8, <1>9
        <4> QED
          BY <1>3, <1>7, <1>8, <4>1, <4>2 DEF Truthful
      <3> QED
        BY <1>7, <3>1, <3>2 DEF ConnOK
    <2>3. conn'[c] = x
      BY <1>2, <1>4
    <2> QED
      BY <2>1, <2>2, <2>3 DEF Conns
  <1> QED
    BY <1>10, <1>11, <1>12 DEF ServerInv

(***************************************************************************)
(* The answer is sent and the connection closed.                           *)
(***************************************************************************)
LEMMA ReplyStep ==
    ASSUME ServerInv, NEW c \in Conn, Reply(c)
    PROVE  ServerInv'
  <1>1. conn' = [conn EXCEPT ![c] = Closed] /\ UNCHANGED <<server, rbac, rules>>
    BY DEF Reply, Step
  <1>2. generation \in Nat
    BY ConnFacts
  <1>3. Closed \in ConnState /\ ConnOK(Closed, c, adminUIDs, operatorUIDs, generation, installs)
    BY <1>2 DEF Closed, Fresh, ConnState, Stage, ConnOK
  <1> QED
    BY <1>1, <1>3, ConnStep

(***************************************************************************)
(* Registration and shutdown leave connections and rules alone.            *)
(***************************************************************************)
LEMMA AgentSteps ==
    ASSUME ServerInv,
           \/ \E u \in Registered : AddAdminUID(u) \/ AddOperatorUID(u)
           \/ Cancel \/ CloseListener
           \/ UNCHANGED vars
    PROVE  ServerInv'
  <1>1. /\ adminUIDs \subseteq adminUIDs' /\ operatorUIDs \subseteq operatorUIDs'
        /\ adminUIDs' \subseteq Nat /\ operatorUIDs' \subseteq Nat
        /\ UNCHANGED <<rules, conn>>
    BY PeerAssumption
    DEF AddAdminUID, AddOperatorUID, Cancel, CloseListener, vars, rbac, rules,
        ServerInv, ServerTypes
  <1>2. listening' \in BOOLEAN /\ live' \in BOOLEAN
    BY DEF AddAdminUID, AddOperatorUID, Cancel, CloseListener, vars, server,
           ServerInv, ServerTypes
  <1>3. ServerTypes' /\ TableInstalled'
    BY <1>1, <1>2 DEF ServerInv, ServerTypes, TableInstalled, rules
  <1>4. ASSUME NEW c \in Conn
        PROVE  ConnOK(conn'[c], c, adminUIDs', operatorUIDs', generation', installs')
    <2>1. ConnOK(conn[c], c, adminUIDs', operatorUIDs', generation, installs)
      BY <1>1, ConnFacts, RegisterOK
    <2> QED
      BY <1>1, <2>1 DEF rules
  <1> QED
    BY <1>3, <1>4 DEF ServerInv, Conns

(***************************************************************************)
(* The server starts with no connection and no policy.                     *)
(***************************************************************************)
LEMMA ServerInit == Init => ServerInv
  <1> SUFFICES ASSUME Init PROVE ServerInv
    OBVIOUS
  <1>1. Fresh \in ConnState
    BY DEF Fresh, ConnState, Stage
  <1>2. ServerTypes
    BY <1>1 DEF Init, ServerTypes, EmptyTable, Table
  <1>3. TableInstalled
    BY DEF Init, TableInstalled
  <1>4. Conns
    BY DEF Init, Conns, ConnOK, Fresh
  <1> QED
    BY <1>2, <1>3, <1>4 DEF ServerInv

(***************************************************************************)
(* Every step preserves the invariant.                                     *)
(***************************************************************************)
LEMMA ServerStep == ServerInv /\ [Next]_vars => ServerInv'
  <1> SUFFICES ASSUME ServerInv, [Next]_vars PROVE ServerInv'
    OBVIOUS
  <1>1. ASSUME NEW c \in Conn, ApplyFails(c) PROVE ServerInv'
    BY <1>1, FailureStep DEF ApplyFails
  <1>2. ASSUME NEW c \in Conn, Serve(c) PROVE ServerInv'
    BY <1>1, <1>2, ReadSteps, DecideSteps, ApplyStep, ReplyStep DEF Serve
  <1> QED
    BY <1>2, ReadSteps, AgentSteps DEF Next

(***************************************************************************)
(* Every reachable state of the control server is well typed: a goroutine  *)
(* past the decoder has a request, and there is one install per            *)
(* generation.                                                             *)
(***************************************************************************)
THEOREM ServerTypeCorrect == Spec => []TypeOK
  <1>1. ServerInv => TypeOK
    <2> SUFFICES ASSUME ServerInv PROVE TypeOK
      OBVIOUS
    <2>1. ASSUME NEW c \in Conn
          PROVE  /\ conn[c].at \in Stage
                 /\ conn[c].peer \in Peer \cup {Nobody, None}
                 /\ conn[c].role \in Role \cup {None}
                 /\ conn[c].req \in Request \cup {None}
                 /\ conn[c].resp \in Response \cup {None}
                 /\ conn[c].since \in Nat
      BY ConnFacts DEF ConnState
    <2>2. ASSUME NEW c \in Conn
          PROVE  /\ conn[c].at \in {"apply", "allowed", "received"} => conn[c].req \in Request
                 /\ conn[c].since \in 0..generation
      BY <2>1, ConnFacts DEF ConnOK
    <2> QED
      BY <2>1, <2>2 DEF ServerInv, ServerTypes, TypeOK
  <1> QED
    BY <1>1, ServerInit, ServerStep, PTL DEF Spec

(***************************************************************************)
(* No interleaving of connections makes a response untrue.                 *)
(***************************************************************************)
THEOREM ResponsesTruthfulHolds == Spec => []ResponsesTruthful
  <1>1. ServerInv => ResponsesTruthful
    <2> SUFFICES ASSUME ServerInv, NEW c \in Conn, conn[c].resp # None
                 PROVE  Truthful(conn[c], c, generation, installs)
      BY DEF ResponsesTruthful, Truthful
    <2> QED
      BY ConnFacts DEF ConnOK
  <1> QED
    BY <1>1, ServerInit, ServerStep, PTL DEF Spec

(***************************************************************************)
(* While the policy last installed is a plain one, the active table gives  *)
(* every packet the action of a rule that applies to it or the default,    *)
(* whatever policies were sent before and in whatever order.               *)
(***************************************************************************)
THEOREM PlainPoliciesEnforcedHolds == Spec => []PlainPoliciesEnforced
  <1>1. ServerInv => PlainPoliciesEnforced
    <2> SUFFICES ASSUME ServerInv, Plain(ActivePolicy), NEW pkt \in Packet
                 PROVE  Enforces(table, ActivePolicy, pkt)
      BY DEF PlainPoliciesEnforced
    <2>1. CASE installs = <<>>
      <3>1. pkt.cgroup \subseteq Key /\ pkt.src \subseteq Key /\ pkt.port \subseteq Key
        BY PacketAssumption DEF PacketFields, Key
      <3>2. \A k \in Key : table[k] = NoRule
        BY <2>1 DEF ServerInv, TableInstalled, EmptyTable
      <3>3. ~Drops(table, pkt)
        BY <3>1, <3>2, NoRuleAssumption DEF Drops, CgroupHit, LpmHit, PortDeny
      <3>4. DefaultAction(ActivePolicy) = "allow" /\ DOMAIN ActivePolicy.rules = {}
        BY <2>1 DEF ActivePolicy, DefaultAction
      <3>5. Says(ActivePolicy, pkt) = {"allow"}
        BY <3>4 DEF Says
      <3> QED
        BY <3>3, <3>5 DEF Enforces
    <2>2. CASE installs # <<>>
      BY <2>2, CompileCorrect DEF ServerInv, TableInstalled, ActivePolicy
    <2> QED
      BY <2>1, <2>2
  <1> QED
    BY <1>1, ServerInit, ServerStep, PTL DEF Spec

(***************************************************************************)
(* The rule id an entry reports in the audit log names one rule of the     *)
(* active policy, which names the entry's key.                             *)
(***************************************************************************)
THEOREM RuleIdsExplainHolds == Spec => []RuleIdsExplain
  <1>1. ServerInv => RuleIdsExplain
    <2> SUFFICES ASSUME ServerInv, NEW k \in Key, table[k] # NoRule
                 PROVE  LET named == {i \in DOMAIN ActiveRules : ActiveRules[i].id = table[k][1]}
                        IN  \E i \in named : named = {i} /\ Names(ActiveRules[i], k)
      BY DEF RuleIdsExplain
    <2> DEFINE p == Last(installs).source
    <2>1. installs # <<>>
      BY DEF ServerInv, TableInstalled, EmptyTable
    <2>2. /\ p \in Source /\ Validate(p) /\ table = TableOf(Compile(p))
          /\ ActiveRules = p.rules
      BY <2>1 DEF ServerInv, TableInstalled, ActiveRules, ActivePolicy
    <2> HIDE DEF p
    <2>3. PICK r \in DOMAIN p.rules : table[k] = Verdict(p.rules[r]) /\ Names(p.rules[r], k)
      BY <2>2, TableSays
    <2>4. table[k][1] = p.rules[r].id
      BY <2>3 DEF Verdict
    <2>5. \A i, j \in DOMAIN p.rules : p.rules[i].id = p.rules[j].id => i = j
      BY <2>2, ValidFacts
    <2> DEFINE named == {i \in DOMAIN p.rules : p.rules[i].id = p.rules[r].id}
    <2>6. named = {r}
      BY <2>5
    <2> QED
      BY <2>2, <2>3, <2>4, <2>6
  <1> QED
    BY <1>1, ServerInit, ServerStep, PTL DEF Spec

(***************************************************************************)
(* The active policy changes only for a peer that is an Admin or Operator  *)
(* when it does.                                                           *)
(***************************************************************************)
THEOREM OnlyOperatorsInstallHolds == Spec => OnlyOperatorsInstall
  <1> DEFINE A == generation' # generation =>
                     \E c \in Conn :
                        /\ conn[c].at = "apply" /\ conn'[c].at = "reply"
                        /\ \/ conn[c].peer.uid \in adminUIDs \cup operatorUIDs
                           \/ conn[c].peer.gid \in AdminGIDs
  <1>1. ServerInv /\ [Next]_vars => [A]_vars
    <2> SUFFICES ASSUME ServerInv, Next, generation' # generation PROVE A
      OBVIOUS
    <2>1. PICK c \in Conn : Apply(c)
      BY DEF Next, Serve, Accept, Identify, Receive, ReceiveGarbage, ReceiveNothing,
             Authorize, Dispatch, ApplyFails, Reply, AddAdminUID, AddOperatorUID,
             Cancel, CloseListener, rules
    <2>2. conn[c].at = "apply" /\ conn'[c].at = "reply"
      BY <2>1, ConnFacts DEF Apply, Respond, Step, ServerInv, ServerTypes, ConnState
    <2>3. /\ conn[c].req.command = "apply_policy"
          /\ Permitted(conn[c].role, conn[c].req.command)
      BY <2>2, ConnFacts DEF ConnOK
    <2>4. conn[c].role \in {"Admin", "Operator"}
      BY <2>3 DEF Permitted
    <2>5. Privileged(conn[c].peer, adminUIDs, operatorUIDs)
      BY <2>2, <2>4, ConnFacts DEF ConnOK
    <2> QED
      BY <2>2, <2>5 DEF Privileged
  <1>2. ServerInv /\ [][Next]_vars => [][A]_vars
    BY <1>1, ServerStep, PTL
  <1> QED
    BY <1>2, ServerInit, PTL DEF Spec, OnlyOperatorsInstall

-----------------------------------------------------------------------------
(***************************************************************************)
(* The server as a user of ApplyPolicyAtomic.  The table installed for a   *)
(* policy realizes the policy's entries, the last one of a key deciding.   *)
(***************************************************************************)
LEMMA TableRealizes ==
    ASSUME NEW p \in Source, Validate(p)
    PROVE  Applying!Realizes(TableOf(Compile(p)), Compile(p))
  <1> DEFINE E == Compile(p)
             t == TableOf(E)
  <1>1. E \in Seq(Entry)
    BY CompileSays
  <1>2. \A k \in Key : t[k] = IF EntriesFor(E, k) = {} THEN NoRule
                              ELSE E[Max(EntriesFor(E, k))].rule
    BY DEF TableOf, EntriesFor
  <1> HIDE DEF E, t
  <1>3. Len(E) \in Nat /\ DOMAIN E = 1..Len(E)
    BY <1>1
  <1>4. ASSUME NEW k \in Key PROVE Applying!StagedAt(t, E, Len(E), k)
    <2> DEFINE at == EntriesFor(E, k)
    <2>1. at = {i \in 1..Len(E) : E[i].key = k}
      BY <1>3 DEF EntriesFor
    <2>2. t[k] = IF at = {} THEN NoRule ELSE E[Max(at)].rule
      BY <1>2
    <2> HIDE DEF at
    <2>3. CASE at = {}
      BY <2>1, <2>2, <2>3 DEF Applying!StagedAt
    <2>4. CASE at # {}
      <3>1. Max(at) \in at /\ \A y \in at : Max(at) >= y
        BY <1>3, <2>1, <2>4, MaxFacts
      <3> DEFINE m == Max(at)
      <3> HIDE DEF m
      <3>2. m \in 1..Len(E) /\ E[m].key = k /\ t[k] = E[m].rule
        BY <2>1, <2>2, <2>4, <3>1 DEF m
      <3>3. \A j \in 1..Len(E) : j > m => E[j].key # k
        BY <1>3, <2>1, <3>1, <3>2 DEF m
      <3> QED
        BY <3>2, <3>3 DEF Applying!StagedAt
    <2> QED
      BY <2>3, <2>4
  <1>5. Applying!Realizes(t, E)
    BY <1>4 DEF Applying!Realizes, Applying!Staged, Applying!Key, Key
  <1> QED
    BY <1>5 DEF t, E

(***************************************************************************)
(* A connection's step moves no other connection.                          *)
(***************************************************************************)
LEMMA OnlyConn ==
    ASSUME ServerInv, NEW c \in Conn, NEW x, conn' = [conn EXCEPT ![c] = x]
    PROVE  \A d \in Conn : conn'[d] = IF d = c THEN x ELSE conn[d]
  BY DEF ServerInv, ServerTypes

(***************************************************************************)
(* A step of a connection that is not applying, and is not afterwards, is  *)
(* invisible.                                                              *)
(***************************************************************************)
LEMMA QuietStep ==
    ASSUME ServerInv, NEW c \in Conn, NEW x, conn' = [conn EXCEPT ![c] = x], table' = table,
           ApplyStatus(conn[c]) = "none", ApplyStatus(x) = "none"
    PROVE  UNCHANGED Applying!vars
  <1>1. \A d \in Conn : /\ ApplyStatus(conn'[d]) = ApplyStatus(conn[d])
                        /\ ApplyRequest(conn'[d]) = ApplyRequest(conn[d])
    BY OnlyConn DEF ApplyRequest
  <1> QED
    BY <1>1 DEF Applying!vars

(***************************************************************************)
(* Until it is admitted, a connection applies nothing.                     *)
(***************************************************************************)
LEMMA ReadQuiet ==
    ASSUME ServerInv, NEW c \in Conn,
           Accept(c) \/ Identify(c) \/ Receive(c) \/ ReceiveGarbage(c) \/ ReceiveNothing(c)
               \/ Authorize(c)
    PROVE  UNCHANGED Applying!vars
  <1> DEFINE y == conn[c]
  <1>1. y \in ConnState /\ ConnOK(y, c, adminUIDs, operatorUIDs, generation, installs)
    BY ConnFacts
  <1>2. table' = table /\ y.at \in {"new", "accepted", "decoding", "received"}
    BY DEF Accept, Identify, Receive, ReceiveGarbage, ReceiveNothing, Authorize, Respond, Step,
           rules
  <1>3. ApplyStatus(y) = "none"
    BY <1>2 DEF ApplyStatus
  <1>4. PICK x : conn' = [conn EXCEPT ![c] = x] /\ ApplyStatus(x) = "none"
    <2>1. CASE Accept(c)
      <3>1. PICK p \in Peer :
                Step(c, "new", [Fresh EXCEPT !.at = "accepted", !.peer = p, !.since = generation])
        BY <2>1 DEF Accept
      <3>2. [Fresh EXCEPT !.at = "accepted", !.peer = p, !.since = generation].at = "accepted"
        BY DEF Fresh
      <3> QED
        BY <3>1, <3>2 DEF Step, ApplyStatus
    <2>2. CASE Identify(c)
      <3>1. /\ [y EXCEPT !.at = "decoding", !.role = ResolveRole(y.peer)].at = "decoding"
            /\ [y EXCEPT !.at = "decoding", !.peer = Nobody, !.role = "Viewer"].at = "decoding"
        BY <1>1 DEF ConnState
      <3> QED
        BY <2>2, <3>1 DEF Identify, Step, ApplyStatus
    <2>3. CASE Receive(c)
      <3>1. PICK r \in Request : Step(c, "decoding", [y EXCEPT !.at = "received", !.req = r])
        BY <2>3 DEF Receive
      <3>2. [y EXCEPT !.at = "received", !.req = r].at = "received"
        BY <1>1 DEF ConnState
      <3> QED
        BY <3>1, <3>2 DEF Step, ApplyStatus
    <2>4. CASE ReceiveGarbage(c) \/ (Authorize(c) /\ ~Permitted(y.role, y.req.command))
      <3> DEFINE x == [y EXCEPT !.at = "reply", !.resp = Failure]
      <3>1. conn' = [conn EXCEPT ![c] = x]
        BY <2>4 DEF ReceiveGarbage, Authorize, Respond, Step
      <3>2. x.at = "reply" /\ x.req = y.req /\ x.role = y.role
        BY <1>1 DEF ConnState
      <3>3. y.at = "decoding" => y.req = None
        BY <1>1 DEF ConnOK
      <3>4. y.at = "decoding" \/ ~Permitted(y.role, y.req.command)
        BY <2>4 DEF ReceiveGarbage, Respond, Step
      <3> HIDE DEF x, y
      <3>5. ~Admitted(x)
        BY <3>2, <3>3, <3>4, RequestAssumption DEF Admitted
      <3>6. ApplyStatus(x) = "none"
        BY <3>2, <3>5 DEF ApplyStatus
      <3> QED
        BY <3>1, <3>6
    <2>5. CASE ReceiveNothing(c)
      <3>1. Closed.at = "closed"
        BY DEF Closed, Fresh
      <3> QED
        BY <2>5, <3>1 DEF ReceiveNothing, Step, ApplyStatus
    <2>6. CASE Authorize(c) /\ Permitted(y.role, y.req.command)
      <3>1. [y EXCEPT !.at = "allowed"].at = "allowed"
        BY <1>1 DEF ConnState
      <3> QED
        BY <2>6, <3>1 DEF Authorize, Step, ApplyStatus
    <2> QED
      BY <2>1, <2>2, <2>3, <2>4, <2>5, <2>6
  <1> QED
    BY <1>2, <1>3, <1>4, QuietStep

(***************************************************************************)
(* processRequest: a valid policy becomes a pending request, anything else *)
(* is answered without one.                                                *)
(***************************************************************************)
LEMMA DispatchRefines ==
    ASSUME ServerInv, NEW c \in Conn, Dispatch(c)
    PROVE  Applying!Submit(c) \/ UNCHANGED Applying!vars
  <1> DEFINE y == conn[c]
  <1>1. y \in ConnState /\ ConnOK(y, c, adminUIDs, operatorUIDs, generation, installs)
    BY ConnFacts
  <1>2. y.at = "allowed" /\ table' = table
    BY DEF Dispatch, rules
  <1>3. ApplyStatus(y) = "none" /\ y.req \in Request
    BY <1>1, <1>2 DEF ApplyStatus, ConnOK
  <1>4. CASE /\ y.req.command = "apply_policy" /\ Validate(y.req.source)
             /\ Step(c, "allowed", [y EXCEPT !.at = "apply"])
    <2> DEFINE x == [y EXCEPT !.at = "apply"]
    <2>1. conn' = [conn EXCEPT ![c] = x]
      BY <1>4 DEF Step
    <2>2. x.at = "apply" /\ x.req = y.req
      BY <1>1 DEF ConnState
    <2>3. y.req.source \in Source /\ Validate(y.req.source)
      BY <1>3, <1>4, RequestAssumption DEF IsRequest
    <2>4. Compiled[y.req.source] \in Range(Compiled)
      BY <2>3 DEF Compiled, Range
    <2> HIDE DEF x
    <2>5. ApplyStatus(x) = "pending" /\ ApplyRequest(x) = Compiled[y.req.source]
      BY <2>2 DEF ApplyStatus, ApplyRequest
    <2>6. /\ \A d \in Conn : ApplyStatus(conn'[d]) =
                               IF d = c THEN "pending" ELSE ApplyStatus(conn[d])
          /\ \A d \in Conn : ApplyRequest(conn'[d]) =
                               IF d = c THEN Compiled[y.req.source] ELSE ApplyRequest(conn[d])
      <3>1. \A d \in Conn : conn'[d] = IF d = c THEN x ELSE conn[d]
        BY <2>1, OnlyConn
      <3> QED
        BY <2>5, <3>1
    <2> QED
      BY <1>2, <1>3, <2>4, <2>6 DEF Applying!Submit
  <1>5. ASSUME NEW r, Respond(c, "allowed", r),
               ~(y.req.command = "apply_policy" /\ y.req.lower /\ Validate(y.req.source))
        PROVE  UNCHANGED Applying!vars
    <2> DEFINE x == [y EXCEPT !.at = "reply", !.resp = r]
    <2>1. conn' = [conn EXCEPT ![c] = x]
      BY <1>5 DEF Respond, Step
    <2>2. x.at = "reply" /\ x.req = y.req
      BY <1>1 DEF ConnState
    <2> HIDE DEF x
    <2>3. ApplyStatus(x) = "none"
      BY <1>5, <2>2 DEF ApplyStatus, Admitted
    <2> QED
      BY <1>2, <1>3, <2>1, <2>3, QuietStep
  <1> QED
    BY <1>4, <1>5 DEF Dispatch

(***************************************************************************)
(* ApplyPolicyAtomic installs the pending policy, or rejects it.           *)
(***************************************************************************)
LEMMA ApplyRefines ==
    ASSUME ServerInv, NEW c \in Conn, Apply(c) \/ ApplyFails(c)
    PROVE  Applying!Install(c) \/ Applying!Reject(c)
  <1> DEFINE y == conn[c]
  <1>1. y \in ConnState /\ ConnOK(y, c, adminUIDs, operatorUIDs, generation, installs)
    BY ConnFacts
  <1>2. y.at = "apply"
    BY DEF Apply, ApplyFails, Respond, Step
  <1>3. /\ y.req \in Request /\ y.req.source \in Source /\ Validate(y.req.source)
        /\ Admitted(y)
    BY <1>1, <1>2 DEF ConnOK, Admitted
  <1>4. /\ ApplyStatus(y) = "pending"
        /\ ApplyRequest(y) = Compile(y.req.source)
    BY <1>2, <1>3 DEF ApplyStatus, ApplyRequest, Compiled
  <1>5. ASSUME NEW r, Respond(c, "apply", r), NEW st,
               st = IF r.success THEN "installed" ELSE "rejected"
        PROVE  /\ \A d \in Conn : ApplyStatus(conn'[d]) = IF d = c THEN st ELSE ApplyStatus(conn[d])
               /\ \A d \in Conn : ApplyRequest(conn'[d]) = ApplyRequest(conn[d])
    <2> DEFINE x == [y EXCEPT !.at = "reply", !.resp = r]
    <2>1. conn' = [conn EXCEPT ![c] = x]
      BY <1>5 DEF Respond, Step
    <2>2. x.at = "reply" /\ x.req = y.req /\ x.role = y.role /\ x.resp = r
      BY <1>1 DEF ConnState
    <2> HIDE DEF x
    <2>3. ApplyStatus(x) = st
      BY <1>3, <1>5, <2>2 DEF ApplyStatus, Admitted
    <2>4. ApplyRequest(x) = ApplyRequest(y)
      BY <1>4, <1>5, <2>2, <2>3 DEF ApplyRequest
    <2>5. \A d \in Conn : conn'[d] = IF d = c THEN x ELSE conn[d]
      BY <2>1, OnlyConn
    <2> QED
      BY <2>3, <2>4, <2>5
  <1>6. CASE Apply(c)
    <2>1. /\ Respond(c, "apply", [success |-> TRUE, gen |-> generation + 1])
          /\ table' = TableOf(Compile(y.req.source))
      BY <1>6 DEF Apply
    <2>2. /\ \A d \in Conn : ApplyStatus(conn'[d]) =
                               IF d = c THEN "installed" ELSE ApplyStatus(conn[d])
          /\ \A d \in Conn : ApplyRequest(conn'[d]) = ApplyRequest(conn[d])
      BY <1>5, <2>1
    <2>3. table' \in Applying!Table /\ Applying!Realizes(table', ApplyRequest(y))
      BY <1>3, <1>4, <2>1, TableTyped, TableRealizes DEF Applying!Table, Table, Applying!Key, Key
    <2> QED
      BY <1>4, <2>2, <2>3 DEF Applying!Install
  <1>7. CASE ApplyFails(c)
    <2>1. Respond(c, "apply", Failure) /\ table' = table
      BY <1>7 DEF ApplyFails, rules
    <2>2. /\ \A d \in Conn : ApplyStatus(conn'[d]) =
                               IF d = c THEN "rejected" ELSE ApplyStatus(conn[d])
          /\ \A d \in Conn : ApplyRequest(conn'[d]) = ApplyRequest(conn[d])
      BY <1>5, <2>1 DEF Failure
    <2> QED
      BY <1>4, <2>1, <2>2 DEF Applying!Reject
  <1> QED
    BY <1>6, <1>7

(***************************************************************************)
(* Sending the answer ends the request, if there was one.                  *)
(***************************************************************************)
LEMMA ReplyRefines ==
    ASSUME ServerInv, NEW c \in Conn, Reply(c)
    PROVE  Applying!Reply(c) \/ UNCHANGED Applying!vars
  <1>1. conn[c].at = "reply" /\ conn' = [conn EXCEPT ![c] = Closed] /\ table' = table
    BY DEF Reply, Step, rules
  <1>2. ApplyStatus(Closed) = "none" /\ ApplyRequest(Closed) = None
    BY DEF ApplyStatus, ApplyRequest, Closed, Fresh
  <1>3. CASE ApplyStatus(conn[c]) = "none"
    BY <1>1, <1>2, <1>3, QuietStep
  <1>4. CASE ApplyStatus(conn[c]) # "none"
    <2>1. ApplyStatus(conn[c]) \in {"installed", "rejected"}
      BY <1>1, <1>4 DEF ApplyStatus
    <2>2. /\ \A d \in Conn : ApplyStatus(conn'[d]) =
                               IF d = c THEN "none" ELSE ApplyStatus(conn[d])
          /\ \A d \in Conn : ApplyRequest(conn'[d]) = IF d = c THEN None ELSE ApplyRequest(conn[d])
      <3>1. \A d \in Conn : conn'[d] = IF d = c THEN Closed ELSE conn[d]
        BY <1>1, OnlyConn
      <3> QED
        BY <1>2, <3>1
    <2> QED
      BY <1>1, <2>1, <2>2 DEF Applying!Reply
  <1> QED
    BY <1>3, <1>4

(***************************************************************************)
(* The control server uses ApplyPolicyAtomic as AtomicPolicy allows, and   *)
(* PolicyReload implements AtomicPolicy: the two halves meet in it.        *)
(***************************************************************************)
THEOREM ServerRefinesAtomic == Spec => ServerAppliesAtomically
  <1>1. Init => Applying!Init
    <2> SUFFICES ASSUME Init PROVE Applying!Init
      OBVIOUS
    <2>1. \A c \in Conn : ApplyStatus(conn[c]) = "none" /\ ApplyRequest(conn[c]) = None
      BY DEF Init, Fresh, ApplyStatus, ApplyRequest
    <2> QED
      BY <2>1 DEF Init, Applying!Init, Applying!EmptyTable, EmptyTable, Applying!Key, Key
  <1>2. ServerInv /\ [Next]_vars => [Applying!Next]_Applying!vars
    <2> SUFFICES ASSUME ServerInv, [Next]_vars PROVE [Applying!Next]_Applying!vars
      OBVIOUS
    <2>1. ASSUME NEW c \in Conn,
                 Accept(c) \/ Receive(c) \/ ReceiveGarbage(c) \/ ReceiveNothing(c) \/ Serve(c)
          PROVE  [Applying!Next]_Applying!vars
      BY <2>1, ReadQuiet, DispatchRefines, ApplyRefines, ReplyRefines
      DEF Serve, Applying!Next
    <2>2. ASSUME UNCHANGED <<table, conn>> PROVE UNCHANGED Applying!vars
      BY <2>2 DEF Applying!vars
    <2> QED
      BY <2>1, <2>2
      DEF Next, AddAdminUID, AddOperatorUID, Cancel, CloseListener, vars, rules
  <1> QED
    BY <1>1, <1>2, ServerInit, ServerStep, PTL DEF Spec, ServerAppliesAtomically, Applying!Safety
=============================================================================
