-------------------------- MODULE SchedulingProofs --------------------------
(***************************************************************************)
(* Lemmas about lists without repetition and about the dispatcher, for     *)
(* the proofs about every module that queues processes.                    *)
(***************************************************************************)
EXTENDS Scheduling, SequencesExt, SequenceTheorems, FiniteSetTheorems, TLAPS

(***************************************************************************)
(* enqueue of a node that is not in the list.                              *)
(***************************************************************************)
LEMMA AppendOnce ==
  ASSUME NEW S, NEW s \in Seq(S), NEW e \in S, IsInjective(s), e \notin Range(s)
  PROVE  /\ Append(s, e) \in Seq(S)
         /\ IsInjective(Append(s, e))
         /\ Range(Append(s, e)) = Range(s) \cup {e}
<1> DEFINE t == Append(s, e)
<1>1. /\ t \in Seq(S) /\ Len(t) = Len(s) + 1
      /\ \A i \in 1..Len(s) : t[i] = s[i]
      /\ t[Len(s) + 1] = e
  BY AppendProperties
<1>2. /\ DOMAIN s = 1..Len(s) /\ Len(s) \in Nat
      /\ DOMAIN t = 1..(Len(s) + 1)
  BY <1>1, LenProperties
<1>3. IsInjective(t)
  BY <1>1, <1>2 DEF IsInjective, Range
<1>4. Range(t) = Range(s) \cup {e}
  BY <1>1, <1>2 DEF Range
<1> QED BY <1>1, <1>3, <1>4

(***************************************************************************)
(* dequeue of a list that is not empty.                                    *)
(***************************************************************************)
LEMMA DequeueOnce ==
  ASSUME NEW S, NEW s \in Seq(S), s # <<>>, IsInjective(s)
  PROVE  /\ Head(s) \in Range(s)
         /\ Tail(s) \in Seq(S)
         /\ IsInjective(Tail(s))
         /\ Range(Tail(s)) = Range(s) \ {Head(s)}
<1> DEFINE t == Tail(s)
<1>1. /\ t \in Seq(S) /\ Len(t) = Len(s) - 1
      /\ \A i \in 1..Len(t) : t[i] = s[i + 1]
      /\ Head(s) = s[1]
  BY HeadTailProperties
<1>2. /\ DOMAIN s = 1..Len(s) /\ Len(s) \in Nat \ {0}
      /\ DOMAIN t = 1..(Len(s) - 1)
  BY <1>1, LenProperties, EmptySeq
<1>3. Head(s) \in Range(s)
  BY <1>1, <1>2 DEF Range
<1>4. IsInjective(t)
  BY <1>1, <1>2 DEF IsInjective
<1>5. Range(t) = Range(s) \ {Head(s)}
  <2>1. ASSUME NEW x \in Range(t) PROVE x \in Range(s) \ {Head(s)}
    BY <1>1, <1>2 DEF Range, IsInjective
  <2>2. ASSUME NEW x \in Range(s) \ {Head(s)} PROVE x \in Range(t)
    <3>1. PICK i \in 1..Len(s) : s[i] = x
      BY <1>2 DEF Range
    <3>2. i # 1 /\ i - 1 \in 1..Len(t)
      BY <3>1, <1>1, <1>2
    <3>3. t[i - 1] = x
      BY <3>1, <3>2, <1>1
    <3> QED BY <3>2, <3>3, <1>1, <1>2 DEF Range
  <2> QED BY <2>1, <2>2
<1> QED BY <1>1, <1>3, <1>4, <1>5

(***************************************************************************)
(* A list without repetition of one node, and of none.                     *)
(***************************************************************************)
LEMMA ShortOnce ==
  ASSUME NEW e
  PROVE  /\ Range(<<>>) = {} /\ IsInjective(<<>>)
         /\ Range(<<e>>) = {e} /\ IsInjective(<<e>>)
BY DEF Range, IsInjective

(***************************************************************************)
(* A list with a node in it has a first process.                           *)
(***************************************************************************)
LEMMA NonemptyRange ==
  ASSUME NEW S, NEW s \in Seq(S), s # <<>>
  PROVE  Range(s) # {}
<1>1. 1 \in DOMAIN s
  BY LenProperties, EmptySeq
<1> QED BY <1>1 DEF Range

(***************************************************************************)
(* remove yields a list of the same kind.                                  *)
(***************************************************************************)
LEMMA RemoveInSeq ==
  ASSUME NEW S, NEW s \in Seq(S), NEW k \in 1..Len(s)
  PROVE  RemoveAt(s, k) \in Seq(S)
<1>1. Len(s) \in Nat /\ \A i \in 1..Len(s) : s[i] \in S
  BY LenProperties, ElementOfSeq
<1>2. SubSeq(s, 1, k - 1) \in Seq(S)
  BY <1>1, SubSeqProperties
<1>3. SubSeq(s, k + 1, Len(s)) \in Seq(S)
  BY <1>1, SubSeqProperties
<1> QED BY <1>2, <1>3, ConcatProperties DEF RemoveAt

(***************************************************************************)
(* What is left when the node in position k is taken out: those in front   *)
(* stay, those behind move up.                                             *)
(***************************************************************************)
LEMMA RemoveShifts ==
  ASSUME NEW S, NEW s \in Seq(S), NEW k \in 1..Len(s)
  PROVE  LET t == RemoveAt(s, k)
         IN  /\ t \in Seq(S) /\ Len(t) = Len(s) - 1
             /\ \A i \in 1..(Len(s) - 1) : t[i] = IF i < k THEN s[i] ELSE s[i + 1]
<1> DEFINE a == SubSeq(s, 1, k - 1)
           b == SubSeq(s, k + 1, Len(s))
           t == RemoveAt(s, k)
<1>1. DOMAIN s = 1..Len(s) /\ Len(s) \in Nat
  BY LenProperties
<1>2. /\ a \in Seq(S) /\ Len(a) = k - 1
      /\ \A i \in 1..(k - 1) : a[i] = s[i]
  BY <1>1, SubSeqProperties, ElementOfSeq
<1>3. /\ b \in Seq(S) /\ Len(b) = Len(s) - k
      /\ \A i \in 1..(Len(s) - k) : b[i] = s[k + i]
  <2>1. k + 1 \in Int /\ Len(s) \in Int /\ \A i \in (k + 1)..Len(s) : s[i] \in S
    BY <1>1, ElementOfSeq
  <2>2. /\ b \in Seq(S)
        /\ Len(b) = IF k + 1 <= Len(s) THEN Len(s) - (k + 1) + 1 ELSE 0
        /\ \A i \in 1..(Len(s) - (k + 1) + 1) : b[i] = s[(k + 1) + i - 1]
    BY <2>1, SubSeqProperties
  <2> HIDE DEF b
  <2>3. Len(b) = Len(s) - k
    BY <1>1, <2>2
  <2>4. ASSUME NEW i \in 1..(Len(s) - k) PROVE b[i] = s[k + i]
    <3>1. i \in 1..(Len(s) - (k + 1) + 1) /\ (k + 1) + i - 1 = k + i
      BY <1>1
    <3>2. b[i] = s[(k + 1) + i - 1]
      BY <2>2, <3>1
    <3> QED BY <3>1, <3>2
  <2> QED BY <2>2, <2>3, <2>4
<1>t. t = a \o b
  BY DEF RemoveAt
<1> HIDE DEF a, b, t
<1>4. /\ t \in Seq(S) /\ Len(t) = Len(s) - 1
      /\ \A i \in 1..(Len(s) - 1) : t[i] = IF i < k THEN s[i] ELSE s[i + 1]
  <2>1. /\ t \in Seq(S) /\ Len(t) = Len(a) + Len(b)
        /\ \A i \in 1..(Len(a) + Len(b)) :
             t[i] = IF i <= Len(a) THEN a[i] ELSE b[i - Len(a)]
    BY <1>2, <1>3, <1>t, ConcatProperties
  <2>2. Len(a) + Len(b) = Len(s) - 1
    BY <1>1, <1>2, <1>3
  <2>3. ASSUME NEW i \in 1..(Len(s) - 1)
        PROVE  t[i] = IF i < k THEN s[i] ELSE s[i + 1]
    <3>1. CASE i < k
      BY <1>1, <1>2, <2>1, <2>2, <3>1
    <3>2. CASE i >= k
      <4>1. i - (k - 1) \in 1..(Len(s) - k) /\ k + (i - (k - 1)) = i + 1
        BY <1>1, <3>2
      <4>2. b[i - (k - 1)] = s[i + 1]
        BY <1>3, <4>1
      <4>3. ~(i <= Len(a)) /\ i - Len(a) = i - (k - 1) /\ i \in 1..(Len(a) + Len(b))
        BY <1>1, <1>2, <2>2, <3>2
      <4>4. t[i] = b[i - (k - 1)]
        BY <2>1, <4>3
      <4> QED BY <1>1, <3>2, <4>2, <4>4
    <3> QED BY <1>1, <3>1, <3>2
  <2> QED BY <2>1, <2>2, <2>3
<1> QED BY <1>4 DEF t

(***************************************************************************)
(* remove of the node in position k of a list.                             *)
(***************************************************************************)
LEMMA RemoveOnce ==
  ASSUME NEW S, NEW s \in Seq(S), NEW k \in 1..Len(s), IsInjective(s)
  PROVE  /\ s[k] \in Range(s)
         /\ RemoveAt(s, k) \in Seq(S)
         /\ IsInjective(RemoveAt(s, k))
         /\ Range(RemoveAt(s, k)) = Range(s) \ {s[k]}
<1> DEFINE t == RemoveAt(s, k)
<1>1. DOMAIN s = 1..Len(s) /\ Len(s) \in Nat
  BY LenProperties
<1>2. /\ t \in Seq(S) /\ Len(t) = Len(s) - 1
      /\ \A i \in 1..(Len(s) - 1) : t[i] = IF i < k THEN s[i] ELSE s[i + 1]
  BY RemoveShifts
<1> HIDE DEF t
<1>3. DOMAIN t = 1..(Len(s) - 1)
  BY <1>2, LenProperties
<1>4. s[k] \in Range(s)
  BY <1>1 DEF Range
<1>5. IsInjective(t)
  <2> SUFFICES ASSUME NEW i \in DOMAIN t, NEW j \in DOMAIN t, t[i] = t[j]
               PROVE  i = j
    BY DEF IsInjective
  <2> DEFINE at(n) == IF n < k THEN n ELSE n + 1
  <2>1. /\ at(i) \in 1..Len(s) /\ t[i] = s[at(i)]
        /\ at(j) \in 1..Len(s) /\ t[j] = s[at(j)]
    BY <1>1, <1>2, <1>3
  <2>2. at(i) = at(j)
    <3> HIDE DEF at
    <3> QED BY <1>1, <2>1 DEF IsInjective
  <2> QED BY <2>2, <1>1, <1>3
<1>6. Range(t) = Range(s) \ {s[k]}
  <2>1. ASSUME NEW x \in Range(t) PROVE x \in Range(s) \ {s[k]}
    BY <1>1, <1>2, <1>3 DEF Range, IsInjective
  <2>2. ASSUME NEW x \in Range(s) \ {s[k]} PROVE x \in Range(t)
    <3>1. PICK i \in 1..Len(s) : s[i] = x
      BY <1>1 DEF Range
    <3>2. CASE i < k
      BY <3>1, <3>2, <1>1, <1>2, <1>3 DEF Range
    <3>3. CASE i > k
      <4>1. i - 1 \in 1..(Len(s) - 1) /\ t[i - 1] = x
        BY <3>1, <3>3, <1>1, <1>2
      <4> QED BY <4>1, <1>3 DEF Range
    <3> QED BY <3>1, <3>2, <3>3
  <2> QED BY <2>1, <2>2
<1> QED BY <1>2, <1>4, <1>5, <1>6 DEF t

(***************************************************************************)
(* Two lists in a row, and a list cut in two.                              *)
(***************************************************************************)
LEMMA ConcatOnce ==
  ASSUME NEW S, NEW s \in Seq(S), NEW t \in Seq(S),
         IsInjective(s), IsInjective(t), Range(s) \cap Range(t) = {}
  PROVE  /\ s \o t \in Seq(S)
         /\ IsInjective(s \o t)
         /\ Range(s \o t) = Range(s) \cup Range(t)
<1> DEFINE u == s \o t
<1>1. /\ u \in Seq(S) /\ Len(u) = Len(s) + Len(t)
      /\ \A i \in 1..(Len(s) + Len(t)) :
           u[i] = IF i <= Len(s) THEN s[i] ELSE t[i - Len(s)]
  BY ConcatProperties
<1>2. /\ DOMAIN s = 1..Len(s) /\ Len(s) \in Nat
      /\ DOMAIN t = 1..Len(t) /\ Len(t) \in Nat
      /\ DOMAIN u = 1..(Len(s) + Len(t))
  BY <1>1, LenProperties
<1>3. Range(u) = Range(s) \cup Range(t)
  BY RangeConcatenation
<1>4. IsInjective(u)
  <2> SUFFICES ASSUME NEW i \in DOMAIN u, NEW j \in DOMAIN u, u[i] = u[j], i <= j
               PROVE  i = j
    BY <1>2 DEF IsInjective
  <2> HIDE DEF u
  <2>1. CASE j <= Len(s)
    BY <1>1, <1>2, <2>1 DEF IsInjective
  <2>2. CASE i > Len(s)
    <3>1. i - Len(s) \in DOMAIN t /\ j - Len(s) \in DOMAIN t
      BY <1>2, <2>2
    <3>2. t[i - Len(s)] = t[j - Len(s)]
      BY <1>1, <1>2, <2>2
    <3>3. i - Len(s) = j - Len(s)
      BY <3>1, <3>2 DEF IsInjective
    <3> QED BY <1>2, <3>3
  <2>3. CASE i <= Len(s) /\ j > Len(s)
    <3>1. i \in DOMAIN s /\ j - Len(s) \in DOMAIN t
      BY <1>2, <2>3
    <3>2. s[i] = t[j - Len(s)]
      BY <1>1, <1>2, <2>3
    <3>3. s[i] \in Range(s) /\ t[j - Len(s)] \in Range(t)
      BY <3>1 DEF Range
    <3> QED BY <3>2, <3>3
  <2>4. i \in Nat /\ j \in Nat
    BY <1>2
  <2> QED BY <1>2, <2>1, <2>2, <2>3, <2>4
<1> QED BY <1>1, <1>3, <1>4

(***************************************************************************)
(* A list cut in two holds each process in one of the halves.              *)
(***************************************************************************)
LEMMA SplitOnce ==
  ASSUME NEW S, NEW s \in Seq(S), NEW t \in Seq(S), IsInjective(s \o t)
  PROVE  /\ IsInjective(s) /\ IsInjective(t)
         /\ Range(s) \cap Range(t) = {}
         /\ Range(s \o t) = Range(s) \cup Range(t)
<1> DEFINE u == s \o t
<1>1. /\ u \in Seq(S) /\ Len(u) = Len(s) + Len(t)
      /\ \A i \in 1..(Len(s) + Len(t)) :
           u[i] = IF i <= Len(s) THEN s[i] ELSE t[i - Len(s)]
  BY ConcatProperties
<1>2. /\ DOMAIN s = 1..Len(s) /\ Len(s) \in Nat
      /\ DOMAIN t = 1..Len(t) /\ Len(t) \in Nat
      /\ DOMAIN u = 1..(Len(s) + Len(t))
  BY <1>1, LenProperties
<1>3. IsInjective(u)
  OBVIOUS
<1> HIDE DEF u
<1>4. \A i \in DOMAIN s : i \in DOMAIN u /\ u[i] = s[i]
  BY <1>1, <1>2
<1>5. ASSUME NEW i \in DOMAIN t
      PROVE  i + Len(s) \in DOMAIN u /\ u[i + Len(s)] = t[i]
  <2>1. i + Len(s) \in 1..(Len(s) + Len(t)) /\ ~(i + Len(s) <= Len(s))
        /\ (i + Len(s)) - Len(s) = i
    BY <1>2
  <2> QED BY <1>1, <1>2, <2>1
<1>6. IsInjective(s)
  BY <1>3, <1>4 DEF IsInjective
<1>7. IsInjective(t)
  <2> SUFFICES ASSUME NEW i \in DOMAIN t, NEW j \in DOMAIN t, t[i] = t[j]
               PROVE  i = j
    BY DEF IsInjective
  <2>1. i + Len(s) = j + Len(s)
    BY <1>3, <1>5 DEF IsInjective
  <2> QED BY <1>2, <2>1
<1>8. Range(s) \cap Range(t) = {}
  <2> SUFFICES ASSUME NEW i \in DOMAIN s, NEW j \in DOMAIN t, s[i] = t[j]
               PROVE  FALSE
    BY DEF Range
  <2>1. i = j + Len(s)
    BY <1>3, <1>4, <1>5 DEF IsInjective
  <2> QED BY <1>2, <2>1
<1>9. Range(s \o t) = Range(s) \cup Range(t)
  BY RangeConcatenation
<1> QED BY <1>6, <1>7, <1>8, <1>9

(***************************************************************************)
(* push of a node that is not in the list.                                 *)
(***************************************************************************)
LEMMA PushOnce ==
  ASSUME NEW S, NEW s \in Seq(S), NEW e \in S, IsInjective(s), e \notin Range(s)
  PROVE  /\ <<e>> \o s \in Seq(S)
         /\ IsInjective(<<e>> \o s)
         /\ Range(<<e>> \o s) = Range(s) \cup {e}
<1> DEFINE one == <<e>>
<1>1. one \in Seq(S)
  OBVIOUS
<1>2. IsInjective(one) /\ Range(one) = {e}
  BY ShortOnce
<1> HIDE DEF one
<1>3. Range(one) \cap Range(s) = {}
  BY <1>2
<1>4. /\ one \o s \in Seq(S) /\ IsInjective(one \o s)
      /\ Range(one \o s) = Range(s) \cup {e}
  BY <1>1, <1>2, <1>3, ConcatOnce
<1> QED BY <1>4 DEF one

(***************************************************************************)
(* unblock_head and unblock_all: the list is what they take and what they  *)
(* leave.                                                                  *)
(***************************************************************************)
LEMMA HeadAndRest ==
  ASSUME NEW S, NEW b \in Seq(S)
  PROVE  /\ HeadOf(b) \in Seq(S) /\ RestOf(b) \in Seq(S)
         /\ b = HeadOf(b) \o RestOf(b)
         /\ HeadOf(b) = <<>> <=> b = <<>>
         /\ SubSeq(b, 1 + Len(HeadOf(b)), Len(b)) = RestOf(b)
<1>1. CASE b = <<>>
  <2>1. HeadOf(b) = <<>> /\ RestOf(b) = <<>>
    BY <1>1 DEF HeadOf, RestOf
  <2>2. <<>> \o <<>> = <<>> /\ <<>> \in Seq(S)
    BY EmptySeq, ConcatEmptySeq
  <2>3. SubSeq(b, 1, 0) = <<>>
    BY SubSeqEmpty
  <2>4. Len(<<>>) = 0
    BY EmptySeq
  <2>5. SubSeq(b, 1 + Len(HeadOf(b)), Len(b)) = <<>>
    BY <1>1, <2>1, <2>3, <2>4
  <2> QED BY <1>1, <2>1, <2>2, <2>5
<1>2. CASE b # <<>>
  <2>1. HeadOf(b) = <<Head(b)>> /\ RestOf(b) = Tail(b)
    BY <1>2 DEF HeadOf, RestOf
  <2>2. Head(b) \in S /\ Tail(b) \in Seq(S) /\ Len(Tail(b)) = Len(b) - 1
        /\ \A i \in 1..Len(Tail(b)) : Tail(b)[i] = b[i + 1]
    BY <1>2, HeadTailProperties
  <2>3. Len(b) \in Nat \ {0} /\ Head(b) = b[1]
    BY <1>2, EmptySeq
  <2>4. <<Head(b)>> \in Seq(S) /\ Len(<<Head(b)>>) = 1 /\ <<Head(b)>>[1] = Head(b)
    BY <2>2
  <2>5. b = <<Head(b)>> \o Tail(b)
    <3> DEFINE t == <<Head(b)>> \o Tail(b)
    <3>1. /\ t \in Seq(S) /\ Len(t) = Len(<<Head(b)>>) + Len(Tail(b))
          /\ \A i \in 1..(Len(<<Head(b)>>) + Len(Tail(b))) :
               t[i] = IF i <= Len(<<Head(b)>>) THEN <<Head(b)>>[i]
                      ELSE Tail(b)[i - Len(<<Head(b)>>)]
      BY <2>2, <2>4, ConcatProperties
    <3> HIDE DEF t
    <3>2. Len(t) = Len(b)
      BY <2>2, <2>3, <2>4, <3>1
    <3>3. ASSUME NEW i \in 1..Len(b) PROVE b[i] = t[i]
      <4>1. CASE i = 1
        BY <2>2, <2>3, <2>4, <3>1, <4>1
      <4>2. CASE i # 1
        <5>1. i - 1 \in 1..Len(Tail(b)) /\ (i - 1) + 1 = i /\ ~(i <= 1)
              /\ i \in 1..(1 + Len(Tail(b)))
          BY <2>2, <2>3, <4>2
        <5> QED BY <2>2, <2>4, <3>1, <5>1
      <4> QED BY <4>1, <4>2
    <3>4. b = t
      BY <3>1, <3>2, <3>3, SeqEqual
    <3> QED BY <3>4 DEF t
  <2>6. SubSeq(b, 1 + 1, Len(b)) = Tail(b)
    BY <1>2, TailIsSubSeq
  <2>7. <<Head(b)>> # <<>>
    BY <2>4, EmptySeq
  <2> QED BY <1>2, <2>1, <2>2, <2>4, <2>5, <2>6, <2>7
<1> QED BY <1>1, <1>2

(***************************************************************************)
(* dequeue until empty takes everything, no dequeue at all takes nothing.  *)
(***************************************************************************)
LEMMA NoneAndAll ==
  ASSUME NEW S, NEW b \in Seq(S)
  PROVE  /\ SubSeq(b, 1 + Len(<<>>), Len(b)) = b
         /\ SubSeq(b, 1 + Len(b), Len(b)) = <<>>
         /\ b = <<>> \o b /\ b = b \o <<>>
<1>1. Len(<<>>) = 0 /\ Len(b) \in Nat
  BY EmptySeq, LenProperties
<1>2. SubSeq(b, 1, Len(b)) = b
  BY SubSeqFull
<1>3. SubSeq(b, 1 + Len(b), Len(b)) = <<>>
  BY <1>1, SubSeqEmpty
<1> QED BY <1>1, <1>2, <1>3, ConcatEmptySeq

(***************************************************************************)
(* A dequeue splits the set of a list into the head, if there is one, and  *)
(* the rest.                                                               *)
(***************************************************************************)
LEMMA HeadAndRestOnce ==
  ASSUME NEW S, NEW b \in Seq(S), IsInjective(b)
  PROVE  /\ IsInjective(HeadOf(b)) /\ IsInjective(RestOf(b))
         /\ Range(HeadOf(b)) \subseteq Range(b)
         /\ Range(RestOf(b)) = Range(b) \ Range(HeadOf(b))
         /\ b # <<>> => Range(HeadOf(b)) # {}
<1> DEFINE w == HeadOf(b)
           r == RestOf(b)
<1>1. /\ w \in Seq(S) /\ r \in Seq(S) /\ (w = <<>> <=> b = <<>>)
  BY HeadAndRest
<1>2. IsInjective(w \o r) /\ Range(w \o r) = Range(b)
  BY HeadAndRest
<1> HIDE DEF w, r
<1>3. IsInjective(w) /\ IsInjective(r) /\ Range(w) \cap Range(r) = {}
      /\ Range(b) = Range(w) \cup Range(r)
  BY <1>1, <1>2, SplitOnce
<1>4. b # <<>> => Range(w) # {}
  BY <1>1, NonemptyRange
<1>5. Range(w) \subseteq Range(b) /\ Range(r) = Range(b) \ Range(w)
  BY <1>3
<1> QED BY <1>3, <1>4, <1>5 DEF w, r

-----------------------------------------------------------------------------
(***************************************************************************)
(* run_next_ready and rr_preempt dispatch idle or a member of Proc, and    *)
(* queue members of Proc only.                                             *)
(***************************************************************************)
LEMMA RunNextReadyType ==
  ASSUME NEW rd \in Seq(Proc), RunNextReady(rd)
  PROVE  running' \in Proc \cup {Idle} /\ ready' \in Seq(Proc)
<1>1. CASE rd = <<>>
  BY <1>1 DEF RunNextReady
<1>2. CASE rd # <<>>
  BY <1>2, HeadTailProperties DEF RunNextReady
<1> QED BY <1>1, <1>2

(***************************************************************************)
(* rr_preempt keeps the types of running and ready.                        *)
(***************************************************************************)
LEMMA RRPreemptType ==
  ASSUME NEW rd \in Seq(Proc), running \in Proc \cup {Idle}, RRPreempt(rd)
  PROVE  running' \in Proc \cup {Idle} /\ ready' \in Seq(Proc)
<1>1. CASE rd = <<>> /\ UNCHANGED running /\ ready' = rd
  BY <1>1
<1>2. CASE running = Idle /\ RunNextReady(rd)
  BY <1>2, RunNextReadyType
<1>3. CASE running # Idle /\ RunNextReady(Append(rd, running))
  <2>1. Append(rd, running) \in Seq(Proc)
    BY <1>3, AppendProperties
  <2> QED BY <1>3, <2>1, RunNextReadyType
<1> QED BY <1>1, <1>2, <1>3 DEF RRPreempt

-----------------------------------------------------------------------------
(***************************************************************************)
(* run_next_ready on a ready queue rd: afterwards the members of rd are    *)
(* the runnable processes.                                                 *)
(***************************************************************************)
LEMMA RunNextReadyOnce ==
  ASSUME NEW rd \in Seq(Proc), IsInjective(rd), RunNextReady(rd)
  PROVE  /\ running' \in Proc \cup {Idle}
         /\ ready' \in Seq(Proc)
         /\ RunnableOnce'
         /\ Runnable' = Range(rd)
<1>1. CASE rd = <<>>
  <2>1. running' = Idle /\ ready' = <<>> /\ Range(rd) = {}
    BY <1>1 DEF RunNextReady, Range
  <2> QED BY <1>1, <2>1 DEF RunnableOnce, Runnable, Range, IsInjective
<1>2. CASE rd # <<>>
  <2>1. running' = Head(rd) /\ ready' = Tail(rd)
    BY <1>2 DEF RunNextReady
  <2>2. /\ Head(rd) \in Proc /\ Head(rd) \in Range(rd)
        /\ ready' \in Seq(Proc) /\ IsInjective(ready')
        /\ Range(ready') = Range(rd) \ {Head(rd)}
    BY <1>2, <2>1, DequeueOnce, HeadTailProperties
  <2>3. Head(rd) # Idle
    BY <2>2, IdleAssumption
  <2> QED BY <2>1, <2>2, <2>3 DEF RunnableOnce, Runnable
<1> QED BY <1>1, <1>2

(***************************************************************************)
(* rr_preempt on a ready queue rd: the process that ran stays runnable.    *)
(***************************************************************************)
LEMMA RRPreemptOnce ==
  ASSUME NEW rd \in Seq(Proc), IsInjective(rd),
         running \in Proc \cup {Idle}, running \notin Range(rd),
         RRPreempt(rd)
  PROVE  /\ running' \in Proc \cup {Idle}
         /\ ready' \in Seq(Proc)
         /\ RunnableOnce'
         /\ Runnable' = Range(rd) \cup ({running} \ {Idle})
<1>1. CASE rd = <<>> /\ UNCHANGED running /\ ready' = rd
  BY <1>1 DEF RunnableOnce, Runnable
<1>2. CASE running = Idle /\ RunNextReady(rd)
  BY <1>2, RunNextReadyOnce
<1>3. CASE running # Idle /\ RunNextReady(Append(rd, running))
  <2>1. /\ Append(rd, running) \in Seq(Proc)
        /\ IsInjective(Append(rd, running))
        /\ Range(Append(rd, running)) = Range(rd) \cup {running}
    BY <1>3, AppendOnce
  <2> QED BY <1>3, <2>1, RunNextReadyOnce
<1> QED BY <1>1, <1>2, <1>3 DEF RRPreempt

-----------------------------------------------------------------------------
(***************************************************************************)
(* The lists of a function q from names to waiting lists hold a process at *)
(* most once, and none of those in R.  QueuedOnce(q) says this of the      *)
(* runnable processes.                                                     *)
(***************************************************************************)
Separate(q, R) ==
  /\ \A i \in DOMAIN q : IsInjective(q[i]) /\ Range(q[i]) \cap R = {}
  /\ \A i, j \in DOMAIN q : i # j => Range(q[i]) \cap Range(q[j]) = {}

(***************************************************************************)
(* From q to r a process p joins list i, or those of W are taken off it.   *)
(***************************************************************************)
ChangedAt(q, r, i) ==
  i \in DOMAIN q /\ DOMAIN r = DOMAIN q /\ \A j \in DOMAIN q \ {i} : r[j] = q[j]

Joined(q, r, i, p) ==
  /\ ChangedAt(q, r, i) /\ IsInjective(r[i])
  /\ Range(r[i]) = Range(q[i]) \cup {p}

Taken(q, r, i, W) ==
  /\ ChangedAt(q, r, i) /\ IsInjective(r[i])
  /\ W \subseteq Range(q[i]) /\ Range(r[i]) = Range(q[i]) \ W

(***************************************************************************)
(* QueuedOnce, the part of OnePlace that all modules with waiting lists    *)
(* share, in the form in which it is proved.                               *)
(***************************************************************************)
LEMMA QueuedOnceIsSeparate ==
  ASSUME NEW q
  PROVE  QueuedOnce(q) <=> RunnableOnce /\ Separate(q, Runnable)
BY DEF QueuedOnce, Separate

(***************************************************************************)
(* A process of R joins list i, at its end or at its head.                 *)
(***************************************************************************)
LEMMA JoinSeparate ==
  ASSUME NEW q, NEW r, NEW i, NEW p, Joined(q, r, i, p),
         NEW R, Separate(q, R), p \in R, NEW S, S \subseteq R, p \notin S
  PROVE  /\ Separate(r, S)
         /\ Queued(r) = Queued(q) \cup {p}
<1>1. /\ i \in DOMAIN q /\ DOMAIN r = DOMAIN q
      /\ \A j \in DOMAIN q \ {i} : r[j] = q[j]
      /\ IsInjective(r[i]) /\ Range(r[i]) = Range(q[i]) \cup {p}
  BY DEF ChangedAt, Joined
<1>2. \A j \in DOMAIN q : p \notin Range(q[j])
  BY <1>1 DEF Separate
<1>3. \A j \in DOMAIN q : IsInjective(r[j]) /\ Range(r[j]) \cap S = {}
  BY <1>1 DEF Separate
<1>4. ASSUME NEW j \in DOMAIN q, NEW k \in DOMAIN q, j # k
      PROVE  Range(r[j]) \cap Range(r[k]) = {}
  <2>1. Range(q[j]) \cap Range(q[k]) = {} /\ p \notin Range(q[j]) \cup Range(q[k])
    BY <1>1, <1>2, <1>4 DEF Separate
  <2>2. Range(r[j]) \subseteq Range(q[j]) \cup {p} /\ (j # i => r[j] = q[j])
    BY <1>1
  <2>3. Range(r[k]) \subseteq Range(q[k]) \cup {p} /\ (k # i => r[k] = q[k])
    BY <1>1
  <2> QED BY <1>4, <2>1, <2>2, <2>3
<1>5. Queued(r) = Queued(q) \cup {p}
  <2>1. Queued(r) \subseteq Queued(q) \cup {p}
    BY <1>1 DEF Queued
  <2>2. Queued(q) \cup {p} \subseteq Queued(r)
    BY <1>1 DEF Queued
  <2> QED BY <2>1, <2>2
<1>6. Separate(r, S)
  BY <1>1, <1>3, <1>4 DEF Separate
<1> QED BY <1>5, <1>6

(***************************************************************************)
(* The processes at the front of list i are taken off and become members   *)
(* of R.                                                                   *)
(***************************************************************************)
LEMMA TakeQueued ==
  ASSUME NEW q, NEW r, NEW i, NEW W, Taken(q, r, i, W), NEW R, Separate(q, R)
  PROVE  /\ Queued(r) = Queued(q) \ W
         /\ W \subseteq Queued(q) /\ W \cap R = {}
         /\ \A j \in DOMAIN q : IsInjective(r[j]) /\ Range(r[j]) = Range(q[j]) \ W
<1>1. /\ i \in DOMAIN q /\ DOMAIN r = DOMAIN q
      /\ \A j \in DOMAIN q \ {i} : r[j] = q[j]
      /\ IsInjective(r[i]) /\ W \subseteq Range(q[i]) /\ Range(r[i]) = Range(q[i]) \ W
  BY DEF ChangedAt, Taken
<1>2. \A j \in DOMAIN q : j # i => Range(q[j]) \cap W = {}
  BY <1>1 DEF Separate
<1>3. \A j \in DOMAIN q : IsInjective(r[j]) /\ Range(r[j]) = Range(q[j]) \ W
  BY <1>1, <1>2 DEF Separate
<1>4. Queued(r) = Queued(q) \ W
  BY <1>1, <1>3 DEF Queued
<1>5. W \cap R = {} /\ W \subseteq Queued(q)
  BY <1>1 DEF Separate, Queued
<1> QED BY <1>3, <1>4, <1>5

(***************************************************************************)
(* Taking W off one list leaves the lists separate from whatever was       *)
(* runnable and from W.                                                    *)
(***************************************************************************)
LEMMA TakeSeparate ==
  ASSUME NEW q, NEW r, NEW i, NEW W, Taken(q, r, i, W),
         NEW R, Separate(q, R), NEW S, S \subseteq R \cup W
  PROVE  Separate(r, S)
<1>1. \A j \in DOMAIN q : IsInjective(r[j]) /\ Range(r[j]) = Range(q[j]) \ W
  BY TakeQueued
<1>2. DOMAIN r = DOMAIN q
  BY DEF Taken, ChangedAt
<1>3. \A j \in DOMAIN q : Range(r[j]) \cap S = {}
  BY <1>1 DEF Separate
<1>4. \A j, k \in DOMAIN q : j # k => Range(r[j]) \cap Range(r[k]) = {}
  BY <1>1 DEF Separate
<1> QED BY <1>1, <1>2, <1>3, <1>4 DEF Separate

-----------------------------------------------------------------------------
(***************************************************************************)
(* What the dispatcher makes of the lists, when those of rd are ready and  *)
(* the others wait, and when the processes of w are woken.                 *)
(***************************************************************************)
LEMMA DispatchSeparate ==
  ASSUME NEW q, NEW rd \in Seq(Proc), IsInjective(rd), RunNextReady(rd),
         Separate(q, Range(rd))
  PROVE  /\ running' \in Proc \cup {Idle} /\ ready' \in Seq(Proc)
         /\ RunnableOnce' /\ Runnable' = Range(rd)
         /\ Separate(q, Runnable')
<1>1. /\ running' \in Proc \cup {Idle} /\ ready' \in Seq(Proc)
      /\ RunnableOnce' /\ Runnable' = Range(rd)
  BY RunNextReadyOnce
<1> QED BY <1>1

(***************************************************************************)
(* unblock of the processes in W makes exactly these runnable.             *)
(***************************************************************************)
LEMMA WakeSeparate ==
  ASSUME NEW W, W \subseteq Proc \ Runnable, RunnableOnce,
         IsInjective(ready'), Range(ready') = Range(ready) \cup W,
         running' = running
  PROVE  RunnableOnce' /\ Runnable' = Runnable \cup W
<1>1. running \notin Range(ready')
  BY IdleAssumption DEF RunnableOnce, Runnable
<1>2. Runnable' = Runnable \cup W
  BY IdleAssumption DEF Runnable
<1> QED BY <1>1, <1>2 DEF RunnableOnce

(***************************************************************************)
(* Appending processes that were not runnable to the ready queue leaves no *)
(* duplicate in it.                                                        *)
(***************************************************************************)
LEMMA WokenIsReady ==
  ASSUME NEW w \in Seq(Proc), IsInjective(w), Range(w) \cap Runnable = {},
         ready \in Seq(Proc), RunnableOnce
  PROVE  /\ ready \o w \in Seq(Proc) /\ IsInjective(ready \o w)
         /\ Range(ready \o w) = Range(ready) \cup Range(w)
<1>1. IsInjective(ready) /\ Range(ready) \cap Range(w) = {}
  BY DEF RunnableOnce, Runnable
<1> QED BY <1>1, ConcatOnce

(***************************************************************************)
(* The same when nobody exits: every process is runnable or on a list of   *)
(* q.  The clock moves nobody between them, who blocks joins a list, and   *)
(* those of w are woken.                                                   *)
(***************************************************************************)
LEMMA TickKeepsPlaces ==
  ASSUME running \in Proc \cup {Idle}, ready \in Seq(Proc), RunnableOnce, RRPreempt(ready)
  PROVE  /\ running' \in Proc \cup {Idle} /\ ready' \in Seq(Proc)
         /\ RunnableOnce' /\ Runnable' = Runnable
<1>1. running \notin Range(ready) /\ IsInjective(ready)
  BY DEF RunnableOnce
<1>2. /\ running' \in Proc \cup {Idle} /\ ready' \in Seq(Proc)
      /\ RunnableOnce' /\ Runnable' = Range(ready) \cup ({running} \ {Idle})
  BY <1>1, RRPreemptOnce
<1> QED BY <1>2 DEF Runnable

(***************************************************************************)
(* block: the running process goes to a waiting list and another is        *)
(* dispatched.  Everybody is in one place afterwards.                      *)
(***************************************************************************)
LEMMA BlockKeepsPlaces ==
  ASSUME NEW q, NEW r, NEW i, NEW p \in Proc, running = p, ready \in Seq(Proc),
         RunnableOnce, Separate(q, Runnable), Proc = Runnable \cup Queued(q),
         Joined(q, r, i, p), RunNextReady(ready)
  PROVE  /\ running' \in Proc \cup {Idle} /\ ready' \in Seq(Proc)
         /\ RunnableOnce' /\ Separate(r, Runnable') /\ Proc = Runnable' \cup Queued(r)
<1>1. Runnable = Range(ready) \cup {p} /\ p \notin Range(ready) /\ IsInjective(ready)
  BY IdleAssumption DEF Runnable, RunnableOnce
<1>2. /\ running' \in Proc \cup {Idle} /\ ready' \in Seq(Proc)
      /\ RunnableOnce' /\ Runnable' = Range(ready)
  BY <1>1, RunNextReadyOnce
<1>3. Range(ready) \subseteq Runnable /\ p \in Runnable
  BY <1>1
<1>4. Separate(r, Range(ready)) /\ Queued(r) = Queued(q) \cup {p}
  BY <1>1, <1>3, JoinSeparate
<1> QED BY <1>1, <1>2, <1>4

(***************************************************************************)
(* unblock: processes go from a waiting list to the ready queue while the  *)
(* caller runs on.  Everybody is in one place afterwards.                  *)
(***************************************************************************)
LEMMA WakeKeepsPlaces ==
  ASSUME NEW q, NEW r, NEW i, NEW w \in Seq(Proc), IsInjective(w), ready \in Seq(Proc),
         RunnableOnce, Separate(q, Runnable), Proc = Runnable \cup Queued(q),
         Taken(q, r, i, Range(w)), ready' = ready \o w, running' = running
  PROVE  /\ ready' \in Seq(Proc)
         /\ RunnableOnce' /\ Separate(r, Runnable') /\ Proc = Runnable' \cup Queued(r)
<1> DEFINE W == Range(w)
<1>1. /\ Queued(r) = Queued(q) \ W /\ W \subseteq Queued(q) /\ W \cap Runnable = {}
  BY TakeQueued
<1>2. ready' \in Seq(Proc) /\ IsInjective(ready') /\ Range(ready') = Range(ready) \cup W
  BY <1>1, WokenIsReady
<1>3. W \subseteq Proc \ Runnable
  BY <1>1, RangeOfSeq
<1> HIDE DEF W
<1>4. RunnableOnce' /\ Runnable' = Runnable \cup W
  BY <1>2, <1>3, WakeSeparate
<1>5. Runnable' \subseteq Runnable \cup W /\ Taken(q, r, i, W)
  BY <1>4 DEF W
<1>6. Separate(r, Runnable')
  BY <1>5, TakeSeparate
<1> QED BY <1>1, <1>2, <1>4, <1>6

-----------------------------------------------------------------------------
(***************************************************************************)
(* Counting processes.                                                     *)
(***************************************************************************)
LEMMA CountOfProcs ==
  ASSUME NEW S \in SUBSET Proc
  PROVE  /\ Cardinality(S) \in Nat
         /\ Cardinality(S) = 0 <=> S = {}
         /\ \A x \in S : Cardinality(S \ {x}) = Cardinality(S) - 1
         /\ \A x \in Proc \ S : Cardinality(S \cup {x}) = Cardinality(S) + 1
<1>1. IsFiniteSet(S)
  BY ProcAssumption, FS_Subset
<1> QED BY <1>1, FS_CardinalityType, FS_EmptySet, FS_AddElement, FS_RemoveElement

(***************************************************************************)
(* A counter that counts two kinds of processes is the sum of the two.     *)
(***************************************************************************)
LEMMA CountOfUnion ==
  ASSUME NEW S \in SUBSET Proc, NEW T \in SUBSET Proc, S \cap T = {}
  PROVE  Cardinality(S \cup T) = Cardinality(S) + Cardinality(T)
<1>1. IsFiniteSet(S) /\ IsFiniteSet(T)
  BY ProcAssumption, FS_Subset
<1>2. Cardinality(S) \in Nat /\ Cardinality(T) \in Nat
  BY <1>1, FS_CardinalityType
<1>3. Cardinality(S \cup T) = Cardinality(S) + Cardinality(T) - Cardinality(S \cap T)
  BY <1>1, FS_Union
<1>4. Cardinality(S \cap T) = 0
  BY FS_EmptySet
<1> QED BY <1>2, <1>3, <1>4

(***************************************************************************)
(* A list without repetition is as long as it has members.                 *)
(***************************************************************************)
LEMMA LengthCounts ==
  ASSUME NEW S, NEW s \in Seq(S), IsInjective(s)
  PROVE  Len(s) = Cardinality(Range(s))
<1>1. DOMAIN s = 1..Len(s) /\ Len(s) \in Nat /\ s \in [1..Len(s) -> Range(s)]
  BY LenProperties DEF Range
<1>2. s \in Bijection(1..Len(s), Range(s))
  BY <1>1 DEF Bijection, Injection, Surjection, IsInjective, Range
<1>3. ExistsBijection(1..Len(s), Range(s))
  BY <1>2 DEF ExistsBijection
<1> QED BY <1>1, <1>3, FS_CountingElements

(***************************************************************************)
(* At the start every process is runnable, once.                           *)
(***************************************************************************)
LEMMA SchedInitOnce ==
  ASSUME SchedInit
  PROVE  /\ running \in Proc /\ ready \in Seq(Proc)
         /\ pc = [p \in Proc |-> "user"]
         /\ RunnableOnce /\ Runnable = Proc
<1> DEFINE n == Cardinality(Proc) - 1
<1>1. n \in Nat
  <2>1. Cardinality(Proc) \in Nat
    BY ProcAssumption, FS_CardinalityType
  <2>2. Cardinality(Proc) # 0
    BY ProcAssumption, FS_EmptySet DEF SchedInit
  <2> QED BY <2>1, <2>2
<1>2. ready \in Bijection(1..n, Proc \ {running}) /\ running \in Proc
      /\ pc = [p \in Proc |-> "user"]
  BY DEF SchedInit
<1> HIDE DEF n
<1>3. ready \in [1..n -> Proc \ {running}] /\ IsInjective(ready)
      /\ \A p \in Proc \ {running} : \E i \in 1..n : ready[i] = p
  BY <1>2 DEF Bijection, Injection, Surjection
<1>4. ready \in Seq(Proc)
  BY <1>1, <1>3
<1>5. Range(ready) = Proc \ {running}
  BY <1>3 DEF Range
<1>6. Runnable = Proc
  BY <1>2, <1>5, IdleAssumption DEF Runnable
<1> QED BY <1>2, <1>3, <1>4, <1>5, <1>6 DEF RunnableOnce

=============================================================================
