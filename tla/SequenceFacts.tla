----------------------------- MODULE SequenceFacts -----------------------------
(***************************************************************************)
(* What the operators on sequences that the models use do to the elements  *)
(* of a sequence: append, receive, concatenate, replace.                   *)
(***************************************************************************)
EXTENDS SequencesExt, SequenceTheorems, TLAPS

(* A sequence after a message or a reading was put at its end.             *)
LEMMA AppendElements ==
    ASSUME NEW S, NEW s \in Seq(S), NEW e \in S
    PROVE  /\ Append(s, e) \in Seq(S)
           /\ Len(Append(s, e)) = Len(s) + 1
           /\ Append(s, e)[Len(s) + 1] = e
           /\ \A i \in 1..Len(s) : Append(s, e)[i] = s[i]
           /\ ToSet(Append(s, e)) = ToSet(s) \cup {e}
<1>1. /\ Append(s, e) \in Seq(S)
      /\ Len(Append(s, e)) = Len(s) + 1
      /\ Append(s, e)[Len(s) + 1] = e
      /\ \A i \in 1..Len(s) : Append(s, e)[i] = s[i]
  OBVIOUS
<1>2. /\ DOMAIN s = 1..Len(s)
      /\ DOMAIN Append(s, e) = 1..(Len(s) + 1)
      /\ Len(s) \in Nat
  BY <1>1
<1>3. ToSet(Append(s, e)) = ToSet(s) \cup {e}
  BY <1>1, <1>2 DEF ToSet
<1> QED
  BY <1>1, <1>3

(* An element that was not in a sequence without duplicates makes none     *)
(* when it is appended.                                                    *)
LEMMA AppendInjectively ==
    ASSUME NEW S, NEW s \in Seq(S), NEW e \in S, IsInjective(s), e \notin ToSet(s)
    PROVE  IsInjective(Append(s, e))
<1>1. /\ DOMAIN Append(s, e) = 1..(Len(s) + 1) /\ DOMAIN s = 1..Len(s)
      /\ Len(s) \in Nat
      /\ \A i \in 1..Len(s) : Append(s, e)[i] = s[i] /\ s[i] # e
      /\ Append(s, e)[Len(s) + 1] = e
  BY AppendElements DEF ToSet
<1> QED
  BY <1>1 DEF IsInjective

(* A queue before and after its first message was received.                *)
LEMMA TailElements ==
    ASSUME NEW S, NEW s \in Seq(S), s # <<>>
    PROVE  /\ Head(s) \in S /\ Tail(s) \in Seq(S)
           /\ Len(s) >= 1 /\ Len(Tail(s)) = Len(s) - 1
           /\ Head(s) = s[1]
           /\ \A i \in 1..(Len(s) - 1) : Tail(s)[i] = s[i + 1]
           /\ ToSet(s) = {Head(s)} \cup ToSet(Tail(s))
<1>1. /\ Head(s) \in S /\ Tail(s) \in Seq(S)
      /\ Len(s) \in Nat \ {0} /\ Len(Tail(s)) = Len(s) - 1
      /\ Head(s) = s[1]
      /\ \A i \in 1..(Len(s) - 1) : Tail(s)[i] = s[i + 1]
  BY HeadTailProperties, EmptySeq
<1>2. DOMAIN s = 1..Len(s) /\ DOMAIN Tail(s) = 1..(Len(s) - 1)
  BY <1>1
<1>3. ASSUME NEW i \in 1..Len(s)
      PROVE  s[i] = Head(s) \/ s[i] \in ToSet(Tail(s))
  <2>1. CASE i # 1
    <3>1. i - 1 \in 1..(Len(s) - 1) /\ (i - 1) + 1 = i
      BY <1>1, <2>1
    <3> QED
      BY <1>1, <1>2, <3>1 DEF ToSet
  <2> QED
    BY <1>1, <2>1
<1>4. ToSet(Tail(s)) \subseteq ToSet(s)
  BY <1>1, <1>2 DEF ToSet
<1>5. Head(s) \in ToSet(s)
  BY <1>1, <1>2 DEF ToSet
<1>6. ToSet(s) \subseteq {Head(s)} \cup ToSet(Tail(s))
  BY <1>2, <1>3 DEF ToSet
<1> QED
  BY <1>1, <1>4, <1>5, <1>6

(* What is taken from the front of a sequence without duplicates is not in *)
(* the rest, which has no duplicates.                                      *)
LEMMA TailInjectively ==
    ASSUME NEW S, NEW s \in Seq(S), s # <<>>, IsInjective(s)
    PROVE  IsInjective(Tail(s)) /\ Head(s) \notin ToSet(Tail(s))
<1>1. /\ DOMAIN s = 1..Len(s) /\ DOMAIN Tail(s) = 1..(Len(s) - 1)
      /\ Len(s) \in Nat /\ Len(s) >= 1 /\ Head(s) = s[1]
      /\ \A i \in 1..(Len(s) - 1) : Tail(s)[i] = s[i + 1]
  BY TailElements
<1>2. \A i, j \in 1..Len(s) : s[i] = s[j] => i = j
  BY <1>1 DEF IsInjective
<1>3. \A i \in 1..(Len(s) - 1) : Tail(s)[i] # Head(s)
  BY <1>1, <1>2
<1>4. \A i, j \in 1..(Len(s) - 1) : Tail(s)[i] = Tail(s)[j] => i = j
  BY <1>1, <1>2
<1> QED
  BY <1>1, <1>3, <1>4 DEF IsInjective, ToSet

(* A concatenation has the elements of both parts.                         *)
LEMMA ConcatElements ==
    ASSUME NEW S, NEW s \in Seq(S), NEW t \in Seq(S)
    PROVE  ToSet(s \o t) = ToSet(s) \cup ToSet(t)
<1>1. /\ DOMAIN s = 1..Len(s) /\ DOMAIN t = 1..Len(t)
      /\ DOMAIN (s \o t) = 1..(Len(s) + Len(t))
      /\ Len(s) \in Nat /\ Len(t) \in Nat
      /\ \A i \in 1..(Len(s) + Len(t)) :
           (s \o t)[i] = IF i <= Len(s) THEN s[i] ELSE t[i - Len(s)]
  BY ConcatProperties, LenProperties
<1>2. ToSet(s \o t) \subseteq ToSet(s) \cup ToSet(t)
  BY <1>1 DEF ToSet
<1>3. ToSet(s) \subseteq ToSet(s \o t)
  BY <1>1 DEF ToSet
<1>4. ASSUME NEW i \in 1..Len(t)
      PROVE  t[i] \in ToSet(s \o t)
  <2>1. Len(s) + i \in 1..(Len(s) + Len(t)) /\ ~(Len(s) + i <= Len(s))
        /\ (Len(s) + i) - Len(s) = i
    BY <1>1
  <2>2. (s \o t)[Len(s) + i] = t[i]
    BY <1>1, <2>1
  <2> QED
    BY <1>1, <2>1, <2>2 DEF ToSet
<1> QED
  BY <1>1, <1>2, <1>3, <1>4 DEF ToSet

(* What a concatenation added can be read off its end.                     *)
LEMMA SubSeqOfConcat ==
    ASSUME NEW S, NEW s \in Seq(S), NEW t \in Seq(S)
    PROVE  SubSeq(s \o t, Len(s) + 1, Len(s \o t)) = t
<1> DEFINE u == SubSeq(s \o t, Len(s) + 1, Len(s) + Len(t))
<1>1. /\ s \o t \in Seq(S) /\ Len(s \o t) = Len(s) + Len(t)
      /\ Len(s) \in Nat /\ Len(t) \in Nat
      /\ \A i \in 1..(Len(s) + Len(t)) :
           (s \o t)[i] = IF i <= Len(s) THEN s[i] ELSE t[i - Len(s)]
  BY ConcatProperties, LenProperties
<1>2. \A i \in (Len(s) + 1)..(Len(s) + Len(t)) : (s \o t)[i] \in S
  BY <1>1, ElementOfSeq
<1>3. /\ u \in Seq(S) /\ Len(u) = Len(t)
      /\ \A i \in 1..Len(t) : u[i] = (s \o t)[Len(s) + i]
  BY <1>1, <1>2, SubSeqProperties
<1>4. \A i \in 1..Len(t) : u[i] = t[i]
  BY <1>1, <1>3
<1> HIDE DEF u
<1>5. u = t
  BY <1>3, <1>4, SeqEqual
<1> QED
  BY <1>1, <1>5 DEF u

(* A sequence after one of its places got a new value.                     *)
LEMMA ExceptElements ==
    ASSUME NEW S, NEW s \in Seq(S), NEW i, NEW e \in S
    PROVE  /\ [s EXCEPT ![i] = e] \in Seq(S)
           /\ Len([s EXCEPT ![i] = e]) = Len(s)
<1>1. CASE i \in 1..Len(s)
  BY <1>1, ExceptSeq
<1>2. CASE i \notin 1..Len(s)
  <2>1. DOMAIN s = 1..Len(s) /\ s = [j \in DOMAIN s |-> s[j]]
    BY LenProperties
  <2>2. [s EXCEPT ![i] = e] = s
    BY <1>2, <2>1
  <2> QED
    BY <2>2
<1> QED
  BY <1>1, <1>2

(* The elements of a sequence over S are in S.                             *)
LEMMA ToSetType ==
    ASSUME NEW S, NEW s \in Seq(S)
    PROVE  ToSet(s) \subseteq S
BY DEF ToSet

(* The empty sequence has no elements.                                     *)
LEMMA ToSetEmpty == ToSet(<<>>) = {}
BY DEF ToSet
-----------------------------------------------------------------------------

(* At most one place of s holds an element of S.                           *)
AtMostOne(S, s) == \A i, j \in DOMAIN s : s[i] \in S /\ s[j] \in S => i = j

(* Every x in s has a y somewhere behind it.                               *)
Covered(x, y, s) == \A i \in DOMAIN s : s[i] = x => \E j \in DOMAIN s : j > i /\ s[j] = y

(* The order of the messages in a queue to which one is added ...          *)
LEMMA AppendOrder ==
    ASSUME NEW S, NEW s \in Seq(S), NEW e \in S
    PROVE  /\ \A W : AtMostOne(W, s) /\ (e \in W => ToSet(s) \cap W = {})
                       => AtMostOne(W, Append(s, e))
           /\ \A x : \A y \in S \ {x} : e = y => Covered(x, y, Append(s, e))
           /\ \A x, y : Covered(x, y, s) /\ e # x => Covered(x, y, Append(s, e))
<1>1. /\ DOMAIN s = 1..Len(s) /\ DOMAIN Append(s, e) = 1..(Len(s) + 1)
      /\ Len(s) \in Nat
      /\ \A i \in 1..Len(s) : Append(s, e)[i] = s[i]
      /\ Append(s, e)[Len(s) + 1] = e
  BY AppendElements
<1> DEFINE t == Append(s, e)
           n == Len(s) + 1
<1>2. /\ DOMAIN s = 1..(n - 1) /\ DOMAIN t = 1..n /\ n \in Nat \ {0}
      /\ \A i \in 1..(n - 1) : t[i] = s[i]
      /\ t[n] = e
  BY <1>1
<1> HIDE DEF t, n
<1>3. ASSUME NEW W, AtMostOne(W, s), e \in W => ToSet(s) \cap W = {}
      PROVE  AtMostOne(W, t)
  <2>1. \A i \in 1..(n - 1) : e \in W => s[i] \notin W
    BY <1>2, <1>3 DEF ToSet
  <2> QED
    BY <1>2, <1>3, <2>1 DEF AtMostOne
<1>4. ASSUME NEW x, NEW y \in S \ {x}, e = y
      PROVE  Covered(x, y, t)
  BY <1>2, <1>4 DEF Covered
<1>5. ASSUME NEW x, NEW y, Covered(x, y, s), e # x
      PROVE  Covered(x, y, t)
  BY <1>2, <1>5 DEF Covered
<1> QED
  BY <1>3, <1>4, <1>5 DEF t

(* ... and from which the first one is taken.                              *)
LEMMA TailOrder ==
    ASSUME NEW S, NEW s \in Seq(S), s # <<>>
    PROVE  /\ \A W : AtMostOne(W, s) =>
                /\ AtMostOne(W, Tail(s))
                /\ Head(s) \in W => ToSet(Tail(s)) \cap W = {}
           /\ \A x, y : Covered(x, y, s) =>
                /\ Covered(x, y, Tail(s))
                /\ Head(s) = x /\ x # y => y \in ToSet(Tail(s))
<1> DEFINE t == Tail(s)
           n == Len(s)
<1>1. /\ DOMAIN s = 1..n /\ DOMAIN t = 1..(n - 1) /\ n \in Nat \ {0}
      /\ \A i \in 1..(n - 1) : t[i] = s[i + 1]
      /\ Head(s) = s[1]
  BY TailElements
<1> HIDE DEF t, n
<1>2. ASSUME NEW W, AtMostOne(W, s)
      PROVE  /\ AtMostOne(W, t)
             /\ Head(s) \in W => ToSet(t) \cap W = {}
  <2>1. \A i \in 1..(n - 1) : i + 1 \in 1..n /\ 1 \in 1..n /\ i + 1 # 1
    BY <1>1
  <2>2. \A i, j \in 1..(n - 1) : i + 1 = j + 1 => i = j
    OBVIOUS
  <2>3. AtMostOne(W, t)
    BY <1>1, <1>2, <2>1, <2>2 DEF AtMostOne
  <2>4. ASSUME Head(s) \in W, NEW i \in 1..(n - 1) PROVE t[i] \notin W
    BY <1>1, <1>2, <2>1, <2>4 DEF AtMostOne
  <2> QED
    BY <1>1, <2>3, <2>4 DEF ToSet
<1>3. ASSUME NEW x, NEW y, Covered(x, y, s)
      PROVE  /\ Covered(x, y, t)
             /\ Head(s) = x /\ x # y => y \in ToSet(t)
  <2>1. ASSUME NEW i \in 1..n, s[i] = x
        PROVE  \E j \in 1..(n - 1) : j + 1 > i /\ t[j] = y
    <3>1. PICK j \in 1..n : j > i /\ s[j] = y
      BY <1>1, <1>3, <2>1 DEF Covered
    <3>2. j - 1 \in 1..(n - 1) /\ (j - 1) + 1 = j
      BY <1>1, <3>1
    <3> QED
      BY <1>1, <3>1, <3>2
  <2>2. Covered(x, y, t)
    <3>1. ASSUME NEW i \in 1..(n - 1), t[i] = x
          PROVE  \E j \in 1..(n - 1) : j > i /\ t[j] = y
      <4>1. i + 1 \in 1..n /\ s[i + 1] = x
        BY <1>1, <3>1
      <4>2. PICK j \in 1..(n - 1) : j + 1 > i + 1 /\ t[j] = y
        BY <2>1, <4>1
      <4> QED
        BY <4>2
    <3> QED
      BY <1>1, <3>1 DEF Covered
  <2>3. ASSUME Head(s) = x PROVE y \in ToSet(t)
    <3>1. 1 \in 1..n /\ s[1] = x
      BY <1>1, <2>3
    <3>2. \E j \in 1..(n - 1) : t[j] = y
      BY <2>1, <3>1
    <3> QED
      BY <1>1, <3>2 DEF ToSet
  <2> QED
    BY <2>2, <2>3
<1> QED
  BY <1>2, <1>3 DEF t

(* Two elements of S are the same one if a sequence has at most one.       *)
LEMMA OnlyElement ==
    ASSUME NEW S, NEW s, AtMostOne(S, s), NEW x \in S, NEW y \in S,
           x \in ToSet(s), y \in ToSet(s)
    PROVE  x = y
BY DEF AtMostOne, ToSet

(* What holds of the order follows at once where an element is missing.    *)
LEMMA NothingToCover ==
    ASSUME NEW x, NEW y, NEW s
    PROVE  /\ x \notin ToSet(s) => Covered(x, y, s)
           /\ Covered(x, y, s) /\ y \notin ToSet(s) => x \notin ToSet(s)
BY DEF ToSet, Covered
=============================================================================
