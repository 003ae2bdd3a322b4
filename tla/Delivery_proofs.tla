--------------------------- MODULE Delivery_proofs ---------------------------
(***************************************************************************)
(* What OstSocket promises its applications, while sequence numbers do not *)
(* wrap: whatever is lost, retransmitted or overtaken, whatever shares an  *)
(* instant and whoever closes and reopens.                                 *)
(*                                                                         *)
(* A message keeps the sequence number it is given when it enters the      *)
(* window, and no two messages between two closes of their sender have the *)
(* same.  Everything that is about, in a window, in the link or with the   *)
(* application, is a message under the number it was given.                *)
(***************************************************************************)
EXTENDS OstSocket_proofs, FiniteSetTheorems

USE WindowAssumption

\* Sequence numbers do not wrap: 255 messages in the code.
FirstRound == \A e \in Setting : \A n \in Node : e.offers[n] < MAX_SEQ_N

-----------------------------------------------------------------------------
(***************************************************************************)
(* Numbers.  q are the ids a sender accepted, f the messages among them    *)
(* that have no number yet, C the ids at which it closed, o how many sends *)
(* it was offered and l how many it can be.                                *)
(***************************************************************************)

\* The places of the messages before id with no close between them and id.
Below(q, C, id) ==
  {i \in 1 .. Len(q) : q[i] < id /\ \A c \in C : c <= q[i] \/ id < c}

Number(q, C, id) == Cardinality(Below(q, C, id))

NextId(o, f) == IF f = <<>> THEN o + 1 ELSE Head(f).id

\* Message id was given the number s.
GivenIn(q, f, C, id, s) ==
  \E i \in 1 .. Len(q) - Len(f) : q[i] = id /\ Number(q, C, id) = s

\* What is inductive about a sender, t being the top of its window.
Numbering(l, o, q, f, C, t) ==
  /\ Len(q) <= o /\ o <= l
  /\ \A i \in 1 .. Len(q) : q[i] <= o
  /\ \A i, j \in 1 .. Len(q) : i < j => q[i] < q[j]
  /\ Len(f) <= Len(q)
  /\ \A i \in 1 .. Len(f) : f[i].id = q[Len(q) - Len(f) + i]
  /\ \A c \in C : c <= NextId(o, f)
  /\ t = Number(q, C, NextId(o, f))

SenderTypes(l, o, q, f, C) ==
  /\ l \in Nat /\ o \in Nat
  /\ q \in Seq(Nat) /\ f \in Seq(Message) /\ C \in SUBSET Nat

\* A number is a natural number, below the place of its message.
LEMMA NumberType ==
  ASSUME NEW q \in Seq(Nat), NEW C, NEW id, NEW k \in Nat,
         \A i \in Below(q, C, id) : i <= k
  PROVE  /\ IsFiniteSet(Below(q, C, id))
         /\ Number(q, C, id) \in Nat
         /\ Number(q, C, id) <= k
<1>1. Len(q) \in Nat
  BY LenProperties
<1>2. Below(q, C, id) \in SUBSET (1 .. k)
  BY <1>1 DEF Below
<1>3. IsFiniteSet(1 .. k) /\ Cardinality(1 .. k) = k
  BY FS_Interval
<1>4. IsFiniteSet(Below(q, C, id)) /\ Number(q, C, id) <= k
  BY <1>2, <1>3, FS_Subset DEF Number
<1> QED
  BY <1>4, FS_CardinalityType DEF Number

\* The next id is above the ids that have numbers and not above the others.
LEMMA NextBetween ==
  ASSUME NEW l, NEW o, NEW q, NEW f, NEW C, NEW t,
         SenderTypes(l, o, q, f, C), Numbering(l, o, q, f, C, t)
  PROVE  /\ NextId(o, f) \in Nat
         /\ \A i \in 1 .. Len(q) - Len(f) : q[i] < NextId(o, f)
         /\ \A i \in Len(q) - Len(f) + 1 .. Len(q) : NextId(o, f) <= q[i]
         /\ f # <<>> => /\ Len(q) - Len(f) + 1 \in 1 .. Len(q)
                        /\ NextId(o, f) = q[Len(q) - Len(f) + 1]
<1>1. /\ Len(q) \in Nat /\ Len(f) \in Nat /\ Len(f) <= Len(q) /\ o \in Nat
      /\ \A i \in 1 .. Len(q) : q[i] \in Nat /\ q[i] <= o
      /\ \A i, j \in 1 .. Len(q) : i < j => q[i] < q[j]
  BY LenProperties, ElementOfSeq DEF SenderTypes, Numbering
<1>2. CASE f = <<>>
  <2>1. Len(f) = 0 /\ NextId(o, f) = o + 1
    BY <1>2 DEF NextId
  <2> QED
    BY <1>1, <1>2, <2>1
<1>3. CASE f # <<>>
  <2>1. Len(f) > 0 /\ Head(f) = f[1]
    BY <1>3, EmptySeq DEF SenderTypes
  <2>2. NextId(o, f) = q[Len(q) - Len(f) + 1]
    BY <1>1, <1>3, <2>1 DEF NextId, Numbering
  <2> QED
    BY <1>1, <1>3, <2>1, <2>2
<1> QED
  BY <1>2, <1>3

\* All numbers, the next one included, are below MAX_SEQ_N, those of messages
\* below MAX_SEQ_N - 1.
LEMMA NumbersFit ==
  ASSUME NEW l, NEW o, NEW q, NEW f, NEW C, NEW t, l < MAX_SEQ_N,
         SenderTypes(l, o, q, f, C), Numbering(l, o, q, f, C, t)
  PROVE  /\ t \in Nat /\ t <= Len(q) - Len(f) /\ t < MAX_SEQ_N
         /\ \A id, s : GivenIn(q, f, C, id, s) =>
              s \in Nat /\ s < MAX_SEQ_N - 1 /\ s < Len(q) - Len(f)
<1>1. /\ Len(q) \in Nat /\ Len(f) \in Nat /\ Len(f) <= Len(q) /\ o \in Nat /\ l \in Nat
      /\ Len(q) <= o /\ o <= l /\ q \in Seq(Nat)
      /\ \A i \in 1 .. Len(q) : q[i] \in Nat
      /\ \A i, j \in 1 .. Len(q) : i < j => q[i] < q[j]
  BY LenProperties, ElementOfSeq DEF SenderTypes, Numbering
<1>2. t \in Nat /\ t <= Len(q) - Len(f)
  <2>1. \A i \in Below(q, C, NextId(o, f)) : i <= Len(q) - Len(f)
    <3> SUFFICES ASSUME NEW i \in 1 .. Len(q), q[i] < NextId(o, f), i > Len(q) - Len(f)
                 PROVE  FALSE
      BY <1>1 DEF Below
    <3>1. /\ NextId(o, f) \in Nat
          /\ \A j \in Len(q) - Len(f) + 1 .. Len(q) : NextId(o, f) <= q[j]
      BY NextBetween
    <3>2. i \in Len(q) - Len(f) + 1 .. Len(q)
      BY <1>1
    <3> QED
      BY <1>1, <3>1, <3>2
  <2>2. Len(q) - Len(f) \in Nat
    BY <1>1
  <2> QED
    BY <1>1, <2>1, <2>2, NumberType DEF Numbering
<1>3. ASSUME NEW id, NEW s, GivenIn(q, f, C, id, s)
      PROVE  s \in Nat /\ s < Len(q) - Len(f)
  <2>1. PICK i \in 1 .. Len(q) - Len(f) : q[i] = id /\ Number(q, C, id) = s
    BY <1>3 DEF GivenIn
  <2>2. \A k \in Below(q, C, id) : k <= i - 1
    <3> SUFFICES ASSUME NEW k \in 1 .. Len(q), q[k] < id, k >= i
                 PROVE  FALSE
      BY <1>1, <2>1 DEF Below
    <3>1. i \in 1 .. Len(q) /\ (k = i \/ i < k)
      BY <1>1
    <3> QED
      BY <1>1, <2>1, <3>1
  <2>3. i - 1 \in Nat
    BY <1>1
  <2>4. s \in Nat /\ s <= i - 1
    BY <1>1, <2>1, <2>2, <2>3, NumberType
  <2> QED
    BY <1>1, <2>4
<1>4. t < MAX_SEQ_N
  BY <1>1, <1>2
<1>5. ASSUME NEW id, NEW s, GivenIn(q, f, C, id, s)
      PROVE  s \in Nat /\ s < MAX_SEQ_N - 1 /\ s < Len(q) - Len(f)
  <2>1. s \in Nat /\ s < Len(q) - Len(f)
    BY <1>3, <1>5
  <2> QED
    BY <1>1, <2>1
<1> QED
  BY <1>2, <1>4, <1>5

\* A number stays when later ids are accepted and later closes happen.
LEMMA NumberStays ==
  ASSUME NEW q \in Seq(Nat), NEW r \in Seq(Nat), NEW C, NEW D, NEW id \in Nat,
         Len(q) <= Len(r), \A i \in 1 .. Len(q) : r[i] = q[i],
         \A i \in Len(q) + 1 .. Len(r) : id <= r[i],
         C \subseteq D, \A d \in D \ C : id < d
  PROVE  Number(r, D, id) = Number(q, C, id)
<1>1. Len(q) \in Nat /\ Len(r) \in Nat /\ \A i \in 1 .. Len(r) : r[i] \in Nat
  BY LenProperties, ElementOfSeq
<1>2. ASSUME NEW i \in 1 .. Len(r) PROVE i \in Below(r, D, id) <=> i \in Below(q, C, id)
  <2>1. CASE i \in 1 .. Len(q)
    BY <1>1, <2>1 DEF Below
  <2>2. CASE i \notin 1 .. Len(q)
    <3>1. i \in Len(q) + 1 .. Len(r) /\ r[i] \in Nat
      BY <1>1, <2>2
    <3>2. id <= r[i]
      BY <3>1
    <3>3. ~(r[i] < id)
      BY <3>1, <3>2
    <3> QED
      BY <2>2, <3>3 DEF Below
  <2> QED
    BY <2>1, <2>2
<1>3. Below(r, D, id) \subseteq 1 .. Len(r) /\ Below(q, C, id) \subseteq 1 .. Len(r)
  BY <1>1 DEF Below
<1>4. Below(r, D, id) = Below(q, C, id)
  BY <1>2, <1>3
<1> QED
  BY <1>4 DEF Number

\* The message that follows one with no close between them has the next number.
LEMMA NumberAfter ==
  ASSUME NEW q \in Seq(Nat), NEW C \in SUBSET Nat, NEW k \in 1 .. Len(q), NEW id \in Nat,
         \A i, j \in 1 .. Len(q) : i < j => q[i] < q[j],
         q[k] < id, \A i \in k + 1 .. Len(q) : id <= q[i],
         \A c \in C : c <= q[k]
  PROVE  Number(q, C, id) = Number(q, C, q[k]) + 1
<1>1. Len(q) \in Nat /\ \A i \in 1 .. Len(q) : q[i] \in Nat
  BY LenProperties, ElementOfSeq
<1>2. k \notin Below(q, C, q[k])
  BY <1>1 DEF Below
<1>3. Below(q, C, id) = Below(q, C, q[k]) \cup {k}
  <2>1. ASSUME NEW i \in 1 .. Len(q)
        PROVE  i \in Below(q, C, id) <=> i \in Below(q, C, q[k]) \/ i = k
    <3>1. CASE i < k
      BY <1>1, <3>1 DEF Below
    <3>2. CASE i = k
      BY <1>1, <3>2 DEF Below
    <3>3. CASE i > k
      BY <1>1, <3>3 DEF Below
    <3> QED
      BY <1>1, <3>1, <3>2, <3>3
  <2>2. Below(q, C, id) \subseteq 1 .. Len(q) /\ Below(q, C, q[k]) \subseteq 1 .. Len(q)
    BY DEF Below
  <2> QED
    BY <2>1, <2>2
<1>4. \A i \in Below(q, C, q[k]) : i <= Len(q)
  BY <1>1 DEF Below
<1>5. IsFiniteSet(Below(q, C, q[k]))
  BY <1>1, <1>4, NumberType
<1> QED
  BY <1>2, <1>3, <1>5, FS_AddElement DEF Number

-----------------------------------------------------------------------------
(***************************************************************************)
(* What a sender does to its numbers.                                      *)
(***************************************************************************)

\* send accepts a message.
LEMMA NumberingAccepts ==
  ASSUME NEW l, NEW o, NEW q, NEW f, NEW C, NEW t,
         SenderTypes(l, o, q, f, C), Numbering(l, o, q, f, C, t), o < l,
         NEW m \in Message, m.id = o + 1
  PROVE  /\ Numbering(l, o + 1, Append(q, o + 1), Append(f, m), C, t)
         /\ \A id, s : GivenIn(q, f, C, id, s) =>
              GivenIn(Append(q, o + 1), Append(f, m), C, id, s)
<1> DEFINE r == Append(q, o + 1)
           g == Append(f, m)
           x == NextId(o, f)
<1>1. /\ Len(q) \in Nat /\ Len(f) \in Nat /\ Len(f) <= Len(q) /\ o \in Nat /\ l \in Nat
      /\ Len(q) <= o /\ q \in Seq(Nat) /\ f \in Seq(Message) /\ C \in SUBSET Nat
      /\ \A i \in 1 .. Len(q) : q[i] \in Nat /\ q[i] <= o
      /\ \A i, j \in 1 .. Len(q) : i < j => q[i] < q[j]
      /\ \A i \in 1 .. Len(f) : f[i].id = q[Len(q) - Len(f) + i]
      /\ \A c \in C : c <= x
      /\ t = Number(q, C, x)
  BY LenProperties, ElementOfSeq DEF SenderTypes, Numbering
<1>2. /\ r \in Seq(Nat) /\ Len(r) = Len(q) + 1 /\ r[Len(q) + 1] = o + 1
      /\ \A i \in 1 .. Len(q) : r[i] = q[i]
  BY <1>1, AppendProperties
<1>3. /\ Len(g) = Len(f) + 1 /\ g[Len(f) + 1] = m /\ g # <<>>
      /\ \A i \in 1 .. Len(f) : g[i] = f[i]
      /\ Head(g) = IF f = <<>> THEN m ELSE Head(f)
  <2>1. f \in Seq(Message)
    BY <1>1
  <2>2. /\ Len(g) = Len(f) + 1 /\ g[Len(f) + 1] = m /\ g # <<>>
        /\ \A i \in 1 .. Len(f) : g[i] = f[i]
    BY <2>1, AppendProperties
  <2>3. Head(g) = IF f = <<>> THEN m ELSE Head(f)
    BY <2>1, HeadTailAppend
  <2> QED
    BY <2>2, <2>3
<1>4. NextId(o + 1, g) = x
  BY <1>3 DEF NextId
<1>5. x \in Nat /\ x <= o + 1 /\ \A i \in 1 .. Len(q) - Len(f) : q[i] < x
  <2>1. /\ x \in Nat /\ \A i \in 1 .. Len(q) - Len(f) : q[i] < x
        /\ f # <<>> => Len(q) - Len(f) + 1 \in 1 .. Len(q) /\ x = q[Len(q) - Len(f) + 1]
    BY NextBetween
  <2> QED
    BY <1>1, <2>1 DEF NextId
<1> HIDE DEF r, g, x
<1>6. ASSUME NEW id \in Nat, id <= o + 1
      PROVE  Number(r, C, id) = Number(q, C, id)
  <2>1. \A i \in Len(q) + 1 .. Len(r) : id <= r[i]
    BY <1>1, <1>2, <1>6
  <2>2. Len(q) <= Len(r)
    BY <1>1, <1>2
  <2> QED
    BY <1>1, <1>2, <2>1, <2>2, NumberStays
<1>7. Numbering(l, o + 1, r, g, C, t)
  <2>1. \A i \in 1 .. Len(r) : r[i] <= o + 1
    <3> SUFFICES ASSUME NEW i \in 1 .. Len(r) PROVE r[i] <= o + 1
      OBVIOUS
    <3>1. i \in 1 .. Len(q) \/ i = Len(q) + 1
      BY <1>1, <1>2
    <3>2. CASE i = Len(q) + 1
      BY <1>1, <1>2, <3>2
    <3>3. CASE i \in 1 .. Len(q)
      <4>1. r[i] = q[i] /\ q[i] \in Nat /\ q[i] <= o /\ o \in Nat
        BY <1>1, <1>2, <3>3
      <4> QED
        BY <4>1
    <3> QED
      BY <3>1, <3>2, <3>3
  <2>2. \A i, j \in 1 .. Len(r) : i < j => r[i] < r[j]
    <3> SUFFICES ASSUME NEW i \in 1 .. Len(r), NEW j \in 1 .. Len(r), i < j
                 PROVE  r[i] < r[j]
      OBVIOUS
    <3>1. i \in 1 .. Len(q) /\ (j \in 1 .. Len(q) \/ j = Len(q) + 1)
      <4>1. Len(q) \in Nat /\ Len(r) = Len(q) + 1
        BY <1>1, <1>2
      <4> QED
        BY <4>1
    <3>2. r[i] = q[i] /\ q[i] \in Nat /\ q[i] <= o /\ o \in Nat
      BY <1>1, <1>2, <3>1
    <3>3. CASE j = Len(q) + 1
      BY <1>2, <3>2, <3>3
    <3>4. CASE j \in 1 .. Len(q)
      BY <1>1, <1>2, <3>1, <3>2, <3>4
    <3> QED
      BY <3>1, <3>3, <3>4
  <2>3. \A i \in 1 .. Len(g) : g[i].id = r[Len(r) - Len(g) + i]
    <3> SUFFICES ASSUME NEW i \in 1 .. Len(g) PROVE g[i].id = r[Len(r) - Len(g) + i]
      OBVIOUS
    <3>1. CASE i = Len(f) + 1
      BY <1>1, <1>2, <1>3, <3>1
    <3>2. CASE i # Len(f) + 1
      <4>1. i \in 1 .. Len(f) /\ Len(q) - Len(f) + i \in 1 .. Len(q)
        BY <1>1, <1>3, <3>2
      <4>2. Len(r) - Len(g) + i = Len(q) - Len(f) + i
        BY <1>1, <1>2, <1>3
      <4> QED
        BY <1>1, <1>2, <1>3, <4>1, <4>2
    <3> QED
      BY <3>1, <3>2
  <2>4. t = Number(r, C, x)
    BY <1>1, <1>5, <1>6
  <2> QED
    BY <1>1, <1>2, <1>3, <1>4, <2>1, <2>2, <2>3, <2>4 DEF Numbering
<1>8. ASSUME NEW id, NEW s, GivenIn(q, f, C, id, s)
      PROVE  GivenIn(r, g, C, id, s)
  <2>1. PICK i \in 1 .. Len(q) - Len(f) : q[i] = id /\ Number(q, C, id) = s
    BY <1>8 DEF GivenIn
  <2>2. i \in 1 .. Len(q) /\ i \in 1 .. Len(r) - Len(g)
    <3>1. Len(r) = Len(q) + 1 /\ Len(g) = Len(f) + 1 /\ Len(q) \in Nat /\ Len(f) \in Nat
      BY <1>1, <1>2, <1>3
    <3> QED
      BY <2>1, <3>1
  <2>3. Number(r, C, id) = s
    <3>1. id \in Nat /\ id <= o + 1
      BY <1>1, <2>1, <2>2
    <3> QED
      BY <1>6, <2>1, <3>1
  <2> QED
    BY <1>2, <2>1, <2>2, <2>3 DEF GivenIn
<1> QED
  BY <1>7, <1>8 DEF r, g

\* send drops a message, its queue being full.
LEMMA NumberingDrops ==
  ASSUME NEW l, NEW o, NEW q, NEW f, NEW C, NEW t,
         SenderTypes(l, o, q, f, C), Numbering(l, o, q, f, C, t), o < l, f # <<>>
  PROVE  Numbering(l, o + 1, q, f, C, t)
<1>1. NextId(o + 1, f) = NextId(o, f)
  BY DEF NextId
<1>2. /\ Len(q) \in Nat /\ o \in Nat /\ l \in Nat
      /\ \A i \in 1 .. Len(q) : q[i] \in Nat
  BY LenProperties, ElementOfSeq DEF SenderTypes
<1>3. Len(q) <= o /\ \A i \in 1 .. Len(q) : q[i] <= o
  BY DEF Numbering
<1>4. Len(q) <= o + 1 /\ o + 1 <= l
  BY <1>2, <1>3
<1>5. \A i \in 1 .. Len(q) : q[i] <= o + 1
  BY <1>2, <1>3
<1> QED
  BY <1>1, <1>4, <1>5 DEF Numbering

\* close empties the window; what has no number yet will count from 0.
LEMMA NumberingCloses ==
  ASSUME NEW l, NEW o, NEW q, NEW f, NEW C, NEW t,
         SenderTypes(l, o, q, f, C), Numbering(l, o, q, f, C, t)
  PROVE  /\ Numbering(l, o, q, f, C \cup {NextId(o, f)}, 0)
         /\ \A id, s : GivenIn(q, f, C, id, s) =>
              GivenIn(q, f, C \cup {NextId(o, f)}, id, s)
<1> DEFINE x == NextId(o, f)
           D == C \cup {x}
<1>1. /\ Len(q) \in Nat /\ Len(f) \in Nat /\ q \in Seq(Nat) /\ C \in SUBSET Nat
      /\ \A i \in 1 .. Len(q) : q[i] \in Nat
      /\ Len(f) <= Len(q)
  BY LenProperties, ElementOfSeq DEF SenderTypes, Numbering
<1>2. x \in Nat /\ \A i \in 1 .. Len(q) - Len(f) : q[i] < x
  BY NextBetween
<1> HIDE DEF x
<1>3. Number(q, D, x) = 0
  <2>1. Below(q, D, x) = {}
    BY <1>1, <1>2 DEF Below
  <2> QED
    BY <2>1, FS_EmptySet DEF Number
<1>4. \A c \in D : c <= x
  BY <1>2 DEF Numbering, x
<1>5. ASSUME NEW id, NEW s, GivenIn(q, f, C, id, s)
      PROVE  GivenIn(q, f, D, id, s)
  <2>1. PICK i \in 1 .. Len(q) - Len(f) : q[i] = id /\ Number(q, C, id) = s
    BY <1>5 DEF GivenIn
  <2>2. id \in Nat /\ id < x
    BY <1>1, <1>2, <2>1
  <2>3. /\ Len(q) <= Len(q) /\ \A k \in 1 .. Len(q) : q[k] = q[k]
        /\ \A k \in Len(q) + 1 .. Len(q) : id <= q[k]
        /\ C \subseteq D /\ \A d \in D \ C : id < d
    BY <1>1, <2>2
  <2>4. Number(q, D, id) = Number(q, C, id)
    <3> HIDE DEF D
    <3>1. q \in Seq(Nat) /\ id \in Nat
      BY <1>1, <2>2
    <3> QED
      BY <2>3, <3>1, NumberStays
  <2> QED
    BY <2>1, <2>4 DEF GivenIn
<1> QED
  BY <1>3, <1>4, <1>5 DEF Numbering, x

\* A peek gives the next message the number at the top of the window.
LEMMA NumberingPeeks ==
  ASSUME NEW l, NEW o, NEW q, NEW f, NEW C, NEW t, l < MAX_SEQ_N,
         SenderTypes(l, o, q, f, C), Numbering(l, o, q, f, C, t), f # <<>>
  PROVE  /\ Numbering(l, o, q, Tail(f), C, Plus(t, 1))
         /\ t + 1 < MAX_SEQ_N /\ Plus(t, 1) = t + 1
         /\ GivenIn(q, Tail(f), C, Head(f).id, t)
         /\ \A id, s : GivenIn(q, f, C, id, s) => GivenIn(q, Tail(f), C, id, s)
<1> DEFINE g == Tail(f)
           k == Len(q) - Len(f) + 1
           y == NextId(o, g)
<1>1. /\ Len(q) \in Nat /\ Len(f) \in Nat /\ Len(f) <= Len(q) /\ o \in Nat /\ l \in Nat
      /\ Len(q) <= o /\ o <= l /\ q \in Seq(Nat) /\ f \in Seq(Message) /\ C \in SUBSET Nat
      /\ \A i \in 1 .. Len(q) : q[i] \in Nat /\ q[i] <= o
      /\ \A i, j \in 1 .. Len(q) : i < j => q[i] < q[j]
      /\ \A i \in 1 .. Len(f) : f[i].id = q[Len(q) - Len(f) + i]
      /\ \A c \in C : c <= NextId(o, f)
      /\ t = Number(q, C, NextId(o, f))
  BY LenProperties, ElementOfSeq DEF SenderTypes, Numbering
<1>2. /\ g \in Seq(Message) /\ Len(g) = Len(f) - 1 /\ Len(g) \in Nat
      /\ \A i \in 1 .. Len(g) : g[i] = f[i + 1]
  BY <1>1, HeadTailProperties, LenProperties
<1>3. /\ k \in 1 .. Len(q) /\ NextId(o, f) = q[k] /\ Head(f).id = q[k]
      /\ q[k] \in Nat
  <2>1. k \in 1 .. Len(q) /\ NextId(o, f) = q[k]
    BY NextBetween
  <2>2. NextId(o, f) = Head(f).id
    BY DEF NextId
  <2> QED
    BY <1>1, <2>1, <2>2
<1>4. y \in Nat /\ q[k] < y /\ \A i \in k + 1 .. Len(q) : y <= q[i]
  <2>1. CASE g = <<>>
    <3>1. Len(q) \in Nat /\ Len(f) \in Nat /\ Len(g) = Len(f) - 1 /\ Len(g) = 0
      BY <1>1, <1>2, <2>1, EmptySeq
    <3>2. y = o + 1 /\ k = Len(q)
      <4>1. \A h : h = <<>> => NextId(o, h) = o + 1
        BY DEF NextId
      <4>2. y = o + 1
        <5> HIDE DEF g
        <5> QED
          BY <2>1, <4>1
      <4>3. k = Len(q)
        <5>1. \A a, b \in Nat : 0 = b - 1 => a - b + 1 = a
          OBVIOUS
        <5>2. Len(q) \in Nat /\ Len(f) \in Nat /\ 0 = Len(f) - 1
          BY <3>1
        <5> QED
          BY <5>1, <5>2
      <4> QED
        BY <4>2, <4>3
    <3>3. q[k] <= o
      BY <1>1, <1>3
    <3> QED
      BY <1>1, <1>3, <3>2, <3>3, SMTT(20)
  <2>2. CASE g # <<>>
    <3>1. Len(g) > 0 /\ Head(g) = g[1]
      BY <1>2, <2>2, EmptySeq
    <3>2. y = q[k + 1] /\ k + 1 \in 1 .. Len(q)
      <4>1. 2 \in 1 .. Len(f) /\ 1 \in 1 .. Len(g)
        BY <1>1, <1>2, <3>1
      <4>2. y = f[2].id
        BY <1>2, <2>2, <3>1, <4>1 DEF NextId
      <4>3. k + 1 = Len(q) - Len(f) + 2 /\ k + 1 \in 1 .. Len(q)
        BY <1>1, <1>3, <4>1
      <4>4. f[2].id = q[Len(q) - Len(f) + 2]
        BY <1>1, <4>1
      <4> QED
        BY <4>2, <4>3, <4>4
    <3>3. k + 1 \in Nat /\ k \in Nat /\ y \in Nat
      BY <1>1, <1>3, <3>2, SMTT(30)
    <3>4. q[k] < y
      <4>1. k < k + 1 /\ k \in 1 .. Len(q) /\ k + 1 \in 1 .. Len(q)
        BY <1>3, <3>2, <3>3
      <4>2. \A i, j \in 1 .. Len(q) : i < j => q[i] < q[j]
        BY <1>1
      <4>3. q[k] < q[k + 1]
        <5> HIDE DEF k
        <5> QED
          BY <4>1, <4>2
      <4> QED
        BY <3>2, <4>3
    <3>5. ASSUME NEW i \in k + 1 .. Len(q) PROVE y <= q[i]
      <4>1. Len(q) \in Nat /\ i \in 1 .. Len(q) /\ (i = k + 1 \/ k + 1 < i)
        <5>1. Len(q) \in Nat /\ k \in 1 .. Len(q)
          BY <1>1, <1>3
        <5> HIDE DEF k
        <5> QED
          BY <5>1
      <4>2. \A a, b \in 1 .. Len(q) : a < b => q[a] < q[b]
        BY <1>1
      <4>3. q[i] \in Nat
        BY <1>1, <4>1
      <4> HIDE DEF k, y
      <4> QED
        BY <3>2, <3>3, <4>1, <4>2, <4>3
    <3> QED
      BY <3>3, <3>4, <3>5
  <2> QED
    BY <2>1, <2>2
<1> HIDE DEF y, g, k
<1>5. \A c \in C : c <= q[k]
  BY <1>1, <1>3
<1>6. Number(q, C, y) = t + 1
  <2>1. /\ q \in Seq(Nat) /\ C \in SUBSET Nat
        /\ \A i, j \in 1 .. Len(q) : i < j => q[i] < q[j]
        /\ k \in 1 .. Len(q) /\ t = Number(q, C, q[k])
    BY <1>1, <1>3
  <2>2. Number(q, C, y) = Number(q, C, q[k]) + 1
    BY <1>4, <1>5, <2>1, NumberAfter
  <2> QED
    BY <2>1, <2>2
<1>7. Numbering(l, o, q, g, C, t + 1)
  <2>1. \A i \in 1 .. Len(g) : g[i].id = q[Len(q) - Len(g) + i]
    <3> SUFFICES ASSUME NEW i \in 1 .. Len(g) PROVE g[i].id = q[Len(q) - Len(g) + i]
      OBVIOUS
    <3>1. i + 1 \in 1 .. Len(f) /\ Len(q) - Len(f) + (i + 1) = Len(q) - Len(g) + i
      BY <1>1, <1>2
    <3> QED
      BY <1>1, <1>2, <3>1
  <2>2. \A c \in C : c <= y
    BY <1>1, <1>3, <1>4, <1>5
  <2> QED
    BY <1>1, <1>2, <1>6, <2>1, <2>2 DEF Numbering, y
<1>8. t \in Nat /\ t + 1 < MAX_SEQ_N
  <2>1. SenderTypes(l, o, q, g, C)
    BY <1>1, <1>2 DEF SenderTypes
  <2>2. t + 1 < MAX_SEQ_N
    BY <1>7, <2>1, NumbersFit
  <2>3. t \in Nat
    BY NumbersFit
  <2> QED
    BY <2>2, <2>3
<1>9. Plus(t, 1) = t + 1
  BY <1>8 DEF Plus
<1>10. k \in 1 .. Len(q) - Len(g)
  BY <1>1, <1>2, <1>3 DEF k
<1>11. GivenIn(q, g, C, Head(f).id, t)
  BY <1>1, <1>3, <1>10 DEF GivenIn
<1>12. ASSUME NEW id, NEW s, GivenIn(q, f, C, id, s)
       PROVE  GivenIn(q, g, C, id, s)
  <2>1. 1 .. Len(q) - Len(f) \subseteq 1 .. Len(q) - Len(g)
    BY <1>1, <1>2
  <2> QED
    BY <1>12, <2>1 DEF GivenIn
<1> QED
  BY <1>7, <1>8, <1>9, <1>11, <1>12 DEF g

-----------------------------------------------------------------------------
(***************************************************************************)
(* What a step does to the two sides of a transfer and to the link.        *)
(***************************************************************************)

Holds(q, x) == \E i \in 1 .. Len(q) : q[i] = x

\* A packet of n is in the link, or its arrival is a pending event of the peer.
Carries(n, pk) ==
  Holds(wire[n], pk) \/ Holds(now[Peer(n)], ArrivalEvent(pk))

Ack(s) == [flag |-> "ACK", seq_number |-> s]
Data(s, m) == [flag |-> "DTA", seq_number |-> s, msg |-> m]

SenderRests(n) ==
  /\ offered'[n] = offered[n] /\ sent'[n] = sent[n] /\ cuts'[n] = cuts[n]
  /\ transmit_fifo'[n] = transmit_fifo[n]
  /\ tx_window_top'[n] = tx_window_top[n] /\ tx_window'[n] = tx_window[n]

\* send takes message m, or drops it.
SenderAccepts(n, m) ==
  /\ offered[n] < setting.offers[n] /\ m.id = offered[n] + 1
  /\ offered'[n] = offered[n] + 1 /\ sent'[n] = Append(sent[n], offered[n] + 1)
  /\ cuts'[n] = cuts[n] /\ transmit_fifo'[n] = Append(transmit_fifo[n], m)
  /\ tx_window_top'[n] = tx_window_top[n] /\ tx_window'[n] = tx_window[n]

SenderDrops(n) ==
  /\ offered[n] < setting.offers[n] /\ transmit_fifo[n] # <<>>
  /\ offered'[n] = offered[n] + 1 /\ sent'[n] = sent[n] /\ cuts'[n] = cuts[n]
  /\ transmit_fifo'[n] = transmit_fifo[n]
  /\ tx_window_top'[n] = tx_window_top[n] /\ tx_window'[n] = tx_window[n]

SenderCloses(n) ==
  /\ offered'[n] = offered[n] /\ sent'[n] = sent[n]
  /\ cuts'[n] = cuts[n] \cup {NextId(offered[n], transmit_fifo[n])}
  /\ transmit_fifo'[n] = transmit_fifo[n]
  /\ tx_window_top'[n] = 0 /\ tx_window'[n] = tx_window[n]

SenderPeeks(n) ==
  /\ transmit_fifo[n] # <<>>
  /\ tx_sliding_window_have_space(tx_window_bottom'[n], tx_window_top[n])
  /\ offered'[n] = offered[n] /\ sent'[n] = sent[n] /\ cuts'[n] = cuts[n]
  /\ transmit_fifo'[n] = Tail(transmit_fifo[n])
  /\ tx_window_top'[n] = Plus(tx_window_top[n], 1)
  /\ tx_window'[n] = [tx_window[n] EXCEPT ![tx_window_top[n]] = Head(transmit_fifo[n])]

SenderMoves(n) ==
  \/ SenderRests(n)
  \/ \E m \in Message : SenderAccepts(n, m)
  \/ SenderDrops(n)
  \/ SenderCloses(n)
  \/ SenderPeeks(n)

\* A peek of n is a move of its sender, and rests the others.
LEMMA PeekMoves ==
  ASSUME TypeInv, NEW n \in Node, NEW events, NEW delayed,
         peek_from_transmit_fifo(n, tx_window_bottom'[n], events, delayed),
         UNCHANGED <<offered, sent, cuts>>
  PROVE  /\ SenderRests(n) \/ SenderPeeks(n)
         /\ \A m \in Node : m # n => SenderRests(m)
<1>1. CASE CanPeek(n, tx_window_bottom'[n])
  <2>1. /\ tx_window' =
             [tx_window EXCEPT ![n][tx_window_top[n]] = Head(transmit_fifo[n])]
        /\ tx_window_top' = [tx_window_top EXCEPT ![n] = Plus(tx_window_top[n], 1)]
        /\ transmit_fifo' = [transmit_fifo EXCEPT ![n] = Tail(transmit_fifo[n])]
    BY <1>1 DEF peek_from_transmit_fifo, TypeInv, TypeOK
  <2>2. /\ tx_window'[n] = [tx_window[n] EXCEPT ![tx_window_top[n]] = Head(transmit_fifo[n])]
        /\ tx_window_top'[n] = Plus(tx_window_top[n], 1)
        /\ transmit_fifo'[n] = Tail(transmit_fifo[n])
    BY <2>1 DEF TypeInv, TypeOK
  <2>3. SenderPeeks(n)
    BY <1>1, <2>2 DEF SenderPeeks, CanPeek
  <2>4. \A m \in Node : m # n => SenderRests(m)
    BY <2>1 DEF SenderRests, TypeInv, TypeOK
  <2> QED
    BY <2>3, <2>4
<1>2. CASE ~CanPeek(n, tx_window_bottom'[n])
  BY <1>2 DEF peek_from_transmit_fifo, SenderRests
<1> QED
  BY <1>1, <1>2

\* The actions that leave the sending side alone.
NoSending(n) ==
  \/ Open(n) \/ ApplicationPacketReady(n) \/ DataArrived(n) \/ TimerInterrupt(n)
  \/ SpwReady(n) \/ UndefinedAccess(n)
  \/ \E i \in 1 .. Len(wire[n]) : Deliver(n, i) \/ Lose(n, i)

LEMMA NoSendingFrame ==
  ASSUME NEW n \in Node, NoSending(n)
  PROVE  UNCHANGED <<setting, offered, sent, cuts, transmit_fifo, tx_vars>>
BY DEF NoSending, Open, ApplicationPacketReady, DataArrived, TimerInterrupt, SpwReady,
       UndefinedAccess, Deliver, Lose, history

\* Every step is a move of each sender.
LEMMA StepMovesSender ==
  ASSUME TypeInv, [Next]_vars, NEW n \in Node
  PROVE  setting' = setting /\ SenderMoves(n)
<1>1. ASSUME NEW m \in Node, NEW size \in Size, Send(m, size)
      PROVE  setting' = setting /\ SenderMoves(n)
  <2> DEFINE id == offered[m] + 1
             msg == [id |-> id, payload_len |-> size % UINT16_VALUES]
  <2>1. UNCHANGED <<setting, cuts, tx_window_top, tx_window>>
    BY <1>1 DEF Send, tx_vars
  <2>2. /\ offered[m] < setting.offers[m]
        /\ offered' = [offered EXCEPT ![m] = id]
        /\ \/ /\ transmit_fifo' = [transmit_fifo EXCEPT ![m] = Append(transmit_fifo[m], msg)]
              /\ sent' = [sent EXCEPT ![m] = Append(sent[m], id)]
           \/ /\ ~(Len(transmit_fifo[m]) < TRANSMIT_FIFO)
              /\ UNCHANGED <<transmit_fifo, sent>>
    BY <1>1 DEF Send, TypeInv, TypeOK
  <2>3. msg \in Message /\ msg.id = id
    <3>1. size % UINT16_VALUES \in 0 .. UINT16_VALUES - 1
      BY SocketAssumption, LengthField
    <3>2. id \in Nat
      BY SMTT(20) DEF TypeInv, TypeOK
    <3> QED
      BY <3>1, <3>2 DEF Message
  <2> HIDE DEF msg
  <2>4. CASE m # n
    BY <2>1, <2>2, <2>4 DEF SenderMoves, SenderRests, TypeInv, TypeOK
  <2>5. CASE m = n /\ ~(Len(transmit_fifo[m]) < TRANSMIT_FIFO)
             /\ UNCHANGED <<transmit_fifo, sent>>
    <3>1. transmit_fifo[n] # <<>>
      BY <2>5, SocketAssumption, EmptySeq
    <3> QED
      BY <2>1, <2>2, <2>5, <3>1 DEF SenderMoves, SenderDrops, TypeInv, TypeOK
  <2>6. CASE /\ m = n
             /\ transmit_fifo' = [transmit_fifo EXCEPT ![m] = Append(transmit_fifo[m], msg)]
             /\ sent' = [sent EXCEPT ![m] = Append(sent[m], id)]
    <3>1. SenderAccepts(n, msg)
      BY <2>1, <2>2, <2>3, <2>6 DEF SenderAccepts, TypeInv, TypeOK
    <3> QED
      BY <2>1, <2>3, <3>1 DEF SenderMoves
  <2> QED
    BY <2>2, <2>4, <2>5, <2>6
<1>2. ASSUME NEW m \in Node, Close(m)
      PROVE  setting' = setting /\ SenderMoves(n)
  <2>1. CASE m = n
    BY <1>2, <2>1
    DEF Close, NextNumbered, NextId, SenderMoves, SenderCloses, TypeInv, TypeOK
  <2>2. CASE m # n
    BY <1>2, <2>2 DEF Close, SenderMoves, SenderRests, TypeInv, TypeOK
  <2> QED
    BY <1>2, <2>1, <2>2 DEF Close
<1>3. ASSUME NEW m \in Node, Peek(m) \/ LaterPeek(m) \/ AckArrived(m)
      PROVE  setting' = setting /\ SenderMoves(n)
  <2>1. UNCHANGED <<setting, offered, sent, cuts>>
    BY <1>3 DEF Peek, LaterPeek, AckArrived, history
  <2>2. CASE \E events, delayed :
               peek_from_transmit_fifo(m, tx_window_bottom'[m], events, delayed)
    BY <2>1, <2>2, PeekMoves DEF SenderMoves
  <2>3. CASE UNCHANGED <<tx_vars, transmit_fifo>>
    BY <2>1, <2>3 DEF tx_vars, SenderMoves, SenderRests
  <2>4. CASE Peek(m) \/ LaterPeek(m)
    BY <2>2, <2>4 DEF Peek, LaterPeek
  <2>5. CASE AckArrived(m)
    <3> DEFINE s == Head(now[m]).seg.seq_number
    <3>1. CASE FreshAck(m, s) /\ mark_packet_ack(m, s)
      <4>1. tx_window_bottom'[m] = BottomAfterAck(m, s)
        BY <3>1 DEF mark_packet_ack, TypeInv, TypeOK
      <4> QED
        BY <2>2, <3>1, <4>1 DEF mark_packet_ack
    <3> QED
      BY <2>3, <2>5, <3>1 DEF AckArrived
  <2> QED
    BY <1>3, <2>4, <2>5
<1>4. ASSUME NEW m \in Node, NoSending(m)
      PROVE  setting' = setting /\ SenderMoves(n)
  BY <1>4, NoSendingFrame DEF tx_vars, SenderMoves, SenderRests
<1>5. CASE UNCHANGED vars
  BY <1>5 DEF vars, tx_vars, history, SenderMoves, SenderRests
<1> QED
  BY <1>1, <1>2, <1>3, <1>4, <1>5 DEF Next, NoSending

\* What a queue holds after one of the operations on it.
LEMMA HoldsMore ==
  ASSUME NEW S, NEW q \in Seq(S), NEW e \in S, NEW x, Holds(Append(q, e), x)
  PROVE  Holds(q, x) \/ x = e
<1>1. /\ Len(q) \in Nat /\ Len(Append(q, e)) = Len(q) + 1
      /\ \A i \in 1 .. Len(q) : Append(q, e)[i] = q[i]
      /\ Append(q, e)[Len(q) + 1] = e
  BY AppendProperties, LenProperties
<1>2. PICK i \in 1 .. Len(Append(q, e)) : Append(q, e)[i] = x
  BY DEF Holds
<1>3. i \in 1 .. Len(q) \/ i = Len(q) + 1
  BY <1>1
<1> QED
  BY <1>1, <1>2, <1>3 DEF Holds

LEMMA HoldsLess ==
  ASSUME NEW S, NEW q \in Seq(S), q # <<>>
  PROVE  /\ Holds(q, Head(q))
         /\ \A x : Holds(Tail(q), x) => Holds(q, x)
<1>1. /\ Len(q) \in Nat /\ Len(q) > 0 /\ Head(q) = q[1]
      /\ Len(Tail(q)) = Len(q) - 1
      /\ \A i \in 1 .. Len(Tail(q)) : Tail(q)[i] = q[i + 1]
  BY EmptySeq, HeadTailProperties, LenProperties
<1>2. Holds(q, Head(q))
  BY <1>1 DEF Holds
<1>3. ASSUME NEW x, Holds(Tail(q), x) PROVE Holds(q, x)
  <2>1. PICK i \in 1 .. Len(Tail(q)) : Tail(q)[i] = x
    BY <1>3 DEF Holds
  <2>2. i + 1 \in 1 .. Len(q) /\ q[i + 1] = x
    BY <1>1, <2>1
  <2> QED
    BY <2>2 DEF Holds
<1> QED
  BY <1>2, <1>3

LEMMA HoldsRemoved ==
  ASSUME NEW S, NEW q \in Seq(S), NEW k \in 1 .. Len(q), NEW x, Holds(RemoveAt(q, k), x)
  PROVE  Holds(q, x)
<1> DEFINE a == SubSeq(q, 1, k - 1)
           b == SubSeq(q, k + 1, Len(q))
<1>1. Len(q) \in Nat /\ k \in Nat
  BY LenProperties
<1>2. /\ a \in Seq(S) /\ Len(a) = k - 1
      /\ \A i \in 1 .. k - 1 : a[i] = q[i]
  BY <1>1, SubSeqProperties, ElementOfSeq
<1>3. /\ b \in Seq(S) /\ Len(b) = Len(q) - k
      /\ \A i \in 1 .. Len(q) - k : b[i] = q[k + i]
  BY <1>1, SubSeqProperties, ElementOfSeq
<1> HIDE DEF a, b
<1>4. /\ Len(a \o b) = Len(a) + Len(b)
      /\ \A i \in 1 .. Len(a) + Len(b) :
           (a \o b)[i] = IF i <= Len(a) THEN a[i] ELSE b[i - Len(a)]
  BY <1>2, <1>3, ConcatProperties
<1>5. PICK i \in 1 .. Len(a) + Len(b) : (a \o b)[i] = x
  BY <1>4 DEF Holds, RemoveAt, a, b
<1>6. CASE i <= Len(a)
  <2>1. i \in 1 .. Len(q) /\ q[i] = x
    BY <1>1, <1>2, <1>3, <1>4, <1>5, <1>6
  <2> QED
    BY <2>1 DEF Holds
<1>7. CASE i > Len(a)
  <2>1. i - Len(a) \in 1 .. Len(q) - k /\ i + 1 = k + (i - Len(a)) /\ i + 1 \in 1 .. Len(q)
    BY <1>1, <1>2, <1>3, <1>5, <1>7
  <2>2. x = b[i - Len(a)]
    BY <1>2, <1>3, <1>4, <1>5, <1>7
  <2>3. q[i + 1] = x
    BY <1>3, <2>1, <2>2
  <2> QED
    BY <2>1, <2>3 DEF Holds
<1>8. Len(a) \in Nat /\ Len(b) \in Nat
  BY <1>1, <1>2, <1>3
<1> QED
  BY <1>5, <1>6, <1>7, <1>8

\* The peer of the peer is the node itself, and there is no third node.
LEMMA PeerOfPeer ==
  ASSUME NEW n \in Node
  PROVE  Peer(Peer(n)) = n /\ \A m \in Node : m = n \/ m = Peer(n)
<1>1. Peer(n) \in Node /\ Peer(n) # n
  BY PeerType
<1>2. Peer(Peer(n)) \in Node /\ Peer(Peer(n)) # Peer(n)
  BY <1>1, PeerType
<1> QED
  BY <1>1, <1>2, SocketAssumption

\* n hands a packet to its device: a message of its window that is sent for the
\* first time or again, or the acknowledgement of a message that came.
Emits(n, pk) ==
  \/ \E s \in SeqN :
       /\ \/ ApplicationPacketReady(n) /\ s = Plus(tx_window_top[n], MAX_SEQ_N - 1)
          \/ TimerInterrupt(n) /\ timers[n] # <<>> /\ s = Head(timers[n])
       /\ tx_window[n][s] \in Message
       /\ pk = Data(s, tx_window[n][s])
  \/ \E s \in SeqN, m \in Message :
       /\ DataArrived(n) /\ now[n] # <<>>
       /\ Head(now[n]) = ArrivalEvent(Data(s, m)) /\ pk = Ack(s)

\* What send_to_physical hands to the device.
LEMMA TransmitWire ==
  ASSUME TypeInv, NEW n \in Node, NEW s \in SeqN, NEW q, send_to_physical(n, s, q)
  PROVE  /\ tx_window[n][s] \in Message
         /\ \A m \in Node : \A pk : Holds(wire'[m], pk) =>
              Holds(wire[m], pk) \/ (m = n /\ pk = Data(s, tx_window[n][s]))
<1> DEFINE d == [flag |-> "DTA", seq_number |-> s, msg |-> tx_window[n][s]]
<1>1. tx_window[n][s] \in Message
  BY DEF send_to_physical, TypeInv, TypeOK
<1>2. d \in Packet /\ d = Data(s, tx_window[n][s])
  BY <1>1 DEF Packet, Data
<1> HIDE DEF d
<1>3. CASE send_spw(n, d)
  <2>1. wire' = [wire EXCEPT ![n] = Append(wire[n], d)]
    BY <1>3 DEF send_spw, TypeInv, TypeOK
  <2> SUFFICES ASSUME NEW m \in Node, NEW pk, Holds(wire'[m], pk)
               PROVE  Holds(wire[m], pk) \/ (m = n /\ pk = d)
    BY <1>1, <1>2
  <2>2. CASE m # n
    <3>1. wire'[m] = wire[m]
      BY <2>1, <2>2 DEF TypeInv, TypeOK
    <3> QED
      BY <3>1
  <2>3. CASE m = n
    <3>1. wire[n] \in Seq(Packet) /\ wire'[n] = Append(wire[n], d)
      BY <2>1 DEF TypeInv, TypeOK
    <3>2. Holds(Append(wire[n], d), pk) /\ d \in Packet
      BY <1>2, <2>3, <3>1
    <3>3. Holds(wire[n], pk) \/ pk = d
      BY <3>1, <3>2, HoldsMore
    <3> QED
      BY <2>3, <3>3
  <2> QED
    BY <2>2, <2>3
<1>4. CASE UNCHANGED link_vars
  <2>1. wire' = wire
    BY <1>4 DEF link_vars
  <2> QED
    BY <1>1, <2>1
<1>5. send_spw(n, d) \/ UNCHANGED link_vars
  BY DEF send_to_physical, d
<1> QED
  BY <1>3, <1>4, <1>5

\* What came into the link in a step was handed to the device by its node.
LEMMA StepWire ==
  ASSUME TypeInv, [Next]_vars, NEW n \in Node, NEW pk, Holds(wire'[n], pk)
  PROVE  Holds(wire[n], pk) \/ Emits(n, pk)
<1>1. ASSUME NEW m \in Node, ApplicationPacketReady(m)
      PROVE  Holds(wire[n], pk) \/ Emits(n, pk)
  <2> DEFINE s == Plus(tx_window_top[m], MAX_SEQ_N - 1)
  <2>1. s \in SeqN
    <3>1. tx_window_top[m] \in Nat /\ MAX_SEQ_N - 1 \in Nat
      BY DEF TypeInv, TypeOK, SeqN
    <3> QED
      BY <3>1, PlusType
  <2>2. send_to_physical(m, s, timers[m])
    BY <1>1 DEF ApplicationPacketReady
  <2> HIDE DEF s
  <2>3. /\ tx_window[m][s] \in Message
        /\ Holds(wire[n], pk) \/ (n = m /\ pk = Data(s, tx_window[m][s]))
    BY <2>1, <2>2, TransmitWire
  <2> QED
    BY <1>1, <2>1, <2>3 DEF Emits, s
<1>2. ASSUME NEW m \in Node, TimerInterrupt(m)
      PROVE  Holds(wire[n], pk) \/ Emits(n, pk)
  <2> DEFINE s == Head(timers[m])
  <2>1. timers[m] # <<>> /\ s \in SeqN
    BY <1>2, HeadTailProperties DEF TimerInterrupt, TypeInv, TypeOK
  <2>2. send_to_physical(m, s, Tail(timers[m]))
    BY <1>2 DEF TimerInterrupt
  <2> HIDE DEF s
  <2>3. /\ tx_window[m][s] \in Message
        /\ Holds(wire[n], pk) \/ (n = m /\ pk = Data(s, tx_window[m][s]))
    BY <2>1, <2>2, TransmitWire
  <2> QED
    BY <1>2, <2>1, <2>3 DEF Emits, s
<1>3. ASSUME NEW m \in Node, DataArrived(m)
      PROVE  Holds(wire[n], pk) \/ Emits(n, pk)
  <2> DEFINE seg == Head(now[m]).seg
             a == [flag |-> "ACK", seq_number |-> seg.seq_number]
  <2>1. /\ Starts(m, "PACKET_ARRIVED_FROM_NETWORK") /\ seg.flag = "DTA"
        /\ send_spw(m, a)
    BY <1>3 DEF DataArrived
  <2>2. /\ now[m] # <<>> /\ Head(now[m]) \in Event /\ seg \in Packet
        /\ seg.seq_number \in SeqN /\ seg.msg \in Message
    BY <2>1, ArrivalType, HeadTailProperties
  <2>3. Head(now[m]) = ArrivalEvent(seg)
    BY <2>1, <2>2 DEF Event, ArrivalEvent, Starts
  <2>4. seg = Data(seg.seq_number, seg.msg) /\ a = Ack(seg.seq_number) /\ a \in Packet
    BY <2>1, <2>2 DEF Packet, Data, Ack
  <2> HIDE DEF seg, a
  <2>5. wire' = [wire EXCEPT ![m] = Append(wire[m], a)] /\ wire[m] \in Seq(Packet)
    BY <2>1 DEF send_spw, TypeInv, TypeOK
  <2>6. CASE m # n
    BY <2>5, <2>6 DEF TypeInv, TypeOK
  <2>7. CASE m = n
    <3>1. wire'[n] = Append(wire[n], a)
      BY <2>5, <2>7 DEF TypeInv, TypeOK
    <3>2. Holds(wire[n], pk) \/ pk = a
      BY <2>4, <2>5, <2>7, <3>1, HoldsMore
    <3> QED
      BY <1>3, <2>2, <2>3, <2>4, <2>7, <3>2 DEF Emits
  <2> QED
    BY <2>6, <2>7
<1>4. ASSUME NEW m \in Node, NEW i \in 1 .. Len(wire[m]), Deliver(m, i) \/ Lose(m, i)
      PROVE  Holds(wire[n], pk)
  <2>1. wire' = [wire EXCEPT ![m] = RemoveAt(wire[m], i)] /\ wire[m] \in Seq(Packet)
    BY <1>4 DEF Deliver, Lose, TypeInv, TypeOK
  <2>2. CASE m # n
    BY <2>1, <2>2 DEF TypeInv, TypeOK
  <2>3. CASE m = n
    <3>1. wire'[n] = RemoveAt(wire[n], i)
      BY <2>1, <2>3 DEF TypeInv, TypeOK
    <3> QED
      BY <2>1, <2>3, <3>1, HoldsRemoved
  <2> QED
    BY <2>2, <2>3
<1>5. ASSUME NEW m \in Node,
             \/ \E size \in Size : Send(m, size)
             \/ Close(m) \/ Open(m) \/ Peek(m) \/ AckArrived(m) \/ LaterPeek(m)
             \/ SpwReady(m) \/ UndefinedAccess(m)
      PROVE  UNCHANGED wire
  BY <1>5 DEF Send, Close, Open, Peek, AckArrived, LaterPeek, SpwReady, UndefinedAccess,
              link_vars
<1>6. CASE UNCHANGED wire
  BY <1>6
<1>7. CASE UNCHANGED vars
  BY <1>6, <1>7 DEF vars, link_vars
<1> QED
  BY <1>1, <1>2, <1>3, <1>4, <1>5, <1>6, <1>7 DEF Next

\* A peek leaves events pending that were, and one to transmit.
LEMMA PeekNow ==
  ASSUME TypeInv, NEW n \in Node, NEW bottom, NEW events \in Seq(Event), NEW delayed,
         peek_from_transmit_fifo(n, bottom, events, delayed),
         NEW m \in Node, NEW x, Holds(now'[m], x)
  PROVE  \/ m # n /\ Holds(now[m], x)
         \/ m = n /\ (Holds(events, x) \/ x = ReadyEvent)
<1>1. CASE m # n
  <2>1. now'[m] = now[m]
    BY <1>1 DEF peek_from_transmit_fifo, TypeInv, TypeOK
  <2> QED
    BY <1>1, <2>1
<1>2. CASE m = n
  <2>1. now'[n] = events \/ now'[n] = Append(events, ReadyEvent)
    BY DEF peek_from_transmit_fifo, TypeInv, TypeOK
  <2>2. CASE now'[n] = Append(events, ReadyEvent)
    <3>1. Holds(Append(events, ReadyEvent), x) /\ ReadyEvent \in Event
      BY <1>2, <2>2, EventTypes
    <3>2. Holds(events, x) \/ x = ReadyEvent
      BY <3>1, HoldsMore
    <3> QED
      BY <1>2, <3>2
  <2> QED
    BY <1>2, <2>1, <2>2
<1> QED
  BY <1>1, <1>2

\* The actions that add no event but an arrival.
NewEvent(n, x) ==
  \/ x = PeekEvent
  \/ x = ReadyEvent
  \/ \E pk : Holds(wire[Peer(n)], pk) /\ x = ArrivalEvent(pk)

\* An event that is pending after a step was pending before, or is a peek, or a
\* transmission, or the arrival of a packet that was in the link.
LEMMA StepNow ==
  ASSUME TypeInv, [Next]_vars, NEW n \in Node, NEW x, Holds(now'[n], x)
  PROVE  Holds(now[n], x) \/ NewEvent(n, x)
<1>1. ASSUME NEW m \in Node, (\E size \in Size : Send(m, size)) \/ SpwReady(m)
      PROVE  Holds(now[n], x) \/ NewEvent(n, x)
  <2>1. \/ UNCHANGED now
        \/ now' = [now EXCEPT ![m] = Append(now[m], PeekEvent)]
    BY <1>1 DEF Send, SpwReady, TypeInv, TypeOK
  <2>2. CASE n = m /\ now'[n] = Append(now[n], PeekEvent)
    <3>1. /\ Holds(Append(now[n], PeekEvent), x) /\ PeekEvent \in Event
          /\ now[n] \in Seq(Event)
      BY <2>2, EventTypes DEF TypeInv, TypeOK
    <3>2. Holds(now[n], x) \/ x = PeekEvent
      BY <3>1, HoldsMore
    <3> QED
      BY <3>2 DEF NewEvent
  <2>3. CASE now'[n] = now[n]
    BY <2>3
  <2> QED
    BY <2>1, <2>2, <2>3, SMTT(30) DEF TypeInv, TypeOK
<1>2. ASSUME NEW m \in Node, Peek(m) \/ LaterPeek(m) \/ AckArrived(m)
      PROVE  Holds(now[n], x) \/ NewEvent(n, x)
  <2>1. now[m] \in Seq(Event) /\ (LaterPeek(m) \/ now[m] # <<>>)
    BY <1>2 DEF Peek, AckArrived, Starts, TypeInv, TypeOK
  <2>2. CASE now' = [now EXCEPT ![m] = Tail(now[m])] /\ now[m] # <<>>
    <3>1. now'[n] = now[n] \/ (n = m /\ now'[n] = Tail(now[n]))
      BY <2>2 DEF TypeInv, TypeOK
    <3>2. CASE n = m /\ now'[n] = Tail(now[n])
      BY <2>1, <2>2, <3>2, HoldsLess
    <3>3. CASE now'[n] = now[n]
      BY <3>3
    <3> QED
      BY <3>1, <3>2, <3>3
  <2>3. CASE /\ \E bottom, delayed :
                  peek_from_transmit_fifo(m, bottom, Tail(now[m]), delayed)
             /\ now[m] # <<>>
    <3>1. /\ Tail(now[m]) \in Seq(Event)
          /\ \A y : Holds(Tail(now[m]), y) => Holds(now[m], y)
      BY <2>1, <2>3, HeadTailProperties, HoldsLess
    <3>2. \/ n # m /\ Holds(now[n], x)
          \/ n = m /\ (Holds(Tail(now[m]), x) \/ x = ReadyEvent)
      BY <2>3, <3>1, PeekNow
    <3> QED
      BY <3>1, <3>2 DEF NewEvent
  <2>4. CASE LaterPeek(m)
    <3> DEFINE events == now[m]
    <3>1. /\ peek_from_transmit_fifo(m, tx_window_bottom[m], events, later[m] - 1)
          /\ events \in Seq(Event)
      BY <2>1, <2>4 DEF LaterPeek
    <3> HIDE DEF events
    <3>2. \/ n # m /\ Holds(now[n], x)
          \/ n = m /\ (Holds(events, x) \/ x = ReadyEvent)
      BY <3>1, PeekNow
    <3> QED
      BY <3>2 DEF NewEvent, events
  <2>5. CASE Peek(m)
    BY <2>1, <2>3, <2>5 DEF Peek, Starts
  <2>6. CASE AckArrived(m)
    <3>1. now[m] # <<>>
      BY <2>6 DEF AckArrived, Starts
    <3>2. \/ now' = [now EXCEPT ![m] = Tail(now[m])]
          \/ \E bottom, delayed : peek_from_transmit_fifo(m, bottom, Tail(now[m]), delayed)
      BY <2>6 DEF AckArrived, mark_packet_ack, TypeInv, TypeOK
    <3> QED
      BY <2>2, <2>3, <3>1, <3>2
  <2> QED
    BY <1>2, <2>4, <2>5, <2>6
<1>3. ASSUME NEW m \in Node, ApplicationPacketReady(m) \/ DataArrived(m)
      PROVE  Holds(now[n], x)
  <2>1. /\ now[m] \in Seq(Event) /\ now[m] # <<>>
        /\ now' = [now EXCEPT ![m] = Tail(now[m])]
    BY <1>3 DEF ApplicationPacketReady, DataArrived, Starts, TypeInv, TypeOK
  <2>2. now'[n] = now[n] \/ (n = m /\ now'[n] = Tail(now[n]))
    BY <2>1 DEF TypeInv, TypeOK
  <2>3. CASE n = m /\ now'[n] = Tail(now[n])
    BY <2>1, <2>3, HoldsLess
  <2>4. CASE now'[n] = now[n]
    BY <2>4
  <2> QED
    BY <2>2, <2>3, <2>4
<1>4. ASSUME NEW m \in Node, NEW i \in 1 .. Len(wire[m]), Deliver(m, i)
      PROVE  Holds(now[n], x) \/ NewEvent(n, x)
  <2> DEFINE p == Peer(m)
             pk == wire[m][i]
  <2>1. now' = [now EXCEPT ![p] = Append(now[p], ArrivalEvent(pk))] /\ p \in Node
    BY <1>4, PeerType DEF Deliver, TypeInv, TypeOK
  <2>2. CASE n = p
    <3>1. pk \in Packet
      BY ElementOfSeq DEF TypeInv, TypeOK
    <3> HIDE DEF pk
    <3>2. /\ ArrivalEvent(pk) \in Event /\ now[n] \in Seq(Event)
          /\ Holds(Append(now[n], ArrivalEvent(pk)), x)
      BY <2>1, <2>2, <3>1, EventTypes DEF TypeInv, TypeOK
    <3>3. Holds(now[n], x) \/ x = ArrivalEvent(pk)
      BY <3>2, HoldsMore
    <3>4. Holds(wire[Peer(n)], pk)
      BY <2>2, PeerOfPeer DEF Holds, pk
    <3> QED
      BY <3>3, <3>4 DEF NewEvent
  <2>3. CASE n # p
    <3>1. now'[n] = now[n]
      BY <2>1, <2>3 DEF TypeInv, TypeOK
    <3> QED
      BY <3>1
  <2> QED
    BY <2>2, <2>3
<1>5. ASSUME NEW m \in Node,
             \/ Close(m) \/ Open(m) \/ TimerInterrupt(m) \/ UndefinedAccess(m)
             \/ \E i \in 1 .. Len(wire[m]) : Lose(m, i)
      PROVE  UNCHANGED now
  BY <1>5 DEF Close, Open, TimerInterrupt, UndefinedAccess, Lose
<1>6. CASE UNCHANGED now
  BY <1>6
<1>7. CASE UNCHANGED vars
  BY <1>6, <1>7 DEF vars
<1> QED
  BY <1>1, <1>2, <1>3, <1>4, <1>5, <1>6, <1>7 DEF Next

\* What is carried after a step was carried before or handed to the device in it.
LEMMA StepCarries ==
  ASSUME TypeInv, [Next]_vars, NEW n \in Node, NEW pk, Carries(n, pk)'
  PROVE  Carries(n, pk) \/ Emits(n, pk)
<1>1. Peer(n) \in Node /\ Peer(Peer(n)) = n
  BY PeerType, PeerOfPeer
<1>2. CASE Holds(wire'[n], pk)
  BY <1>2, StepWire DEF Carries
<1>3. CASE Holds(now'[Peer(n)], ArrivalEvent(pk))
  <2>1. Holds(now[Peer(n)], ArrivalEvent(pk)) \/ NewEvent(Peer(n), ArrivalEvent(pk))
    BY <1>1, <1>3, StepNow
  <2>2. ASSUME NEW y, ArrivalEvent(pk) = ArrivalEvent(y) PROVE y = pk
    BY <2>2 DEF ArrivalEvent
  <2>3. ArrivalEvent(pk) # PeekEvent /\ ArrivalEvent(pk) # ReadyEvent
    BY DEF ArrivalEvent, PeekEvent, ReadyEvent
  <2> QED
    BY <1>1, <2>1, <2>2, <2>3 DEF NewEvent, Carries
<1> QED
  BY <1>2, <1>3 DEF Carries

ReceiverRests(p) ==
  /\ rx_window'[p] = rx_window[p] /\ received'[p] = received[p]
  /\ rx_window_bottom'[p] = rx_window_bottom[p] /\ rx_window_top'[p] = rx_window_top[p]
  /\ delivered'[p] = delivered[p]

ReceiverCloses(p) ==
  /\ rx_window'[p] = rx_window[p] /\ received'[p] = received[p]
  /\ rx_window_bottom'[p] = 0 /\ rx_window_top'[p] = 0
  /\ delivered'[p] = delivered[p]

\* p takes message m that arrives under the number s.
ReceiverTakes(p, s, m) ==
  LET k == ReceiptSlides(p, s)
  IN  /\ Holds(now[p], ArrivalEvent(Data(s, m))) /\ FreshData(p, s)
      /\ rx_window'[p] = [rx_window[p] EXCEPT ![s] = m]
      /\ received'[p] = [r \in SeqN |-> (r = s \/ received[p][r]) /\ r \notin Cleared(p, k)]
      /\ rx_window_bottom'[p] = Plus(rx_window_bottom[p], k)
      /\ rx_window_top'[p] = Plus(rx_window_top[p], k)
      /\ delivered'[p] = delivered[p] \o HandedOver(p, s, m, k)

\* The actions that leave the receiving side alone.
NoReceiving(n) ==
  \/ \E size \in Size : Send(n, size)
  \/ Open(n) \/ Peek(n) \/ ApplicationPacketReady(n) \/ AckArrived(n) \/ LaterPeek(n)
  \/ TimerInterrupt(n) \/ SpwReady(n) \/ UndefinedAccess(n)
  \/ \E i \in 1 .. Len(wire[n]) : Deliver(n, i) \/ Lose(n, i)

LEMMA NoReceivingFrame ==
  ASSUME NEW n \in Node, NoReceiving(n)
  PROVE  UNCHANGED <<rx_vars, delivered>>
BY DEF NoReceiving, Send, Open, Peek, ApplicationPacketReady, AckArrived, LaterPeek,
       TimerInterrupt, SpwReady, UndefinedAccess, Deliver, Lose, history

\* Data that arrives is taken if it is fresh, and rests the others.
LEMMA DataMoves ==
  ASSUME TypeInv, NEW n \in Node, DataArrived(n)
  PROVE  /\ \E s \in SeqN, m \in Message :
              /\ now[n] # <<>> /\ Head(now[n]) = ArrivalEvent(Data(s, m))
              /\ \/ ReceiverTakes(n, s, m)
                 \/ ~FreshData(n, s) /\ ReceiverRests(n)
         /\ \A p \in Node : p # n => ReceiverRests(p)
<1> DEFINE seg == Head(now[n]).seg
           s == seg.seq_number
           m == seg.msg
           k == ReceiptSlides(n, s)
<1>1. /\ Starts(n, "PACKET_ARRIVED_FROM_NETWORK") /\ seg.flag = "DTA"
      /\ \/ FreshData(n, s) /\ mark_packet_receipt(n, s, m)
         \/ ~FreshData(n, s) /\ UNCHANGED <<rx_vars, delivered>>
  BY DEF DataArrived
<1>2. /\ now[n] # <<>> /\ now[n] \in Seq(Event) /\ seg \in Packet
      /\ s \in SeqN /\ m \in Message
  BY <1>1, ArrivalType
<1>3. Head(now[n]) = ArrivalEvent(Data(s, m)) /\ Holds(now[n], Head(now[n]))
  <2>1. Head(now[n]) \in Event
    BY <1>2, HeadTailProperties
  <2>2. Head(now[n]) = ArrivalEvent(seg)
    BY <1>1, <2>1 DEF Event, ArrivalEvent, Starts
  <2>3. seg = Data(s, m)
    BY <1>1, <1>2 DEF Packet, Data
  <2>4. Holds(now[n], Head(now[n]))
    BY <1>2, HoldsLess
  <2> QED
    BY <2>2, <2>3, <2>4
<1> HIDE DEF seg, s, m, k
<1>4. CASE FreshData(n, s) /\ mark_packet_receipt(n, s, m)
  <2>1. /\ rx_window' = [rx_window EXCEPT ![n][s] = m]
        /\ received' = [received EXCEPT ![n] =
             [r \in SeqN |-> (r = s \/ received[n][r]) /\ r \notin Cleared(n, k)]]
        /\ rx_window_bottom' = [rx_window_bottom EXCEPT ![n] = Plus(rx_window_bottom[n], k)]
        /\ rx_window_top' = [rx_window_top EXCEPT ![n] = Plus(rx_window_top[n], k)]
        /\ delivered' = [delivered EXCEPT ![n] = delivered[n] \o HandedOver(n, s, m, k)]
    BY <1>4 DEF mark_packet_receipt, TopAfterReceipt, TypeInv, TypeOK, k
  <2>2. \A p \in Node : p # n => ReceiverRests(p)
    BY <2>1 DEF ReceiverRests, TypeInv, TypeOK
  <2>3. ReceiverTakes(n, s, m)
    BY <1>3, <1>4, <2>1 DEF ReceiverTakes, TypeInv, TypeOK, k
  <2> QED
    BY <1>2, <1>3, <2>2, <2>3
<1>5. CASE ~FreshData(n, s) /\ UNCHANGED <<rx_vars, delivered>>
  <2>1. \A p \in Node : ReceiverRests(p)
    BY <1>5 DEF rx_vars, ReceiverRests
  <2> QED
    BY <1>2, <1>3, <1>5, <2>1
<1> QED
  BY <1>1, <1>4, <1>5

\* Every step is a move of each receiver.
LEMMA StepMovesReceiver ==
  ASSUME TypeInv, [Next]_vars, NEW p \in Node
  PROVE  \/ ReceiverRests(p)
         \/ ReceiverCloses(p) /\ cuts'[p] # {}
         \/ \E s \in SeqN, m \in Message : ReceiverTakes(p, s, m)
<1>1. CASE UNCHANGED <<rx_vars, delivered>>
  BY <1>1 DEF rx_vars, ReceiverRests
<1>2. ASSUME NEW n \in Node, Close(n)
      PROVE  ReceiverRests(p) \/ (ReceiverCloses(p) /\ cuts'[p] # {})
  <2>1. CASE n = p
    <3>1. ReceiverCloses(p)
      BY <1>2, <2>1 DEF Close, ReceiverCloses, TypeInv, TypeOK
    <3>2. NextNumbered(p) \in cuts'[p]
      BY <1>2, <2>1 DEF Close, TypeInv, TypeOK
    <3> QED
      BY <3>1, <3>2
  <2>2. CASE n # p
    BY <1>2, <2>2 DEF Close, ReceiverRests, TypeInv, TypeOK
  <2> QED
    BY <2>1, <2>2
<1>3. ASSUME NEW n \in Node, DataArrived(n)
      PROVE  \/ ReceiverRests(p)
             \/ \E s \in SeqN, m \in Message : ReceiverTakes(p, s, m)
  BY <1>3, DataMoves
<1>4. ASSUME NEW n \in Node, NoReceiving(n)
      PROVE  UNCHANGED <<rx_vars, delivered>>
  BY <1>4, NoReceivingFrame
<1>5. CASE UNCHANGED vars
  BY <1>1, <1>5 DEF vars, history
<1> QED
  BY <1>1, <1>2, <1>3, <1>4, <1>5 DEF Next, NoReceiving

-----------------------------------------------------------------------------
(***************************************************************************)
(* The invariant: everything that is about is a message under the number   *)
(* it was given, and the bottom of a receive window counts the messages    *)
(* handed over.                                                            *)
(***************************************************************************)

Given(n, id, s) == GivenIn(sent[n], transmit_fifo[n], cuts[n], id, s)

GivenAfter(n, id, s) == GivenIn(sent'[n], transmit_fifo'[n], cuts'[n], id, s)

SentInv(n) ==
  Numbering(setting.offers[n], offered[n], sent[n], transmit_fifo[n], cuts[n],
            tx_window_top[n])

TxNumbered(n) ==
  \A s \in SeqN : tx_window[n][s] # NoPacket => Given(n, tx_window[n][s].id, s)

CarriedNumbered(n) ==
  \A s \in SeqN, m \in Message : Carries(n, Data(s, m)) => Given(n, m.id, s)

RxNumbered(n) ==
  \A s \in SeqN :
    rx_window[Peer(n)][s] # NoPacket => Given(n, rx_window[Peer(n)][s].id, s)

DeliveredNumbered(n) ==
  \A i \in 1 .. Len(delivered[Peer(n)]) : Given(n, delivered[Peer(n)][i], i - 1)

BottomCounts(n) ==
  \/ rx_window_bottom[Peer(n)] = Len(delivered[Peer(n)])
  \/ rx_window_bottom[Peer(n)] = rx_window_top[Peer(n)]

NumberedInv(n) ==
  /\ SentInv(n) /\ TxNumbered(n) /\ CarriedNumbered(n)
  /\ RxNumbered(n) /\ DeliveredNumbered(n) /\ BottomCounts(n)

DeliveryInv == \A n \in Node : NumberedInv(n)

\* What a sender has is typed as the lemmas about numbers want it.
LEMMA SenderTyped ==
  ASSUME FirstRound, TypeInv, NEW n \in Node
  PROVE  /\ SenderTypes(setting.offers[n], offered[n], sent[n], transmit_fifo[n], cuts[n])
         /\ setting.offers[n] < MAX_SEQ_N
<1>1. setting \in Setting /\ setting \in SettingType
  BY SocketAssumption DEF TypeInv, TypeOK
<1>2. setting.offers[n] \in Nat
  BY <1>1 DEF SettingType
<1>3. setting.offers[n] < MAX_SEQ_N
  BY <1>1 DEF FirstRound
<1> QED
  BY <1>2, <1>3 DEF SenderTypes, TypeInv, TypeOK

LEMMA TailDiffers ==
  ASSUME NEW S, NEW q \in Seq(S), q # <<>>
  PROVE  q # Tail(q)
<1> DEFINE r == Tail(q)
<1>1. Len(r) = Len(q) - 1 /\ Len(q) \in Nat
  BY HeadTailProperties, LenProperties
<1> HIDE DEF r
<1>2. q # r
  BY <1>1
<1> QED
  BY <1>2 DEF r

\* Numbers keep fitting and what was given stays given.
LEMMA SentStep ==
  ASSUME FirstRound, TypeInv, [Next]_vars, NEW n \in Node, SentInv(n)
  PROVE  /\ SentInv(n)'
         /\ \A id, s : Given(n, id, s) => GivenAfter(n, id, s)
         /\ SenderPeeks(n) =>
              /\ tx_window_top'[n] = tx_window_top[n] + 1
              /\ GivenAfter(n, Head(transmit_fifo[n]).id, tx_window_top[n])
<1> DEFINE l == setting.offers[n]
           o == offered[n]
           q == sent[n]
           f == transmit_fifo[n]
           C == cuts[n]
           t == tx_window_top[n]
<1>1. setting' = setting /\ SenderMoves(n)
  BY StepMovesSender
<1>2. SenderTypes(l, o, q, f, C) /\ Numbering(l, o, q, f, C, t) /\ l < MAX_SEQ_N
  BY SenderTyped DEF SentInv
<1>3. CASE SenderRests(n)
  <2>1. ~SenderPeeks(n) \/ f = Tail(f)
    BY <1>3 DEF SenderRests, SenderPeeks
  <2>2. f # <<>> => f # Tail(f)
    <3>1. f \in Seq(Message)
      BY <1>2 DEF SenderTypes
    <3> QED
      BY <3>1, TailDiffers
  <2>3. ~SenderPeeks(n)
    BY <2>1, <2>2 DEF SenderPeeks
  <2> QED
    BY <1>1, <1>3, <2>3 DEF SenderRests, SentInv, Given, GivenAfter
<1>4. ASSUME NEW m \in Message, SenderAccepts(n, m)
      PROVE  /\ SentInv(n)' /\ ~SenderPeeks(n)
             /\ \A id, s : Given(n, id, s) => GivenAfter(n, id, s)
  <2>1. /\ o < l /\ m.id = o + 1 /\ offered'[n] = o + 1 /\ sent'[n] = Append(q, o + 1)
        /\ cuts'[n] = C /\ transmit_fifo'[n] = Append(f, m) /\ tx_window_top'[n] = t
    BY <1>4 DEF SenderAccepts
  <2>2. o \in Nat
    BY DEF TypeInv, TypeOK
  <2>3. ~SenderPeeks(n)
    BY <2>1, <2>2 DEF SenderPeeks
  <2> HIDE DEF l, o, q, f, C, t
  <2>4. /\ Numbering(l, o + 1, Append(q, o + 1), Append(f, m), C, t)
        /\ \A id, s : GivenIn(q, f, C, id, s) =>
              GivenIn(Append(q, o + 1), Append(f, m), C, id, s)
    BY <1>2, <2>1, NumberingAccepts
  <2> QED
    BY <1>1, <2>1, <2>3, <2>4 DEF SentInv, Given, GivenAfter, l, o, q, f, C, t
<1>5. CASE SenderDrops(n)
  <2>1. /\ o < l /\ f # <<>> /\ offered'[n] = o + 1 /\ sent'[n] = q
        /\ cuts'[n] = C /\ transmit_fifo'[n] = f /\ tx_window_top'[n] = t
    BY <1>5 DEF SenderDrops
  <2>2. o \in Nat
    BY DEF TypeInv, TypeOK
  <2>3. ~SenderPeeks(n)
    BY <2>1, <2>2 DEF SenderPeeks
  <2> HIDE DEF l, o, q, f, C, t
  <2>4. Numbering(l, o + 1, q, f, C, t)
    BY <1>2, <2>1, NumberingDrops
  <2> QED
    BY <1>1, <2>1, <2>3, <2>4 DEF SentInv, Given, GivenAfter, l, o, q, f, C, t
<1>6. CASE SenderCloses(n)
  <2>1. /\ offered'[n] = o /\ sent'[n] = q /\ transmit_fifo'[n] = f
        /\ cuts'[n] = C \cup {NextId(o, f)} /\ tx_window_top'[n] = 0
    BY <1>6 DEF SenderCloses
  <2>2. f # <<>> => f # Tail(f)
    <3>1. f \in Seq(Message)
      BY <1>2 DEF SenderTypes
    <3> QED
      BY <3>1, TailDiffers
  <2>3. ~SenderPeeks(n)
    BY <2>1, <2>2 DEF SenderPeeks
  <2> HIDE DEF l, o, q, f, C, t
  <2>4. /\ Numbering(l, o, q, f, C \cup {NextId(o, f)}, 0)
        /\ \A id, s : GivenIn(q, f, C, id, s) =>
              GivenIn(q, f, C \cup {NextId(o, f)}, id, s)
    BY <1>2, NumberingCloses
  <2> QED
    BY <1>1, <2>1, <2>3, <2>4 DEF SentInv, Given, GivenAfter, l, o, q, f, C, t
<1>7. CASE SenderPeeks(n)
  <2>1. /\ f # <<>> /\ offered'[n] = o /\ sent'[n] = q /\ cuts'[n] = C
        /\ transmit_fifo'[n] = Tail(f) /\ tx_window_top'[n] = Plus(t, 1)
    BY <1>7 DEF SenderPeeks
  <2> HIDE DEF l, o, q, f, C, t
  <2>2. /\ Numbering(l, o, q, Tail(f), C, Plus(t, 1))
        /\ Plus(t, 1) = t + 1
        /\ GivenIn(q, Tail(f), C, Head(f).id, t)
        /\ \A id, s : GivenIn(q, f, C, id, s) => GivenIn(q, Tail(f), C, id, s)
    <3>1. f # <<>>
      BY <2>1
    <3>2. /\ Numbering(l, o, q, Tail(f), C, Plus(t, 1))
          /\ t + 1 < MAX_SEQ_N /\ Plus(t, 1) = t + 1
          /\ GivenIn(q, Tail(f), C, Head(f).id, t)
          /\ \A i, s : GivenIn(q, f, C, i, s) => GivenIn(q, Tail(f), C, i, s)
      BY <1>2, <3>1, NumberingPeeks
    <3> QED
      BY <3>2
  <2>3. GivenIn(sent'[n], transmit_fifo'[n], cuts'[n], Head(f).id, t)
    BY <2>1, <2>2
  <2>4. SentInv(n)'
    BY <1>1, <2>1, <2>2 DEF SentInv, l, o, q, f, C, t
  <2>5. \A id, s : Given(n, id, s) => GivenAfter(n, id, s)
    BY <2>1, <2>2 DEF Given, GivenAfter, l, o, q, f, C, t
  <2>6. /\ tx_window_top'[n] = tx_window_top[n] + 1
        /\ GivenAfter(n, Head(transmit_fifo[n]).id, tx_window_top[n])
    BY <2>1, <2>2, <2>3 DEF GivenAfter, f, t
  <2> QED
    BY <2>4, <2>5, <2>6
<1> QED
  BY <1>1, <1>3, <1>4, <1>5, <1>6, <1>7 DEF SenderMoves

\* Going up from below MAX_SEQ_N by no more than there is room does not wrap.
LEMMA PlusBelow ==
  ASSUME NEW a \in Nat, NEW j \in Nat, a + j < MAX_SEQ_N
  PROVE  Plus(a, j) = a + j
BY DEF Plus

\* What the loop of mark_packet_receipt hands over when numbers do not wrap.
LEMMA HandsOver ==
  ASSUME TypeInv, NEW p \in Node, NEW s \in SeqN, NEW m \in Message, FreshData(p, s),
         \A r \in SeqN : received[p][r] => r < MAX_SEQ_N - 1,
         s < MAX_SEQ_N - 1
  PROVE  LET b == rx_window_bottom[p]
             k == ReceiptSlides(p, s)
             h == HandedOver(p, s, m, k)
         IN  /\ k \in Nat /\ b \in Nat /\ b + k < MAX_SEQ_N
             /\ Len(h) = k /\ h \in Seq(Nat)
             /\ \A j \in 1 .. k : /\ b + j - 1 \in SeqN
                                  /\ b + j - 1 = s \/ received[p][b + j - 1]
                                  /\ h[j] = IF b + j - 1 = s THEN m.id
                                            ELSE rx_window[p][b + j - 1].id
             /\ \A j \in 0 .. k - 1 : b + j \notin Cleared(p, j)
             /\ b + k = s \/ received[p][b + k] => b + k \in Cleared(p, k)
<1> DEFINE b == rx_window_bottom[p]
           go == [j \in 0 .. MAX_SEQ_N - 1 |->
                   /\ Plus(b, j) = s \/ received[p][Plus(b, j)]
                   /\ Plus(b, j) \notin Cleared(p, j)]
           k == Slides(go)
           id(j) == LET r == Plus(b, j - 1)
                    IN  IF r = s THEN m.id ELSE rx_window[p][r].id
           h == [j \in 1 .. k |-> id(j)]
<1>1. b \in SeqN /\ b \in Nat /\ b < MAX_SEQ_N
  BY SMTT(20) DEF TypeInv, TypeOK, SeqN
<1>2. k = ReceiptSlides(p, s) /\ h = HandedOver(p, s, m, ReceiptSlides(p, s))
  <2>1. k = ReceiptSlides(p, s)
    BY DEF ReceiptSlides
  <2>2. h = HandedOver(p, s, m, ReceiptSlides(p, s))
    BY DEF HandedOver, ReceiptSlides
  <2> QED
    BY <2>1, <2>2
<1>3. /\ k \in 0 .. MAX_SEQ_N
      /\ \A j \in 0 .. k - 1 : go[j]
      /\ k < MAX_SEQ_N => ~go[k]
  BY SlidesMeaning
<1>4. h \in Seq(Nat)
  BY <1>2, HandedOverType
<1> HIDE DEF k
<1>5. k \in Nat /\ k <= MAX_SEQ_N
  <2>1. k \in 0 .. MAX_SEQ_N
    BY <1>3
  <2> QED
    BY <2>1
<1>6. ASSUME NEW j \in 0 .. k - 1
      PROVE  /\ Plus(b, j) = s \/ received[p][Plus(b, j)]
             /\ Plus(b, j) \notin Cleared(p, j)
  <2>1. j \in 0 .. MAX_SEQ_N - 1 /\ go[j]
    <3> HIDE DEF go
    <3> QED
      BY <1>3, <1>5
  <2> QED
    BY <2>1
<1> HIDE DEF b
<1>7. b + k < MAX_SEQ_N
  <2> SUFFICES ASSUME b + k >= MAX_SEQ_N PROVE FALSE
    BY <1>1, <1>5
  <2> DEFINE j == MAX_SEQ_N - 1 - b
  <2>1. j \in 0 .. k - 1 /\ j \in Nat /\ b + j = MAX_SEQ_N - 1
    BY <1>1, <1>5
  <2>2. Plus(b, j) = MAX_SEQ_N - 1
    <3> HIDE DEF j
    <3> QED
      BY <1>1, <2>1, PlusBelow
  <2>3. MAX_SEQ_N - 1 = s \/ received[p][MAX_SEQ_N - 1]
    <3> HIDE DEF j
    <3> QED
      BY <1>6, <2>1, <2>2
  <2>4. MAX_SEQ_N - 1 \in SeqN /\ ~(MAX_SEQ_N - 1 < MAX_SEQ_N - 1)
    BY DEF SeqN
  <2> QED
    BY <2>3, <2>4
<1>8. ASSUME NEW j \in 1 .. k
      PROVE  /\ b + j - 1 \in SeqN
             /\ b + j - 1 = s \/ received[p][b + j - 1]
             /\ h[j] = IF b + j - 1 = s THEN m.id ELSE rx_window[p][b + j - 1].id
  <2>1. j - 1 \in 0 .. k - 1 /\ j - 1 \in Nat /\ b + (j - 1) = b + j - 1
    BY <1>1, <1>5
  <2>2. b + j - 1 \in SeqN /\ b + (j - 1) < MAX_SEQ_N
    BY <1>1, <1>5, <1>7 DEF SeqN
  <2>3. Plus(b, j - 1) = b + j - 1
    BY <1>1, <2>1, <2>2, PlusBelow
  <2>4. b + j - 1 = s \/ received[p][b + j - 1]
    BY <1>6, <2>1, <2>3
  <2>5. h[j] = id(j)
    OBVIOUS
  <2> QED
    BY <2>2, <2>3, <2>4, <2>5
<1>9. ASSUME NEW j \in 0 .. k - 1 PROVE b + j \notin Cleared(p, j)
  <2>1. j \in Nat /\ b + j < MAX_SEQ_N
    BY <1>1, <1>5, <1>7
  <2>2. Plus(b, j) = b + j
    BY <1>1, <2>1, PlusBelow
  <2> QED
    BY <1>6, <2>2
<1>10. b + k = s \/ received[p][b + k] => b + k \in Cleared(p, k)
  <2>1. k \in 0 .. MAX_SEQ_N - 1 /\ k < MAX_SEQ_N
    BY <1>1, <1>5, <1>7
  <2>2. Plus(b, k) = b + k
    BY <1>1, <1>5, <1>7, PlusBelow
  <2>3. ~go[k]
    <3> HIDE DEF go
    <3> QED
      BY <1>3, <2>1
  <2> QED
    BY <2>1, <2>2, <2>3
<1>11. Len(h) = k
  <2>1. DOMAIN h = 1 .. k
    OBVIOUS
  <2>2. Len(h) \in Nat /\ DOMAIN h = 1 .. Len(h)
    <3> HIDE DEF h
    <3> QED
      BY <1>4, LenProperties
  <2> DEFINE n == Len(h)
  <2>3. n \in Nat /\ 1 .. n = 1 .. k
    <3> HIDE DEF h
    <3> QED
      BY <2>1, <2>2
  <2> HIDE DEF h, n
  <2>4. ~(n < k)
    <3> SUFFICES ASSUME n < k PROVE FALSE
      OBVIOUS
    <3>1. n + 1 \in 1 .. k /\ n + 1 \notin 1 .. n
      BY <1>5, <2>3
    <3> QED
      BY <2>3, <3>1
  <2>5. ~(k < n)
    <3> SUFFICES ASSUME k < n PROVE FALSE
      OBVIOUS
    <3>1. k + 1 \in 1 .. n /\ k + 1 \notin 1 .. k
      BY <1>5, <2>3
    <3> QED
      BY <2>3, <3>1
  <2>6. n = k
    BY <1>5, <2>3, <2>4, <2>5
  <2> QED
    BY <2>6 DEF n
<1> HIDE DEF h, go
<1> QED
  BY <1>1, <1>2, <1>4, <1>5, <1>7, <1>8, <1>9, <1>10, <1>11 DEF b

\* What was given has a number below MAX_SEQ_N - 1.
LEMMA GivenFits ==
  ASSUME FirstRound, TypeInv, NEW n \in Node, SentInv(n), NEW id, NEW s, Given(n, id, s)
  PROVE  s \in Nat /\ s < MAX_SEQ_N - 1
<1>1. /\ SenderTypes(setting.offers[n], offered[n], sent[n], transmit_fifo[n], cuts[n])
      /\ setting.offers[n] < MAX_SEQ_N
  BY SenderTyped
<1>2. Numbering(setting.offers[n], offered[n], sent[n], transmit_fifo[n], cuts[n],
                tx_window_top[n])
  BY DEF SentInv
<1>3. GivenIn(sent[n], transmit_fifo[n], cuts[n], id, s)
  BY DEF Given
<1> QED
  BY <1>1, <1>2, <1>3, NumbersFit

\* What the receiver takes, by the invariant.
LEMMA TakesGiven ==
  ASSUME FirstRound, TypeInv, NEW n \in Node, NumberedInv(n),
         NEW s \in SeqN, NEW m \in Message, ReceiverTakes(Peer(n), s, m)
  PROVE  LET p == Peer(n)
             b == Len(delivered[p])
             k == ReceiptSlides(p, s)
             h == HandedOver(p, s, m, k)
         IN  /\ Given(n, m.id, s) /\ Carries(n, Data(s, m))
             /\ rx_window_bottom[p] = b /\ k \in Nat /\ b \in Nat /\ b + k < MAX_SEQ_N
             /\ Len(h) = k /\ h \in Seq(Nat)
             /\ \A j \in 1 .. k : /\ b + j - 1 \in SeqN
                                  /\ b + j - 1 = s \/ received[p][b + j - 1]
                                  /\ h[j] = IF b + j - 1 = s THEN m.id
                                            ELSE rx_window[p][b + j - 1].id
             /\ \A j \in 0 .. k - 1 : b + j \notin Cleared(p, j)
             /\ b + k = s \/ received[p][b + k] => b + k \in Cleared(p, k)
<1> DEFINE p == Peer(n)
<1>1. p \in Node
  BY PeerType
<1>2. Carries(n, Data(s, m)) /\ FreshData(p, s)
  BY DEF ReceiverTakes, Carries
<1>3. Given(n, m.id, s)
  BY <1>2 DEF NumberedInv, CarriedNumbered
<1>4. s < MAX_SEQ_N - 1
  BY <1>3, GivenFits DEF NumberedInv
<1>5. ASSUME NEW r \in SeqN, received[p][r] PROVE r < MAX_SEQ_N - 1
  <2>1. rx_window[p][r] # NoPacket
    BY <1>1, <1>5 DEF TypeInv, ReceivedIsStored
  <2>2. Given(n, rx_window[p][r].id, r)
    BY <2>1 DEF NumberedInv, RxNumbered
  <2> QED
    BY <2>2, GivenFits DEF NumberedInv
<1>6. rx_window_bottom[p] = Len(delivered[p])
  <2>1. rx_window_bottom[p] \in SeqN
    BY <1>1 DEF TypeInv, TypeOK
  <2>2. rx_window_bottom[p] # rx_window_top[p]
    BY <1>2, <2>1, EmptyWindow DEF FreshData
  <2> QED
    BY <2>2 DEF NumberedInv, BottomCounts
<1>7. rx_window_bottom[p] \in Nat
  BY <1>1 DEF TypeInv, TypeOK, SeqN
<1> DEFINE b == rx_window_bottom[p]
           k == ReceiptSlides(p, s)
           h == HandedOver(p, s, m, k)
<1>8. /\ k \in Nat /\ b + k < MAX_SEQ_N
      /\ Len(h) = k /\ h \in Seq(Nat)
      /\ \A j \in 1 .. k : /\ b + j - 1 \in SeqN
                           /\ b + j - 1 = s \/ received[p][b + j - 1]
                           /\ h[j] = IF b + j - 1 = s THEN m.id
                                     ELSE rx_window[p][b + j - 1].id
      /\ \A j \in 0 .. k - 1 : b + j \notin Cleared(p, j)
      /\ b + k = s \/ received[p][b + k] => b + k \in Cleared(p, k)
  <2> HIDE DEF p
  <2> QED
    BY <1>1, <1>2, <1>4, <1>5, HandsOver
<1>9. b = Len(delivered[Peer(n)])
  BY <1>6
<1> HIDE DEF b, k, h
<1> QED
  BY <1>2, <1>3, <1>6, <1>7, <1>8, <1>9 DEF b, k, h

\* The receiver keeps to the numbers.
LEMMA ReceiverStep ==
  ASSUME FirstRound, TypeInv, [Next]_vars, NEW n \in Node, NumberedInv(n),
         \A id, s : Given(n, id, s) => GivenAfter(n, id, s)
  PROVE  RxNumbered(n)' /\ DeliveredNumbered(n)' /\ BottomCounts(n)'
<1> DEFINE p == Peer(n)
<1>1. p \in Node
  BY PeerType
<1>2. CASE /\ rx_window'[p] = rx_window[p] /\ delivered'[p] = delivered[p]
           /\ \/ rx_window_bottom'[p] = rx_window_bottom[p] /\ rx_window_top'[p] = rx_window_top[p]
              \/ rx_window_bottom'[p] = rx_window_top'[p]
  <2>1. RxNumbered(n)'
    <3> SUFFICES ASSUME NEW s \in SeqN, rx_window'[p][s] # NoPacket
                 PROVE  GivenAfter(n, rx_window'[p][s].id, s)
      BY DEF RxNumbered, Given, GivenAfter
    <3>1. Given(n, rx_window[p][s].id, s)
      BY <1>2 DEF NumberedInv, RxNumbered
    <3> QED
      BY <1>2, <3>1
  <2>2. DeliveredNumbered(n)'
    <3> SUFFICES ASSUME NEW i \in 1 .. Len(delivered[p])
                 PROVE  GivenAfter(n, delivered[p][i], i - 1)
      BY <1>2 DEF DeliveredNumbered, Given, GivenAfter
    <3>1. Given(n, delivered[p][i], i - 1)
      BY DEF NumberedInv, DeliveredNumbered
    <3> QED
      BY <3>1
  <2>3. BottomCounts(n)'
    BY <1>2 DEF NumberedInv, BottomCounts
  <2> QED
    BY <2>1, <2>2, <2>3
<1>3. ASSUME NEW s \in SeqN, NEW m \in Message, ReceiverTakes(p, s, m)
      PROVE  RxNumbered(n)' /\ DeliveredNumbered(n)' /\ BottomCounts(n)'
  <2> DEFINE d == delivered[p]
             b == Len(d)
             k == ReceiptSlides(p, s)
             h == HandedOver(p, s, m, k)
  <2>1. /\ Given(n, m.id, s)
        /\ rx_window_bottom[p] = b /\ k \in Nat /\ b \in Nat /\ b + k < MAX_SEQ_N
        /\ Len(h) = k /\ h \in Seq(Nat)
        /\ \A j \in 1 .. k : /\ b + j - 1 \in SeqN
                             /\ b + j - 1 = s \/ received[p][b + j - 1]
                             /\ h[j] = IF b + j - 1 = s THEN m.id
                                       ELSE rx_window[p][b + j - 1].id
    BY <1>3, TakesGiven
  <2>2. /\ rx_window'[p] = [rx_window[p] EXCEPT ![s] = m]
        /\ rx_window_bottom'[p] = Plus(rx_window_bottom[p], k)
        /\ delivered'[p] = d \o h
    BY <1>3 DEF ReceiverTakes
  <2>3. d \in Seq(Nat)
    BY <1>1 DEF TypeInv, TypeOK
  <2> HIDE DEF k, h
  <2>4. /\ Len(d \o h) = b + k
        /\ \A i \in 1 .. b + k : (d \o h)[i] = IF i <= b THEN d[i] ELSE h[i - b]
    <3>1. h \in Seq(Nat) /\ Len(h) = k
      BY <2>1
    <3> HIDE DEF d
    <3> QED
      BY <2>3, <3>1, ConcatProperties
  <2>5. RxNumbered(n)'
    <3> SUFFICES ASSUME NEW r \in SeqN, rx_window'[p][r] # NoPacket
                 PROVE  GivenAfter(n, rx_window'[p][r].id, r)
      BY DEF RxNumbered, Given, GivenAfter
    <3>1. CASE r = s
      <4>1. rx_window'[p][r] = m
        BY <1>1, <2>2, <3>1 DEF TypeInv, TypeOK
      <4> QED
        BY <2>1, <3>1, <4>1
    <3>2. CASE r # s
      <4>1. rx_window'[p][r] = rx_window[p][r]
        BY <2>2, <3>2
      <4>2. Given(n, rx_window[p][r].id, r)
        BY <4>1 DEF NumberedInv, RxNumbered
      <4> QED
        BY <4>1, <4>2
    <3> QED
      BY <3>1, <3>2
  <2>6. DeliveredNumbered(n)'
    <3> SUFFICES ASSUME NEW i \in 1 .. Len(d \o h)
                 PROVE  Given(n, (d \o h)[i], i - 1)
      BY <2>2 DEF DeliveredNumbered, Given, GivenAfter
    <3>1. i \in 1 .. b + k
      BY <2>4
    <3>2. CASE i <= b
      <4>1. (d \o h)[i] = d[i] /\ i \in 1 .. b
        BY <2>1, <2>4, <3>1, <3>2
      <4> QED
        BY <4>1 DEF NumberedInv, DeliveredNumbered
    <3>3. CASE i > b
      <4> DEFINE j == i - b
                 r == b + j - 1
      <4>1. j \in 1 .. k /\ r = i - 1
        BY <2>1, <3>1, <3>3
      <4>2. (d \o h)[i] = h[j]
        BY <2>1, <2>4, <3>1, <3>3
      <4> HIDE DEF j
      <4>3. r = s \/ received[p][r]
        BY <2>1, <4>1
      <4>4. r \in SeqN
        BY <2>1, <4>1
      <4>5. h[j] = IF r = s THEN m.id ELSE rx_window[p][r].id
        BY <2>1, <4>1
      <4> HIDE DEF r
      <4>6. CASE r = s
        BY <2>1, <4>1, <4>2, <4>5, <4>6
      <4>7. CASE r # s
        <5>1. rx_window[p][r] # NoPacket
          BY <1>1, <4>3, <4>4, <4>7 DEF TypeInv, ReceivedIsStored
        <5>2. Given(n, rx_window[p][r].id, r)
          BY <4>4, <5>1 DEF NumberedInv, RxNumbered
        <5> QED
          BY <4>1, <4>2, <4>5, <4>7, <5>2
      <4> QED
        BY <4>6, <4>7
    <3> QED
      BY <2>1, <3>1, <3>2, <3>3
  <2>7. BottomCounts(n)'
    <3>1. Plus(b, k) = b + k
      BY <2>1, PlusBelow
    <3>2. rx_window_bottom'[p] = Len(delivered'[p])
      BY <2>1, <2>2, <2>4, <3>1
    <3> QED
      BY <3>2 DEF BottomCounts
  <2> QED
    BY <2>5, <2>6, <2>7
<1>4. \/ ReceiverRests(p) \/ ReceiverCloses(p)
      \/ \E s \in SeqN, m \in Message : ReceiverTakes(p, s, m)
  BY <1>1, StepMovesReceiver
<1>5. ReceiverRests(p) \/ ReceiverCloses(p) =>
        /\ rx_window'[p] = rx_window[p] /\ delivered'[p] = delivered[p]
        /\ \/ rx_window_bottom'[p] = rx_window_bottom[p] /\ rx_window_top'[p] = rx_window_top[p]
           \/ rx_window_bottom'[p] = rx_window_top'[p]
  BY DEF ReceiverRests, ReceiverCloses
<1> QED
  BY <1>2, <1>3, <1>4, <1>5

\* A step keeps the invariant.
LEMMA DeliveryStep ==
  ASSUME FirstRound, TypeInv, DeliveryInv, [Next]_vars
  PROVE  DeliveryInv'
<1> SUFFICES ASSUME NEW n \in Node
             PROVE  NumberedInv(n)'
  BY DEF DeliveryInv
<1>1. NumberedInv(n)
  BY DEF DeliveryInv
<1>2. /\ SentInv(n)'
      /\ \A id, s : Given(n, id, s) => GivenAfter(n, id, s)
      /\ SenderPeeks(n) => GivenAfter(n, Head(transmit_fifo[n]).id, tx_window_top[n])
  BY <1>1, SentStep DEF NumberedInv
<1>3. TxNumbered(n)'
  <2> SUFFICES ASSUME NEW s \in SeqN, tx_window'[n][s] # NoPacket
               PROVE  GivenAfter(n, tx_window'[n][s].id, s)
    BY DEF TxNumbered, Given, GivenAfter
  <2>1. \/ tx_window'[n] = tx_window[n]
        \/ /\ SenderPeeks(n)
           /\ tx_window'[n] = [tx_window[n] EXCEPT ![tx_window_top[n]] = Head(transmit_fifo[n])]
    BY StepMovesSender
    DEF SenderMoves, SenderRests, SenderAccepts, SenderDrops, SenderCloses, SenderPeeks
  <2>2. CASE tx_window'[n][s] = tx_window[n][s]
    <3>1. Given(n, tx_window[n][s].id, s)
      BY <1>1, <2>2 DEF NumberedInv, TxNumbered
    <3> QED
      BY <1>2, <2>2, <3>1
  <2>3. CASE /\ SenderPeeks(n) /\ s = tx_window_top[n]
             /\ tx_window'[n][s] = Head(transmit_fifo[n])
    BY <1>2, <2>3
  <2>4. tx_window[n] \in [SeqN -> Message \cup {NoPacket}]
    BY DEF TypeInv, TypeOK
  <2> QED
    BY <2>1, <2>2, <2>3, <2>4
<1>4. CarriedNumbered(n)'
  <2> SUFFICES ASSUME NEW s \in SeqN, NEW m \in Message, Carries(n, Data(s, m))'
               PROVE  Given(n, m.id, s)
    BY <1>2 DEF CarriedNumbered, Given, GivenAfter
  <2>1. Carries(n, Data(s, m)) \/ Emits(n, Data(s, m))
    BY StepCarries
  <2>2. CASE Carries(n, Data(s, m))
    BY <1>1, <2>2 DEF NumberedInv, CarriedNumbered
  <2>3. ASSUME NEW r \in SeqN, tx_window[n][r] \in Message,
               Data(s, m) = Data(r, tx_window[n][r])
        PROVE  Given(n, m.id, s)
    <3>1. r = s /\ m = tx_window[n][s]
      BY <2>3 DEF Data
    <3>2. tx_window[n][s] # NoPacket
      BY <2>3, <3>1, NoPacketIsNoMessage
    <3> QED
      BY <1>1, <3>1, <3>2 DEF NumberedInv, TxNumbered
  <2>4. ASSUME NEW r PROVE Data(s, m) # Ack(r)
    BY DEF Data, Ack
  <2> QED
    BY <2>1, <2>2, <2>3, <2>4 DEF Emits
<1>5. RxNumbered(n)' /\ DeliveredNumbered(n)' /\ BottomCounts(n)'
  BY <1>1, <1>2, ReceiverStep
<1> QED
  BY <1>2, <1>3, <1>4, <1>5 DEF NumberedInv

LEMMA DeliveryInit ==
  ASSUME Init, FirstRound
  PROVE  DeliveryInv
<1> SUFFICES ASSUME NEW n \in Node
             PROVE  NumberedInv(n)
  BY DEF DeliveryInv
<1>1. TypeInv /\ Peer(n) \in Node
  BY InitType, PeerType
<1>2. /\ offered[n] = 0 /\ sent[n] = <<>> /\ transmit_fifo[n] = <<>> /\ cuts[n] = {}
      /\ tx_window_top[n] = 0 /\ wire[n] = <<>> /\ now[Peer(n)] = <<>>
      /\ delivered[Peer(n)] = <<>> /\ rx_window_bottom[Peer(n)] = 0
      /\ \A s \in SeqN : tx_window[n][s] = NoPacket /\ rx_window[Peer(n)][s] = NoPacket
  BY <1>1 DEF Init
<1>3. Len(<<>>) = 0
  BY EmptySeq
<1>4. SentInv(n)
  <2>1. Below(<<>>, {}, NextId(0, <<>>)) = {}
    BY <1>3 DEF Below
  <2>2. Number(<<>>, {}, NextId(0, <<>>)) = 0
    BY <2>1, FS_EmptySet DEF Number
  <2>3. setting.offers[n] \in Nat
    BY <1>1, SenderTyped DEF SenderTypes
  <2> QED
    BY <1>2, <1>3, <2>2, <2>3 DEF SentInv, Numbering
<1>5. \A pk : ~Carries(n, pk)
  BY <1>2, <1>3 DEF Carries, Holds
<1>6. TxNumbered(n) /\ RxNumbered(n) /\ CarriedNumbered(n)
  BY <1>2, <1>5 DEF TxNumbered, RxNumbered, CarriedNumbered
<1>7. DeliveredNumbered(n) /\ BottomCounts(n)
  BY <1>2, <1>3 DEF DeliveredNumbered, BottomCounts
<1> QED
  BY <1>4, <1>6, <1>7 DEF NumberedInv

LEMMA DeliveryInvariant ==
  ASSUME FirstRound
  PROVE  Spec => []DeliveryInv
<1>1. Init => DeliveryInv
  BY DeliveryInit
<1>2. TypeInv /\ DeliveryInv /\ [Next]_vars => DeliveryInv'
  BY DeliveryStep
<1> QED
  BY <1>1, <1>2, TypeInvariant, PTL DEF Spec

-----------------------------------------------------------------------------
(***************************************************************************)
(* What the applications see.                                              *)
(***************************************************************************)

\* As long as a sender does not close, numbers count what it accepted.
LEMMA NumberCounts ==
  ASSUME NEW q \in Seq(Nat), NEW i \in 1 .. Len(q),
         \A j, k \in 1 .. Len(q) : j < k => q[j] < q[k]
  PROVE  Number(q, {}, q[i]) = i - 1
<1>1. Len(q) \in Nat /\ \A j \in 1 .. Len(q) : q[j] \in Nat
  BY LenProperties, ElementOfSeq
<1>2. ASSUME NEW j \in 1 .. Len(q) PROVE q[j] < q[i] <=> j < i
  <2>1. j < i \/ j = i \/ i < j
    BY <1>1
  <2>2. q[i] \in Nat /\ q[j] \in Nat
    BY <1>1
  <2>3. CASE j < i
    BY <2>3
  <2>4. CASE j = i
    BY <2>2, <2>4
  <2>5. CASE i < j
    <3>1. q[i] < q[j]
      BY <2>5
    <3>2. ~(j < i)
      BY <1>1, <2>5
    <3> QED
      BY <2>2, <3>1, <3>2
  <2> QED
    BY <2>1, <2>3, <2>4, <2>5
<1>3. Below(q, {}, q[i]) = 1 .. i - 1
  <2>1. ASSUME NEW j \in 1 .. Len(q) PROVE j \in Below(q, {}, q[i]) <=> j < i
    BY <1>2 DEF Below
  <2>2. Below(q, {}, q[i]) \subseteq 1 .. Len(q)
    BY DEF Below
  <2>3. 1 .. i - 1 \subseteq 1 .. Len(q) /\ \A j \in 1 .. Len(q) : j < i <=> j \in 1 .. i - 1
    BY <1>1
  <2> HIDE DEF Below
  <2> QED
    BY <2>1, <2>2, <2>3
<1>4. Cardinality(1 .. i - 1) = i - 1
  BY <1>1, FS_Interval
<1> QED
  BY <1>3, <1>4 DEF Number

\* Numbers grow with the ids between two closes.
LEMMA NumberGrows ==
  ASSUME NEW q \in Seq(Nat), NEW C \in SUBSET Nat, NEW x \in Nat, NEW y \in Nat, x < y,
         \A c \in C : c <= x \/ y < c
  PROVE  Number(q, C, x) <= Number(q, C, y)
<1>1. Len(q) \in Nat /\ \A j \in 1 .. Len(q) : q[j] \in Nat
  BY LenProperties, ElementOfSeq
<1>2. Below(q, C, x) \subseteq Below(q, C, y)
  <2> SUFFICES ASSUME NEW i \in 1 .. Len(q), q[i] < x,
                      \A c \in C : c <= q[i] \/ x < c
               PROVE  q[i] < y /\ \A c \in C : c <= q[i] \/ y < c
    BY DEF Below
  <2>1. q[i] \in Nat
    BY <1>1
  <2> QED
    BY <2>1
<1>3. \A i \in Below(q, C, y) : i <= Len(q)
  BY <1>1 DEF Below
<1>4. IsFiniteSet(Below(q, C, y))
  BY <1>1, <1>3, NumberType
<1> QED
  BY <1>2, <1>4, FS_Subset DEF Number

\* The messages d were given the numbers 0, 1, ...
GivenInTurn(q, f, d) ==
  /\ \A i, j \in 1 .. Len(q) : i < j => q[i] < q[j]
  /\ Len(f) <= Len(q)
  /\ \A i \in 1 .. Len(d) : GivenIn(q, f, {}, d[i], i - 1)

\* They are those accepted first.
LEMMA GivenIsPrefix ==
  ASSUME NEW q \in Seq(Nat), NEW f \in Seq(Message), NEW d \in Seq(Nat),
         GivenInTurn(q, f, d)
  PROVE  /\ Len(d) <= Len(q) - Len(f) /\ Len(d) <= Len(q)
         /\ \A i \in 1 .. Len(d) : d[i] = q[i]
<1>0. GivenInTurn(q, f, d)
  OBVIOUS
<1>1. /\ Len(q) \in Nat /\ Len(f) \in Nat /\ Len(d) \in Nat /\ Len(f) <= Len(q)
      /\ \A i, j \in 1 .. Len(q) : i < j => q[i] < q[j]
  BY <1>0, LenProperties DEF GivenInTurn
<1>2. ASSUME NEW i \in 1 .. Len(d)
      PROVE  i <= Len(q) - Len(f) /\ d[i] = q[i]
  <2>1. PICK k \in 1 .. Len(q) - Len(f) : q[k] = d[i] /\ Number(q, {}, d[i]) = i - 1
    BY <1>0 DEF GivenInTurn, GivenIn
  <2>2. k \in 1 .. Len(q) /\ k \in Nat /\ i \in Nat
    BY <1>1
  <2>3. Number(q, {}, q[k]) = k - 1
    BY <1>1, <2>2, NumberCounts
  <2>4. k = i
    BY <2>1, <2>2, <2>3
  <2> QED
    BY <2>1, <2>4
<1>3. Len(d) <= Len(q) - Len(f)
  <2>1. CASE Len(d) = 0
    BY <1>1, <2>1
  <2>2. CASE Len(d) # 0
    BY <1>1, <1>2, <2>2
  <2> QED
    BY <2>1, <2>2
<1>4. Len(d) <= Len(q)
  BY <1>1, <1>3
<1> QED
  BY <1>2, <1>3, <1>4

\* What the receiver was given is the beginning of what the sender accepted.
LEMMA DeliveredIsPrefix ==
  ASSUME FirstRound, TypeInv, DeliveryInv, NEW n \in Node, cuts[n] = {}
  PROVE  /\ Len(delivered[Peer(n)]) <= Len(sent[n]) - Len(transmit_fifo[n])
         /\ Len(delivered[Peer(n)]) <= Len(sent[n])
         /\ \A i \in 1 .. Len(delivered[Peer(n)]) : delivered[Peer(n)][i] = sent[n][i]
<1>1. /\ sent[n] \in Seq(Nat) /\ transmit_fifo[n] \in Seq(Message)
      /\ delivered[Peer(n)] \in Seq(Nat)
  BY PeerType DEF TypeInv, TypeOK
<1>2. /\ \A i, j \in 1 .. Len(sent[n]) : i < j => sent[n][i] < sent[n][j]
      /\ Len(transmit_fifo[n]) <= Len(sent[n])
  BY DEF DeliveryInv, NumberedInv, SentInv, Numbering
<1>3. \A i \in 1 .. Len(delivered[Peer(n)]) :
        GivenIn(sent[n], transmit_fifo[n], {}, delivered[Peer(n)][i], i - 1)
  BY DEF DeliveryInv, NumberedInv, DeliveredNumbered, Given
<1> DEFINE q == sent[n]
           f == transmit_fifo[n]
           d == delivered[Peer(n)]
<1>4. q \in Seq(Nat) /\ f \in Seq(Message) /\ d \in Seq(Nat) /\ GivenInTurn(q, f, d)
  BY <1>1, <1>2, <1>3 DEF GivenInTurn
<1> HIDE DEF q, f, d
<1>5. /\ Len(d) <= Len(q) - Len(f) /\ Len(d) <= Len(q)
      /\ \A i \in 1 .. Len(d) : d[i] = q[i]
  BY <1>4, GivenIsPrefix
<1> QED
  BY <1>5 DEF q, f, d

\* Sequences that agree as far as the shorter reaches.
LEMMA PrefixOf ==
  ASSUME NEW S, NEW q \in Seq(S), NEW d \in Seq(S), Len(d) <= Len(q),
         \A i \in 1 .. Len(d) : d[i] = q[i]
  PROVE  IsPrefix(d, q) /\ d = SubSeq(q, 1, Len(d))
<1>1. Len(d) \in Nat /\ Len(q) \in Nat
  BY LenProperties
<1>2. \A i \in 1 .. Len(d) : q[i] \in S
  BY <1>1, ElementOfSeq
<1>3. /\ SubSeq(q, 1, Len(d)) \in Seq(S) /\ Len(SubSeq(q, 1, Len(d))) = Len(d)
      /\ \A i \in 1 .. Len(d) : SubSeq(q, 1, Len(d))[i] = q[i]
  <2>1. /\ SubSeq(q, 1, Len(d)) \in Seq(S)
        /\ Len(SubSeq(q, 1, Len(d))) = IF 1 <= Len(d) THEN Len(d) - 1 + 1 ELSE 0
        /\ \A i \in 1 .. Len(d) - 1 + 1 : SubSeq(q, 1, Len(d))[i] = q[1 + i - 1]
    BY <1>1, <1>2, SubSeqProperties
  <2>2. Len(d) - 1 + 1 = Len(d) /\ \A i \in 1 .. Len(d) : 1 + i - 1 = i
    BY <1>1
  <2>3. Len(SubSeq(q, 1, Len(d))) = Len(d)
    BY <1>1, <2>1
  <2> QED
    BY <2>1, <2>2, <2>3
<1>4. d = SubSeq(q, 1, Len(d))
  <2> DEFINE r == SubSeq(q, 1, Len(d))
  <2>1. r \in Seq(S) /\ Len(r) = Len(d) /\ \A i \in 1 .. Len(d) : d[i] = r[i]
    BY <1>3
  <2> HIDE DEF r
  <2>2. d = r
    BY <2>1, SeqEqual
  <2> QED
    BY <2>2 DEF r
<1>5. SubSeq(d, 1, Len(d)) = d
  BY SubSeqFull
<1> QED
  BY <1>4, <1>5 DEF IsPrefix

\* Whatever is lost, sent again or overtaken, whatever shares an instant and
\* however often the receiver closes and reopens: as long as numbers do not
\* wrap and the sender does not close, its peer's application is given what it
\* accepted, each message once and in order (send, mark_packet_receipt).
THEOREM DeliveryInOrder ==
  ASSUME FirstRound
  PROVE  Spec => []InOrder
<1>1. TypeInv /\ DeliveryInv => InOrder
  <2> SUFFICES ASSUME TypeInv, DeliveryInv, NEW n \in Node, cuts[n] = {}
               PROVE  IsPrefix(delivered[Peer(n)], sent[n])
    BY DEF InOrder
  <2>1. delivered[Peer(n)] \in Seq(Nat) /\ sent[n] \in Seq(Nat)
    BY PeerType DEF TypeInv, TypeOK
  <2> QED
    BY <2>1, DeliveredIsPrefix, PrefixOf
<1> QED
  BY <1>1, TypeInvariant, DeliveryInvariant, PTL

\* Nothing is handed over twice or made up, and messages numbered between the
\* same two closes of their sender keep their order, whoever closes and reopens
\* whenever it likes (close, mark_packet_receipt).
THEOREM DeliveredOnce ==
  ASSUME FirstRound
  PROVE  Spec => []OnceAcrossReopening
<1>1. TypeInv /\ DeliveryInv => OnceAcrossReopening
  <2> SUFFICES ASSUME TypeInv, DeliveryInv, NEW n \in Node
               PROVE  LET d == delivered[Peer(n)]
                      IN  /\ ToSet(d) \subseteq ToSet(sent[n])
                          /\ \A i, j \in DOMAIN d : i < j =>
                               \/ d[i] < d[j]
                               \/ d[j] < d[i] /\ \E c \in cuts[n] : d[j] < c /\ c <= d[i]
    BY DEF OnceAcrossReopening
  <2> DEFINE d == delivered[Peer(n)]
             q == sent[n]
             f == transmit_fifo[n]
             C == cuts[n]
  <2>1. /\ q \in Seq(Nat) /\ d \in Seq(Nat) /\ C \in SUBSET Nat
        /\ Len(q) \in Nat /\ Len(f) \in Nat
        /\ DOMAIN d = 1 .. Len(d) /\ DOMAIN q = 1 .. Len(q)
        /\ \A i \in 1 .. Len(q) : q[i] \in Nat
    BY PeerType, LenProperties, ElementOfSeq DEF TypeInv, TypeOK
  <2>2. \A i \in 1 .. Len(d) : GivenIn(q, f, C, d[i], i - 1)
    BY DEF DeliveryInv, NumberedInv, DeliveredNumbered, Given
  <2> HIDE DEF d, q, f, C
  <2>3. ASSUME NEW i \in 1 .. Len(d)
        PROVE  /\ d[i] \in Nat /\ d[i] \in ToSet(q)
               /\ Number(q, C, d[i]) = i - 1
    <3>1. PICK k \in 1 .. Len(q) - Len(f) : q[k] = d[i] /\ Number(q, C, d[i]) = i - 1
      BY <2>2 DEF GivenIn
    <3>2. k \in 1 .. Len(q)
      BY <2>1
    <3> QED
      BY <2>1, <3>1, <3>2 DEF ToSet
  <2>4. ToSet(d) \subseteq ToSet(q)
    BY <2>1, <2>3 DEF ToSet
  <2>5. ASSUME NEW i \in DOMAIN d, NEW j \in DOMAIN d, i < j,
               ~(d[i] < d[j])
        PROVE  d[j] < d[i] /\ \E c \in C : d[j] < c /\ c <= d[i]
    <3>1. /\ d[i] \in Nat /\ d[j] \in Nat /\ i \in Nat /\ j \in Nat
          /\ Number(q, C, d[i]) = i - 1 /\ Number(q, C, d[j]) = j - 1
      BY <2>1, <2>3
    <3>2. ~(Number(q, C, d[j]) <= Number(q, C, d[i]))
      BY <2>5, <3>1
    <3>3. d[i] # d[j]
      BY <2>5, <3>1
    <3>4. d[j] < d[i]
      BY <2>5, <3>1, <3>3
    <3>5. ~ \A c \in C : c <= d[j] \/ d[i] < c
      BY <2>1, <3>1, <3>2, <3>4, NumberGrows
    <3>6. \A c \in C : c \in Nat
      BY <2>1
    <3> QED
      BY <3>1, <3>4, <3>5, <3>6
  <2> QED
    BY <2>4, <2>5 DEF d, q, C
<1> QED
  BY <1>1, TypeInvariant, DeliveryInvariant, PTL

\* No sender has closed.
NoCuts == \A n \in Node : cuts[n] = {}

\* send of an id that is larger than all before.
LEMMA SendAccepts ==
  ASSUME FirstRound, TypeInv, DeliveryInv, NEW n \in Node, NEW size \in Size, Send(n, size)
  PROVE  Transfer!Next \/ UNCHANGED <<sent, delivered>>
<1> DEFINE id == offered[n] + 1
<1>1. delivered' = delivered
  BY DEF Send
<1>2. CASE sent' = sent
  BY <1>1, <1>2
<1>3. CASE sent' = [sent EXCEPT ![n] = Append(sent[n], id)]
  <2>1. /\ setting \in Setting /\ setting.offers[n] \in Nat
        /\ offered[n] \in Nat /\ offered[n] < setting.offers[n]
    BY SenderTyped DEF SenderTypes, Send, TypeInv, TypeOK
  <2>2. id \in 1 .. setting.offers[n]
    BY <2>1
  <2>3. id \in UNION {UNION {1 .. e.offers[m] : m \in Node} : e \in Setting}
    BY <2>1, <2>2
  <2>4. \A i \in 1 .. Len(sent[n]) : sent[n][i] < id
    <3>1. \A i \in 1 .. Len(sent[n]) : sent[n][i] \in Nat /\ sent[n][i] <= offered[n]
      BY ElementOfSeq DEF DeliveryInv, NumberedInv, SentInv, Numbering, TypeInv, TypeOK
    <3> QED
      BY <2>1, <3>1
  <2>5. Transfer!Accept(n, id)
    BY <1>1, <1>3, <2>4 DEF Transfer!Accept
  <2> QED
    BY <2>3, <2>5 DEF Transfer!Next
<1>4. sent' = sent \/ sent' = [sent EXCEPT ![n] = Append(sent[n], id)]
  BY SMTT(20) DEF Send, TypeInv, TypeOK
<1> QED
  BY <1>2, <1>3, <1>4

\* Data that arrives in order is handed over.
LEMMA DataHands ==
  ASSUME FirstRound, TypeInv, DeliveryInv, TypeInv', DeliveryInv', NoCuts,
         NEW p \in Node, DataArrived(p)
  PROVE  Transfer!Next \/ UNCHANGED <<sent, delivered>>
<1> DEFINE n == Peer(p)
           q == sent[n]
           d == delivered[p]
           e == delivered'[p]
<1>1. n \in Node /\ Peer(n) = p
  BY PeerType, PeerOfPeer
<1>2. sent' = sent /\ cuts' = cuts /\ transmit_fifo' = transmit_fifo
  BY DEF DataArrived
<1>3. cuts[n] = {} /\ cuts'[n] = {}
  BY <1>1, <1>2 DEF NoCuts
<1>4. /\ q \in Seq(Nat) /\ d \in Seq(Nat) /\ e \in Seq(Nat)
      /\ Len(q) \in Nat /\ Len(d) \in Nat /\ Len(e) \in Nat
  BY <1>1, LenProperties DEF TypeInv, TypeOK
<1>5. Len(d) <= Len(q) /\ \A i \in 1 .. Len(d) : d[i] = q[i]
  BY <1>1, <1>3, DeliveredIsPrefix
<1>6. Len(e) <= Len(q) /\ \A i \in 1 .. Len(e) : e[i] = q[i]
  <2> DEFINE f == transmit_fifo[n]
  <2>1. /\ \A i, j \in 1 .. Len(q) : i < j => q[i] < q[j]
        /\ Len(f) <= Len(q)
    BY <1>1 DEF DeliveryInv, NumberedInv, SentInv, Numbering
  <2>2. NumberedInv(n)'
    BY <1>1 DEF DeliveryInv
  <2>3. \A i \in 1 .. Len(e) : GivenIn(q, f, {}, e[i], i - 1)
    BY <1>1, <1>2, <1>3, <2>2 DEF NumberedInv, DeliveredNumbered, Given
  <2>4. f \in Seq(Message) /\ q \in Seq(Nat) /\ e \in Seq(Nat)
    BY <1>1, <1>4 DEF TypeInv, TypeOK
  <2> HIDE DEF q, e, f
  <2>5. GivenInTurn(q, f, e)
    BY <2>1, <2>3 DEF GivenInTurn
  <2>6. /\ Len(e) <= Len(q) - Len(f) /\ Len(e) <= Len(q)
        /\ \A i \in 1 .. Len(e) : e[i] = q[i]
    BY <2>4, <2>5, GivenIsPrefix
  <2> QED
    BY <2>6
<1>7. d = SubSeq(q, 1, Len(d)) /\ e = SubSeq(q, 1, Len(e))
  BY <1>4, <1>5, <1>6, PrefixOf
<1>8. /\ delivered' = [delivered EXCEPT ![p] = e]
      /\ Len(d) <= Len(e)
  <2> DEFINE seg == Head(now[p]).seg
             h == HandedOver(p, seg.seq_number, seg.msg, ReceiptSlides(p, seg.seq_number))
  <2>1. CASE delivered' = delivered
    BY <1>4, <2>1 DEF TypeInv, TypeOK
  <2>2. CASE delivered' = [delivered EXCEPT ![p] = d \o h]
    <3>1. e = d \o h
      BY <2>2 DEF TypeInv, TypeOK
    <3>2. seg.seq_number \in SeqN /\ seg.msg \in Message
      BY ArrivalType DEF DataArrived
    <3>3. h \in Seq(Nat)
      BY <3>2, HandedOverType
    <3> HIDE DEF h, d, e
    <3>4. Len(e) = Len(d) + Len(h) /\ Len(h) \in Nat
      BY <1>4, <3>1, <3>3, ConcatProperties, LenProperties, SMTT(20)
    <3> QED
      BY <1>4, <2>2, <3>1, <3>4
  <2>3. \/ delivered' = delivered
        \/ delivered' = [delivered EXCEPT ![p] = d \o h]
    BY DEF DataArrived, mark_packet_receipt, TypeInv, TypeOK
  <2> QED
    BY <2>1, <2>2, <2>3
<1>9. CASE Len(d) = Len(e)
  <2>1. d = e
    BY <1>7, <1>9
  <2>2. delivered' = delivered
    BY <1>8, <2>1 DEF TypeInv, TypeOK
  <2> QED
    BY <1>2, <2>2
<1>10. CASE Len(d) < Len(e)
  <2>1. Len(e) \in Len(d) + 1 .. Len(q)
    BY <1>4, <1>6, <1>10
  <2>2. Transfer!Hand(p)
    BY <1>2, <1>7, <1>8, <2>1 DEF Transfer!Hand
  <2> QED
    BY <2>2 DEF Transfer!Next
<1> QED
  BY <1>4, <1>8, <1>9, <1>10

\* The actions that neither accept nor hand over.
LEMMA NoTransfer ==
  ASSUME NEW n \in Node,
         \/ Close(n) \/ Open(n) \/ Peek(n) \/ ApplicationPacketReady(n) \/ AckArrived(n)
         \/ LaterPeek(n) \/ TimerInterrupt(n) \/ SpwReady(n) \/ UndefinedAccess(n)
         \/ \E i \in 1 .. Len(wire[n]) : Deliver(n, i) \/ Lose(n, i)
  PROVE  UNCHANGED <<sent, delivered>>
BY DEF Close, Open, Peek, ApplicationPacketReady, AckArrived, LaterPeek, TimerInterrupt,
       SpwReady, UndefinedAccess, Deliver, Lose, history

LEMMA TransferStep ==
  ASSUME FirstRound, TypeInv, DeliveryInv, TypeInv', DeliveryInv', NoCuts, [Next]_vars
  PROVE  [Transfer!Next]_<<sent, delivered>>
<1>1. CASE UNCHANGED vars
  BY <1>1 DEF vars, history
<1>2. ASSUME NEW n \in Node, NEW size \in Size, Send(n, size)
      PROVE  Transfer!Next \/ UNCHANGED <<sent, delivered>>
  BY <1>2, SendAccepts
<1>3. ASSUME NEW n \in Node, DataArrived(n)
      PROVE  Transfer!Next \/ UNCHANGED <<sent, delivered>>
  BY <1>3, DataHands
<1> QED
  BY <1>1, <1>2, <1>3, NoTransfer DEF Next

\* As long as numbers do not wrap and no sender closes, the two nodes implement
\* the two queues of OstTransfer, whatever the link loses, repeats or lets
\* overtake: each step accepts a message, hands over the next ones, or neither.
THEOREM TransferImplemented ==
  ASSUME FirstRound
  PROVE  Spec /\ []NoCuts => TransferSpec
<1>1. Init => Transfer!Init
  BY DEF Init, Transfer!Init
<1>2. /\ TypeInv /\ TypeInv' /\ DeliveryInv /\ DeliveryInv' /\ NoCuts
      /\ [Next]_vars
      => [Transfer!Next]_<<sent, delivered>>
  BY TransferStep
<1> QED
  BY <1>1, <1>2, TypeInvariant, DeliveryInvariant, PTL
  DEF Spec, TransferSpec, Transfer!Spec, Transfer!transfer_vars
==============================================================================
