------------------------------ MODULE RnetProofs ------------------------------
(***************************************************************************)
(* Proofs about the connector, for any number of zones, frames and events: *)
(* in RnetTransactions listener, polls and commands read one stream, and   *)
(* the notifications in it stay in order; in RnetFraming bytes become      *)
(* frames, and none of the values in them is lost or taken for another's.  *)
(***************************************************************************)
EXTENDS RnetTransactions, RnetFraming, SequenceTheorems, FiniteSetTheorems, WellFoundedInduction, TLAPS

-----------------------------------------------------------------------------
(* Induction over sequences. *)

\* A set of numbers has a smallest one.
LEMMA Smallest ==
    ASSUME NEW T, T \subseteq Nat, T # {}
    PROVE  \E x \in T : \A y \in T : x <= y
<1> DEFINE R == OpToRel(<, Nat)
<1>1. \A x, y \in Nat : y < x => <<y, x>> \in R
  BY DEF OpToRel
<1>2. IsWellFoundedOn(R, Nat)
  BY NatLessThanWellFounded
<1> HIDE DEF R
<1>3. PICK x \in T : \A y \in T : ~ (<<y, x>> \in R)
  BY <1>2, WFMin
<1>4. \A y \in T : ~(y < x) /\ y \in Nat /\ x \in Nat
  BY <1>1, <1>3
<1>5. \A y \in T : x <= y
  BY <1>4
<1> QED BY <1>3, <1>5

\* What holds of 0 and of a number's successor holds up to any bound.
LEMMA UpTo ==
    ASSUME NEW T, NEW n \in Nat, 0 \in T, \A i \in 0..(n - 1) : i \in T => i + 1 \in T
    PROVE  \A i \in 0..n : i \in T
<1> DEFINE F == {i \in 0..n : i \notin T}
<1> SUFFICES ASSUME F # {} PROVE FALSE
  OBVIOUS
<1>1. F \subseteq Nat
  OBVIOUS
<1> HIDE DEF F
<1>2. PICK x \in F : \A y \in F : x <= y
  BY <1>1, Smallest
<1> USE DEF F
<1>3. x # 0 /\ x - 1 \in 0..(n - 1)
  BY <1>2
<1>4. ~(x <= x - 1)
  BY <1>3
<1>5. x - 1 \in T
  <2> HIDE DEF F
  <2>1. x - 1 \notin F
    BY <1>2, <1>4
  <2> QED BY <1>3, <2>1 DEF F
<1>6. (x - 1) + 1 = x
  BY <1>3
<1> QED BY <1>2, <1>3, <1>5, <1>6

\* A set of sequences that holds the empty one, and with each one all that are longer by one
\* element, holds all sequences.
LEMMA SequencesGrow ==
    ASSUME NEW S, NEW T, <<>> \in T, \A s \in Seq(S), x \in S : s \in T => Append(s, x) \in T
    PROVE  \A s \in Seq(S) : s \in T
<1> SUFFICES ASSUME NEW s \in Seq(S) PROVE s \in T
  OBVIOUS
<1>0. Len(s) \in Nat
  BY LenProperties
<1> DEFINE N == {i \in 0..Len(s) : SubSeq(s, 1, i) \in T}
<1>1. 0 \in N
  <2>1. SubSeq(s, 1, 0) = <<>>
    BY SubSeqEmpty
  <2>2. SubSeq(s, 1, 0) \in T
    BY <2>1
  <2> QED BY <1>0, <2>2
<1>2. ASSUME NEW i \in 0..(Len(s) - 1), i \in N PROVE i + 1 \in N
  <2> DEFINE b == SubSeq(s, 1, i)
  <2>1. i + 1 \in 1..Len(s) /\ 1 \in 1..Len(s) /\ i + 1 \in 0..Len(s) /\ i \in Nat
    BY <1>0
  <2>2. s[i + 1] \in S /\ \A j \in 1..i : s[j] \in S
    BY <1>0, <2>1, ElementOfSeq
  <2>3. b \in Seq(S) /\ b \in T
    BY <1>2, <2>1, <2>2, SubSeqProperties
  <2>4. SubSeq(s, 1, i + 1) = SubSeq(s, 1, (i + 1) - 1) \o <<s[i + 1]>> /\ (i + 1) - 1 = i
    BY <2>1, SubSeqRecursiveSecond
  <2> HIDE DEF b
  <2>5. Append(b, s[i + 1]) = b \o <<s[i + 1]>> /\ Append(b, s[i + 1]) \in T
    BY <2>2, <2>3, AppendIsConcat
  <2>6. SubSeq(s, 1, i + 1) \in T
    BY <2>4, <2>5 DEF b
  <2> QED BY <2>1, <2>6
<1> HIDE DEF N
<1>3. \A n \in Nat : n = Len(s) => n \in N
  BY <1>1, <1>2, UpTo
<1>4. SubSeq(s, 1, Len(s)) \in T
  BY <1>0, <1>3 DEF N
<1> QED BY <1>4, SubSeqFull

\* One more element at the end of the second of two sequences.
LEMMA AppendLast ==
    ASSUME NEW S, NEW x \in S
    PROVE  \A a, b \in Seq(S) : a \o Append(b, x) = Append(a \o b, x)
<1> SUFFICES ASSUME NEW a \in Seq(S), NEW b \in Seq(S) PROVE a \o Append(b, x) = Append(a \o b, x)
  OBVIOUS
<1>1. a \o b \in Seq(S) /\ <<x>> \in Seq(S)
  BY ConcatProperties
<1>2. Append(a \o b, x) = (a \o b) \o <<x>> /\ Append(b, x) = b \o <<x>>
  BY <1>1, AppendIsConcat
<1>3. (a \o b) \o <<x>> = a \o (b \o <<x>>)
  BY <1>1, ConcatAssociative
<1> QED BY <1>2, <1>3

-----------------------------------------------------------------------------
(* Frames of some kinds. *)

\* One more frame.
More(kept, f, kinds) == IF f.kind \in kinds THEN Append(kept, f) ELSE kept

\* The frames kept so far, for each beginning of a sequence.
KeptSoFar(k, s, n, kinds) ==
    k = [i \in 0..n |-> IF i = 0 THEN <<>> ELSE More(k[i - 1], s[i], kinds)]

LEMMA KeptExists ==
    ASSUME NEW s, NEW kinds, NEW n \in Nat
    PROVE  \E k : KeptSoFar(k, s, n, kinds)
<1> DEFINE T == {i \in Nat : \E k : KeptSoFar(k, s, i, kinds)}
<1>1. 0 \in T
  <2> DEFINE k == [i \in 0..0 |-> <<>>]
  <2>1. KeptSoFar(k, s, 0, kinds)
    BY DEF KeptSoFar
  <2> QED BY <2>1
<1>2. ASSUME NEW i \in 0..(n - 1), i \in T PROVE i + 1 \in T
  <2>1. PICK g : KeptSoFar(g, s, i, kinds)
    BY <1>2
  <2> DEFINE last == More(g[i], s[i + 1], kinds)
             k == [j \in 0..i + 1 |-> IF j = i + 1 THEN last ELSE g[j]]
  <2>2. ASSUME NEW j \in 0..i + 1
        PROVE  k[j] = IF j = 0 THEN <<>> ELSE More(k[j - 1], s[j], kinds)
    <3>1. CASE j = i + 1
      <4>1. k[j] = last /\ j # 0 /\ j - 1 = i /\ k[j - 1] = g[i]
        BY <3>1
      <4> QED BY <3>1, <4>1
    <3>2. CASE j # i + 1
      <4>1. j \in 0..i /\ k[j] = g[j]
        BY <3>2
      <4>2. g[j] = IF j = 0 THEN <<>> ELSE More(g[j - 1], s[j], kinds)
        BY <2>1, <4>1 DEF KeptSoFar
      <4>3. j # 0 => k[j - 1] = g[j - 1]
        BY <3>2
      <4> QED BY <4>1, <4>2, <4>3
    <3> QED BY <3>1, <3>2
  <2>3. k = [j \in 0..i + 1 |-> k[j]]
    OBVIOUS
  <2> HIDE DEF k
  <2>4. KeptSoFar(k, s, i + 1, kinds)
    BY <2>2, <2>3 DEF KeptSoFar
  <2> QED BY <2>4
<1> HIDE DEF T
<1>3. n \in T
  BY <1>1, <1>2, UpTo
<1> QED BY <1>3 DEF T

LEMMA OfKindsIs ==
    ASSUME NEW s, NEW kinds, Len(s) \in Nat
    PROVE  \E k : KeptSoFar(k, s, Len(s), kinds) /\ OfKinds(s, kinds) = k[Len(s)]
<1> DEFINE k == CHOOSE g : KeptSoFar(g, s, Len(s), kinds)
<1>1. KeptSoFar(k, s, Len(s), kinds)
  BY KeptExists
<1>2. OfKinds(s, kinds) = k[Len(s)]
  BY DEF OfKinds, KeptSoFar, More
<1> QED BY <1>1, <1>2

LEMMA OfKindsEmpty == ASSUME NEW kinds PROVE OfKinds(<<>>, kinds) = <<>>
<1> DEFINE s == <<>>
<1>0. Len(s) = 0
  OBVIOUS
<1> HIDE DEF s
<1>1. PICK k : KeptSoFar(k, s, 0, kinds) /\ OfKinds(s, kinds) = k[0]
  BY <1>0, OfKindsIs
<1>2. k[0] = <<>>
  BY <1>1 DEF KeptSoFar
<1> QED BY <1>1, <1>2 DEF s

LEMMA OfKindsAppend ==
    ASSUME NEW S, NEW s \in Seq(S), NEW x \in S, NEW kinds
    PROVE  OfKinds(Append(s, x), kinds) = More(OfKinds(s, kinds), x, kinds)
<1> DEFINE t == Append(s, x)
           n == Len(s)
<1>0. n \in Nat /\ Len(t) = n + 1 /\ t[n + 1] = x /\ \A i \in 1..n : t[i] = s[i]
  BY LenProperties, AppendProperties
<1> HIDE DEF t, n
<1>1. PICK g : KeptSoFar(g, s, n, kinds) /\ OfKinds(s, kinds) = g[n]
  BY <1>0, OfKindsIs DEF n
<1>2. PICK k : KeptSoFar(k, t, n + 1, kinds) /\ OfKinds(t, kinds) = k[n + 1]
  BY <1>0, OfKindsIs
<1> DEFINE T == {i \in 0..n : k[i] = g[i]}
<1>3. 0 \in T
  BY <1>0, <1>1, <1>2 DEF KeptSoFar
<1>4. ASSUME NEW i \in 0..(n - 1), i \in T PROVE i + 1 \in T
  <2>1. i + 1 \in 0..n /\ i + 1 \in 0..n + 1 /\ i + 1 # 0 /\ (i + 1) - 1 = i /\ i + 1 \in 1..n
    BY <1>0
  <2>2. g[i + 1] = More(g[(i + 1) - 1], s[i + 1], kinds)
    BY <1>1, <2>1 DEF KeptSoFar
  <2>3. k[i + 1] = More(k[(i + 1) - 1], t[i + 1], kinds)
    BY <1>2, <2>1 DEF KeptSoFar
  <2>4. t[i + 1] = s[i + 1] /\ k[i] = g[i]
    BY <1>0, <1>4, <2>1
  <2> QED BY <2>1, <2>2, <2>3, <2>4
<1> HIDE DEF T
<1>5. k[n] = g[n]
  <2>1. n \in Nat
    BY <1>0
  <2>2. \A i \in 0..n : i \in T
    BY <1>3, <1>4, <2>1, UpTo
  <2>3. n \in 0..n
    BY <2>1
  <2> QED BY <2>2, <2>3 DEF T
<1>6. k[n + 1] = More(k[n], t[n + 1], kinds)
  <2>1. n + 1 \in 0..n + 1 /\ n + 1 # 0 /\ (n + 1) - 1 = n
    BY <1>0
  <2> QED BY <1>2, <2>1 DEF KeptSoFar
<1> QED BY <1>0, <1>1, <1>2, <1>5, <1>6 DEF t

\* Only frames of these kinds are kept.
LEMMA OfKindsType ==
    ASSUME NEW S, NEW kinds
    PROVE  \A s \in Seq(S) : OfKinds(s, kinds) \in Seq({f \in S : f.kind \in kinds})
<1> DEFINE F == {f \in S : f.kind \in kinds}
           T == {s \in Seq(S) : OfKinds(s, kinds) \in Seq(F)}
<1>1. <<>> \in T
  BY OfKindsEmpty, EmptySeq
<1>2. ASSUME NEW s \in Seq(S), NEW x \in S, s \in T PROVE Append(s, x) \in T
  <2>1. Append(s, x) \in Seq(S) /\ OfKinds(s, kinds) \in Seq(F)
    BY <1>2, AppendProperties
  <2>2. More(OfKinds(s, kinds), x, kinds) \in Seq(F)
    <3>1. x.kind \in kinds => x \in F
      OBVIOUS
    <3> HIDE DEF F
    <3> QED BY <2>1, <3>1, AppendProperties DEF More
  <2> QED BY <2>1, <2>2, OfKindsAppend
<1> HIDE DEF T
<1>3. \A s \in Seq(S) : s \in T
  BY <1>1, <1>2, SequencesGrow
<1> QED BY <1>3 DEF T

\* The frames kept of two sequences, one after the other.
LEMMA OfKindsConcat ==
    ASSUME NEW S, NEW s \in Seq(S), NEW kinds
    PROVE  \A t \in Seq(S) : OfKinds(s \o t, kinds) = OfKinds(s, kinds) \o OfKinds(t, kinds)
<1> DEFINE T == {t \in Seq(S) : OfKinds(s \o t, kinds) = OfKinds(s, kinds) \o OfKinds(t, kinds)}
           F == {f \in S : f.kind \in kinds}
<1>0. \A t \in Seq(S) : OfKinds(t, kinds) \in Seq(F) /\ OfKinds(t, kinds) \in Seq(S)
  <2>1. \A t \in Seq(S) : OfKinds(t, kinds) \in Seq(F)
    BY OfKindsType
  <2>2. F \subseteq S
    OBVIOUS
  <2> HIDE DEF F
  <2> QED BY <2>1, <2>2, SeqMonotonic
<1>1. <<>> \in T
  <2>1. OfKinds(s, kinds) \o <<>> = OfKinds(s, kinds) /\ s \o <<>> = s
    BY <1>0, ConcatEmptySeq
  <2> QED BY <2>1, OfKindsEmpty, EmptySeq
<1>2. ASSUME NEW t \in Seq(S), NEW x \in S, t \in T PROVE Append(t, x) \in T
  <2> DEFINE a == OfKinds(s, kinds)
             b == OfKinds(t, kinds)
  <2>0. a \in Seq(S) /\ b \in Seq(S) /\ <<x>> \in Seq(S) /\ Append(t, x) \in Seq(S) /\ s \o t \in Seq(S)
    <3>1. a \in Seq(S) /\ b \in Seq(S)
      BY <1>0
    <3>2. <<x>> \in Seq(S) /\ Append(t, x) \in Seq(S)
      BY AppendProperties
    <3>3. s \o t \in Seq(S)
      BY ConcatProperties
    <3> QED BY <3>1, <3>2, <3>3
  <2>1. OfKinds(s \o t, kinds) = a \o b
    BY <1>2
  <2> HIDE DEF a, b
  <2>2. s \o Append(t, x) = Append(s \o t, x)
    BY <2>0, AppendIsConcat, ConcatAssociative
  <2>3. OfKinds(s \o Append(t, x), kinds) = More(a \o b, x, kinds)
    BY <2>0, <2>1, <2>2, OfKindsAppend
  <2>4. OfKinds(Append(t, x), kinds) = More(b, x, kinds)
    BY OfKindsAppend DEF b
  <2>5. Append(a \o b, x) = a \o Append(b, x)
    <3>1. a \in Seq(S) /\ b \in Seq(S) /\ x \in S
      BY <2>0
    <3>2. \A p, q \in Seq(S) : p \o Append(q, x) = Append(p \o q, x)
      BY AppendLast
    <3> QED BY <3>1, <3>2
  <2>6. More(a \o b, x, kinds) = a \o More(b, x, kinds)
    BY <2>5 DEF More
  <2> QED BY <2>0, <2>3, <2>4, <2>6 DEF a
<1> HIDE DEF T
<1>3. \A t \in Seq(S) : t \in T
  BY <1>1, <1>2, SequencesGrow
<1> QED BY <1>3 DEF T

\* Nothing is kept of other kinds, and all of these.
LEMMA OfKindsAllOrNone ==
    ASSUME NEW S, NEW kinds
    PROVE  /\ (\A f \in S : f.kind \in kinds) => \A s \in Seq(S) : OfKinds(s, kinds) = s
           /\ (\A f \in S : f.kind \notin kinds) => \A s \in Seq(S) : OfKinds(s, kinds) = <<>>
<1>1. ASSUME \A f \in S : f.kind \in kinds PROVE \A s \in Seq(S) : OfKinds(s, kinds) = s
  <2> DEFINE T == {s \in Seq(S) : OfKinds(s, kinds) = s}
  <2>1. <<>> \in T
    BY OfKindsEmpty, EmptySeq
  <2>2. ASSUME NEW s \in Seq(S), NEW x \in S, s \in T PROVE Append(s, x) \in T
    BY <1>1, <2>2, OfKindsAppend, AppendProperties DEF More
  <2> HIDE DEF T
  <2>3. \A s \in Seq(S) : s \in T
    BY <2>1, <2>2, SequencesGrow
  <2> QED BY <2>3 DEF T
<1>2. ASSUME \A f \in S : f.kind \notin kinds PROVE \A s \in Seq(S) : OfKinds(s, kinds) = <<>>
  <2> DEFINE T == {s \in Seq(S) : OfKinds(s, kinds) = <<>>}
  <2>1. <<>> \in T
    BY OfKindsEmpty, EmptySeq
  <2>2. ASSUME NEW s \in Seq(S), NEW x \in S, s \in T PROVE Append(s, x) \in T
    BY <1>2, <2>2, OfKindsAppend, AppendProperties DEF More
  <2> HIDE DEF T
  <2>3. \A s \in Seq(S) : s \in T
    BY <2>1, <2>2, SequencesGrow
  <2> QED BY <2>3 DEF T
<1> QED BY <1>1, <1>2

-----------------------------------------------------------------------------
(* Types. *)

FrameSet == [kind : Notifications \cup Others, zone : Zones, on : BOOLEAN, serial : Nat]
OtherFrames == {f \in FrameSet : f.kind \in Others}
NewsFrames == {f \in FrameSet : f.kind \in Notifications}
BatchFrames == {f \in FrameSet : f.kind # "answer"}
Requests == [kind : {"read", "set"}, zone : Zones, on : BOOLEAN]

Calling == Reads \cup {"set"}
Callers ==
    [call : Calling \cup {"none", "save"}, phase : {"rest", "waiting", "sent"}, zone : 0..NumZones,
     on : BOOLEAN, power : {"missing", "on", "off"}, answered : BOOLEAN, found : BOOLEAN,
     copy : SUBSET Zones]

StreamTypes ==
    /\ wire \in Seq(FrameSet) /\ inbox \in Seq(Requests)
    /\ pending \in Seq(OtherFrames) /\ updates \in Seq(NewsFrames)
    /\ batch \in [Connections -> Seq(BatchFrames)]
    /\ conn \in Connections /\ conn <= count.events
    /\ issued \in [Connections -> Nat] /\ told \in [Connections -> Nat]
    /\ count \in [sets : 0..MaxSets, events : 0..MaxEvents]

CallTypes ==
    /\ hw \subseteq Zones /\ view \subseteq Zones
    /\ caller \in Callers /\ (caller.call \in Calling <=> caller.zone \in Zones)

\* What a read finds: the frames kept, and the notifications set aside.
LEMMA Reading ==
    ASSUME StreamTypes
    PROVE  ReadFrames \in Seq(OtherFrames) /\ ReadUpdates \in Seq(NewsFrames)
<1>1. OfKinds(wire, Others) \in Seq(OtherFrames) /\ OfKinds(wire, Notifications) \in Seq(NewsFrames)
  BY OfKindsType DEF StreamTypes, OtherFrames, NewsFrames
<1> QED BY <1>1, ConcatProperties DEF StreamTypes, ReadFrames, ReadUpdates

\* What the listener collects besides: no notification, and no answer without header.
LEMMA Collecting ==
    ASSUME StreamTypes
    PROVE  /\ Collected \in Seq({f \in OtherFrames : f.kind # "answer"})
           /\ Retained \in Seq(OtherFrames)
           /\ ReadUpdates \o Collected \in Seq(BatchFrames)
<1> DEFINE C == {f \in OtherFrames : f.kind # "answer"}
           D == {f \in OtherFrames : f.kind \in {"info", "echo"}}
<1>1. ReadFrames \in Seq(OtherFrames) /\ ReadUpdates \in Seq(NewsFrames)
  BY Reading
<1>2. OfKinds(ReadFrames, {"info", "echo"}) \in Seq(D)
  BY <1>1, OfKindsType
<1>3. D \subseteq C /\ C \subseteq BatchFrames /\ NewsFrames \subseteq BatchFrames
  BY DEF OtherFrames, NewsFrames, BatchFrames, Notifications
<1> HIDE DEF C, D
<1>4. Collected \in Seq(C)
  <2>1. OfKinds(ReadFrames, {"info", "echo"}) \in Seq(C)
    BY <1>2, <1>3, SeqMonotonic
  <2> QED BY <2>1, EmptySeq DEF Collected
<1>5. Retained \in Seq(OtherFrames)
  BY <1>1, EmptySeq DEF Retained
<1>6. Collected \in Seq(BatchFrames) /\ ReadUpdates \in Seq(BatchFrames)
  BY <1>1, <1>3, <1>4, SeqMonotonic
<1> QED BY <1>4, <1>5, <1>6, ConcatProperties DEF C

\* Taking out an element leaves a sequence.
LEMMA TakenOut ==
    ASSUME NEW S, NEW s \in Seq(S), NEW i \in 1..Len(s)
    PROVE  RemoveAt(s, i) \in Seq(S)
<1>0. Len(s) \in Nat
  BY LenProperties
<1>1. SubSeq(s, 1, i - 1) \in Seq(S) /\ SubSeq(s, i + 1, Len(s)) \in Seq(S)
  <2>1. \A j \in 1..(i - 1) : s[j] \in S
    BY <1>0, ElementOfSeq
  <2>2. \A j \in (i + 1)..Len(s) : s[j] \in S
    BY <1>0, ElementOfSeq
  <2> QED BY <1>0, <2>1, <2>2, SubSeqProperties
<1> QED BY <1>1, ConcatProperties DEF RemoveAt

\* The first frame that matches is one of the frames.
LEMMA FirstMatches ==
    ASSUME NEW fs \in Seq(OtherFrames), NEW z, HasMatch(fs, z)
    PROVE  FirstMatch(fs, z) \in 1..Len(fs)
<1>0. Len(fs) \in Nat
  BY LenProperties
<1> DEFINE T == {i \in 1..Len(fs) : Matches(fs[i], z)}
<1>1. T \subseteq Nat /\ T # {}
  BY <1>0 DEF HasMatch
<1> HIDE DEF T
<1>2. PICK i \in T : \A j \in T : i <= j
  BY <1>1, Smallest
<1>3. ASSUME NEW j \in 1..(i - 1) PROVE ~Matches(fs[j], z)
  <2>1. j \in 1..Len(fs) /\ i \in Nat /\ ~(i <= j)
    BY <1>0, <1>2 DEF T
  <2> QED BY <1>2, <2>1 DEF T
<1>4. \E k \in 1..Len(fs) :
        Matches(fs[k], z) /\ \A j \in 1..(k - 1) : ~Matches(fs[j], z)
  BY <1>2, <1>3 DEF T
<1> QED BY <1>4 DEF FirstMatch

\* A frame put on the wire, and a request that was served or lost.
LEMMA TypedFrame ==
    ASSUME NEW kind \in Notifications \cup Others, NEW z \in Zones, NEW on \in BOOLEAN, NEW n \in Nat
    PROVE  Frame(kind, z, on, n) \in FrameSet
  BY DEF Frame, FrameSet

LEMMA TypedNotices ==
    ASSUME StreamTypes, NEW z \in Zones, NEW on \in BOOLEAN, NEW kinds \in SUBSET {"event", "hint", "echo"},
           Notices(z, on, kinds)
    PROVE  wire' \in Seq(FrameSet) /\ issued' \in [Connections -> Nat]
<1>1. CASE \/ wire' = Append(wire, Frame("info", z, on, 0)) /\ UNCHANGED issued
           \/ UNCHANGED <<wire, issued>>
  <2>1. Frame("info", z, on, 0) \in FrameSet
    BY TypedFrame DEF Others
  <2>2. wire \in Seq(FrameSet) /\ issued \in [Connections -> Nat]
    BY DEF StreamTypes
  <2>3. Append(wire, Frame("info", z, on, 0)) \in Seq(FrameSet)
    BY <2>1, <2>2, AppendProperties
  <2> QED BY <1>1, <2>2, <2>3
<1>2. ASSUME NEW kind \in kinds,
             issued' = [issued EXCEPT ![conn] = IF kind = "echo" THEN @ ELSE @ + 1],
             wire' = Append(wire, Frame(kind, z, on, IF kind = "echo" THEN 0 ELSE issued'[conn]))
      PROVE  wire' \in Seq(FrameSet) /\ issued' \in [Connections -> Nat]
  <2>1. issued' \in [Connections -> Nat] /\ issued'[conn] \in Nat
    BY <1>2 DEF StreamTypes
  <2>2. Frame(kind, z, on, IF kind = "echo" THEN 0 ELSE issued'[conn]) \in FrameSet
    BY <2>1, TypedFrame DEF Others, Notifications
  <2> QED BY <1>2, <2>1, <2>2, AppendProperties DEF StreamTypes
<1> QED BY <1>1, <1>2 DEF Notices

LEMMA TypedEvent ==
    ASSUME StreamTypes
    PROVE  Event => /\ count' \in [sets : 0..MaxSets, events : 0..MaxEvents]
                    /\ count'.events = count.events + 1
<1>1. count \in [sets : 0..MaxSets, events : 0..MaxEvents] /\ MaxEvents \in Nat
  BY BoundsAssumption DEF StreamTypes
<1> QED BY <1>1 DEF Event

LEMMA TypedRequest ==
    ASSUME StreamTypes, inbox # <<>>
    PROVE  Head(inbox) \in Requests /\ Tail(inbox) \in Seq(Requests)
  BY HeadTailProperties DEF StreamTypes

LEMMA Numbers ==
    /\ NumZones \in Nat \ {0} /\ MaxSets \in Nat /\ MaxEvents \in Nat
    /\ Connections \subseteq Nat /\ Zones \subseteq 0..NumZones /\ 0 \notin Zones
  BY ZonesAssumption, BoundsAssumption DEF Connections, Zones

LEMMA StreamTypesNext ==
    ASSUME StreamTypes, CallTypes, [Next]_vars
    PROVE  StreamTypes'
<1>0. conn \in Nat /\ count.events \in Nat
  BY Numbers DEF StreamTypes
<1>E. ASSUME Event, UNCHANGED conn
      PROVE  /\ count' \in [sets : 0..MaxSets, events : 0..MaxEvents]
             /\ conn' \in Connections /\ conn' <= count'.events
  <2>1. count' \in [sets : 0..MaxSets, events : 0..MaxEvents] /\ count'.events = count.events + 1
    BY <1>E, TypedEvent
  <2>2. conn \in Connections /\ conn <= count.events
    BY DEF StreamTypes
  <2> QED BY <1>0, <1>E, <2>1, <2>2
<1>1. ASSUME UNCHANGED <<wire, inbox, pending, updates, batch, conn, issued, told, count>>
      PROVE  StreamTypes'
  BY <1>1 DEF StreamTypes
<1>2. CASE Enter \/ BeginPoll \/ EndPoll \/ UNCHANGED vars
  BY <1>1, <1>2 DEF Enter, BeginPoll, EndPoll, vars, stream, connector, ledger
<1>3. ASSUME NEW z \in Zones, KeypadChange(z) PROVE StreamTypes'
  <2>1. (z \notin hw) \in BOOLEAN
    OBVIOUS
  <2>2. wire' \in Seq(FrameSet) /\ issued' \in [Connections -> Nat]
    BY <1>3, <2>1, TypedNotices DEF KeypadChange
  <2> QED BY <1>E, <1>3, <2>2 DEF KeypadChange, connector, StreamTypes
<1>4. CASE ServeRead
  <2>1. Head(inbox).zone \in Zones /\ Tail(inbox) \in Seq(Requests)
    BY <1>4, TypedRequest DEF ServeRead, Asked, Requests
  <2>2. (Head(inbox).zone \in hw) \in BOOLEAN /\ (IF hardware = "dummy" THEN "answer" ELSE "info") \in Others
    BY DEF Others
  <2>3. Answer(Head(inbox).zone) \in FrameSet
    BY <2>1, <2>2, TypedFrame DEF Answer
  <2>4. wire' \in Seq(FrameSet)
    BY <1>4, <2>3, AppendProperties DEF ServeRead, StreamTypes
  <2> QED BY <1>4, <2>1, <2>4 DEF ServeRead, connector, ledger, StreamTypes
<1>5. CASE ServeSet
  <2>1. Head(inbox).zone \in Zones /\ Head(inbox).on \in BOOLEAN /\ Tail(inbox) \in Seq(Requests)
    BY <1>5, TypedRequest DEF ServeSet, Asked, Requests
  <2>2. wire' \in Seq(FrameSet) /\ issued' \in [Connections -> Nat]
    <3>1. CASE UNCHANGED <<wire, issued>>
      BY <3>1 DEF StreamTypes
    <3>2. CASE Notices(Head(inbox).zone, Head(inbox).on, {"event", "echo"})
      BY <2>1, <3>2, TypedNotices
    <3> QED BY <1>5, <3>1, <3>2 DEF ServeSet
  <2> QED BY <1>5, <2>1, <2>2 DEF ServeSet, connector, StreamTypes
<1>6. CASE Ignored
  BY <1>E, <1>6, TypedRequest DEF Ignored, connector, ledger, StreamTypes
<1>7. CASE Send
  <2>1. caller.zone \in Zones /\ caller.on \in BOOLEAN
    BY <1>7 DEF Send, CallTypes, Callers, Calling, Reads, Basic
  <2> DEFINE r == [kind |-> IF caller.call = "set" THEN "set" ELSE "read", zone |-> caller.zone,
                   on |-> caller.on]
  <2>2. r \in Requests
    BY <2>1 DEF Requests
  <2>3. inbox' = Append(inbox, r)
    BY <1>7 DEF Send
  <2> HIDE DEF r
  <2>4. inbox' \in Seq(Requests)
    BY <2>2, <2>3, AppendProperties DEF StreamTypes
  <2> QED BY <1>7, <2>4 DEF Send, connector, ledger, StreamTypes
<1>8. CASE Receive
  <2>1. pending' \in Seq(OtherFrames)
    BY <1>8, Reading, FirstMatches, TakenOut DEF Receive
  <2> QED BY <1>8, <2>1, Reading, EmptySeq DEF Receive, ledger, StreamTypes
<1>9. CASE GiveUp
  <2>1. /\ count' \in [sets : 0..MaxSets, events : 0..MaxEvents]
        /\ conn' \in Connections /\ conn' <= count'.events
    BY <1>E, <1>9 DEF GiveUp, ledger, StreamTypes
  <2> QED BY <1>9, <2>1, Reading, EmptySeq DEF GiveUp, ledger, StreamTypes
<1>10. CASE ReceiveAny
  <2>1. pending' \in Seq(OtherFrames)
    BY <1>10, Reading, EmptySeq, HeadTailProperties DEF ReceiveAny
  <2> QED BY <1>10, <2>1, Reading, EmptySeq DEF ReceiveAny, ledger, StreamTypes
<1>11. CASE Collect
  <2>1. batch' = [batch EXCEPT ![conn] = ReadUpdates \o Collected] /\ updates' = <<>> /\ wire' = <<>>
        /\ pending' = Retained
    BY <1>11 DEF Collect, Taken
  <2>2. batch' \in [Connections -> Seq(BatchFrames)]
    BY <2>1, Collecting DEF StreamTypes
  <2> QED BY <1>11, <2>1, <2>2, Collecting, EmptySeq DEF Collect, ledger, StreamTypes
<1>15. ASSUME NEW c \in Connections, Abandon(c) PROVE StreamTypes'
  <2>1. batch' \in [Connections -> Seq(BatchFrames)]
    BY <1>15, EmptySeq DEF Abandon, StreamTypes
  <2> QED BY <1>15, <2>1 DEF Abandon, stream, ledger, StreamTypes
<1>12. ASSUME NEW c \in Connections, Deliver(c) PROVE StreamTypes'
  <2>1. Tail(batch[c]) \in Seq(BatchFrames)
    BY <1>12, HeadTailProperties DEF Deliver, StreamTypes
  <2>2. batch' \in [Connections -> Seq(BatchFrames)]
    BY <1>12, <2>1 DEF Deliver, StreamTypes
  <2>3. told' \in [Connections -> Nat]
    BY <1>12 DEF Deliver, StreamTypes
  <2> QED BY <1>12, <2>2, <2>3 DEF Deliver, stream, StreamTypes
<1>13. CASE ConnectionLost
  <2>1. conn' \in Connections /\ conn' <= count'.events
    <3>1. count' \in [sets : 0..MaxSets, events : 0..MaxEvents] /\ count'.events = count.events + 1
          /\ conn' = conn + 1
      BY <1>13, TypedEvent DEF ConnectionLost
    <3>2. conn <= count.events /\ count'.events \in 0..MaxEvents /\ MaxEvents \in Nat
      BY <3>1, Numbers DEF StreamTypes
    <3> QED BY <1>0, <3>1, <3>2 DEF Connections
  <2> QED BY <1>13, <2>1, TypedEvent, EmptySeq DEF ConnectionLost, StreamTypes
<1>14. ASSUME NEW z \in Zones, NEW on \in BOOLEAN, SetPower(z, on) PROVE StreamTypes'
  <2>1. count' \in [sets : 0..MaxSets, events : 0..MaxEvents] /\ count'.events = count.events
    <3>1. count \in [sets : 0..MaxSets, events : 0..MaxEvents] /\ MaxSets \in Nat
      BY Numbers DEF StreamTypes
    <3> QED BY <1>14, <3>1 DEF SetPower
  <2> QED BY <1>14, <2>1 DEF SetPower, stream, connector, ledger, StreamTypes
<1> QED BY <1>2, <1>3, <1>4, <1>5, <1>6, <1>7, <1>8, <1>9, <1>10, <1>11, <1>12, <1>13, <1>14, <1>15
    DEF Next, Hardware, Calls, World, Delivery

LEMMA TypedCalls ==
    ASSUME CallTypes
    PROVE  /\ Nowhere \in Callers /\ Nowhere.call \notin Calling /\ Nowhere.zone \notin Zones
           /\ \A copy \in SUBSET Zones, found \in BOOLEAN : caller.zone \in Zones =>
                /\ NextZone(copy, found) \in Callers
                /\ NextZone(copy, found).call \in Calling <=> NextZone(copy, found).zone \in Zones
           /\ \A on : caller.zone \in Zones => Saved(on) \in SUBSET Zones
<1>0. NumZones \in Nat \ {0} /\ Zones = 1..NumZones
  BY Numbers DEF Zones
<1>1. Nowhere \in Callers /\ Nowhere.call \notin Calling /\ Nowhere.zone \notin Zones
  BY <1>0 DEF Nowhere, Callers, Calling, Reads, Basic
<1>2. ASSUME NEW copy \in SUBSET Zones, NEW found \in BOOLEAN, caller.zone \in Zones
      PROVE  /\ NextZone(copy, found) \in Callers
             /\ NextZone(copy, found).call \in Calling <=> NextZone(copy, found).zone \in Zones
  <2> DEFINE over == caller.zone = NumZones \/ ~found
             call == IF over THEN "save" ELSE "extended"
             zone == IF over THEN 0 ELSE caller.zone + 1
  <2>1. /\ call \in Calling \cup {"save"} /\ zone \in 0..NumZones
        /\ call \in Calling <=> zone \in Zones
    BY <1>0, <1>2 DEF Calling, Reads, Basic
  <2>2. NextZone(copy, found) = [Nowhere EXCEPT !.call = call, !.zone = zone, !.found = found, !.copy = copy]
    BY DEF NextZone
  <2> HIDE DEF over, call, zone
  <2> QED BY <1>1, <1>2, <2>1, <2>2 DEF Callers
<1>3. ASSUME NEW on, caller.zone \in Zones PROVE Saved(on) \in SUBSET Zones
  BY <1>3 DEF Saved, CallTypes, Callers
<1> QED BY <1>1, <1>2, <1>3

\* A read that ends passes on to the next one.
LEMMA TypedRead ==
    ASSUME CallTypes, caller.call \in Reads, NEW got \in BOOLEAN, NEW on
    PROVE  LET c == AfterRead(got, on)
           IN  c \in Callers /\ (c.call \in Calling <=> c.zone \in Zones)
<1> DEFINE c == [caller EXCEPT !.phase = "rest", !.answered = @ \/ got]
           seen == IF got THEN IF on THEN "on" ELSE "off" ELSE c.power
           copy == IF c.answered THEN Saved(caller.power = "on") ELSE caller.copy
           found == c.found \/ c.answered
<1>0. caller \in Callers /\ caller.zone \in Zones /\ caller.call \in Calling
  BY DEF CallTypes, Calling
<1>1. c \in Callers /\ c.zone = caller.zone /\ c.call = caller.call
  <2>1. (caller.answered \/ got) \in BOOLEAN
    BY <1>0 DEF Callers
  <2> QED BY <1>0, <2>1 DEF Callers
<1>2. seen \in {"missing", "on", "off"}
  BY <1>1 DEF Callers
<1>3. copy \in SUBSET Zones /\ Saved(on) \in SUBSET Zones
  BY <1>0, TypedCalls DEF Callers
<1>9. found \in BOOLEAN
  BY <1>1 DEF Callers
<1>4. AfterRead(got, on) =
        CASE caller.call = "extended" /\ got -> NextZone(Saved(on), TRUE)
          [] caller.call = "extended" /\ ~got -> [c EXCEPT !.call = "power"]
          [] caller.call = "power" -> [c EXCEPT !.call = "source", !.power = seen]
          [] caller.call = "source" -> [c EXCEPT !.call = "volume"]
          [] caller.call = "volume" -> NextZone(copy, found)
  BY <1>0 DEF AfterRead, Callers
<1> HIDE DEF c, seen, copy, found
<1>5. CASE caller.call = "extended"
  <2>1. CASE got
    BY <1>0, <1>3, <1>4, <1>5, <2>1, TypedCalls
  <2>2. CASE ~got
    BY <1>0, <1>1, <1>4, <1>5, <2>2 DEF Callers, Calling, Reads, Basic
  <2> QED BY <2>1, <2>2
<1>6. CASE caller.call = "power"
  <2>1. AfterRead(got, on) = [c EXCEPT !.call = "source", !.power = seen]
    BY <1>4, <1>6
  <2> QED BY <1>0, <1>1, <1>2, <2>1 DEF Callers, Calling, Reads, Basic
<1>7. CASE caller.call = "source"
  <2>1. AfterRead(got, on) = [c EXCEPT !.call = "volume"]
    BY <1>4, <1>7
  <2> QED BY <1>0, <1>1, <2>1 DEF Callers, Calling, Reads, Basic
<1>8. CASE caller.call = "volume"
  <2>1. AfterRead(got, on) = NextZone(copy, found)
    BY <1>4, <1>8
  <2> QED BY <1>0, <1>3, <1>9, <2>1, TypedCalls
<1> QED BY <1>5, <1>6, <1>7, <1>8 DEF Reads, Basic

LEMMA CallTypesNext ==
    ASSUME CallTypes, StreamTypes, [Next]_vars
    PROVE  CallTypes'
<1>0. hw \subseteq Zones /\ view \subseteq Zones /\ caller \in Callers
  BY DEF CallTypes
<1>1. ASSUME hw' \subseteq Zones, view' \subseteq Zones, UNCHANGED caller PROVE CallTypes'
  BY <1>1 DEF CallTypes
<1>2. ASSUME hw' \subseteq Zones, view' \subseteq Zones, caller' \in Callers,
             caller'.call \in Calling <=> caller'.zone \in Zones
      PROVE  CallTypes'
  BY <1>2 DEF CallTypes
<1>3. CASE ServeRead \/ Ignored \/ Collect \/ UNCHANGED vars
  BY <1>0, <1>1, <1>3 DEF ServeRead, Ignored, Collect, vars
<1>4. ASSUME NEW z \in Zones, KeypadChange(z) PROVE CallTypes'
  BY <1>0, <1>1, <1>4 DEF KeypadChange, Switched
<1>5. CASE ServeSet
  <2>1. Head(inbox).zone \in Zones
    BY <1>5, TypedRequest DEF ServeSet, Asked, Requests
  <2> QED BY <1>0, <1>1, <1>5, <2>1 DEF ServeSet, Switched
<1>6. CASE Enter
  <2>1. caller' \in Callers /\ caller'.call = caller.call /\ caller'.zone = caller.zone
    BY <1>0, <1>6 DEF Enter, Callers
  <2> QED BY <1>0, <1>2, <1>6, <2>1 DEF Enter, CallTypes
<1>7. CASE Send
  <2>1. caller' \in Callers /\ caller'.call = caller.call /\ caller'.zone = caller.zone
    BY <1>0, <1>7 DEF Send, Callers
  <2> QED BY <1>0, <1>2, <1>7, <2>1 DEF Send, CallTypes
<1>8. CASE Receive
  <2> DEFINE on == ReadFrames[FirstMatch(ReadFrames, caller.zone)].on
  <2>1. caller' = AfterRead(TRUE, on) /\ caller.call \in Reads
    BY <1>8 DEF Receive
  <2> HIDE DEF on
  <2>2. caller' \in Callers /\ (caller'.call \in Calling <=> caller'.zone \in Zones)
    BY <2>1, TypedRead
  <2> QED BY <1>0, <1>2, <1>8, <2>2 DEF Receive
<1>9. CASE GiveUp
  <2> DEFINE no == FALSE
  <2>1. caller' = AfterRead(no, no) /\ caller.call \in Reads /\ no \in BOOLEAN
    BY <1>9 DEF GiveUp
  <2> HIDE DEF no
  <2>2. caller' \in Callers /\ (caller'.call \in Calling <=> caller'.zone \in Zones)
    BY <2>1, TypedRead
  <2> QED BY <1>0, <1>2, <1>9, <2>2 DEF GiveUp
<1>10. CASE ReceiveAny
  <2>1. caller.zone \in Zones
    BY <1>10 DEF ReceiveAny, CallTypes, Calling
  <2> QED BY <1>0, <1>2, <1>10, <2>1, TypedCalls DEF ReceiveAny
<1>11. CASE BeginPoll
  <2>1. 1 \in Zones
    BY Numbers DEF Zones
  <2>2. caller' \in Callers /\ caller'.call = "extended" /\ caller'.zone = 1
    BY <1>0, <1>11, <2>1, TypedCalls, Numbers DEF BeginPoll, Callers, Calling, Reads
  <2> QED BY <1>0, <1>2, <1>11, <2>1, <2>2 DEF BeginPoll, Calling, Reads
<1>12. CASE EndPoll
  BY <1>0, <1>2, <1>12, TypedCalls DEF EndPoll, Callers
<1>13. ASSUME NEW z \in Zones, NEW on \in BOOLEAN, SetPower(z, on) PROVE CallTypes'
  <2>1. caller' \in Callers /\ caller'.call = "set" /\ caller'.zone = z
    BY <1>13, TypedCalls, Numbers DEF SetPower, Callers, Calling
  <2> QED BY <1>0, <1>2, <1>13, <2>1 DEF SetPower, Calling
<1>14. ASSUME NEW c \in Connections, Deliver(c) PROVE CallTypes'
  <2>1. Head(batch[c]).zone \in Zones
    <3>1. batch[c] \in Seq(BatchFrames) /\ batch[c] # <<>>
      BY <1>14 DEF Deliver, StreamTypes
    <3>2. Head(batch[c]) \in BatchFrames
      BY <3>1, HeadTailProperties
    <3> QED BY <3>2 DEF BatchFrames, FrameSet
  <2> QED BY <1>0, <1>1, <1>14, <2>1 DEF Deliver
<1>16. ASSUME NEW c \in Connections, Abandon(c) PROVE CallTypes'
  BY <1>0, <1>1, <1>16 DEF Abandon
<1>15. CASE ConnectionLost
  <2>1. caller.call \in Reads => /\ caller.zone \in Zones /\ caller.copy \in SUBSET Zones
                                 /\ caller.found \in BOOLEAN
    BY DEF CallTypes, Calling, Callers
  <2> QED BY <1>0, <1>1, <1>2, <1>15, <2>1, TypedCalls DEF ConnectionLost
<1> QED BY <1>3, <1>4, <1>5, <1>6, <1>7, <1>8, <1>9, <1>10, <1>11, <1>12, <1>13, <1>14, <1>15, <1>16
    DEF Next, Hardware, Calls, World, Delivery

LEMMA TypesInit == Init => StreamTypes /\ CallTypes
<1> SUFFICES ASSUME Init PROVE StreamTypes /\ CallTypes
  OBVIOUS
<1>1. 0 \in Connections
  BY Numbers DEF Connections
<1>2. count \in [sets : 0..MaxSets, events : 0..MaxEvents] /\ count.events = 0
  BY Numbers DEF Init
<1>3. StreamTypes
  BY <1>1, <1>2, EmptySeq DEF Init, StreamTypes
<1>4. CallTypes
  <2>1. Nowhere \in Callers /\ Nowhere.call \notin Calling /\ Nowhere.zone \notin Zones
    BY Numbers DEF Nowhere, Callers, Calling, Reads, Basic
  <2> QED BY <2>1 DEF Init, CallTypes
<1> QED BY <1>3, <1>4

\* Every variable has its type.
THEOREM TypeCorrect == Spec => []TypeOK
<1>1. StreamTypes /\ CallTypes => TypeOK
  <2> SUFFICES ASSUME StreamTypes, CallTypes PROVE TypeOK
    OBVIOUS
  <2> DEFINE F == [kind : {"answer", "info", "echo", "event", "hint"}, zone : Zones, on : BOOLEAN,
                   serial : Nat]
  <2>1. F = FrameSet /\ OtherFrames \subseteq {f \in F : ~Direct(f)}
        /\ NewsFrames \subseteq {f \in F : Direct(f)}
        /\ BatchFrames \subseteq {f \in F : f.kind # "answer"}
    BY DEF FrameSet, OtherFrames, NewsFrames, BatchFrames, Direct, Notifications, Others
  <2> HIDE DEF F
  <2>2. /\ wire \in Seq(F) /\ pending \in Seq({f \in F : ~Direct(f)})
        /\ updates \in Seq({f \in F : Direct(f)})
    BY <2>1, SeqMonotonic DEF StreamTypes
  <2>3. batch \in [Connections -> Seq({f \in F : f.kind # "answer"})]
    <3>1. \A s \in Seq(BatchFrames) : s \in Seq({f \in F : f.kind # "answer"})
      BY <2>1, SeqMonotonic
    <3> QED BY <3>1 DEF StreamTypes
  <2>4. inbox \in Seq([kind : {"read", "set"}, zone : Zones, on : BOOLEAN])
    BY DEF StreamTypes, Requests
  <2>5. /\ caller.call \in Reads \cup {"none", "set", "save"}
        /\ caller.call \in Reads \cup {"set"} <=> caller.zone \in Zones
        /\ caller.phase \in {"rest", "waiting", "sent"}
        /\ caller.found \in BOOLEAN
        /\ caller.copy \subseteq Zones /\ caller.power \in {"missing", "on", "off"}
    BY DEF CallTypes, Callers, Calling
  <2>6. /\ hw \subseteq Zones /\ view \subseteq Zones /\ conn \in Connections
        /\ issued \in [Connections -> Nat] /\ told \in [Connections -> Nat]
    BY DEF CallTypes, StreamTypes
  <2> QED BY <2>2, <2>3, <2>4, <2>5, <2>6 DEF TypeOK, F
<1> QED BY <1>1, TypesInit, StreamTypesNext, CallTypesNext, PTL DEF Spec

-----------------------------------------------------------------------------
(* Notifications on their way. *)

News(s) == OfKinds(s, Notifications)
Way(b, present, u, w) == IF present THEN News(b) \o (u \o News(w)) ELSE News(b)

LEMMA NewsTypes ==
    /\ \A s \in Seq(FrameSet) : News(s) \in Seq(NewsFrames)
    /\ \A s \in Seq(BatchFrames) : News(s) \in Seq(NewsFrames) /\ s \in Seq(FrameSet)
    /\ \A s \in Seq(NewsFrames) : News(s) = s /\ s \in Seq(FrameSet)
    /\ \A s \in Seq({f \in OtherFrames : f.kind # "answer"}) : News(s) = <<>> /\ s \in Seq(BatchFrames)
    /\ News(<<>>) = <<>>
<1>1. \A s \in Seq(FrameSet) : News(s) \in Seq(NewsFrames)
  BY OfKindsType DEF News, NewsFrames
<1>2. \A s \in Seq(BatchFrames) : s \in Seq(FrameSet)
  <2>1. BatchFrames \subseteq FrameSet
    BY DEF BatchFrames
  <2> QED BY <2>1, SeqMonotonic
<1>3. \A s \in Seq(NewsFrames) : News(s) = s /\ s \in Seq(FrameSet)
  <2>1. NewsFrames \subseteq FrameSet /\ \A f \in NewsFrames : f.kind \in Notifications
    BY DEF NewsFrames
  <2> QED BY <2>1, SeqMonotonic, OfKindsAllOrNone DEF News
<1>4. \A s \in Seq({f \in OtherFrames : f.kind # "answer"}) : News(s) = <<>> /\ s \in Seq(BatchFrames)
  <2> DEFINE C == {f \in OtherFrames : f.kind # "answer"}
  <2>1. C \subseteq BatchFrames /\ \A f \in C : f.kind \notin Notifications
    BY DEF OtherFrames, BatchFrames, Notifications, Others
  <2> HIDE DEF C
  <2>2. \A s \in Seq(C) : News(s) = <<>> /\ s \in Seq(BatchFrames)
    BY <2>1, SeqMonotonic, OfKindsAllOrNone DEF News
  <2> QED BY <2>2 DEF C
<1> QED BY <1>1, <1>2, <1>3, <1>4, OfKindsEmpty DEF News

LEMMA NewsConcat ==
    ASSUME NEW s \in Seq(FrameSet), NEW t \in Seq(FrameSet)
    PROVE  News(s \o t) = News(s) \o News(t)
<1>1. \A r \in Seq(FrameSet) : OfKinds(s \o r, Notifications) = OfKinds(s, Notifications) \o OfKinds(r, Notifications)
  <2> DEFINE F == FrameSet
             K == Notifications
  <2>1. s \in Seq(F)
    OBVIOUS
  <2> HIDE DEF F, K
  <2>2. \A r \in Seq(F) : OfKinds(s \o r, K) = OfKinds(s, K) \o OfKinds(r, K)
    BY <2>1, OfKindsConcat
  <2> QED BY <2>2 DEF F, K
<1> QED BY <1>1 DEF News

LEMMA WayIs ==
    ASSUME NEW b \in Seq(BatchFrames), NEW present \in BOOLEAN, NEW u \in Seq(NewsFrames),
           NEW w \in Seq(FrameSet)
    PROVE  /\ OfKinds(b \o (IF present THEN u \o w ELSE <<>>), Notifications) = Way(b, present, u, w)
           /\ News(b) \in Seq(NewsFrames) /\ News(w) \in Seq(NewsFrames)
           /\ u \o News(w) \in Seq(NewsFrames)
           /\ Way(b, present, u, w) \in Seq(NewsFrames)
<1>1. News(b) \in Seq(NewsFrames) /\ News(w) \in Seq(NewsFrames) /\ u \o News(w) \in Seq(NewsFrames)
  BY NewsTypes, ConcatProperties
<1>2. Way(b, present, u, w) \in Seq(NewsFrames)
  BY <1>1, ConcatProperties DEF Way
<1>3. b \in Seq(FrameSet) /\ u \in Seq(FrameSet) /\ u \o w \in Seq(FrameSet)
  BY NewsTypes, ConcatProperties
<1>4. CASE present
  <2>1. OfKinds(b \o (u \o w), Notifications) = News(b) \o News(u \o w)
    <3>1. News(b \o (u \o w)) = News(b) \o News(u \o w)
      BY <1>3, NewsConcat
    <3> QED BY <3>1 DEF News
  <2>2. News(u \o w) = News(u) \o News(w) /\ News(u) = u
    BY <1>3, NewsTypes, NewsConcat
  <2> QED BY <1>1, <1>2, <1>4, <2>1, <2>2 DEF Way
<1>5. CASE ~present
  <2>1. b \o <<>> = b
    BY ConcatEmptySeq
  <2> QED BY <1>1, <1>2, <1>5, <2>1 DEF Way, News
<1> QED BY <1>4, <1>5

LEMMA Ways ==
    ASSUME StreamTypes, NEW c \in Connections
    PROVE  UnderWay(c) = Way(batch[c], c = conn, updates, wire) /\ UnderWay(c) \in Seq(NewsFrames)
<1> DEFINE b == batch[c]
           here == c = conn
<1>1. b \in Seq(BatchFrames) /\ updates \in Seq(NewsFrames) /\ wire \in Seq(FrameSet) /\ here \in BOOLEAN
  BY DEF StreamTypes
<1>2. UnderWay(c) = OfKinds(b \o (IF here THEN updates \o wire ELSE <<>>), Notifications)
  BY DEF UnderWay
<1> HIDE DEF b, here
<1>3. UnderWay(c) = Way(b, here, updates, wire) /\ UnderWay(c) \in Seq(NewsFrames)
  BY <1>1, <1>2, WayIs
<1> QED BY <1>3 DEF b, here

LEMMA WaysNext ==
    ASSUME StreamTypes', NEW c \in Connections
    PROVE  UnderWay(c)' = Way(batch'[c], c = conn', updates', wire') /\ UnderWay(c)' \in Seq(NewsFrames)
<1> DEFINE b == batch'[c]
           here == c = conn'
           u == updates'
           w == wire'
<1>1. b \in Seq(BatchFrames) /\ u \in Seq(NewsFrames) /\ w \in Seq(FrameSet) /\ here \in BOOLEAN
  BY DEF StreamTypes
<1>2. UnderWay(c)' = OfKinds(b \o (IF here THEN u \o w ELSE <<>>), Notifications)
  BY DEF UnderWay
<1> HIDE DEF b, here, u, w
<1>3. UnderWay(c)' = Way(b, here, u, w) /\ UnderWay(c)' \in Seq(NewsFrames)
  BY <1>1, <1>2, WayIs
<1> QED BY <1>3 DEF b, here, u, w

InOrder(q, from) == \A i \in 1..Len(q) : q[i].serial = from + i

\* Notifications on their way are numbered from what was told up to what was issued, and
\* nothing is known of connections to come.
OrderInv ==
    /\ \A c \in Connections : InOrder(UnderWay(c), told[c])
    /\ \A c \in Connections : c = conn => told[c] + Len(UnderWay(c)) = issued[c]
    /\ \A c \in Connections : c > conn => batch[c] = <<>> /\ issued[c] = 0 /\ told[c] = 0

\* A step that moves nothing from one place to another, or does not change the order.
LEMMA OrderKept ==
    ASSUME StreamTypes, StreamTypes', OrderInv, UNCHANGED <<conn, issued, told>>,
           \A c \in Connections : UnderWay(c)' = UnderWay(c) /\ (c > conn => batch'[c] = batch[c])
    PROVE  OrderInv'
<1>1. \A c \in Connections : InOrder(UnderWay(c), told[c])' 
  BY DEF OrderInv, InOrder
<1>2. \A c \in Connections : c = conn => (told[c] + Len(UnderWay(c)) = issued[c])'
  BY DEF OrderInv
<1> QED BY <1>1, <1>2 DEF OrderInv

LEMMA OrderElsewhere ==
    ASSUME StreamTypes, StreamTypes', OrderInv, UNCHANGED <<conn, issued, told, batch, updates, wire>>
    PROVE  OrderInv'
<1>1. \A c \in Connections : UnderWay(c)' = UnderWay(c)
  BY Ways, WaysNext
<1> QED BY <1>1, OrderKept

\* Reading sets notifications aside in the order they have on the wire.
LEMMA OrderRead ==
    ASSUME StreamTypes, StreamTypes', OrderInv, UNCHANGED <<conn, issued, told, batch>>,
           updates' = ReadUpdates, wire' = <<>>
    PROVE  OrderInv'
<1>1. ASSUME NEW c \in Connections PROVE UnderWay(c)' = UnderWay(c)
  <2>1. updates \o News(wire) \in Seq(NewsFrames)
    BY NewsTypes, ConcatProperties DEF StreamTypes
  <2>2. (updates \o News(wire)) \o <<>> = updates \o News(wire)
    BY <2>1, ConcatEmptySeq
  <2>3. Way(batch'[c], c = conn', updates', wire') = Way(batch[c], c = conn, updates, wire)
    BY <2>2, NewsTypes DEF Way, ReadUpdates, News
  <2> QED BY <2>3, Ways, WaysNext
<1> QED BY <1>1, OrderKept

\* The listener takes them in the same order, with nothing of the other frames among them.
LEMMA OrderCollect ==
    ASSUME StreamTypes, StreamTypes', OrderInv, Collect
    PROVE  OrderInv'
<1> DEFINE q == updates \o News(wire)
<1>0. /\ UNCHANGED <<conn, issued, told>> /\ updates' = <<>> /\ wire' = <<>> /\ batch[conn] = <<>>
      /\ batch' = [batch EXCEPT ![conn] = q \o Collected]
  BY DEF Collect, Taken, ledger, ReadUpdates, News
<1>1. q \in Seq(NewsFrames) /\ <<>> \in Seq(NewsFrames)
  BY NewsTypes, ConcatProperties, EmptySeq DEF StreamTypes
<1> HIDE DEF q
<1>2. /\ News(Collected) = <<>> /\ Collected \in Seq(FrameSet) /\ q \in Seq(FrameSet) /\ News(q) = q
  BY <1>1, Collecting, NewsTypes
<1>3. News(q \o Collected) = q
  <2>1. News(q \o Collected) = News(q) \o News(Collected)
    BY <1>2, NewsConcat
  <2> QED BY <1>1, <1>2, <2>1, ConcatEmptySeq
<1>4. ASSUME NEW c \in Connections PROVE UnderWay(c)' = UnderWay(c)
  <2>1. CASE c = conn
    <3>1. batch'[c] = q \o Collected
      BY <1>0, <2>1 DEF StreamTypes
    <3>2. Way(batch'[c], c = conn', updates', wire') = q \o (<<>> \o <<>>)
      BY <1>0, <1>3, <2>1, <3>1, NewsTypes DEF Way
    <3>3. Way(batch[c], c = conn, updates, wire) = <<>> \o q
      BY <1>0, <2>1, NewsTypes DEF Way, q
    <3>4. q \o (<<>> \o <<>>) = q /\ <<>> \o q = q
      BY <1>1, ConcatEmptySeq
    <3> QED BY <3>2, <3>3, <3>4, Ways, WaysNext
  <2>2. CASE c # conn
    BY <1>0, <2>2, Ways, WaysNext DEF Way, StreamTypes
  <2> QED BY <2>1, <2>2
<1>5. \A c \in Connections : c > conn => batch'[c] = batch[c]
  BY <1>0, Numbers DEF StreamTypes
<1> QED BY <1>0, <1>4, <1>5, OrderKept

\* A frame sent is numbered after those before it, if it is a notification.
LEMMA OrderSent ==
    ASSUME StreamTypes, StreamTypes', OrderInv, UNCHANGED <<conn, told, batch, updates>>,
           NEW f \in FrameSet, wire' = Append(wire, f),
           \/ /\ f.kind \in Notifications /\ f.serial = issued[conn] + 1
              /\ issued' = [issued EXCEPT ![conn] = @ + 1]
           \/ f.kind \notin Notifications /\ UNCHANGED issued
    PROVE  OrderInv'
<1> DEFINE q == UnderWay(conn)
           r == UnderWay(conn)'
<1>0. conn \in Connections /\ q \in Seq(NewsFrames) /\ told[conn] \in Nat
  BY Ways DEF StreamTypes
<1>1. r = IF f.kind \in Notifications THEN Append(q, f) ELSE q
  <2> DEFINE b == News(batch[conn])
             w == News(wire)
  <2>1. b \in Seq(NewsFrames) /\ updates \in Seq(NewsFrames) /\ w \in Seq(NewsFrames)
    BY NewsTypes DEF StreamTypes
  <2>2. News(Append(wire, f)) = More(w, f, Notifications)
    BY OfKindsAppend DEF News, StreamTypes
  <2>3. q = b \o (updates \o w)
    BY <1>0, Ways DEF Way
  <2>4. r = b \o (updates \o More(w, f, Notifications))
    <3>1. UnderWay(conn)' = Way(batch'[conn], conn = conn', updates', wire')
      BY <1>0, WaysNext
    <3> QED BY <2>2, <3>1 DEF Way
  <2> HIDE DEF b, w, q, r
  <2>5. CASE f.kind \in Notifications
    <3>1. f \in NewsFrames /\ updates \o w \in Seq(NewsFrames)
      BY <2>1, <2>5, ConcatProperties DEF NewsFrames
    <3>2. updates \o Append(w, f) = Append(updates \o w, f)
      BY <2>1, <3>1, AppendLast
    <3>3. b \o Append(updates \o w, f) = Append(b \o (updates \o w), f)
      BY <2>1, <3>1, AppendLast
    <3> QED BY <2>3, <2>4, <2>5, <3>2, <3>3 DEF More
  <2> QED BY <2>3, <2>4, <2>5 DEF More
<1>2. ASSUME NEW c \in Connections, c # conn
      PROVE  UnderWay(c)' = UnderWay(c) /\ issued'[c] = issued[c]
  BY <1>2, Ways, WaysNext DEF Way, StreamTypes
<1>3. told[conn] + Len(q) = issued[conn] /\ InOrder(q, told[conn]) /\ Len(q) \in Nat
  BY <1>0, LenProperties DEF OrderInv
<1> HIDE DEF q, r
<1>4. InOrder(r, told[conn]) /\ told[conn] + Len(r) = issued'[conn]
  <2>1. CASE f.kind \in Notifications
    <3>0. f \in NewsFrames
      BY <2>1 DEF NewsFrames
    <3>1. Len(r) = Len(q) + 1 /\ r[Len(q) + 1] = f /\ \A i \in 1..Len(q) : r[i] = q[i]
      BY <1>0, <1>1, <2>1, <3>0, AppendProperties
    <3>2. issued'[conn] = issued[conn] + 1 /\ f.serial = issued[conn] + 1
      BY <1>0, <2>1 DEF StreamTypes
    <3>3. ASSUME NEW i \in 1..Len(r) PROVE r[i].serial = told[conn] + i
      <4>1. CASE i = Len(q) + 1
        <5>1. r[i] = f
          BY <3>1, <4>1
        <5>2. told[conn] + (Len(q) + 1) = (told[conn] + Len(q)) + 1
          <6> DEFINE n == told[conn]
                     m == Len(q)
          <6>1. n \in Nat /\ m \in Nat
            BY <1>0, <1>3
          <6> HIDE DEF n, m
          <6>2. n + (m + 1) = (n + m) + 1
            BY <6>1
          <6> QED BY <6>2 DEF n, m
        <5> QED BY <1>3, <3>2, <4>1, <5>1, <5>2
      <4>2. CASE i # Len(q) + 1
        <5>1. i \in 1..Len(q)
          BY <1>3, <3>1, <4>2
        <5> QED BY <1>3, <3>1, <5>1 DEF InOrder
      <4> QED BY <4>1, <4>2
    <3> QED BY <1>0, <1>3, <3>1, <3>2, <3>3 DEF InOrder
  <2>2. CASE f.kind \notin Notifications
    BY <1>1, <1>3, <2>2
  <2> QED BY <2>1, <2>2
<1>5. \A c \in Connections : InOrder(UnderWay(c)', told[c])
  BY <1>2, <1>4 DEF OrderInv, r
<1>6. \A c \in Connections : c > conn => c # conn
  BY <1>0, Numbers
<1> QED BY <1>2, <1>4, <1>5, <1>6 DEF OrderInv, InOrder, r

LEMMA HeadFirst ==
    ASSUME NEW S, NEW s \in Seq(S), s # <<>>
    PROVE  s = <<Head(s)>> \o Tail(s) /\ Head(s) \in S /\ Tail(s) \in Seq(S)
<1>1. Head(s) \in S /\ Tail(s) \in Seq(S)
  BY HeadTailProperties
<1>2. Len(Tail(s)) = Len(s) - 1 /\ Len(s) \in Nat \ {0} /\ \A i \in 1..Len(Tail(s)) : Tail(s)[i] = s[i + 1]
  BY HeadTailProperties, EmptySeq, LenProperties
<1> DEFINE t == <<Head(s)>> \o Tail(s)
<1>3. t \in Seq(S) /\ Len(t) = 1 + Len(Tail(s)) /\ t[1] = Head(s)
      /\ \A i \in 2..Len(s) : t[i] = Tail(s)[i - 1]
  BY <1>1, <1>2, ConcatProperties
<1>4. \A i \in 1..Len(s) : t[i] = s[i]
  <2>1. s[1] = Head(s)
    BY <1>2
  <2>2. ASSUME NEW i \in 2..Len(s) PROVE Tail(s)[i - 1] = s[i]
    <3>1. i - 1 \in 1..Len(Tail(s)) /\ (i - 1) + 1 = i
      BY <1>2
    <3> QED BY <1>2, <3>1
  <2> QED BY <1>2, <1>3, <2>1, <2>2
<1> HIDE DEF t
<1>5. Len(t) = Len(s)
  BY <1>2, <1>3
<1>6. s = t
  BY <1>3, <1>4, <1>5, SeqEqual
<1> QED BY <1>1, <1>6 DEF t

LEMMA OrderNotices ==
    ASSUME StreamTypes, StreamTypes', OrderInv, UNCHANGED <<conn, told, batch, updates>>,
           NEW z \in Zones, NEW on \in BOOLEAN, NEW kinds \in SUBSET {"event", "hint", "echo"},
           Notices(z, on, kinds) \/ UNCHANGED <<wire, issued>>
    PROVE  OrderInv'
<1>1. CASE UNCHANGED <<wire, issued>>
  BY <1>1, OrderElsewhere
<1>2. ASSUME wire' = Append(wire, Frame("info", z, on, 0)), UNCHANGED issued PROVE OrderInv'
  <2> DEFINE f == Frame("info", z, on, 0)
  <2>1. f \in FrameSet /\ f.kind \notin Notifications
    BY TypedFrame DEF Frame, Others, Notifications
  <2> HIDE DEF f
  <2>2. wire' = Append(wire, f)
    BY <1>2 DEF f
  <2> QED BY <1>2, <2>1, <2>2, OrderSent
<1>3. ASSUME NEW kind \in kinds,
             issued' = [issued EXCEPT ![conn] = IF kind = "echo" THEN @ ELSE @ + 1],
             wire' = Append(wire, Frame(kind, z, on, IF kind = "echo" THEN 0 ELSE issued'[conn]))
      PROVE  OrderInv'
  <2> DEFINE n == IF kind = "echo" THEN 0 ELSE issued'[conn]
             f == Frame(kind, z, on, n)
  <2>1. issued \in [Connections -> Nat] /\ issued' \in [Connections -> Nat] /\ conn \in Connections
    BY DEF StreamTypes
  <2>2. n \in Nat /\ (kind # "echo" => n = issued[conn] + 1 /\ issued' = [issued EXCEPT ![conn] = @ + 1])
        /\ (kind = "echo" => UNCHANGED issued)
    BY <1>3, <2>1
  <2> HIDE DEF n
  <2>3. f \in FrameSet /\ f.kind = kind /\ f.serial = n
    <3>1. kind \in Notifications \cup Others
      BY DEF Notifications, Others
    <3> QED BY <2>2, <3>1, TypedFrame DEF Frame
  <2>4. wire' = Append(wire, f)
    BY <1>3 DEF n
  <2> HIDE DEF f
  <2>5. kind = "echo" \/ kind \in Notifications
    BY DEF Notifications
  <2>6. kind = "echo" => kind \notin Notifications
    BY DEF Notifications
  <2>7. \/ /\ f.kind \in Notifications /\ f.serial = issued[conn] + 1
           /\ issued' = [issued EXCEPT ![conn] = @ + 1]
        \/ f.kind \notin Notifications /\ UNCHANGED issued
    BY <2>2, <2>3, <2>5, <2>6
  <2> QED BY <2>3, <2>4, <2>7, OrderSent
<1> QED BY <1>1, <1>2, <1>3 DEF Notices

LEMMA OrderAnswer ==
    ASSUME StreamTypes, StreamTypes', OrderInv, ServeRead
    PROVE  OrderInv'
<1> DEFINE f == Answer(Head(inbox).zone)
<1>1. Head(inbox).zone \in Zones
  BY TypedRequest DEF ServeRead, Asked, Requests
<1>2. (Head(inbox).zone \in hw) \in BOOLEAN /\ (IF hardware = "dummy" THEN "answer" ELSE "info") \in Others
  BY DEF Others
<1>3. f \in FrameSet /\ f.kind \notin Notifications
  BY <1>1, <1>2, TypedFrame DEF Answer, Frame, Others, Notifications
<1> HIDE DEF f
<1>4. wire' = Append(wire, f) /\ UNCHANGED <<conn, told, batch, updates, issued>>
  BY DEF ServeRead, connector, ledger, f
<1> QED BY <1>3, <1>4, OrderSent

\* The oldest notification under way is the next one to be told.
LEMMA OrderTold ==
    ASSUME StreamTypes, StreamTypes', OrderInv, NEW c \in Connections, Deliver(c)
    PROVE  OrderInv'
<1> DEFINE b == batch[c]
           h == Head(b)
           q == UnderWay(c)
           r == UnderWay(c)'
<1>0. /\ b # <<>> /\ b \in Seq(BatchFrames) /\ batch' = [batch EXCEPT ![c] = Tail(b)]
      /\ told' = IF h.kind \in Notifications THEN [told EXCEPT ![c] = @ + 1] ELSE told
      /\ UNCHANGED <<conn, issued, updates, wire>>
  BY DEF Deliver, StreamTypes, stream, Direct
<1>1. b = <<h>> \o Tail(b) /\ h \in BatchFrames /\ Tail(b) \in Seq(BatchFrames)
  BY <1>0, HeadFirst
<1>2. batch'[c] = Tail(b) /\ \A d \in Connections : d # c => batch'[d] = batch[d]
  BY <1>0 DEF StreamTypes
<1>3. q \in Seq(NewsFrames) /\ r \in Seq(NewsFrames)
  BY Ways, WaysNext
<1>4. ASSUME NEW d \in Connections, d # c PROVE UnderWay(d)' = UnderWay(d) /\ told'[d] = told[d]
  BY <1>0, <1>2, <1>4, Ways, WaysNext DEF StreamTypes
<1>5. News(b) = IF h.kind \in Notifications THEN <<h>> \o News(Tail(b)) ELSE News(Tail(b))
  <2> DEFINE t == Tail(b)
             one == <<h>>
  <2>1. h \in FrameSet
    BY <1>1 DEF BatchFrames
  <2>2. t \in Seq(FrameSet) /\ News(t) \in Seq(NewsFrames) /\ b = one \o t
    BY <1>1, NewsTypes
  <2> HIDE DEF h, t, b
  <2>3. one = Append(<<>>, h) /\ <<>> \in Seq(FrameSet) /\ one \in Seq(FrameSet)
    BY <2>1, EmptySeq
  <2> DEFINE none == <<>>
  <2>4. News(one) = IF h.kind \in Notifications THEN one ELSE <<>>
    <3>1. one = Append(none, h) /\ none \in Seq(FrameSet)
      BY <2>3
    <3>2. News(none) = none
      BY NewsTypes
    <3> HIDE DEF none, one
    <3>3. News(one) = More(News(none), h, Notifications)
      BY <2>1, <3>1, OfKindsAppend DEF News
    <3>4. News(one) = IF h.kind \in Notifications THEN Append(none, h) ELSE none
      BY <3>2, <3>3 DEF More
    <3> QED BY <3>1, <3>4 DEF none
  <2> HIDE DEF one
  <2>5. News(b) = News(one) \o News(t)
    BY <2>2, <2>3, NewsConcat
  <2>6. <<>> \o News(t) = News(t)
    BY <2>2, ConcatEmptySeq
  <2>7. News(b) = IF h.kind \in Notifications THEN one \o News(t) ELSE News(t)
    BY <2>4, <2>5, <2>6
  <2> QED BY <2>7 DEF one, t
<1>6. q = IF h.kind \in Notifications THEN <<h>> \o r ELSE r
  <2> DEFINE here == c = conn
             u == updates
             w == News(wire)
             tail == News(Tail(b))
  <2>1. u \in Seq(NewsFrames) /\ w \in Seq(NewsFrames) /\ tail \in Seq(NewsFrames)
        /\ u \o w \in Seq(NewsFrames)
    BY <1>1, NewsTypes, ConcatProperties DEF StreamTypes
  <2>2. q = IF here THEN News(b) \o (u \o w) ELSE News(b)
    BY Ways DEF Way
  <2>3. r = IF here THEN tail \o (u \o w) ELSE tail
    BY <1>0, <1>2, WaysNext DEF Way
  <2>4. h.kind \in Notifications => <<h>> \in Seq(NewsFrames)
    BY <1>1 DEF BatchFrames, NewsFrames
  <2> HIDE DEF here, u, w, tail, q, r
  <2>5. h.kind \in Notifications => (<<h>> \o tail) \o (u \o w) = <<h>> \o (tail \o (u \o w))
    BY <2>1, <2>4, ConcatAssociative
  <2> QED BY <1>5, <2>2, <2>3, <2>5 DEF tail
<1>7. told[c] \in Nat /\ c \in Connections /\ InOrder(q, told[c]) /\ c <= conn /\ conn \in Connections
  <2>1. c \in Nat /\ conn \in Nat /\ conn \in Connections
    BY Numbers DEF StreamTypes
  <2>2. ~(c > conn)
    BY <1>0 DEF OrderInv
  <2> QED BY <2>1, <2>2 DEF OrderInv, StreamTypes
<1>8. Len(q) \in Nat /\ Len(r) \in Nat
  BY <1>3, LenProperties
<1>9. InOrder(r, told'[c]) /\ told'[c] + Len(r) = told[c] + Len(q)
  <2>1. CASE h.kind \in Notifications
    <3>1. told'[c] = told[c] + 1
      BY <1>0, <1>7, <2>1 DEF StreamTypes
    <3>2. Len(q) = 1 + Len(r) /\ \A i \in 1..Len(r) : q[i + 1] = r[i]
      <4>1. <<h>> \in Seq(NewsFrames) /\ Len(<<h>>) = 1
        BY <1>1, <2>1 DEF BatchFrames, NewsFrames
      <4> HIDE DEF h, q, r
      <4>2. q = <<h>> \o r
        BY <1>6, <2>1
      <4>3. Len(q) = 1 + Len(r)
        BY <1>3, <4>1, <4>2, ConcatProperties
      <4>4. ASSUME NEW i \in 1..Len(r) PROVE q[i + 1] = r[i]
        <5>1. i + 1 \in 1..(Len(<<h>>) + Len(r)) /\ ~(i + 1 <= Len(<<h>>)) /\ (i + 1) - Len(<<h>>) = i
          BY <1>8, <4>1
        <5> QED BY <1>3, <4>1, <4>2, <5>1, ConcatProperties
      <4> QED BY <4>3, <4>4
    <3> HIDE DEF h, q, r
    <3>3. ASSUME NEW i \in 1..Len(r) PROVE r[i].serial = (told[c] + 1) + i
      <4> DEFINE m == told[c]
      <4>1. m \in Nat /\ InOrder(q, m)
        BY <1>7
      <4> HIDE DEF m
      <4>2. i + 1 \in 1..Len(q) /\ m + (i + 1) = (m + 1) + i
        BY <1>8, <3>2, <4>1
      <4>3. r[i].serial = (m + 1) + i
        BY <3>2, <4>1, <4>2 DEF InOrder
      <4> QED BY <4>3 DEF m
    <3> QED BY <1>7, <1>8, <3>1, <3>2, <3>3 DEF InOrder
  <2>2. CASE h.kind \notin Notifications
    BY <1>0, <1>6, <1>7, <2>2
  <2> QED BY <2>1, <2>2
<1>10. \A d \in Connections : InOrder(UnderWay(d)', told'[d])
  BY <1>4, <1>9 DEF OrderInv, InOrder
<1>11. ASSUME NEW d \in Connections, d = conn PROVE told'[d] + Len(UnderWay(d)') = issued[d]
  <2> HIDE DEF q, r
  <2>1. told[d] + Len(UnderWay(d)) = issued[d]
    BY <1>11 DEF OrderInv
  <2>2. CASE c = d
    BY <1>9, <2>1, <2>2 DEF q, r
  <2>3. CASE c # d
    BY <1>4, <2>1, <2>3
  <2> QED BY <2>2, <2>3
<1>12. \A d \in Connections : d > conn => d # c
  BY <1>7, Numbers
<1>13. \A d \in Connections : d > conn => batch'[d] = <<>> /\ issued'[d] = 0 /\ told'[d] = 0
  BY <1>0, <1>2, <1>4, <1>12 DEF OrderInv
<1>14. conn' = conn /\ issued' = issued
  BY <1>0
<1> QED BY <1>10, <1>11, <1>13, <1>14 DEF OrderInv, InOrder

\* What an old listener drops is never told, and nothing follows it.
LEMMA OrderAbandoned ==
    ASSUME StreamTypes, StreamTypes', OrderInv, NEW c \in Connections, Abandon(c)
    PROVE  OrderInv'
<1>0. /\ c # conn /\ batch' = [batch EXCEPT ![c] = <<>>]
      /\ UNCHANGED <<conn, issued, told, updates, wire>>
  BY DEF Abandon, stream, ledger
<1>1. batch'[c] = <<>> /\ \A d \in Connections : d # c => batch'[d] = batch[d]
  BY <1>0 DEF StreamTypes
<1>2. UnderWay(c)' = <<>>
  <2>1. News(<<>>) = <<>>
    BY NewsTypes
  <2> QED BY <1>0, <1>1, <2>1, WaysNext DEF Way
<1>3. ASSUME NEW d \in Connections, d # c PROVE UnderWay(d)' = UnderWay(d)
  BY <1>0, <1>1, <1>3, Ways, WaysNext
<1>4. ASSUME NEW d \in Connections PROVE InOrder(UnderWay(d)', told[d])
  <2>1. CASE d = c
    <3>1. Len(UnderWay(d)') = 0
      BY <1>2, <2>1
    <3> QED BY <3>1 DEF InOrder
  <2>2. CASE d # c
    BY <1>3, <2>2 DEF OrderInv
  <2> QED BY <2>1, <2>2
<1>5. \A d \in Connections : d = conn => UnderWay(d)' = UnderWay(d)
  BY <1>0, <1>3
<1>6. \A d \in Connections : batch[d] = <<>> => batch'[d] = <<>>
  BY <1>1
<1> QED BY <1>0, <1>4, <1>5, <1>6 DEF OrderInv, InOrder

\* What is under way on a lost connection but not yet with its listener is never told.
LEMMA OrderLost ==
    ASSUME StreamTypes, StreamTypes', OrderInv, ConnectionLost
    PROVE  OrderInv'
<1>0. /\ conn' = conn + 1 /\ updates' = <<>> /\ wire' = <<>>
      /\ batch' = batch /\ issued' = issued /\ told' = told
  BY DEF ConnectionLost
<1>1. conn \in Nat /\ Connections \subseteq Nat
  BY Numbers DEF StreamTypes
<1>2. ASSUME NEW c \in Connections PROVE InOrder(UnderWay(c)', told[c])
  <2> DEFINE b == News(batch[c])
             rest == updates \o News(wire)
  <2>0. b \in Seq(NewsFrames) /\ rest \in Seq(NewsFrames)
    BY NewsTypes, ConcatProperties DEF StreamTypes
  <2>1. UnderWay(c) = IF c = conn THEN b \o rest ELSE b
    BY Ways DEF Way
  <2>2. UnderWay(c)' = b
    <3>1. CASE c = conn'
      <4>1. batch[c] = <<>>
        BY <1>0, <1>1, <3>1 DEF OrderInv
      <4>2. UnderWay(c)' = News(batch[c]) \o (<<>> \o News(<<>>))
        BY <1>0, <3>1, WaysNext DEF Way
      <4>3. News(<<>>) = <<>>
        BY NewsTypes
      <4> QED BY <4>1, <4>2, <4>3
    <3>2. CASE c # conn'
      BY <1>0, <3>2, WaysNext DEF Way
    <3> QED BY <3>1, <3>2
  <2>3. InOrder(UnderWay(c), told[c])
    BY DEF OrderInv
  <2> HIDE DEF b, rest
  <2>4. CASE c = conn
    <3>1. /\ Len(b) \in Nat /\ Len(rest) \in Nat /\ Len(b \o rest) = Len(b) + Len(rest)
          /\ \A i \in 1..Len(b) : (b \o rest)[i] = b[i]
      BY <2>0, LenProperties, ConcatProperties
    <3> QED BY <2>1, <2>2, <2>3, <2>4, <3>1 DEF InOrder
  <2>5. CASE c # conn
    BY <2>1, <2>2, <2>3, <2>5
  <2> QED BY <2>4, <2>5
<1>3. ASSUME NEW c \in Connections, c = conn' PROVE told[c] + Len(UnderWay(c)') = issued[c]
  <2>1. batch[c] = <<>> /\ issued[c] = 0 /\ told[c] = 0
    BY <1>0, <1>1, <1>3 DEF OrderInv
  <2>2. UnderWay(c)' = News(batch[c]) \o (<<>> \o News(<<>>))
    BY <1>0, <1>3, WaysNext DEF Way
  <2>3. News(<<>>) = <<>>
    BY NewsTypes
  <2>4. UnderWay(c)' = <<>>
    BY <2>1, <2>2, <2>3
  <2> QED BY <2>1, <2>4
<1>4. \A c \in Connections : c > conn + 1 => c > conn
  BY <1>1
<1>5. \A c \in Connections : c > conn' => batch'[c] = <<>> /\ issued'[c] = 0 /\ told'[c] = 0
  BY <1>0, <1>4 DEF OrderInv
<1> QED BY <1>0, <1>2, <1>3, <1>5 DEF OrderInv, InOrder

LEMMA OrderNext ==
    ASSUME StreamTypes, StreamTypes', CallTypes, OrderInv, [Next]_vars
    PROVE  OrderInv'
<1>1. CASE Ignored \/ Enter \/ Send \/ BeginPoll \/ EndPoll \/ UNCHANGED vars
  BY <1>1, OrderElsewhere DEF Ignored, Enter, Send, BeginPoll, EndPoll, vars, stream, connector, ledger
<1>2. ASSUME NEW z \in Zones, NEW on \in BOOLEAN, SetPower(z, on) PROVE OrderInv'
  BY <1>2, OrderElsewhere DEF SetPower, stream, connector, ledger
<1>3. ASSUME NEW z \in Zones, KeypadChange(z) PROVE OrderInv'
  <2> DEFINE on == z \notin hw
             kinds == {"event", "hint"}
  <2>1. on \in BOOLEAN /\ kinds \in SUBSET {"event", "hint", "echo"}
    OBVIOUS
  <2>2. Notices(z, on, kinds) /\ UNCHANGED <<conn, told, batch, updates>>
    BY <1>3 DEF KeypadChange, connector
  <2> HIDE DEF on, kinds
  <2> QED BY <2>1, <2>2, OrderNotices
<1>4. CASE ServeRead
  BY <1>4, OrderAnswer
<1>5. CASE ServeSet
  <2> DEFINE z == Head(inbox).zone
             on == Head(inbox).on
             kinds == {"event", "echo"}
  <2>1. z \in Zones /\ on \in BOOLEAN /\ kinds \in SUBSET {"event", "hint", "echo"}
    BY <1>5, TypedRequest DEF ServeSet, Asked, Requests
  <2>2. /\ Notices(z, on, kinds) \/ UNCHANGED <<wire, issued>>
        /\ UNCHANGED <<conn, told, batch, updates>>
    BY <1>5 DEF ServeSet, connector
  <2> HIDE DEF z, on, kinds
  <2> QED BY <2>1, <2>2, OrderNotices
<1>6. CASE Receive \/ GiveUp \/ ReceiveAny
  BY <1>6, OrderRead DEF Receive, GiveUp, ReceiveAny, ledger
<1>7. CASE Collect
  BY <1>7, OrderCollect
<1>8. ASSUME NEW c \in Connections, Deliver(c) PROVE OrderInv'
  BY <1>8, OrderTold
<1>9. CASE ConnectionLost
  BY <1>9, OrderLost
<1>10. ASSUME NEW c \in Connections, Abandon(c) PROVE OrderInv'
  BY <1>10, OrderAbandoned
<1> QED BY <1>1, <1>2, <1>3, <1>4, <1>5, <1>6, <1>7, <1>8, <1>9, <1>10
    DEF Next, Hardware, Calls, World, Delivery

LEMMA OrderInit == Init => OrderInv
<1> SUFFICES ASSUME Init PROVE OrderInv
  OBVIOUS
<1>1. StreamTypes
  BY TypesInit
<1>2. ASSUME NEW c \in Connections
      PROVE  UnderWay(c) = <<>> /\ batch[c] = <<>> /\ issued[c] = 0 /\ told[c] = 0
  <2>1. batch[c] = <<>> /\ updates = <<>> /\ wire = <<>> /\ issued[c] = 0 /\ told[c] = 0
    BY DEF Init
  <2>2. News(<<>>) = <<>>
    BY NewsTypes
  <2>3. <<>> \o (<<>> \o <<>>) = <<>>
    OBVIOUS
  <2> QED BY <1>1, <2>1, <2>2, <2>3, Ways DEF Way
<1> QED BY <1>2 DEF OrderInv, InOrder

\* The notifications of a connection are told to the web server once each and in the order they
\* were sent: what is on its way follows what was told, without a gap up to the last one sent,
\* however listener, polls and commands take turns with the stream.
THEOREM NotificationsInOrder == Spec => []EventsOnceInOrder
<1>1. OrderInv => EventsOnceInOrder
  BY DEF OrderInv, InOrder, EventsOnceInOrder
<1> QED BY <1>1, TypesInit, OrderInit, StreamTypesNext, CallTypesNext, OrderNext, PTL DEF Spec

\* Frames are kept apart by what the code does with them, and none is told twice.
THEOREM StaysOrderly == Spec => []Orderly
  BY TypeCorrect, NotificationsInOrder, PTL DEF Orderly

-----------------------------------------------------------------------------
(* Bytes and frames: RnetFraming, whose state is its own. *)

\* A set of numbers up to a bound has a largest one.
LEMMA Largest ==
    ASSUME NEW n \in Nat, NEW T, T \subseteq 1..n, T # {}
    PROVE  \E x \in T : \A y \in T : x >= y
<1> DEFINE U == {m \in Nat : \A y \in T : m >= y}
<1>1. n \in U
  OBVIOUS
<1>2. U \subseteq Nat /\ U # {}
  BY <1>1
<1>3. PICK m \in U : \A y \in U : m <= y
  <2> HIDE DEF U
  <2> QED BY <1>2, Smallest
<1>4. m \in T
  <2> SUFFICES ASSUME m \notin T PROVE FALSE
    OBVIOUS
  <2>1. \A y \in T : y \in Nat /\ m >= y /\ m # y
    OBVIOUS
  <2>2. PICK t \in T : TRUE
    OBVIOUS
  <2>3. m - 1 \in U
    BY <2>1, <2>2
  <2> QED BY <1>3, <2>3
<1> QED BY <1>4

\* Part of a sequence.
LEMMA PartIs ==
    ASSUME NEW S, NEW s \in Seq(S), NEW a \in 1..Len(s) + 1, NEW b \in a - 1..Len(s)
    PROVE  /\ SubSeq(s, a, b) \in Seq(S) /\ Len(SubSeq(s, a, b)) = b - a + 1
           /\ \A i \in 1..b - a + 1 : SubSeq(s, a, b)[i] = s[a + i - 1] /\ a + i - 1 \in a..b
<1>0. Len(s) \in Nat
  BY LenProperties
<1>1. a \in Int /\ b \in Int /\ \A i \in a..b : i \in 1..Len(s)
  BY <1>0
<1>2. \A i \in a..b : s[i] \in S
  BY <1>1, ElementOfSeq
<1>3. /\ SubSeq(s, a, b) \in Seq(S)
      /\ Len(SubSeq(s, a, b)) = IF a <= b THEN b - a + 1 ELSE 0
      /\ \A i \in 1..b - a + 1 : SubSeq(s, a, b)[i] = s[a + i - 1]
  BY <1>1, <1>2, SubSeqProperties
<1>4. (~(a <= b) => b - a + 1 = 0) /\ \A i \in 1..b - a + 1 : a + i - 1 \in a..b
  BY <1>0, <1>1
<1> QED BY <1>3, <1>4

\* The first byte of a kind, if there is one.
LEMMA FirstIs ==
    ASSUME NEW S, NEW s \in Seq(S), NEW i \in 1..Len(s) + 1, NEW what
    PROVE  LET e == FirstFrom(s, i, what) IN
           \/ e = 0 /\ \A k \in i..Len(s) : s[k].is # what
           \/ e \in i..Len(s) /\ s[e].is = what /\ \A k \in i..e - 1 : s[k].is # what
<1> DEFINE I == {k \in i..Len(s) : s[k].is = what}
<1>0. Len(s) \in Nat
  BY LenProperties
<1>1. FirstFrom(s, i, what) = IF I # {} THEN CHOOSE x \in I : \A y \in I : x <= y ELSE 0
  BY DEF FirstFrom, SelectInSubSeq, Min
<1>2. CASE I = {}
  BY <1>1, <1>2
<1>3. CASE I # {}
  <2>1. I \subseteq Nat
    BY <1>0
  <2>2. \E x \in I : \A y \in I : x <= y
    <3> HIDE DEF I
    <3> QED BY <1>3, <2>1, Smallest
  <2> DEFINE e == FirstFrom(s, i, what)
  <2>3. e \in I /\ \A y \in I : e <= y
    <3> HIDE DEF I
    <3> QED BY <1>1, <1>3, <2>2
  <2> HIDE DEF e
  <2>4. ASSUME NEW k \in i..e - 1 PROVE s[k].is # what
    <3>1. k \in i..Len(s) /\ ~(e <= k)
      BY <1>0, <2>3
    <3> QED BY <2>3, <3>1
  <2> QED BY <2>3, <2>4 DEF e
<1> QED BY <1>2, <1>3

\* The end of the last frame that is complete, if there is one.
LEMMA LastEndIs ==
    ASSUME NEW S, NEW s \in Seq(S)
    PROVE  LET e == LastEnd(s) IN
           \/ e = 0 /\ Ends(s) = {}
           \/ e \in 1..Len(s) /\ s[e].is = "F7" /\ \A k \in e + 1..Len(s) : s[k].is # "F7"
<1>0. Len(s) \in Nat /\ DOMAIN s = 1..Len(s)
  BY LenProperties
<1> DEFINE I == {k \in 1..Len(s) : s[k].is = "F7"}
<1>1. LastEnd(s) = IF I # {} THEN CHOOSE x \in I : \A y \in I : x >= y ELSE 0
  BY DEF LastEnd, SelectLastInSeq, Max
<1>2. Ends(s) = I
  BY <1>0 DEF Ends
<1>3. CASE I = {}
  BY <1>1, <1>2, <1>3
<1>4. CASE I # {}
  <2>1. I \subseteq 1..Len(s)
    OBVIOUS
  <2>2. \E x \in I : \A y \in I : x >= y
    <3> HIDE DEF I
    <3> QED BY <1>0, <1>4, <2>1, Largest
  <2> DEFINE e == LastEnd(s)
  <2>3. e \in I /\ \A y \in I : e >= y
    <3> HIDE DEF I
    <3> QED BY <1>1, <1>4, <2>2
  <2> HIDE DEF e
  <2>4. ASSUME NEW k \in e + 1..Len(s) PROVE s[k].is # "F7"
    <3>1. k \in 1..Len(s) /\ ~(e >= k)
      BY <1>0, <2>3
    <3> QED BY <2>3, <3>1
  <2> QED BY <2>3, <2>4 DEF e
<1> QED BY <1>3, <1>4

\* What is left after the last end.
LEMMA RemainderIs ==
    ASSUME NEW S, NEW s \in Seq(S)
    PROVE  LET n == LastEnd(s)
               u == SubSeq(s, 1, n)
           IN  /\ n \in 0..Len(s) /\ Len(u) = n
               /\ u \in Seq(S) /\ Remainder(s) \in Seq(S)
               /\ u \o Remainder(s) = s
               /\ Ends(Remainder(s)) = {}
               /\ u = <<>> \/ u[Len(u)].is = "F7"
<1> DEFINE n == LastEnd(s)
           u == SubSeq(s, 1, n)
           r == SubSeq(s, n + 1, Len(s))
<1>0. Len(s) \in Nat /\ DOMAIN s = 1..Len(s)
  BY LenProperties
<1>1. \/ n = 0 /\ Ends(s) = {}
      \/ n \in 1..Len(s) /\ s[n].is = "F7" /\ \A k \in n + 1..Len(s) : s[k].is # "F7"
  BY LastEndIs
<1>2. n \in 0..Len(s) /\ n \in Int /\ n + 1 \in Int /\ Len(s) \in Int
  BY <1>0, <1>1
<1>3. \A k \in n + 1..Len(s) : s[k].is # "F7"
  <2>1. CASE n = 0 /\ Ends(s) = {}
    <3>1. \A k \in DOMAIN s : s[k].is # "F7"
      BY <2>1 DEF Ends
    <3> HIDE DEF n
    <3> QED BY <1>0, <2>1, <3>1
  <2> HIDE DEF n
  <2> QED BY <1>1, <2>1
<1>4. Remainder(s) = r
  BY DEF Remainder
<1> HIDE DEF n
<1>6. u \in Seq(S) /\ Len(u) = n /\ \A i \in 1..n : u[i] = s[i]
  <2>1. 1 \in 1..Len(s) + 1 /\ n \in 1 - 1..Len(s)
    BY <1>0, <1>2
  <2>2. u \in Seq(S) /\ Len(u) = n - 1 + 1 /\ \A i \in 1..n - 1 + 1 : u[i] = s[1 + i - 1]
    BY <2>1, PartIs
  <2>3. n - 1 + 1 = n /\ \A i \in 1..n : 1 + i - 1 = i
    BY <1>0, <1>2
  <2> HIDE DEF u
  <2> QED BY <2>2, <2>3
<1>7. r \in Seq(S) /\ DOMAIN r = 1..Len(r) /\ \A i \in 1..Len(r) : r[i] = s[n + i] /\ n + i \in n + 1..Len(s)
  <2>1. n + 1 \in 1..Len(s) + 1 /\ Len(s) \in (n + 1) - 1..Len(s)
    BY <1>0, <1>2
  <2>2. /\ r \in Seq(S) /\ Len(r) = Len(s) - (n + 1) + 1
        /\ \A i \in 1..Len(s) - (n + 1) + 1 : r[i] = s[n + 1 + i - 1]
    BY <2>1, PartIs
  <2> HIDE DEF r
  <2>3. DOMAIN r = 1..Len(r)
    BY <2>2, LenProperties
  <2>4. \A i \in 1..Len(r) : n + 1 + i - 1 = n + i /\ n + i \in n + 1..Len(s)
    BY <1>0, <1>2, <2>2
  <2> QED BY <2>2, <2>3, <2>4
<1>8. Ends(r) = {}
  <2> HIDE DEF r
  <2> QED BY <1>3, <1>7 DEF Ends
<1>9. u \o r = s
  <2>1. SubSeq(s, 1, n) \o SubSeq(s, n + 1, Len(s)) = SubSeq(s, 1, Len(s))
    <3>1. 1 \in 1..Len(s) + 1 /\ n \in 1 - 1..Len(s) /\ Len(s) \in n..Len(s)
      BY <1>0, <1>2
    <3> QED BY <3>1, ConcatAdjacentSubSeq
  <2> QED BY <2>1, SubSeqFull
<1>10. u = <<>> \/ u[Len(u)].is = "F7"
  <2>1. CASE n = 0
    BY <2>1, SubSeqEmpty
  <2>2. CASE n # 0
    <3>1. n \in 1..n /\ s[n].is = "F7"
      BY <1>0, <1>1, <1>2, <2>2
    <3> HIDE DEF u
    <3> QED BY <1>6, <3>1
  <2> QED BY <2>1, <2>2
<1> HIDE DEF u, r
<1> QED BY <1>2, <1>4, <1>6, <1>7, <1>8, <1>9, <1>10 DEF n, u

-----------------------------------------------------------------------------
(* Where a frame starts. *)

\* The frame that ends at e starts at i: at the first F0 after the end before, or
\* directly after that end if there is no F0.
StartsAt(s, e, i) ==
    \E j \in 1..i :
        /\ i <= e
        /\ j = 1 \/ s[j - 1].is = "F7"
        /\ \A k \in j..e - 1 : s[k].is # "F7"
        /\ \A k \in j..i - 1 : s[k].is # "F0"
        /\ s[i].is = "F0" \/ (i = j /\ \A k \in j..e : s[k].is # "F0")

LEMMA StartExists ==
    ASSUME NEW S, NEW s \in Seq(S), NEW e \in 1..Len(s)
    PROVE  \E i \in 1..e : StartsAt(s, e, i)
<1>0. Len(s) \in Nat /\ e \in Nat
  BY LenProperties
<1> DEFINE J == {j \in 1..e : \A k \in j..e - 1 : s[k].is # "F7"}
<1>1. e \in J /\ J \subseteq Nat
  BY <1>0
<1>2. PICK j \in J : \A k \in J : j <= k
  <2> HIDE DEF J
  <2> QED BY <1>1, Smallest
<1>3. j = 1 \/ s[j - 1].is = "F7"
  <2> SUFFICES ASSUME j # 1, s[j - 1].is # "F7" PROVE FALSE
    OBVIOUS
  <2>1. j - 1 \in 1..e
    BY <1>0
  <2>2. \A k \in j - 1..e - 1 : k = j - 1 \/ k \in j..e - 1
    BY <1>0
  <2>3. j - 1 \in J
    BY <2>1, <2>2
  <2>4. ~(j <= j - 1)
    BY <1>0
  <2> HIDE DEF J
  <2> QED BY <1>2, <2>3, <2>4
<1> DEFINE K == {k \in j..e : s[k].is = "F0"}
<1>4. CASE K = {}
  <2>1. StartsAt(s, e, j)
    BY <1>0, <1>3, <1>4 DEF StartsAt
  <2> QED BY <2>1
<1>5. CASE K # {}
  <2>1. K \subseteq Nat
    BY <1>0
  <2>2. PICK i \in K : \A k \in K : i <= k
    <3> HIDE DEF K
    <3> QED BY <1>5, <2>1, Smallest
  <2>3. ASSUME NEW k \in j..i - 1 PROVE s[k].is # "F0"
    <3>1. k \in j..e /\ ~(i <= k)
      BY <1>0
    <3> QED BY <2>2, <3>1
  <2>4. StartsAt(s, e, i)
    BY <1>0, <1>3, <2>3 DEF StartsAt
  <2> QED BY <1>0, <2>4
<1> QED BY <1>4, <1>5

LEMMA StartIs ==
    ASSUME NEW S, NEW s \in Seq(S), NEW e \in 1..Len(s), NEW i \in 1..e, StartsAt(s, e, i)
    PROVE  FrameEndingAt(s, e) = SubSeq(s, i, e)
<1>0. Len(s) \in Nat /\ e \in Nat /\ i \in Nat /\ DOMAIN s = 1..Len(s)
  BY LenProperties
<1>1. PICK j \in 1..i :
        /\ j = 1 \/ s[j - 1].is = "F7"
        /\ \A k \in j..e - 1 : s[k].is # "F7"
        /\ \A k \in j..i - 1 : s[k].is # "F0"
        /\ s[i].is = "F0" \/ (i = j /\ \A k \in j..e : s[k].is # "F0")
  BY DEF StartsAt
<1> DEFINE since == {k \in DOMAIN s : k <= e /\ \A d \in Ends(s) : d < e => d < k}
           starts == {k \in since : s[k].is = "F0"}
           from == IF starts = {} THEN since ELSE starts
<1>2. FrameEndingAt(s, e) = SubSeq(s, CHOOSE x \in from : \A y \in from : x <= y, e)
  BY DEF FrameEndingAt, Min
<1>3. since = j..e
  <2>1. ASSUME NEW k \in j..e PROVE k \in since
    <3>1. k \in DOMAIN s /\ k <= e
      BY <1>0
    <3>2. ASSUME NEW d \in Ends(s), d < e PROVE d < k
      <4>1. d \in 1..Len(s) /\ s[d].is = "F7"
        BY <1>0 DEF Ends
      <4>2. d \notin j..e - 1
        BY <1>1, <4>1
      <4> QED BY <1>0, <3>2, <4>1, <4>2
    <3> QED BY <3>1, <3>2
  <2>2. ASSUME NEW k \in since PROVE k \in j..e
    <3>1. k \in 1..Len(s) /\ k <= e
      BY <1>0
    <3>2. CASE j = 1
      BY <1>0, <3>1, <3>2
    <3>3. CASE j # 1
      <4>1. j - 1 \in DOMAIN s /\ s[j - 1].is = "F7" /\ j - 1 < e
        BY <1>0, <1>1, <3>3
      <4>2. j - 1 \in Ends(s)
        BY <4>1 DEF Ends
      <4>3. j - 1 < k
        BY <4>1, <4>2
      <4> QED BY <1>0, <3>1, <4>3
    <3> QED BY <3>2, <3>3
  <2> HIDE DEF since
  <2> QED BY <2>1, <2>2
<1> HIDE DEF since
<1>4. i \in from /\ \A y \in from : y \in Nat /\ i <= y
  <2>1. CASE s[i].is = "F0"
    <3>1. i \in starts
      BY <1>0, <1>3, <2>1
    <3>2. ASSUME NEW y \in starts PROVE y \in Nat /\ i <= y
      <4>1. y \in j..e /\ s[y].is = "F0"
        BY <1>3
      <4>2. y \notin j..i - 1
        BY <1>1, <4>1
      <4> QED BY <1>0, <4>1, <4>2
    <3> QED BY <3>1, <3>2
  <2>2. CASE s[i].is # "F0"
    <3>1. i = j /\ starts = {}
      BY <1>1, <1>3, <2>2
    <3>2. \A y \in since : y \in Nat /\ i <= y
      BY <1>0, <1>3, <3>1
    <3> QED BY <1>0, <1>3, <3>1, <3>2
  <2> QED BY <2>1, <2>2
<1> HIDE DEF from
<1>5. (CHOOSE x \in from : \A y \in from : x <= y) = i
  <2> DEFINE c == CHOOSE x \in from : \A y \in from : x <= y
  <2>1. c \in from /\ \A y \in from : c <= y
    BY <1>4
  <2> HIDE DEF c
  <2>2. c <= i /\ i <= c /\ c \in Nat
    BY <1>4, <2>1
  <2>3. c = i
    BY <1>0, <2>2
  <2> QED BY <2>3 DEF c
<1> QED BY <1>2, <1>5

\* What comes after a frame has no part in it.
LEMMA FrameBefore ==
    ASSUME NEW S, NEW s \in Seq(S), NEW b \in S, NEW e \in 1..Len(s)
    PROVE  FrameEndingAt(Append(s, b), e) = FrameEndingAt(s, e)
<1> DEFINE t == Append(s, b)
<1>0. Len(s) \in Nat /\ e \in Nat /\ t \in Seq(S) /\ Len(t) = Len(s) + 1 /\ \A k \in 1..Len(s) : t[k] = s[k]
  BY LenProperties, AppendProperties
<1> HIDE DEF t
<1>1. PICK i \in 1..e : StartsAt(s, e, i)
  BY StartExists
<1>2. StartsAt(t, e, i)
  <2>1. PICK j \in 1..i :
        /\ j = 1 \/ s[j - 1].is = "F7"
        /\ \A k \in j..e - 1 : s[k].is # "F7"
        /\ \A k \in j..i - 1 : s[k].is # "F0"
        /\ s[i].is = "F0" \/ (i = j /\ \A k \in j..e : s[k].is # "F0")
    BY <1>1 DEF StartsAt
  <2>2. \A k \in j..e : k \in 1..Len(s)
    BY <1>0
  <2>3. j # 1 => j - 1 \in 1..Len(s)
    BY <1>0
  <2>4. j = 1 \/ t[j - 1].is = "F7"
    BY <1>0, <2>1, <2>3
  <2>5. (\A k \in j..e - 1 : t[k].is # "F7") /\ (\A k \in j..i - 1 : t[k].is # "F0")
    BY <1>0, <2>1, <2>2
  <2>6. t[i].is = "F0" \/ (i = j /\ \A k \in j..e : t[k].is # "F0")
    BY <1>0, <2>1, <2>2
  <2> QED BY <1>0, <2>4, <2>5, <2>6 DEF StartsAt
<1>3. FrameEndingAt(s, e) = SubSeq(s, i, e)
  BY <1>1, StartIs
<1>4. FrameEndingAt(t, e) = SubSeq(t, i, e)
  <2>1. e \in 1..Len(t)
    BY <1>0
  <2> QED BY <1>0, <1>2, <2>1, StartIs
<1>5. SubSeq(t, i, e) = SubSeq(s, i, e)
  <2>1. t = s \o <<b>> /\ <<b>> \in Seq(S)
    BY AppendIsConcat DEF t
  <2>2. i \in 1..Len(s)
    BY <1>0
  <2> QED BY <2>1, <2>2, SubSeqOfConcat1
<1> QED BY <1>3, <1>4, <1>5 DEF t

\* What comes before an end has no part in the frames after it.
LEMMA FrameAfter ==
    ASSUME NEW S, NEW u \in Seq(S), NEW v \in Seq(S), u = <<>> \/ u[Len(u)].is = "F7", NEW e \in 1..Len(v)
    PROVE  FrameEndingAt(u \o v, Len(u) + e) = FrameEndingAt(v, e)
<1> DEFINE t == u \o v
           n == Len(u)
<1>0. /\ Len(v) \in Nat /\ n \in Nat /\ e \in Nat /\ t \in Seq(S) /\ Len(t) = n + Len(v)
      /\ \A k \in 1..n + Len(v) : t[k] = IF k <= n THEN u[k] ELSE v[k - n]
  BY LenProperties, ConcatProperties
<1> HIDE DEF t
<1>1. PICK i \in 1..e : StartsAt(v, e, i)
  BY StartExists
<1>2. n = 0 \/ u[n].is = "F7"
  BY EmptySeq
<1> HIDE DEF n
<1>3. \A k \in 1..Len(v) : t[n + k] = v[k]
  <2>1. \A k \in 1..Len(v) : n + k \in 1..n + Len(v) /\ ~(n + k <= n) /\ (n + k) - n = k
    BY <1>0
  <2> QED BY <1>0, <2>1
<1>4. StartsAt(t, n + e, n + i)
  <2>1. PICK j \in 1..i :
        /\ j = 1 \/ v[j - 1].is = "F7"
        /\ \A k \in j..e - 1 : v[k].is # "F7"
        /\ \A k \in j..i - 1 : v[k].is # "F0"
        /\ v[i].is = "F0" \/ (i = j /\ \A k \in j..e : v[k].is # "F0")
    BY <1>1 DEF StartsAt
  <2>2. n + j \in 1..n + i /\ n + i <= n + e
    BY <1>0
  <2>3. n + j = 1 \/ t[(n + j) - 1].is = "F7"
    <3>1. CASE j = 1 /\ n = 0
      BY <3>1
    <3>2. CASE j = 1 /\ n # 0
      <4>1. (n + j) - 1 = n /\ n \in 1..n + Len(v) /\ n <= n
        BY <1>0, <3>2
      <4> QED BY <1>0, <1>2, <3>2, <4>1
    <3>3. CASE j # 1
      <4>1. (n + j) - 1 = n + (j - 1) /\ j - 1 \in 1..Len(v)
        BY <1>0, <3>3
      <4> QED BY <1>3, <2>1, <3>3, <4>1
    <3> QED BY <1>0, <3>1, <3>2, <3>3
  <2>4. ASSUME NEW k \in n + j..n + e
        PROVE  /\ k - n \in j..e /\ t[k] = v[k - n]
               /\ k <= (n + e) - 1 => k - n \in j..e - 1
               /\ k <= (n + i) - 1 => k - n \in j..i - 1
    <3>1. k - n \in j..e /\ k - n \in 1..Len(v) /\ n + (k - n) = k
      BY <1>0
    <3>2. t[n + (k - n)] = v[k - n]
      BY <1>3, <3>1
    <3> QED BY <1>0, <3>1, <3>2
  <2>5. \A k \in n + j..(n + e) - 1 : t[k].is # "F7"
    <3>1. \A k \in n + j..(n + e) - 1 : k \in n + j..n + e /\ k <= (n + e) - 1
      BY <1>0
    <3> QED BY <2>1, <2>4, <3>1
  <2>6. \A k \in n + j..(n + i) - 1 : t[k].is # "F0"
    <3>1. \A k \in n + j..(n + i) - 1 : k \in n + j..n + e /\ k <= (n + i) - 1
      BY <1>0
    <3> QED BY <2>1, <2>4, <3>1
  <2>7. t[n + i] = v[i]
    BY <1>0, <1>3
  <2>8. t[n + i].is = "F0" \/ (n + i = n + j /\ \A k \in n + j..n + e : t[k].is # "F0")
    BY <2>1, <2>4, <2>7
  <2> DEFINE l == n + j
             h == n + i
             g == n + e
  <2>9. /\ l \in 1..h /\ h <= g
        /\ l = 1 \/ t[l - 1].is = "F7"
        /\ \A k \in l..g - 1 : t[k].is # "F7"
        /\ \A k \in l..h - 1 : t[k].is # "F0"
        /\ t[h].is = "F0" \/ (h = l /\ \A k \in l..g : t[k].is # "F0")
    BY <2>2, <2>3, <2>5, <2>6, <2>8
  <2> HIDE DEF l, h, g
  <2>10. StartsAt(t, g, h)
    BY <2>9 DEF StartsAt
  <2> QED BY <2>10 DEF g, h
<1>5. FrameEndingAt(v, e) = SubSeq(v, i, e)
  BY <1>1, StartIs
<1>6. FrameEndingAt(t, n + e) = SubSeq(t, n + i, n + e)
  <2>1. n + e \in 1..Len(t) /\ n + i \in 1..n + e
    BY <1>0
  <2> QED BY <1>0, <1>4, <2>1, StartIs
<1>7. SubSeq(t, n + i, n + e) = SubSeq(v, i, e)
  <2>1. n + i \in n + 1..n + Len(v) /\ n + e \in n + 1..n + Len(v) /\ (n + i) - n = i /\ (n + e) - n = e
    BY <1>0
  <2>2. n + i \in Len(u) + 1..Len(u) + Len(v) /\ n + e \in Len(u) + 1..Len(u) + Len(v)
    BY <2>1 DEF n
  <2>3. SubSeq(u \o v, n + i, n + e) = SubSeq(v, (n + i) - Len(u), (n + e) - Len(u))
    BY <2>2, SubSeqOfConcat2
  <2>4. (n + i) - Len(u) = i /\ (n + e) - Len(u) = e
    BY <2>1 DEF n
  <2> QED BY <2>3, <2>4 DEF t
<1> QED BY <1>5, <1>6, <1>7 DEF n, t

-----------------------------------------------------------------------------
(* The frames of a stream, end by end. *)

\* The end that is the n-th of a set.
NthOf(E, n) == CHOOSE e \in E : Cardinality({d \in E : d <= e}) = n

LEMMA FramesOfIs ==
    ASSUME NEW s
    PROVE  FramesOf(s) = [n \in 1..Cardinality(Ends(s)) |-> FrameEndingAt(s, NthOf(Ends(s), n))]
  BY DEF FramesOf, Cardinality, Cardinality, NthOf

LEMMA EndsAre ==
    ASSUME NEW S, NEW s \in Seq(S)
    PROVE  Ends(s) \subseteq 1..Len(s) /\ IsFiniteSet(Ends(s)) /\ Cardinality(Ends(s)) \in Nat
<1>1. Len(s) \in Nat /\ Ends(s) \subseteq 1..Len(s)
  BY LenProperties DEF Ends
<1>2. IsFiniteSet(1..Len(s))
  BY <1>1, FS_Interval
<1> QED BY <1>1, <1>2, FS_Subset, FS_CardinalityType

LEMMA EndsAppend ==
    ASSUME NEW S, NEW s \in Seq(S), NEW b \in S
    PROVE  Ends(Append(s, b)) = IF b.is = "F7" THEN Ends(s) \cup {Len(s) + 1} ELSE Ends(s)
<1> DEFINE t == Append(s, b)
           n == Len(s)
<1>1. /\ n \in Nat /\ DOMAIN s = 1..n /\ t[n + 1] = b /\ \A k \in 1..n : t[k] = s[k]
      /\ t \in Seq(S) /\ Len(t) = n + 1
  BY LenProperties, AppendProperties
<1>2. DOMAIN t = 1..n + 1
  BY <1>1, LenProperties
<1> HIDE DEF t, n
<1>3. \A k : k \in 1..n + 1 <=> k \in 1..n \/ k = n + 1
  BY <1>1
<1>4. n + 1 \notin 1..n
  BY <1>1
<1>5. Ends(t) = {k \in 1..n + 1 : t[k].is = "F7"} /\ Ends(s) = {k \in 1..n : s[k].is = "F7"}
  BY <1>1, <1>2 DEF Ends
<1>6. Ends(t) = IF b.is = "F7" THEN Ends(s) \cup {n + 1} ELSE Ends(s)
  BY <1>1, <1>3, <1>4, <1>5
<1> QED BY <1>6 DEF t, n

\* A number after all others is the last of the set, and leaves the others where they are.
LEMMA NthBelow ==
    ASSUME NEW n \in Nat, NEW E, E \subseteq 1..n
    PROVE  /\ Cardinality(E) \in Nat /\ Cardinality(E \cup {n + 1}) = Cardinality(E) + 1
           /\ \A m \in 1..Cardinality(E) : NthOf(E \cup {n + 1}, m) = NthOf(E, m)
           /\ NthOf(E \cup {n + 1}, Cardinality(E) + 1) = n + 1
<1> DEFINE H == E \cup {n + 1}
           c == Cardinality(E)
           rank(D, e) == Cardinality({d \in D : d <= e})
<1>1. n + 1 \notin E
  OBVIOUS
<1>2. IsFiniteSet(E) /\ c \in Nat /\ Cardinality(H) = c + 1
  <2>1. IsFiniteSet(1..n)
    BY FS_Interval
  <2>2. IsFiniteSet(E) /\ c \in Nat
    BY <2>1, FS_Subset, FS_CardinalityType
  <2> QED BY <1>1, <2>2, FS_AddElement
<1>3. ASSUME NEW e \in E PROVE rank(H, e) = rank(E, e) /\ rank(E, e) <= c
  <2>1. {d \in H : d <= e} = {d \in E : d <= e}
    OBVIOUS
  <2>2. {d \in E : d <= e} \in SUBSET E
    OBVIOUS
  <2> QED BY <1>2, <2>1, <2>2, FS_Subset
<1>4. rank(H, n + 1) = c + 1
  <2>1. \A d \in H : d <= n + 1
    OBVIOUS
  <2>2. {d \in H : d <= n + 1} = H
    <3> HIDE DEF H
    <3> QED BY <2>1
  <2> QED BY <1>2, <2>2
<1> HIDE DEF rank, c
<1>5. ASSUME NEW m \in 1..c PROVE NthOf(H, m) = NthOf(E, m)
  <2>1. \A e : (e \in H /\ rank(H, e) = m) <=> (e \in E /\ rank(E, e) = m)
    <3>1. c + 1 # m
      BY <1>2
    <3> QED BY <1>3, <1>4, <3>1
  <2>2. (CHOOSE e : e \in H /\ rank(H, e) = m) = (CHOOSE e : e \in E /\ rank(E, e) = m)
    BY <2>1
  <2> QED BY <2>2 DEF NthOf, rank
<1>6. NthOf(H, c + 1) = n + 1
  <2>1. \A e \in H : rank(H, e) = c + 1 <=> e = n + 1
    <3>1. \A e \in E : rank(H, e) # c + 1
      <4>1. ASSUME NEW e \in E PROVE rank(H, e) # c + 1
        <5>1. rank(H, e) = rank(E, e) /\ rank(E, e) <= c
          BY <1>3
        <5>2. ~(c + 1 <= c)
          BY <1>2
        <5> QED BY <5>1, <5>2
      <4> QED BY <4>1
    <3>2. \A e \in H : e \in E \/ e = n + 1
      OBVIOUS
    <3> HIDE DEF H
    <3> QED BY <1>4, <3>1, <3>2
  <2>2. n + 1 \in H
    OBVIOUS
  <2> HIDE DEF H
  <2>3. (CHOOSE e \in H : rank(H, e) = c + 1) = n + 1
    BY <2>1, <2>2
  <2> QED BY <2>3 DEF NthOf, rank
<1> QED BY <1>2, <1>5, <1>6 DEF c

\* There is an end of each rank.
LEMMA NthIn ==
    ASSUME NEW S
    PROVE  \A s \in Seq(S) : \A n \in 1..Cardinality(Ends(s)) : NthOf(Ends(s), n) \in Ends(s)
<1> DEFINE T == {s \in Seq(S) : \A n \in 1..Cardinality(Ends(s)) : NthOf(Ends(s), n) \in Ends(s)}
<1>1. <<>> \in T
  <2>1. Ends(<<>>) = {}
    BY DEF Ends
  <2>2. Cardinality({}) = 0 /\ 1..0 = {}
    BY FS_EmptySet
  <2> QED BY <2>1, <2>2, EmptySeq
<1>2. ASSUME NEW s \in Seq(S), NEW b \in S, s \in T PROVE Append(s, b) \in T
  <2> DEFINE E == Ends(s)
             H == Ends(Append(s, b))
  <2>1. Append(s, b) \in Seq(S)
    BY AppendProperties
  <2>2. E \subseteq 1..Len(s) /\ Len(s) \in Nat
    BY EndsAre, LenProperties
  <2>3. \A n \in 1..Cardinality(E) : NthOf(E, n) \in E
    BY <1>2
  <2>4. H = IF b.is = "F7" THEN E \cup {Len(s) + 1} ELSE E
    BY EndsAppend
  <2> HIDE DEF E, H
  <2>5. CASE b.is = "F7"
    <3>1. /\ Cardinality(E) \in Nat /\ Cardinality(H) = Cardinality(E) + 1
          /\ \A m \in 1..Cardinality(E) : NthOf(H, m) = NthOf(E, m)
          /\ NthOf(H, Cardinality(E) + 1) = Len(s) + 1
      BY <2>2, <2>4, <2>5, NthBelow
    <3>2. \A m \in 1..Cardinality(H) : m \in 1..Cardinality(E) \/ m = Cardinality(E) + 1
      BY <3>1
    <3>3. \A m \in 1..Cardinality(H) : NthOf(H, m) \in H
      BY <2>3, <2>4, <2>5, <3>1, <3>2
    <3> QED BY <2>1, <3>3 DEF H
  <2>6. CASE b.is # "F7"
    <3>1. H = E
      BY <2>4, <2>6
    <3> QED BY <2>1, <2>3, <3>1 DEF H
  <2> QED BY <2>5, <2>6
<1> HIDE DEF T
<1>3. \A s \in Seq(S) : s \in T
  BY <1>1, <1>2, SequencesGrow
<1> QED BY <1>3 DEF T

\* A frame is a sequence of the bytes.
LEMMA FrameType ==
    ASSUME NEW S, NEW s \in Seq(S), NEW e \in 1..Len(s)
    PROVE  FrameEndingAt(s, e) \in Seq(S)
<1>1. PICK i \in 1..e : StartsAt(s, e, i)
  BY StartExists
<1>2. Len(s) \in Nat /\ i \in Int /\ e \in Int
  BY LenProperties
<1>3. \A k \in i..e : s[k] \in S
  <2>1. \A k \in i..e : k \in 1..Len(s)
    BY <1>2
  <2> QED BY <2>1, ElementOfSeq
<1>4. SubSeq(s, i, e) \in Seq(S)
  BY <1>2, <1>3, SubSeqProperties
<1> QED BY <1>1, <1>4, StartIs

LEMMA FramesType ==
    ASSUME NEW S, NEW s \in Seq(S)
    PROVE  FramesOf(s) \in Seq(Seq(S)) /\ Len(FramesOf(s)) = Cardinality(Ends(s))
<1> DEFINE c == Cardinality(Ends(s))
           f(n) == FrameEndingAt(s, NthOf(Ends(s), n))
<1>1. c \in Nat /\ Ends(s) \subseteq 1..Len(s)
  BY EndsAre
<1>2. \A n \in 1..c : NthOf(Ends(s), n) \in 1..Len(s)
  BY <1>1, NthIn
<1>3. \A n \in 1..c : f(n) \in Seq(S)
  BY <1>2, FrameType
<1>4. FramesOf(s) = [n \in 1..c |-> f(n)]
  BY FramesOfIs
<1> HIDE DEF f, c
<1>5. [n \in 1..c |-> f(n)] \in Seq(Seq(S))
  BY <1>1, <1>3, IsASeq
<1>6. FramesOf(s) \in Seq(Seq(S)) /\ DOMAIN FramesOf(s) = 1..c
  BY <1>4, <1>5
<1>7. Len(FramesOf(s)) = c
  BY <1>1, <1>6, LenProperties
<1> QED BY <1>6, <1>7 DEF c

\* A stream without an end has no frames.
LEMMA NoFrames ==
    ASSUME NEW s, Ends(s) = {}
    PROVE  FramesOf(s) = <<>>
<1>1. Cardinality({}) = 0 /\ 1..0 = {}
  BY FS_EmptySet
<1> QED BY <1>1, FramesOfIs

\* An end adds the frame that it ends, any other byte none.
LEMMA FramesAppend ==
    ASSUME NEW S, NEW s \in Seq(S), NEW b \in S
    PROVE  FramesOf(Append(s, b)) =
              IF b.is = "F7" THEN Append(FramesOf(s), FrameEndingAt(Append(s, b), Len(s) + 1))
              ELSE FramesOf(s)
<1> DEFINE t == Append(s, b)
           E == Ends(s)
           H == Ends(t)
           c == Cardinality(E)
           fs == FramesOf(s)
           ft == FramesOf(t)
           last == FrameEndingAt(t, Len(s) + 1)
<1>1. t \in Seq(S) /\ Len(s) \in Nat /\ Len(t) = Len(s) + 1 /\ Len(s) + 1 \in 1..Len(s) + 1
  BY AppendProperties, LenProperties
<1>2. E \subseteq 1..Len(s) /\ c \in Nat
  BY EndsAre
<1>3. H = IF b.is = "F7" THEN E \cup {Len(s) + 1} ELSE E
  BY EndsAppend
<1>4. /\ fs \in Seq(Seq(S)) /\ Len(fs) = c /\ DOMAIN fs = 1..c
      /\ ft \in Seq(Seq(S)) /\ Len(ft) = Cardinality(H) /\ DOMAIN ft = 1..Cardinality(H)
  <2>1. fs \in Seq(Seq(S)) /\ Len(fs) = c
    BY FramesType
  <2>2. ft \in Seq(Seq(S)) /\ Len(ft) = Cardinality(H)
    BY <1>1, FramesType
  <2> HIDE DEF fs, ft, H, c
  <2> QED BY <2>1, <2>2, LenProperties
<1>5. last \in Seq(S)
  BY <1>1, FrameType
<1>6. /\ \A n \in 1..c : fs[n] = FrameEndingAt(s, NthOf(E, n))
      /\ \A n \in 1..Cardinality(H) : ft[n] = FrameEndingAt(t, NthOf(H, n))
  BY FramesOfIs
<1>7. \A n \in 1..c : fs[n] = FrameEndingAt(t, NthOf(E, n))
  <2>1. \A n \in 1..c : NthOf(E, n) \in 1..Len(s)
    BY <1>2, NthIn
  <2>2. \A e \in 1..Len(s) : FrameEndingAt(t, e) = FrameEndingAt(s, e)
    BY FrameBefore
  <2> QED BY <1>6, <2>1, <2>2
<1> HIDE DEF E, H, fs, ft, c
<1>8. CASE b.is = "F7"
  <2> DEFINE g == Append(fs, last)
  <2>1. /\ Cardinality(H) = c + 1
        /\ \A m \in 1..c : NthOf(H, m) = NthOf(E, m)
        /\ NthOf(H, c + 1) = Len(s) + 1
    BY <1>1, <1>2, <1>3, <1>8, NthBelow DEF c
  <2>2. g \in Seq(Seq(S)) /\ Len(g) = c + 1 /\ (\A n \in 1..c : g[n] = fs[n]) /\ g[c + 1] = last
    <3> HIDE DEF last
    <3> QED BY <1>4, <1>5, AppendProperties
  <2> HIDE DEF g, t
  <2>3. \A n \in 1..c + 1 : ft[n] = g[n]
    <3>1. \A n \in 1..c + 1 : n \in 1..c \/ n = c + 1
      BY <1>2
    <3>2. c + 1 \in 1..Cardinality(H) /\ \A n \in 1..c : n \in 1..Cardinality(H)
      BY <1>2, <2>1
    <3>3. \A n \in 1..c : ft[n] = g[n]
      BY <1>6, <1>7, <2>1, <2>2, <3>2
    <3>4. ft[c + 1] = g[c + 1]
      BY <1>6, <2>1, <2>2, <3>2
    <3> QED BY <3>1, <3>3, <3>4
  <2>4. ft = g
    BY <1>4, <2>1, <2>2, <2>3, SeqEqual
  <2> QED BY <1>8, <2>4 DEF g, fs, ft, t
<1>9. CASE b.is # "F7"
  <2>1. H = E
    BY <1>3, <1>9
  <2>2. ft = fs
    <3>1. Len(ft) = Len(fs) /\ \A n \in 1..Len(ft) : ft[n] = fs[n]
      BY <1>4, <1>6, <1>7, <2>1 DEF c
    <3> QED BY <1>4, <3>1, SeqEqual
  <2> QED BY <1>9, <2>2 DEF fs, ft
<1> QED BY <1>8, <1>9

-----------------------------------------------------------------------------
(* Frames taken from the buffer are those of the stream. *)

\* The frames of a stream that goes on after an end are those before it and those after it.
LEMMA FramesConcat ==
    ASSUME NEW S, NEW u \in Seq(S), u = <<>> \/ u[Len(u)].is = "F7"
    PROVE  \A v \in Seq(S) : FramesOf(u \o v) = FramesOf(u) \o FramesOf(v)
<1> DEFINE T == {v \in Seq(S) : FramesOf(u \o v) = FramesOf(u) \o FramesOf(v)}
<1>1. <<>> \in T
  <2>1. Ends(<<>>) = {}
    BY DEF Ends
  <2>2. FramesOf(<<>>) = <<>> /\ FramesOf(u) \in Seq(Seq(S))
    BY <2>1, NoFrames, FramesType
  <2> QED BY <2>2, ConcatEmptySeq, EmptySeq
<1>2. ASSUME NEW v \in Seq(S), NEW b \in S, v \in T PROVE Append(v, b) \in T
  <2> DEFINE w == u \o v
             f == FramesOf(u)
             g == FramesOf(v)
             t == Append(v, b)
             last == FrameEndingAt(t, Len(v) + 1)
  <2>1. w \in Seq(S) /\ t \in Seq(S) /\ Len(w) = Len(u) + Len(v) /\ Len(t) = Len(v) + 1
    BY ConcatProperties, AppendProperties
  <2>2. Len(u) \in Nat /\ Len(v) \in Nat
    BY LenProperties
  <2>3. FramesOf(w) = f \o g /\ u \o t = Append(w, b)
    BY <1>2, AppendLast
  <2>4. f \in Seq(Seq(S)) /\ g \in Seq(Seq(S))
    BY FramesType
  <2>5. FramesOf(t) = IF b.is = "F7" THEN Append(g, last) ELSE g
    BY FramesAppend
  <2>6. FramesOf(Append(w, b)) =
           IF b.is = "F7" THEN Append(f \o g, FrameEndingAt(Append(w, b), Len(w) + 1)) ELSE f \o g
    BY <2>1, <2>3, FramesAppend
  <2>7. FrameEndingAt(u \o t, Len(u) + Len(t)) = FrameEndingAt(t, Len(t))
    <3>1. Len(t) \in 1..Len(t)
      BY <2>1, <2>2
    <3> QED BY <2>1, <3>1, FrameAfter
  <2>8. Len(w) + 1 = Len(u) + Len(t)
    BY <2>1, <2>2
  <2>9. FrameEndingAt(Append(w, b), Len(w) + 1) = last
    BY <2>1, <2>3, <2>7, <2>8
  <2>10. last \in Seq(S)
    <3>1. Len(v) + 1 \in 1..Len(t)
      BY <2>1, <2>2
    <3> QED BY <2>1, <3>1, FrameType
  <2> HIDE DEF f, g, last, t, w
  <2>11. Append(f \o g, last) = f \o Append(g, last)
    BY <2>4, <2>10, AppendLast
  <2>12. FramesOf(u \o t) = f \o FramesOf(t)
    BY <2>3, <2>5, <2>6, <2>9, <2>11
  <2> QED BY <2>1, <2>12 DEF t, f
<1> HIDE DEF T
<1>3. \A v \in Seq(S) : v \in T
  BY <1>1, <1>2, SequencesGrow
<1> QED BY <1>3 DEF T

\* Bytes up to the first end are one frame: what is cut out of them.
LEMMA OneFrame ==
    ASSUME NEW S, NEW s \in Seq(S), Ends(s) = {}, NEW b \in S, b.is = "F7"
    PROVE  FramesOf(Append(s, b)) = <<FromStart(Append(s, b))>>
<1> DEFINE t == Append(s, b)
           e == Len(s) + 1
           first == FirstFrom(t, 1, "F0")
           i == IF first = 0 THEN 1 ELSE first
<1>1. /\ Len(s) \in Nat /\ DOMAIN s = 1..Len(s) /\ t \in Seq(S) /\ Len(t) = e
      /\ (\A k \in 1..Len(s) : t[k] = s[k]) /\ t[e] = b
  BY LenProperties, AppendProperties
<1> HIDE DEF t
<1>2. \/ first = 0 /\ \A k \in 1..Len(t) : t[k].is # "F0"
      \/ first \in 1..Len(t) /\ t[first].is = "F0" /\ \A k \in 1..first - 1 : t[k].is # "F0"
  <2>1. 1 \in 1..Len(t) + 1
    BY <1>1
  <2> QED BY <1>1, <2>1, FirstIs
<1> HIDE DEF first
<1>3. FromStart(t) = SubSeq(t, i, e)
  <2>1. FromStart(t) = SubSeq(t, CHOOSE x \in {1, first} : \A y \in {1, first} : x >= y, e)
    BY <1>1 DEF FromStart, Max, first
  <2>2. first \in Nat
    BY <1>1, <1>2
  <2> DEFINE m == CHOOSE x \in {1, first} : \A y \in {1, first} : x >= y
  <2>3. i \in {1, first} /\ \A y \in {1, first} : i >= y
    BY <2>2
  <2>4. m \in {1, first} /\ \A y \in {1, first} : m >= y
    BY <2>3
  <2> HIDE DEF m, i
  <2>5. m >= i /\ i >= m /\ m \in Nat /\ i \in Nat
    BY <2>2, <2>3, <2>4
  <2>6. m = i
    BY <2>5
  <2> QED BY <2>1, <2>6 DEF m
<1>4. i \in 1..e
  BY <1>1, <1>2
<1>5. StartsAt(t, e, i)
  <2>1. \A k \in 1..e - 1 : t[k].is # "F7"
    <3>1. \A k \in 1..Len(s) : s[k].is # "F7"
      BY <1>1 DEF Ends
    <3>2. \A k \in 1..e - 1 : k \in 1..Len(s)
      BY <1>1
    <3> QED BY <1>1, <3>1, <3>2
  <2>2. (\A k \in 1..i - 1 : t[k].is # "F0") /\ (t[i].is = "F0" \/ (i = 1 /\ \A k \in 1..e : t[k].is # "F0"))
    BY <1>1, <1>2
  <2>3. 1 \in 1..i /\ i <= e
    BY <1>1, <1>4
  <2> HIDE DEF i, e
  <2> QED BY <2>1, <2>2, <2>3 DEF StartsAt
<1>6. FrameEndingAt(t, e) = FromStart(t)
  <2>1. e \in 1..Len(t)
    BY <1>1
  <2> HIDE DEF i, e
  <2> QED BY <1>1, <1>3, <1>4, <1>5, <2>1, StartIs
<1>7. FramesOf(t) = Append(<<>>, FrameEndingAt(t, e))
  BY FramesAppend, NoFrames DEF t
<1> QED BY <1>6, <1>7 DEF t

\* _extract_complete_frames takes the frames of its buffer.
LEMMA ExtractedIs ==
    ASSUME NEW S, NEW s \in Seq(S)
    PROVE  Extracted(s) = FramesOf(s)
<1> DEFINE n == Len(s)
           rest(c) == SubSeq(s, c, n)
           end(c) == FirstFrom(s, c, "F7")
           Step(h, c) == IF end(c) = 0 THEN <<>>
                         ELSE <<FromStart(SubSeq(s, c, end(c)))>> \o h[end(c) + 1]
           g == [c \in 1..n + 1 |-> FramesOf(rest(c))]
           k == CHOOSE h : h = [c \in 1..n + 1 |-> Step(h, c)]
<1>0. n \in Nat
  BY LenProperties
<1>1. Extracted(s) = k[1]
  BY DEF Extracted
<1>2. \A c \in 1..n + 1 : \/ end(c) = 0 /\ \A i \in c..n : s[i].is # "F7"
                          \/ end(c) \in c..n /\ s[end(c)].is = "F7" /\ \A i \in c..end(c) - 1 : s[i].is # "F7"
  BY FirstIs
<1> HIDE DEF end, n
<1>3. ASSUME NEW a \in 1..n + 1, NEW b \in a - 1..n
      PROVE  /\ SubSeq(s, a, b) \in Seq(S) /\ Len(SubSeq(s, a, b)) = b - a + 1
             /\ \A i \in 1..b - a + 1 : SubSeq(s, a, b)[i] = s[a + i - 1] /\ a + i - 1 \in a..b
  BY PartIs DEF n
<1>4. ASSUME NEW c \in 1..n + 1 PROVE g[c] = Step(g, c)
  <2>1. /\ rest(c) \in Seq(S) /\ Len(rest(c)) = n - c + 1
        /\ \A i \in 1..n - c + 1 : rest(c)[i] = s[c + i - 1] /\ c + i - 1 \in c..n
    <3>1. n \in c - 1..n
      BY <1>0
    <3> QED BY <1>3, <3>1
  <2>2. CASE end(c) = 0
    <3>1. \A i \in c..n : s[i].is # "F7"
      BY <1>2, <1>0, <2>2
    <3> DEFINE r == rest(c)
    <3>2. DOMAIN r = 1..n - c + 1
      <4> HIDE DEF r
      <4> QED BY <2>1, LenProperties DEF r
    <3> HIDE DEF r
    <3>3. Ends(r) = {}
      BY <2>1, <3>1, <3>2 DEF Ends, r
    <3>4. FramesOf(r) = <<>>
      BY <3>3, NoFrames
    <3> QED BY <2>2, <3>4 DEF r
  <2>3. CASE end(c) # 0
    <3> DEFINE e == end(c)
               head == SubSeq(s, c, e)
               t == SubSeq(s, c, e - 1)
    <3>1. e \in c..n /\ s[e].is = "F7" /\ \A i \in c..e - 1 : s[i].is # "F7"
      BY <1>2, <2>3
    <3> HIDE DEF e
    <3>2. e \in 1..n /\ c \in 1..n /\ e \in c..n /\ e + 1 \in 1..n + 1 /\ e - 1 \in c - 1..n /\ e \in c - 1..n
      BY <1>0, <3>1
    <3>3. s[e] \in S
      BY <3>2, ElementOfSeq DEF n
    <3>4. t \in Seq(S) /\ DOMAIN t = 1..(e - 1) - c + 1
          /\ \A i \in 1..(e - 1) - c + 1 : t[i] = s[c + i - 1] /\ c + i - 1 \in c..e - 1
      <4>1. t \in Seq(S) /\ Len(t) = (e - 1) - c + 1
            /\ \A i \in 1..(e - 1) - c + 1 : t[i] = s[c + i - 1] /\ c + i - 1 \in c..e - 1
        BY <1>3, <3>2
      <4> HIDE DEF t
      <4> QED BY <4>1, LenProperties
    <3>5. head = Append(t, s[e])
      <4>1. head = t \o <<s[e]>>
        BY <3>2, SubSeqRecursiveSecond DEF n
      <4> HIDE DEF t, head
      <4> QED BY <3>3, <3>4, <4>1, AppendIsConcat
    <3>6. Ends(t) = {}
      <4> HIDE DEF t
      <4> QED BY <3>1, <3>4 DEF Ends
    <3>7. FramesOf(head) = <<FromStart(head)>>
      <4> HIDE DEF t, head
      <4> QED BY <3>1, <3>3, <3>4, <3>5, <3>6, OneFrame
    <3>8. head \in Seq(S) /\ head[Len(head)].is = "F7"
      <4> HIDE DEF t, head
      <4> QED BY <3>1, <3>3, <3>4, <3>5, AppendProperties
    <3>9. head \o rest(e + 1) = rest(c)
      <4>1. c \in 1..n + 1 /\ e \in c - 1..n /\ n \in e..n
        BY <1>0, <3>2
      <4> QED BY <4>1, ConcatAdjacentSubSeq DEF n
    <3>10. rest(e + 1) \in Seq(S)
      <4>1. n \in (e + 1) - 1..n
        BY <1>0, <3>2
      <4> QED BY <1>3, <3>2, <4>1
    <3> DEFINE r == rest(e + 1)
    <3> HIDE DEF head, rest
    <3>11. FramesOf(head \o rest(e + 1)) = FramesOf(head) \o FramesOf(rest(e + 1))
      BY <3>8, <3>10, FramesConcat
    <3>12. g[c] = <<FromStart(head)>> \o g[e + 1]
      BY <3>2, <3>7, <3>9, <3>11
    <3> QED BY <2>3, <3>12 DEF e, head
  <2> QED BY <2>2, <2>3
<1> HIDE DEF Step
<1>5. g = [c \in 1..n + 1 |-> Step(g, c)]
  <2>1. g = [c \in 1..n + 1 |-> g[c]]
    OBVIOUS
  <2> HIDE DEF g
  <2> QED BY <1>4, <2>1
<1> HIDE DEF g
<1>6. k = [c \in 1..n + 1 |-> Step(k, c)]
  BY <1>5
<1> HIDE DEF k
<1>7. \A c \in 1..n + 1 : k[c] = Step(k, c)
  BY <1>6
<1>8. \A c \in 1..n + 1 : k[c] = g[c]
  <2> DEFINE Bad == {c \in 1..n + 1 : k[c] # g[c]}
  <2> SUFFICES ASSUME Bad # {} PROVE FALSE
    OBVIOUS
  <2>1. Bad \subseteq 1..n + 1 /\ n + 1 \in Nat
    BY <1>0
  <2> HIDE DEF Bad
  <2>2. PICK c \in Bad : \A d \in Bad : c >= d
    BY <2>1, Largest
  <2>3. c \in 1..n + 1
    BY <2>1
  <2>4. CASE end(c) = 0
    <3>1. Step(k, c) = Step(g, c)
      BY <2>4 DEF Step
    <3> QED BY <1>4, <1>7, <2>3, <3>1 DEF Bad
  <2>5. CASE end(c) # 0
    <3>1. end(c) \in c..n
      BY <1>2, <2>3, <2>5
    <3>2. end(c) + 1 \in 1..n + 1 /\ ~(c >= end(c) + 1)
      BY <1>0, <2>3, <3>1
    <3>3. end(c) + 1 \notin Bad
      BY <2>2, <3>2
    <3>4. k[end(c) + 1] = g[end(c) + 1]
      BY <3>2, <3>3 DEF Bad
    <3>5. Step(k, c) = Step(g, c)
      BY <2>5, <3>4 DEF Step
    <3> QED BY <1>4, <1>7, <2>3, <3>5 DEF Bad
  <2> QED BY <2>4, <2>5
<1>9. 1 \in 1..n + 1 /\ g[1] = FramesOf(SubSeq(s, 1, n))
  <2>1. 1 \in 1..n + 1
    BY <1>0
  <2> QED BY <2>1 DEF g
<1>10. SubSeq(s, 1, n) = s
  BY SubSeqFull DEF n
<1> QED BY <1>1, <1>8, <1>9, <1>10

Octet == [is : {"F0", "address", "value", "F7"} \cup Kinds, of : Nat]

\* What is buffered is what was received after the last end, and the frames taken are
\* those of all that was received.
StreamInv ==
    /\ sent \in Nat
    /\ line \in Seq(Octet)
    /\ received \in Seq(Octet)
    /\ rx = Remainder(received)
    /\ frames = FramesOf(received)

LEMMA BytesAre ==
    ASSUME NEW kind \in Kinds, NEW n \in Nat
    PROVE  /\ Bytes(kind, n) \in Seq(Octet) /\ Len(Bytes(kind, n)) = 5
           /\ \A i \in 1..5 : Bytes(kind, n)[i].of = n
           /\ Bytes(kind, n)[5].is = "F7" /\ Bytes(kind, n)[1].is = "F0"
           /\ \A i \in 1..4 : Bytes(kind, n)[i].is # "F7"
  BY DEF Bytes, Byte, Kinds, Octet

\* What follows what was received is divided like what follows the remainder.
LEMMA GoesOn ==
    ASSUME NEW S, NEW s \in Seq(S), NEW c \in Seq(S)
    PROVE  /\ Remainder(s) \o c \in Seq(S)
           /\ Remainder(s \o c) = Remainder(Remainder(s) \o c)
           /\ FramesOf(s \o c) = FramesOf(s) \o Extracted(Remainder(s) \o c)
<1> DEFINE m == LastEnd(s)
           u == SubSeq(s, 1, m)
           r == Remainder(s)
           v == r \o c
           w == s \o c
<1>1. /\ m \in 0..Len(s) /\ Len(u) = m /\ u \in Seq(S) /\ r \in Seq(S) /\ u \o r = s
      /\ Ends(r) = {} /\ (u = <<>> \/ u[Len(u)].is = "F7")
  BY RemainderIs
<1> HIDE DEF m, u, r
<1>2. v \in Seq(S) /\ w \in Seq(S) /\ w = u \o v
  <2>1. v \in Seq(S) /\ w \in Seq(S)
    BY <1>1, ConcatProperties
  <2>2. (u \o r) \o c = u \o (r \o c)
    <3>1. u \in Seq(S) /\ r \in Seq(S)
      BY <1>1
    <3> QED BY <3>1, ConcatAssociative
  <2> QED BY <1>1, <2>1, <2>2
<1>3. FramesOf(w) = FramesOf(u) \o FramesOf(v) /\ FramesOf(s) = FramesOf(u) \o FramesOf(r)
  BY <1>1, <1>2, FramesConcat
<1>4. FramesOf(s) = FramesOf(u)
  <2>1. FramesOf(r) = <<>> /\ FramesOf(u) \in Seq(Seq(S))
    BY <1>1, NoFrames, FramesType
  <2> QED BY <1>3, <2>1, ConcatEmptySeq
<1>5. Extracted(v) = FramesOf(v)
  BY <1>2, ExtractedIs
<1>6. Remainder(w) = Remainder(v)
  <2> DEFINE p == LastEnd(w)
             q == LastEnd(v)
  <2>1. \/ p = 0 /\ Ends(w) = {}
        \/ p \in 1..Len(w) /\ w[p].is = "F7" /\ \A k \in p + 1..Len(w) : w[k].is # "F7"
    BY <1>2, LastEndIs
  <2>2. \/ q = 0 /\ Ends(v) = {}
        \/ q \in 1..Len(v) /\ v[q].is = "F7" /\ \A k \in q + 1..Len(v) : v[k].is # "F7"
    BY <1>2, LastEndIs
  <2>3. /\ Len(v) \in Nat /\ m \in Nat /\ Len(w) = m + Len(v) /\ DOMAIN v = 1..Len(v) /\ DOMAIN w = 1..Len(w)
        /\ \A k \in 1..m + Len(v) : w[k] = IF k <= m THEN u[k] ELSE v[k - m]
    <3>1. Len(v) \in Nat /\ Len(s) \in Nat /\ DOMAIN v = 1..Len(v) /\ DOMAIN w = 1..Len(w)
      BY <1>2, LenProperties
    <3> HIDE DEF v, w
    <3>2. /\ Len(u \o v) = Len(u) + Len(v)
          /\ \A k \in 1..Len(u) + Len(v) : (u \o v)[k] = IF k <= Len(u) THEN u[k] ELSE v[k - Len(u)]
      BY <1>1, <1>2, ConcatProperties
    <3>3. m \in Nat
      BY <1>1, <3>1
    <3> QED BY <1>1, <1>2, <3>1, <3>2, <3>3
  <2> HIDE DEF p, q, v, w
  <2>4. \A k \in 1..Len(v) : w[m + k] = v[k]
    <3>1. \A k \in 1..Len(v) : m + k \in 1..m + Len(v) /\ ~(m + k <= m) /\ (m + k) - m = k
      BY <2>3
    <3> QED BY <2>3, <3>1
  <2>5. p = m + q
    <3>1. CASE q # 0
      <4>1. q \in 1..Len(v) /\ v[q].is = "F7" /\ \A k \in q + 1..Len(v) : v[k].is # "F7"
        BY <2>2, <3>1
      <4>2. m + q \in 1..Len(w) /\ w[m + q].is = "F7"
        BY <2>3, <2>4, <4>1
      <4>3. m + q \in Ends(w)
        BY <2>3, <4>2 DEF Ends
      <4>4. p \in 1..Len(w) /\ w[p].is = "F7" /\ ~(m + q \in p + 1..Len(w))
        BY <2>1, <4>2, <4>3
      <4>5. ~(p > m + q)
        <5> SUFFICES ASSUME p > m + q PROVE FALSE
          OBVIOUS
        <5>1. p - m \in q + 1..Len(v) /\ m + (p - m) = p /\ p - m \in 1..Len(v)
          BY <2>3, <4>1, <4>4
        <5>2. w[p] = v[p - m]
          BY <2>4, <5>1
        <5> QED BY <4>1, <4>4, <5>1, <5>2
      <4> QED BY <2>3, <4>1, <4>2, <4>4, <4>5
    <3>2. CASE q = 0
      <4>1. \A k \in 1..Len(v) : v[k].is # "F7"
        BY <2>2, <2>3, <3>2 DEF Ends
      <4>2. ASSUME NEW k \in m + 1..Len(w) PROVE w[k].is # "F7"
        <5>1. k - m \in 1..Len(v) /\ m + (k - m) = k
          BY <2>3
        <5>2. w[k] = v[k - m]
          BY <2>4, <5>1
        <5> QED BY <4>1, <5>1, <5>2
      <4>3. CASE m = 0
        <5>1. p = 0
          BY <2>1, <2>3, <4>2, <4>3
        <5> QED BY <3>2, <4>3, <5>1
      <4>4. CASE m # 0
        <5>1. u # <<>> /\ u[m].is = "F7"
          BY <1>1, <4>4, EmptySeq
        <5>2. m \in 1..Len(w) /\ w[m] = u[m]
          BY <2>3, <4>4
        <5>3. m \in Ends(w)
          BY <2>3, <5>1, <5>2 DEF Ends
        <5>4. p \in 1..Len(w) /\ w[p].is = "F7" /\ ~(m \in p + 1..Len(w))
          BY <2>1, <5>1, <5>2, <5>3
        <5>5. ~(p \in m + 1..Len(w))
          BY <4>2, <5>4
        <5> QED BY <2>3, <3>2, <5>2, <5>4, <5>5
      <4> QED BY <4>3, <4>4
    <3> QED BY <3>1, <3>2
  <2>6. SubSeq(w, p + 1, Len(w)) = SubSeq(v, q + 1, Len(v))
    <3>1. q \in 0..Len(v)
      BY <2>2, <2>3
    <3>2. CASE q = Len(v)
      <4>1. Len(w) < p + 1 /\ Len(v) < q + 1 /\ Len(w) \in Int /\ Len(v) \in Int /\ p + 1 \in Int /\ q + 1 \in Int
        BY <2>3, <2>5, <3>2
      <4> QED BY <4>1, SubSeqEmpty
    <3>3. CASE q # Len(v)
      <4>1. \A a, b, d \in Nat : d < b => /\ (a + d) + 1 \in a + 1..a + b /\ a + b \in a + 1..a + b
                                         /\ ((a + d) + 1) - a = d + 1 /\ (a + b) - a = b
        OBVIOUS
      <4>2. q \in Nat /\ q < Len(v)
        <5>1. Len(v) \in Nat
          BY <2>3
        <5> QED BY <3>1, <3>3, <5>1
      <4>3. /\ p + 1 \in m + 1..m + Len(v) /\ Len(w) \in m + 1..m + Len(v)
            /\ (p + 1) - m = q + 1 /\ Len(w) - m = Len(v)
        BY <2>3, <2>5, <4>1, <4>2
      <4>4. SubSeq(u \o v, p + 1, Len(w)) = SubSeq(v, (p + 1) - m, Len(w) - m)
        <5>1. u \in Seq(S) /\ v \in Seq(S)
          BY <1>1, <1>2
        <5>2. p + 1 \in Len(u) + 1..Len(u) + Len(v) /\ Len(w) \in Len(u) + 1..Len(u) + Len(v)
          BY <1>1, <4>3
        <5>3. SubSeq(u \o v, p + 1, Len(w)) = SubSeq(v, (p + 1) - Len(u), Len(w) - Len(u))
          BY <5>1, <5>2, SubSeqOfConcat2
        <5> QED BY <1>1, <5>3
      <4> QED BY <1>2, <4>3, <4>4
    <3> QED BY <3>2, <3>3
  <2> QED BY <2>6 DEF Remainder, p, q
<1> QED BY <1>2, <1>3, <1>4, <1>5, <1>6 DEF r

LEMMA StreamRead ==
    ASSUME StreamInv, NEW k \in 0..Len(line), Read(k)
    PROVE  (line \in Seq(Octet) /\ received \in Seq(Octet) /\ rx = Remainder(received)
              /\ frames = FramesOf(received))'
<1> DEFINE chunk == SubSeq(line, 1, k)
<1>1. line \in Seq(Octet) /\ received \in Seq(Octet) /\ rx = Remainder(received) /\ Len(line) \in Nat
  BY LenProperties DEF StreamInv
<1>2. chunk \in Seq(Octet) /\ SubSeq(line, k + 1, Len(line)) \in Seq(Octet)
  <2>1. 1 \in 1..Len(line) + 1 /\ k \in 1 - 1..Len(line)
    BY <1>1
  <2>2. k + 1 \in 1..Len(line) + 1 /\ Len(line) \in (k + 1) - 1..Len(line)
    BY <1>1
  <2> QED BY <1>1, <2>1, <2>2, PartIs
<1> HIDE DEF chunk
<1>3. /\ line' = SubSeq(line, k + 1, Len(line)) /\ rx' = Remainder(rx \o chunk)
      /\ received' = received \o chunk /\ frames' = frames \o Extracted(rx \o chunk)
  BY DEF Read, Frames, chunk
<1>4. received' \in Seq(Octet)
  BY <1>1, <1>2, <1>3, ConcatProperties
<1>5. rx' = Remainder(received')
  BY <1>1, <1>2, <1>3, GoesOn
<1>6. frames' = FramesOf(received')
  BY <1>1, <1>2, <1>3, GoesOn DEF StreamInv
<1> QED BY <1>2, <1>3, <1>4, <1>5, <1>6

\* A connection on which nothing was received.
LEMMA EmptyStream == Remainder(<<>>) = <<>> /\ FramesOf(<<>>) = <<>>
<1> DEFINE s == <<>>
<1>1. s \in Seq(Octet) /\ Len(s) = 0
  BY EmptySeq
<1>2. Ends(s) = {}
  BY DEF Ends
<1> HIDE DEF s
<1>3. 1..Len(s) = {}
  BY <1>1
<1>4. LastEnd(s) = 0
  BY <1>1, <1>3, LastEndIs
<1>5. Remainder(s) = SubSeq(s, 1, 0)
  BY <1>1, <1>4 DEF Remainder
<1>6. SubSeq(s, 1, 0) = <<>>
  BY SubSeqEmpty
<1> QED BY <1>2, <1>5, <1>6, NoFrames DEF s

LEMMA StreamInit == FramingInit => StreamInv
  BY EmptyStream, EmptySeq DEF FramingInit, StreamInv

LEMMA StreamNext == StreamInv /\ [FramingNext]_framingVars => StreamInv'
<1> SUFFICES ASSUME StreamInv, [FramingNext]_framingVars PROVE StreamInv'
  OBVIOUS
<1>0. /\ sent \in Nat /\ line \in Seq(Octet) /\ received \in Seq(Octet) /\ Len(line) \in Nat
      /\ rx = Remainder(received) /\ frames = FramesOf(received)
  BY LenProperties DEF StreamInv
<1>1. ASSUME NEW kind \in Kinds, Transmit(kind) PROVE StreamInv'
  <2>1. sent' \in Nat /\ line' = line \o Bytes(kind, sent')
    BY <1>0, <1>1 DEF Transmit
  <2>2. line' \in Seq(Octet)
    BY <1>0, <2>1, BytesAre, ConcatProperties
  <2> QED BY <1>0, <1>1, <2>1, <2>2 DEF Transmit, history, StreamInv
<1>2. ASSUME NEW i \in DOMAIN line, NEW j \in DOMAIN line, i <= j, Overrun(i, j) PROVE StreamInv'
  <2>1. i \in 1..Len(line) /\ j \in 1..Len(line)
    BY <1>0, LenProperties
  <2>2. SubSeq(line, 1, i - 1) \in Seq(Octet) /\ SubSeq(line, j + 1, Len(line)) \in Seq(Octet)
    <3>1. 1 \in 1..Len(line) + 1 /\ i - 1 \in 1 - 1..Len(line)
      BY <1>0, <2>1
    <3>2. j + 1 \in 1..Len(line) + 1 /\ Len(line) \in (j + 1) - 1..Len(line)
      BY <1>0, <2>1
    <3> QED BY <1>0, <3>1, <3>2, PartIs
  <2>3. line' \in Seq(Octet)
    BY <1>2, <2>2, ConcatProperties DEF Overrun
  <2> QED BY <1>0, <1>2, <2>3 DEF Overrun, history, StreamInv
<1>3. ASSUME NEW k \in 0..Len(line), Cut(k) PROVE StreamInv'
  <2>1. SubSeq(line, k + 1, Len(line)) \in Seq(Octet)
    <3>1. k + 1 \in 1..Len(line) + 1 /\ Len(line) \in (k + 1) - 1..Len(line)
      BY <1>0
    <3> QED BY <1>0, <3>1, PartIs
  <2>2. received' = <<>> /\ rx' = <<>> /\ frames' = <<>> /\ sent' = sent /\ line' = SubSeq(line, k + 1, Len(line))
    BY <1>3 DEF Cut, Renewed
  <2>3. Remainder(<<>>) = <<>> /\ FramesOf(<<>>) = <<>>
    BY EmptyStream
  <2> QED BY <1>0, <2>1, <2>2, <2>3, EmptySeq DEF StreamInv
<1>4. ASSUME NEW k \in 0..Len(line), Listen(k) \/ ReadAnswer(k) \/ ReadAny(k) PROVE StreamInv'
  <2>1. Read(k) /\ sent' = sent
    BY <1>4 DEF Listen, ReadAnswer, ReadAny, bounds
  <2>2. (line \in Seq(Octet) /\ received \in Seq(Octet) /\ rx = Remainder(received)
           /\ frames = FramesOf(received))'
    BY <2>1, StreamRead
  <2> QED BY <1>0, <2>1, <2>2 DEF StreamInv
<1>5. CASE Ask \/ StopAsking \/ UNCHANGED framingVars
  BY <1>0, <1>5 DEF Ask, StopAsking, framingVars, history, bounds, StreamInv
<1> QED BY <1>1, <1>2, <1>3, <1>4, <1>5 DEF FramingNext, Line, Connector

\* Each end of a stream ends one of its frames.
LEMMA EndsGiveFrames ==
    ASSUME NEW S
    PROVE  \A s \in Seq(S) : \A e \in Ends(s) : FrameEndingAt(s, e) \in ToSet(FramesOf(s))
<1> DEFINE T == {s \in Seq(S) : \A e \in Ends(s) : FrameEndingAt(s, e) \in ToSet(FramesOf(s))}
<1>1. <<>> \in T
  BY EmptySeq DEF Ends
<1>2. ASSUME NEW s \in Seq(S), NEW b \in S, s \in T PROVE Append(s, b) \in T
  <2> DEFINE t == Append(s, b)
             fs == FramesOf(s)
             ft == FramesOf(t)
             last == FrameEndingAt(t, Len(s) + 1)
  <2>1. /\ t \in Seq(S) /\ Ends(s) \subseteq 1..Len(s)
        /\ Ends(t) = IF b.is = "F7" THEN Ends(s) \cup {Len(s) + 1} ELSE Ends(s)
    BY AppendProperties, EndsAre, EndsAppend
  <2>2. \A e \in Ends(s) : FrameEndingAt(s, e) \in ToSet(fs) /\ FrameEndingAt(t, e) = FrameEndingAt(s, e)
    BY <1>2, <2>1, FrameBefore
  <2>3. ft = IF b.is = "F7" THEN Append(fs, last) ELSE fs
    BY FramesAppend
  <2>4. fs \in Seq(Seq(S)) /\ last \in Seq(S)
    <3>1. Len(s) + 1 \in 1..Len(t)
      BY LenProperties, AppendProperties
    <3> QED BY <2>1, <3>1, FramesType, FrameType
  <2> HIDE DEF t, fs, ft, last
  <2>5. ToSet(Append(fs, last)) = ToSet(fs) \cup {last}
    <3> DEFINE g == Append(fs, last)
    <3>1. /\ DOMAIN fs = 1..Len(fs) /\ Len(fs) \in Nat /\ DOMAIN g = 1..Len(fs) + 1
          /\ (\A k \in 1..Len(fs) : g[k] = fs[k]) /\ g[Len(fs) + 1] = last
      <4>1. g \in Seq(Seq(S)) /\ Len(g) = Len(fs) + 1 /\ (\A k \in 1..Len(fs) : g[k] = fs[k]) /\ g[Len(fs) + 1] = last
        BY <2>4, AppendProperties
      <4> HIDE DEF g
      <4> QED BY <2>4, <4>1, LenProperties
    <3> HIDE DEF g
    <3>2. \A k : k \in 1..Len(fs) + 1 <=> k \in 1..Len(fs) \/ k = Len(fs) + 1
      BY <3>1
    <3>3. ToSet(g) = {g[k] : k \in 1..Len(fs) + 1} /\ ToSet(fs) = {fs[k] : k \in 1..Len(fs)}
      BY <3>1 DEF ToSet
    <3>4. ToSet(g) = ToSet(fs) \cup {last}
      BY <3>1, <3>2, <3>3
    <3> QED BY <3>4 DEF g
  <2>6. \A e \in Ends(t) : FrameEndingAt(t, e) \in ToSet(ft)
    BY <2>1, <2>2, <2>3, <2>5 DEF last
  <2> QED BY <2>1, <2>6 DEF t, ft
<1> HIDE DEF T
<1>3. \A s \in Seq(S) : s \in T
  BY <1>1, <1>2, SequencesGrow
<1> QED BY <1>3 DEF T

\* A frame between two ends, without an F0 before it, is one of the frames of the stream.
LEMMA IntactIsFrame ==
    ASSUME NEW S, NEW s \in Seq(S), NEW i \in 1..Len(s), NEW w \in Seq(S),
           Len(w) = 5, w[1].is = "F0", w[5].is = "F7", \A k \in 1..4 : w[k].is # "F7",
           IsPrefix(w, SubSeq(s, i, Len(s))),
           FirstFrom(SubSeq(s, 1, i - 1), LastEnd(SubSeq(s, 1, i - 1)) + 1, "F0") = 0
    PROVE  w \in ToSet(FramesOf(s))
<1> DEFINE before == SubSeq(s, 1, i - 1)
           tail == SubSeq(s, i, Len(s))
           e == i + 4
           n == LastEnd(before)
<1>0. Len(s) \in Nat /\ i \in Nat /\ Len(s) = (Len(s) - 1) + 1
  BY LenProperties
<1>1. before \in Seq(S) /\ Len(before) = i - 1 /\ \A k \in 1..i - 1 : before[k] = s[k]
  <2>1. 1 \in 1..Len(s) + 1 /\ i - 1 \in 1 - 1..Len(s)
    BY <1>0
  <2>2. /\ before \in Seq(S) /\ Len(before) = (i - 1) - 1 + 1
        /\ \A k \in 1..(i - 1) - 1 + 1 : before[k] = s[1 + k - 1]
    BY <2>1, PartIs
  <2>3. (i - 1) - 1 + 1 = i - 1 /\ \A k \in 1..i - 1 : 1 + k - 1 = k
    BY <1>0
  <2> QED BY <2>2, <2>3
<1>2. tail \in Seq(S) /\ Len(tail) = Len(s) - i + 1 /\ \A k \in 1..Len(s) - i + 1 : tail[k] = s[i + k - 1]
  <2>1. i \in 1..Len(s) + 1 /\ Len(s) \in i - 1..Len(s)
    BY <1>0
  <2> QED BY <2>1, PartIs
<1>3. 5 <= Len(tail) /\ SubSeq(w, 1, 5) = SubSeq(tail, 1, 5)
  BY DEF IsPrefix
<1>4. e \in 1..Len(s) /\ e \in Nat
  BY <1>0, <1>2, <1>3
<1>5. \A k \in 1..5 : w[k] = s[i + k - 1]
  <2>1. SubSeq(w, 1, 5) = w
    BY SubSeqFull
  <2>2. 1 \in 1..Len(tail) + 1 /\ 5 \in 1 - 1..Len(tail)
    BY <1>0, <1>2, <1>3
  <2> HIDE DEF tail
  <2>3. \A k \in 1..5 - 1 + 1 : SubSeq(tail, 1, 5)[k] = tail[1 + k - 1]
    BY <1>2, <2>2, PartIs
  <2>4. \A k \in 1..5 : 1 + k - 1 = k /\ k \in 1..5 - 1 + 1 /\ k \in 1..Len(s) - i + 1
    BY <1>2, <1>3
  <2> QED BY <1>2, <1>3, <2>1, <2>3, <2>4
<1>6. /\ n \in 0..i - 1
      /\ n = 0 \/ s[n].is = "F7"
      /\ \A k \in n + 1..i - 1 : s[k].is # "F7" /\ s[k].is # "F0"
  <2>1. \/ n = 0 /\ Ends(before) = {}
        \/ n \in 1..Len(before) /\ before[n].is = "F7" /\ \A k \in n + 1..Len(before) : before[k].is # "F7"
    BY <1>1, LastEndIs
  <2> HIDE DEF before, n
  <2>2. n \in 0..i - 1
    BY <1>0, <1>1, <2>1
  <2>3. \A k \in n + 1..i - 1 : before[k].is # "F7"
    <3>1. CASE n = 0 /\ Ends(before) = {}
      <4>1. DOMAIN before = 1..i - 1
        BY <1>1, LenProperties
      <4>2. \A k \in 1..i - 1 : before[k].is # "F7"
        BY <3>1, <4>1 DEF Ends
      <4>3. n + 1 = 1
        BY <3>1
      <4> QED BY <4>2, <4>3
    <3>2. CASE \A k \in n + 1..Len(before) : before[k].is # "F7"
      BY <1>1, <3>2
    <3> QED BY <2>1, <3>1, <3>2
  <2>4. \A k \in n + 1..i - 1 : before[k].is # "F0"
    <3>1. n + 1 \in 1..Len(before) + 1
      BY <1>0, <1>1, <2>2
    <3>2. FirstFrom(before, n + 1, "F0") = 0
      BY DEF before, n
    <3>3. \/ \A k \in n + 1..Len(before) : before[k].is # "F0"
          \/ FirstFrom(before, n + 1, "F0") \in n + 1..Len(before)
      BY <1>1, <3>1, FirstIs
    <3> QED BY <1>0, <1>1, <2>2, <3>2, <3>3
  <2>5. \A k \in n + 1..i - 1 : k \in 1..i - 1
    BY <1>0, <2>2
  <2>6. n # 0 => n \in 1..i - 1
    BY <1>0, <2>2
  <2> QED BY <1>1, <2>1, <2>2, <2>3, <2>4, <2>5, <2>6
<1>7. StartsAt(s, e, i)
  <2> DEFINE j == n + 1
  <2>1. j \in 1..i /\ i <= e /\ (j = 1 \/ s[j - 1].is = "F7")
    <3> HIDE DEF n, before
    <3>1. n \in Nat /\ j - 1 = n
      BY <1>0, <1>6
    <3> QED BY <1>0, <1>6, <3>1
  <2>2. \A k \in j..e - 1 : s[k].is # "F7"
    <3> HIDE DEF n, before
    <3>1. ASSUME NEW k \in j..e - 1 PROVE s[k].is # "F7"
      <4>1. CASE k <= i - 1
        <5>1. k \in n + 1..i - 1
          BY <1>0, <1>6, <4>1
        <5> QED BY <1>6, <5>1
      <4>2. CASE ~(k <= i - 1)
        <5>1. k - i + 1 \in 1..4 /\ k - i + 1 \in 1..5 /\ i + (k - i + 1) - 1 = k
          BY <1>0, <1>4, <1>6, <4>2
        <5>2. w[k - i + 1] = s[k]
          BY <1>5, <5>1
        <5> QED BY <5>1, <5>2
      <4> QED BY <4>1, <4>2
    <3> QED BY <3>1
  <2>3. \A k \in j..i - 1 : s[k].is # "F0"
    BY <1>6
  <2>4. s[i].is = "F0"
    <3>1. w[1] = s[i + 1 - 1] /\ i + 1 - 1 = i
      BY <1>0, <1>5
    <3> QED BY <3>1
  <2> HIDE DEF j, e
  <2> QED BY <2>1, <2>2, <2>3, <2>4 DEF StartsAt
<1>8. FrameEndingAt(s, e) = w
  <2>1. SubSeq(s, i, e) = w
    <3>1. i \in 1..Len(s) + 1 /\ e \in i - 1..Len(s)
      BY <1>0, <1>4
    <3>2. /\ SubSeq(s, i, e) \in Seq(S) /\ Len(SubSeq(s, i, e)) = e - i + 1
          /\ \A k \in 1..e - i + 1 : SubSeq(s, i, e)[k] = s[i + k - 1]
      BY <3>1, PartIs
    <3>3. e - i + 1 = 5
      BY <1>0
    <3> DEFINE part == SubSeq(s, i, e)
    <3>4. part \in Seq(S) /\ Len(part) = 5 /\ \A k \in 1..5 : part[k] = s[i + k - 1]
      BY <3>2, <3>3
    <3> HIDE DEF part
    <3>5. \A k \in 1..5 : part[k] = w[k]
      BY <1>5, <3>4
    <3>6. part = w
      BY <3>4, <3>5, SeqEqual
    <3> QED BY <3>6 DEF part
  <2>2. i \in 1..e
    BY <1>0
  <2> HIDE DEF e
  <2> QED BY <1>4, <1>7, <2>1, <2>2, StartIs
<1>9. e \in Ends(s)
  <2>1. w[5] = s[i + 5 - 1] /\ i + 5 - 1 = e
    BY <1>0, <1>5
  <2>2. DOMAIN s = 1..Len(s)
    BY LenProperties
  <2> HIDE DEF e
  <2> QED BY <1>4, <2>1, <2>2 DEF Ends
<1> HIDE DEF e
<1> QED BY <1>8, <1>9, EndsGiveFrames

\* What a connection carries is understood, for any number of frames, lost bytes and lost
\* connections, and any division into reads (_extract_complete_frames, _read_available_locked).
THEOREM StreamUnderstood == FramingSpec => []StreamIsUnderstood
<1>1. FramingInit => StreamInv
  BY StreamInit
<1>2. StreamInv /\ [FramingNext]_framingVars => StreamInv'
  BY StreamNext
<1>3. StreamInv => StreamIsUnderstood
  <2> SUFFICES ASSUME StreamInv PROVE StreamIsUnderstood
    OBVIOUS
  <2>1. received \in Seq(Octet) /\ rx = Remainder(received) /\ frames = FramesOf(received)
    BY DEF StreamInv
  <2>2. LastEnd(rx) = 0
    <3>1. rx \in Seq(Octet) /\ Ends(rx) = {}
      BY <2>1, RemainderIs
    <3>2. DOMAIN rx = 1..Len(rx)
      BY <3>1, LenProperties
    <3> QED BY <3>1, <3>2, LastEndIs DEF Ends
  <2>3. IntactFramesKept
    <3> SUFFICES ASSUME NEW i \in DOMAIN received, NEW kind \in Kinds,
                        IsPrefix(Bytes(kind, received[i].of), SubSeq(received, i, Len(received))),
                        FirstFrom(SubSeq(received, 1, i - 1), LastEnd(SubSeq(received, 1, i - 1)) + 1, "F0") = 0
                 PROVE  Bytes(kind, received[i].of) \in ToSet(frames)
      BY DEF IntactFramesKept
    <3>1. i \in 1..Len(received)
      BY <2>1, LenProperties
    <3>2. received[i].of \in Nat
      <4>1. received[i] \in Octet
        BY <2>1, <3>1, ElementOfSeq
      <4> QED BY <4>1 DEF Octet
    <3> DEFINE w == Bytes(kind, received[i].of)
    <3>3. /\ w \in Seq(Octet) /\ Len(w) = 5 /\ w[5].is = "F7" /\ w[1].is = "F0"
          /\ \A k \in 1..4 : w[k].is # "F7"
      BY <3>2, BytesAre
    <3> HIDE DEF w
    <3>4. w \in ToSet(FramesOf(received))
      BY <2>1, <3>1, <3>3, IntactIsFrame DEF w
    <3> QED BY <2>1, <3>4 DEF w
  <2> QED BY <2>1, <2>2, <2>3 DEF StreamIsUnderstood, FramesWhateverTheReads
<1> QED BY <1>1, <1>2, <1>3, PTL DEF FramingSpec

-----------------------------------------------------------------------------
(* Bytes of undamaged frames stay together. *)

\* The byte that a frame sends after this one.
Follows(b, c) ==
    /\ c.of = b.of
    /\ <<b.is, c.is>> \in {<<"F0", "address">>, <<"address", "info">>, <<"address", "notice">>,
                           <<"info", "value">>, <<"notice", "value">>, <<"value", "F7">>}

\* Each byte of a frame that is not damaged is followed by the next one of its frame.
Flows(s, d) ==
    \A p \in 1..Len(s) :
        s[p].of \notin d /\ s[p].is # "F7" => p + 1 \in 1..Len(s) /\ Follows(s[p], s[p + 1])

FlowInv == Flows(received \o line, damaged)

LEMMA FlowsBytes ==
    ASSUME NEW kind \in Kinds, NEW n, NEW d
    PROVE  Flows(Bytes(kind, n), d)
<1> DEFINE w == Bytes(kind, n)
<1>1. /\ Len(w) = 5 /\ \A p \in 1..5 : w[p].of = n
      /\ w[1].is = "F0" /\ w[2].is = "address" /\ w[3].is = kind /\ w[4].is = "value" /\ w[5].is = "F7"
  BY DEF Bytes, Byte
<1>2. kind = "info" \/ kind = "notice"
  BY DEF Kinds
<1> HIDE DEF w
<1>3. ASSUME NEW p \in 1..4 PROVE Follows(w[p], w[p + 1])
  <2>1. p = 1 \/ p = 2 \/ p = 3 \/ p = 4
    OBVIOUS
  <2>2. Follows(w[1], w[2]) /\ Follows(w[2], w[3]) /\ Follows(w[3], w[4]) /\ Follows(w[4], w[5])
    BY <1>1, <1>2 DEF Follows
  <2> QED BY <2>1, <2>2
<1>4. \A p \in 1..5 : w[p].is # "F7" => p \in 1..4 /\ p + 1 \in 1..5
  <2>1. \A p \in 1..5 : p = 5 \/ (p \in 1..4 /\ p + 1 \in 1..5)
    OBVIOUS
  <2> QED BY <1>1, <2>1
<1>5. Flows(w, d)
  BY <1>1, <1>3, <1>4 DEF Flows
<1> QED BY <1>5 DEF w

LEMMA FlowsConcat ==
    ASSUME NEW S, NEW s \in Seq(S), NEW t \in Seq(S), NEW d, Flows(s, d), Flows(t, d)
    PROVE  Flows(s \o t, d)
<1> DEFINE w == s \o t
           n == Len(s)
<1>1. /\ n \in Nat /\ Len(t) \in Nat /\ Len(w) = n + Len(t)
      /\ \A p \in 1..n + Len(t) : w[p] = IF p <= n THEN s[p] ELSE t[p - n]
  BY ConcatProperties, LenProperties
<1> HIDE DEF w
<1>2. ASSUME NEW p \in 1..n + Len(t), w[p].of \notin d, w[p].is # "F7"
      PROVE  p + 1 \in 1..n + Len(t) /\ Follows(w[p], w[p + 1])
  <2>1. CASE p <= n
    <3>1. p \in 1..n /\ w[p] = s[p]
      BY <1>1, <2>1
    <3>2. p + 1 \in 1..n /\ Follows(s[p], s[p + 1])
      BY <1>2, <3>1 DEF Flows
    <3>3. p + 1 \in 1..n + Len(t) /\ p + 1 <= n
      BY <1>1, <3>2
    <3>4. w[p + 1] = s[p + 1]
      BY <1>1, <3>3
    <3> QED BY <3>1, <3>2, <3>3, <3>4
  <2>2. CASE ~(p <= n)
    <3>1. p - n \in 1..Len(t) /\ w[p] = t[p - n]
      BY <1>1, <2>2
    <3>2. (p - n) + 1 \in 1..Len(t) /\ Follows(t[p - n], t[(p - n) + 1])
      BY <1>2, <3>1 DEF Flows
    <3>3. p + 1 \in 1..n + Len(t) /\ ~(p + 1 <= n) /\ (p + 1) - n = (p - n) + 1
      BY <1>1, <2>2, <3>2
    <3>4. w[p + 1] = t[(p - n) + 1]
      BY <1>1, <3>3
    <3> QED BY <3>1, <3>2, <3>3, <3>4
  <2> QED BY <2>1, <2>2
<1>3. Flows(w, d)
  BY <1>1, <1>2 DEF Flows
<1> QED BY <1>3 DEF w

LEMMA FlowsAfter ==
    ASSUME NEW S, NEW s \in Seq(S), NEW t \in Seq(S), NEW d, Flows(s \o t, d)
    PROVE  Flows(t, d)
<1> DEFINE w == s \o t
           n == Len(s)
<1>1. /\ n \in Nat /\ Len(t) \in Nat /\ Len(w) = n + Len(t)
      /\ \A p \in 1..n + Len(t) : w[p] = IF p <= n THEN s[p] ELSE t[p - n]
  BY ConcatProperties, LenProperties
<1>2. Flows(w, d)
  OBVIOUS
<1> HIDE DEF w
<1>3. \A p \in 1..Len(t) : n + p \in 1..n + Len(t) /\ w[n + p] = t[p]
  <2>1. \A p \in 1..Len(t) : n + p \in 1..n + Len(t) /\ ~(n + p <= n) /\ (n + p) - n = p
    BY <1>1
  <2> QED BY <1>1, <2>1
<1>4. ASSUME NEW p \in 1..Len(t), t[p].of \notin d, t[p].is # "F7"
      PROVE  p + 1 \in 1..Len(t) /\ Follows(t[p], t[p + 1])
  <2>1. (n + p) + 1 \in 1..n + Len(t) /\ Follows(w[n + p], w[(n + p) + 1])
    BY <1>1, <1>2, <1>3, <1>4 DEF Flows
  <2>2. p + 1 \in 1..Len(t) /\ (n + p) + 1 = n + (p + 1)
    BY <1>1, <2>1
  <2> QED BY <1>3, <2>1, <2>2
<1> QED BY <1>4 DEF Flows

\* A lost run of bytes.
LEMMA FlowsWithout ==
    ASSUME NEW S, NEW u \in Seq(S), NEW s \in Seq(S), NEW d, Flows(u \o s, d),
           NEW i \in 1..Len(s), NEW j \in i..Len(s)
    PROVE  Flows(u \o (SubSeq(s, 1, i - 1) \o SubSeq(s, j + 1, Len(s))), d \cup {s[k].of : k \in i..j})
<1> DEFINE w == u \o s
           n == Len(u)
           a == SubSeq(s, 1, i - 1)
           b == SubSeq(s, j + 1, Len(s))
           x == u \o (a \o b)
           m == n + (i - 1)
           lost == (j - i) + 1
           h == d \cup {s[k].of : k \in i..j}
<1>0. n \in Nat /\ Len(s) \in Nat /\ i \in Nat /\ j \in Nat /\ i <= j /\ j <= Len(s) /\ i >= 1
  BY LenProperties
<1>1. /\ Len(w) = n + Len(s)
      /\ \A p \in 1..n + Len(s) : w[p] = IF p <= n THEN u[p] ELSE s[p - n]
  BY ConcatProperties
<1>2. a \in Seq(S) /\ Len(a) = i - 1 /\ \A k \in 1..i - 1 : a[k] = s[k]
  <2>1. 1 \in 1..Len(s) + 1 /\ i - 1 \in 1 - 1..Len(s)
    BY <1>0
  <2>2. a \in Seq(S) /\ Len(a) = (i - 1) - 1 + 1 /\ \A k \in 1..(i - 1) - 1 + 1 : a[k] = s[1 + k - 1]
    BY <2>1, PartIs
  <2>3. (i - 1) - 1 + 1 = i - 1 /\ \A k \in 1..i - 1 : 1 + k - 1 = k
    BY <1>0
  <2> HIDE DEF a
  <2> QED BY <2>2, <2>3
<1>3. b \in Seq(S) /\ Len(b) = Len(s) - j /\ \A k \in 1..Len(s) - j : b[k] = s[j + k]
  <2>1. j + 1 \in 1..Len(s) + 1 /\ Len(s) \in (j + 1) - 1..Len(s)
    BY <1>0
  <2>2. b \in Seq(S) /\ Len(b) = Len(s) - (j + 1) + 1 /\ \A k \in 1..Len(s) - (j + 1) + 1 : b[k] = s[j + 1 + k - 1]
    BY <2>1, PartIs
  <2>3. Len(s) - (j + 1) + 1 = Len(s) - j /\ \A k \in 1..Len(s) - j : j + 1 + k - 1 = j + k
    BY <1>0
  <2> HIDE DEF b
  <2> QED BY <2>2, <2>3
<1>4. Flows(w, d)
  OBVIOUS
<1> HIDE DEF w, a, b
\* The stream without the lost bytes: the first m bytes, then the rest moved forward.
<1>5. /\ Len(x) = (n + Len(s)) - lost
      /\ \A p \in 1..(n + Len(s)) - lost : x[p] = IF p <= m THEN w[p] ELSE w[p + lost]
  <2> DEFINE c == a \o b
  <2>1. c \in Seq(S) /\ Len(c) = (i - 1) + (Len(s) - j)
        /\ \A p \in 1..(i - 1) + (Len(s) - j) : c[p] = IF p <= i - 1 THEN a[p] ELSE b[p - (i - 1)]
    BY <1>2, <1>3, ConcatProperties
  <2> HIDE DEF c
  <2>2. Len(x) = n + Len(c) /\ \A p \in 1..n + Len(c) : x[p] = IF p <= n THEN u[p] ELSE c[p - n]
    BY <2>1, ConcatProperties DEF c
  <2>3. n + Len(c) = (n + Len(s)) - lost
    BY <1>0, <2>1
  <2> HIDE DEF x
  <2>4. ASSUME NEW p \in 1..(n + Len(s)) - lost PROVE x[p] = IF p <= m THEN w[p] ELSE w[p + lost]
    <3>1. p \in Nat /\ p \in 1..n + Len(c) /\ p >= 1 /\ p <= (n + Len(s)) - lost
      BY <1>0, <2>3
    <3>2. CASE p <= n
      <4>1. p <= m /\ p \in 1..n + Len(s)
        BY <1>0, <3>1, <3>2
      <4> QED BY <1>1, <2>2, <3>1, <3>2, <4>1
    <3>3. CASE ~(p <= n) /\ p <= m
      <4>1. x[p] = c[p - n]
        BY <2>2, <3>1, <3>3
      <4>2. p - n \in 1..(i - 1) + (Len(s) - j) /\ p - n <= i - 1 /\ p - n \in 1..i - 1
        BY <1>0, <3>1, <3>3
      <4>3. c[p - n] = s[p - n]
        BY <1>2, <2>1, <4>2
      <4>4. p \in 1..n + Len(s)
        BY <1>0, <3>1
      <4> QED BY <1>1, <3>3, <4>1, <4>3, <4>4
    <3>4. CASE ~(p <= m)
      <4>1. ~(p <= n)
        BY <1>0, <3>1, <3>4
      <4>2. x[p] = c[p - n]
        BY <2>2, <3>1, <4>1
      <4>3. /\ p - n \in 1..(i - 1) + (Len(s) - j) /\ ~(p - n <= i - 1)
            /\ (p - n) - (i - 1) \in 1..Len(s) - j
        BY <1>0, <3>1, <3>4
      <4>4. c[p - n] = s[j + ((p - n) - (i - 1))]
        BY <1>3, <2>1, <4>3
      <4>5. /\ p + lost \in 1..n + Len(s) /\ ~(p + lost <= n)
            /\ (p + lost) - n = j + ((p - n) - (i - 1))
        BY <1>0, <3>1, <3>4
      <4>6. w[p + lost] = s[(p + lost) - n]
        BY <1>1, <4>5
      <4> QED BY <3>4, <4>2, <4>4, <4>5, <4>6
    <3> QED BY <3>2, <3>3, <3>4
  <2> QED BY <2>2, <2>3, <2>4
<1> HIDE DEF x
<1>6. m \in Nat /\ lost \in Nat /\ lost >= 1 /\ m + lost <= n + Len(s) /\ m + lost = n + j
  BY <1>0
\* What follows the first m bytes was lost.
<1>7. m + 1 \in 1..n + Len(s) /\ w[m + 1].of \in h
  <2>1. m + 1 \in 1..n + Len(s) /\ ~(m + 1 <= n) /\ (m + 1) - n = i /\ i \in i..j
    BY <1>0
  <2> QED BY <1>1, <2>1
<1> HIDE DEF m, lost, h
<1>8. ASSUME NEW p \in 1..(n + Len(s)) - lost, x[p].of \notin h, x[p].is # "F7"
      PROVE  p + 1 \in 1..(n + Len(s)) - lost /\ Follows(x[p], x[p + 1])
  <2>0. \A y : y \notin h => y \notin d
    BY DEF h
  <2>1. CASE p <= m
    <3>1. x[p] = w[p] /\ p \in 1..Len(w)
      BY <1>0, <1>1, <1>5, <1>6, <2>1
    <3>2. Follows(w[p], w[p + 1]) /\ p + 1 \in 1..Len(w)
      BY <1>4, <1>8, <2>0, <3>1 DEF Flows
    <3>3. p # m
      <4>1. w[p + 1].of = w[p].of
        BY <3>2 DEF Follows
      <4> QED BY <1>7, <1>8, <3>1, <4>1
    <3>4. p + 1 <= m /\ p + 1 \in 1..(n + Len(s)) - lost
      BY <1>0, <1>6, <2>1, <3>3
    <3>5. x[p + 1] = w[p + 1]
      BY <1>5, <3>4
    <3> QED BY <3>1, <3>2, <3>4, <3>5
  <2>2. CASE ~(p <= m)
    <3>1. x[p] = w[p + lost] /\ p + lost \in 1..Len(w)
      BY <1>0, <1>1, <1>5, <1>6, <2>2
    <3>2. Follows(w[p + lost], w[(p + lost) + 1]) /\ (p + lost) + 1 \in 1..Len(w)
      BY <1>4, <1>8, <2>0, <3>1 DEF Flows
    <3>3. /\ ~(p + 1 <= m) /\ p + 1 \in 1..(n + Len(s)) - lost
          /\ (p + 1) + lost = (p + lost) + 1
      BY <1>0, <1>1, <1>6, <2>2, <3>2
    <3>4. x[p + 1] = w[(p + lost) + 1]
      BY <1>5, <3>3
    <3> QED BY <3>1, <3>2, <3>3, <3>4
  <2> QED BY <2>1, <2>2
<1>9. Flows(x, h)
  BY <1>5, <1>8 DEF Flows
<1> QED BY <1>9 DEF x, h, a, b

LEMMA FlowInit == FramingInit => FlowInv
<1> SUFFICES ASSUME FramingInit PROVE FlowInv
  OBVIOUS
<1>1. received = <<>> /\ line = <<>>
  BY DEF FramingInit
<1>2. received \o line = <<>>
  BY <1>1, ConcatEmptySeq, EmptySeq
<1> QED BY <1>2 DEF FlowInv, Flows

LEMMA FlowNext == StreamInv /\ FlowInv /\ [FramingNext]_framingVars => FlowInv'
<1> SUFFICES ASSUME StreamInv, FlowInv, [FramingNext]_framingVars PROVE FlowInv'
  OBVIOUS
<1>0. line \in Seq(Octet) /\ received \in Seq(Octet) /\ Len(line) \in Nat /\ sent \in Nat
  BY LenProperties DEF StreamInv
<1>1. ASSUME NEW kind \in Kinds, Transmit(kind) PROVE FlowInv'
  <2>1. sent' \in Nat /\ line' = line \o Bytes(kind, sent') /\ received' = received /\ damaged' = damaged
    BY <1>0, <1>1 DEF Transmit, history
  <2>2. Bytes(kind, sent') \in Seq(Octet)
    BY <2>1, BytesAre
  <2>3. Flows(Bytes(kind, sent'), damaged)
    BY FlowsBytes
  <2>4. Flows((received \o line) \o Bytes(kind, sent'), damaged)
    <3>1. received \o line \in Seq(Octet)
      BY <1>0, ConcatProperties
    <3> QED BY <2>2, <2>3, <3>1, FlowsConcat DEF FlowInv
  <2>5. (received \o line) \o Bytes(kind, sent') = received \o line'
    BY <1>0, <2>1, <2>2, ConcatAssociative
  <2> QED BY <2>1, <2>4, <2>5 DEF FlowInv
<1>2. ASSUME NEW i \in DOMAIN line, NEW j \in DOMAIN line, i <= j, Overrun(i, j) PROVE FlowInv'
  <2>1. i \in 1..Len(line) /\ j \in i..Len(line)
    BY <1>0, <1>2, LenProperties
  <2>2. /\ received' = received /\ damaged' = damaged \cup {line[k].of : k \in i..j}
        /\ line' = SubSeq(line, 1, i - 1) \o SubSeq(line, j + 1, Len(line))
    BY <1>2 DEF Overrun, history
  <2>3. Flows(received \o (SubSeq(line, 1, i - 1) \o SubSeq(line, j + 1, Len(line))),
              damaged \cup {line[k].of : k \in i..j})
    BY <1>0, <2>1, FlowsWithout DEF FlowInv
  <2> QED BY <2>2, <2>3 DEF FlowInv
<1>3. ASSUME NEW k \in 0..Len(line) PROVE /\ SubSeq(line, 1, k) \in Seq(Octet)
                                          /\ SubSeq(line, k + 1, Len(line)) \in Seq(Octet)
                                          /\ SubSeq(line, 1, k) \o SubSeq(line, k + 1, Len(line)) = line
  <2>1. 1 \in 1..Len(line) + 1 /\ k \in 1 - 1..Len(line) /\ Len(line) \in k..Len(line)
    BY <1>0
  <2>2. k + 1 \in 1..Len(line) + 1 /\ Len(line) \in (k + 1) - 1..Len(line)
    BY <1>0
  <2>3. SubSeq(line, 1, k) \in Seq(Octet) /\ SubSeq(line, k + 1, Len(line)) \in Seq(Octet)
    BY <1>0, <2>1, <2>2, PartIs
  <2>4. SubSeq(line, 1, k) \o SubSeq(line, k + 1, Len(line)) = SubSeq(line, 1, Len(line))
    BY <1>0, <2>1, ConcatAdjacentSubSeq
  <2> QED BY <1>0, <2>3, <2>4, SubSeqFull
<1>4. ASSUME NEW k \in 0..Len(line), Cut(k) PROVE FlowInv'
  <2> DEFINE head == SubSeq(line, 1, k)
             rest == SubSeq(line, k + 1, Len(line))
  <2>1. received' = <<>> /\ line' = rest /\ damaged' = damaged
    BY <1>4 DEF Cut
  <2>2. head \in Seq(Octet) /\ rest \in Seq(Octet) /\ head \o rest = line
    BY <1>3
  <2>3. Flows(line, damaged)
    BY <1>0, FlowsAfter DEF FlowInv
  <2> HIDE DEF head, rest
  <2>4. Flows(rest, damaged)
    BY <2>2, <2>3, FlowsAfter
  <2>5. received' \o line' = rest
    BY <2>1, <2>2, ConcatEmptySeq
  <2> QED BY <2>1, <2>4, <2>5 DEF FlowInv
<1>5. ASSUME NEW k \in 0..Len(line), Listen(k) \/ ReadAnswer(k) \/ ReadAny(k) PROVE FlowInv'
  <2> DEFINE head == SubSeq(line, 1, k)
             rest == SubSeq(line, k + 1, Len(line))
  <2>1. received' = received \o head /\ line' = rest /\ damaged' = damaged
    BY <1>5 DEF Listen, ReadAnswer, ReadAny, Read
  <2>2. head \in Seq(Octet) /\ rest \in Seq(Octet) /\ head \o rest = line
    BY <1>3
  <2> HIDE DEF head, rest
  <2>3. (received \o head) \o rest = received \o (head \o rest)
    <3>1. head \in Seq(Octet) /\ rest \in Seq(Octet)
      BY <2>2
    <3> QED BY <1>0, <3>1, ConcatAssociative
  <2>4. received' \o line' = received \o line
    BY <2>1, <2>2, <2>3
  <2> QED BY <2>1, <2>4 DEF FlowInv
<1>6. CASE Ask \/ StopAsking \/ UNCHANGED framingVars
  <2>1. received' = received /\ line' = line /\ damaged' = damaged
    BY <1>6 DEF Ask, StopAsking, framingVars, history
  <2> QED BY <2>1 DEF FlowInv
<1> QED BY <1>1, <1>2, <1>4, <1>5, <1>6 DEF FramingNext, Line, Connector

-----------------------------------------------------------------------------
(* Sequences of frames as sets. *)

LEMMA ElementsAre ==
    ASSUME NEW S, NEW s \in Seq(S)
    PROVE  /\ ToSet(s) = {s[i] : i \in 1..Len(s)} /\ ToSet(s) \subseteq S
           /\ Len(s) \in Nat /\ DOMAIN s = 1..Len(s)
<1>1. DOMAIN s = 1..Len(s) /\ Len(s) \in Nat /\ \A i \in 1..Len(s) : s[i] \in S
  BY LenProperties, ElementOfSeq
<1> QED BY <1>1 DEF ToSet

LEMMA ElementsConcat ==
    ASSUME NEW S, NEW s \in Seq(S), NEW t \in Seq(S)
    PROVE  s \o t \in Seq(S) /\ ToSet(s \o t) = ToSet(s) \cup ToSet(t)
<1> DEFINE w == s \o t
           n == Len(s)
<1>1. w \in Seq(S) /\ Len(w) = n + Len(t) /\ \A p \in 1..n + Len(t) : w[p] = IF p <= n THEN s[p] ELSE t[p - n]
  BY ConcatProperties
<1>2. n \in Nat /\ Len(t) \in Nat /\ ToSet(s) = {s[i] : i \in 1..n} /\ ToSet(t) = {t[i] : i \in 1..Len(t)}
  BY ElementsAre
<1> HIDE DEF w
<1>3. ToSet(w) = {w[i] : i \in 1..n + Len(t)}
  BY <1>1, ElementsAre
<1>4. ASSUME NEW p \in 1..n + Len(t) PROVE w[p] \in ToSet(s) \cup ToSet(t)
  <2>1. CASE p <= n
    <3>1. p \in 1..n
      BY <1>2, <2>1
    <3> QED BY <1>1, <1>2, <2>1, <3>1
  <2>2. CASE ~(p <= n)
    <3>1. p - n \in 1..Len(t)
      BY <1>2, <2>2
    <3> QED BY <1>1, <1>2, <2>2, <3>1
  <2> QED BY <2>1, <2>2
<1>5. ASSUME NEW p \in 1..n PROVE s[p] \in ToSet(w)
  <2>1. p \in 1..n + Len(t) /\ p <= n
    BY <1>2
  <2> QED BY <1>1, <1>3, <2>1
<1>6. ASSUME NEW p \in 1..Len(t) PROVE t[p] \in ToSet(w)
  <2>1. n + p \in 1..n + Len(t) /\ ~(n + p <= n) /\ (n + p) - n = p
    BY <1>2
  <2>2. w[n + p] = t[p]
    BY <1>1, <2>1
  <2> QED BY <1>3, <2>1, <2>2
<1>7. ToSet(w) = ToSet(s) \cup ToSet(t)
  BY <1>2, <1>3, <1>4, <1>5, <1>6
<1> QED BY <1>1, <1>7 DEF w

\* The frames kept so far, for each beginning of a sequence.
ThoseSoFar(k, fs, n, wanted) ==
    k = [i \in 0..n |-> IF i = 0 THEN <<>>
                        ELSE IF fs[i] \in wanted THEN Append(k[i - 1], fs[i]) ELSE k[i - 1]]

LEMMA ThoseExist ==
    ASSUME NEW fs, NEW wanted, NEW n \in Nat
    PROVE  \E k : ThoseSoFar(k, fs, n, wanted)
<1> DEFINE T == {i \in Nat : \E k : ThoseSoFar(k, fs, i, wanted)}
<1>1. 0 \in T
  <2> DEFINE k == [i \in 0..0 |-> <<>>]
  <2>1. ThoseSoFar(k, fs, 0, wanted)
    BY DEF ThoseSoFar
  <2> QED BY <2>1
<1>2. ASSUME NEW i \in 0..(n - 1), i \in T PROVE i + 1 \in T
  <2>1. PICK g : ThoseSoFar(g, fs, i, wanted)
    BY <1>2
  <2> DEFINE last == IF fs[i + 1] \in wanted THEN Append(g[i], fs[i + 1]) ELSE g[i]
             k == [j \in 0..i + 1 |-> IF j = i + 1 THEN last ELSE g[j]]
  <2>2. ASSUME NEW j \in 0..i + 1
        PROVE  k[j] = IF j = 0 THEN <<>> ELSE IF fs[j] \in wanted THEN Append(k[j - 1], fs[j]) ELSE k[j - 1]
    <3>1. CASE j = i + 1
      <4>1. k[j] = last /\ j # 0 /\ j - 1 = i /\ k[j - 1] = g[i]
        BY <3>1
      <4> QED BY <3>1, <4>1
    <3>2. CASE j # i + 1
      <4>1. j \in 0..i /\ k[j] = g[j]
        BY <3>2
      <4>2. g[j] = IF j = 0 THEN <<>> ELSE IF fs[j] \in wanted THEN Append(g[j - 1], fs[j]) ELSE g[j - 1]
        BY <2>1, <4>1 DEF ThoseSoFar
      <4>3. j # 0 => k[j - 1] = g[j - 1]
        BY <3>2
      <4> QED BY <4>1, <4>2, <4>3
    <3> QED BY <3>1, <3>2
  <2>3. k = [j \in 0..i + 1 |-> k[j]]
    OBVIOUS
  <2> HIDE DEF k
  <2>4. ThoseSoFar(k, fs, i + 1, wanted)
    BY <2>2, <2>3 DEF ThoseSoFar
  <2> QED BY <2>4
<1> HIDE DEF T
<1>3. n \in T
  BY <1>1, <1>2, UpTo
<1> QED BY <1>3 DEF T

\* The frames kept are those of the sequence that are in the set.
LEMMA ThoseAre ==
    ASSUME NEW S, NEW fs \in Seq(S), NEW wanted
    PROVE  Those(fs, wanted) \in Seq(S) /\ ToSet(Those(fs, wanted)) = ToSet(fs) \cap wanted
<1> DEFINE n == Len(fs)
           k == CHOOSE g : ThoseSoFar(g, fs, n, wanted)
           T == {i \in 0..n : k[i] \in Seq(S) /\ ToSet(k[i]) = {fs[j] : j \in 1..i} \cap wanted}
<1>0. n \in Nat /\ ToSet(fs) = {fs[j] : j \in 1..n}
  BY ElementsAre
<1>1. ThoseSoFar(k, fs, n, wanted)
  BY <1>0, ThoseExist
<1>2. Those(fs, wanted) = k[n]
  BY DEF Those, ThoseSoFar
<1> HIDE DEF k
<1>3. \A i \in 0..n : k[i] = IF i = 0 THEN <<>> ELSE IF fs[i] \in wanted THEN Append(k[i - 1], fs[i]) ELSE k[i - 1]
  BY <1>1 DEF ThoseSoFar
<1>4. 0 \in T
  <2>1. 0 \in 0..n /\ k[0] = <<>> /\ 1..0 = {}
    BY <1>0, <1>3
  <2>2. <<>> \in Seq(S) /\ ToSet(<<>>) = {}
    BY EmptySeq DEF ToSet
  <2> QED BY <2>1, <2>2
<1>5. ASSUME NEW i \in 0..(n - 1), i \in T PROVE i + 1 \in T
  <2> DEFINE x == fs[i + 1]
             g == k[i]
  <2>1. i + 1 \in 0..n /\ i + 1 # 0 /\ (i + 1) - 1 = i /\ i + 1 \in 1..n /\ i \in Nat
    BY <1>0
  <2>2. x \in S
    BY <2>1, ElementOfSeq
  <2>3. g \in Seq(S) /\ ToSet(g) = {fs[j] : j \in 1..i} \cap wanted
    BY <1>5
  <2>4. k[i + 1] = IF x \in wanted THEN Append(g, x) ELSE g
    BY <1>3, <2>1
  <2>5. {fs[j] : j \in 1..i + 1} = {fs[j] : j \in 1..i} \cup {x}
    <3>1. \A j : j \in 1..i + 1 <=> j \in 1..i \/ j = i + 1
      BY <2>1
    <3> QED BY <3>1
  <2> HIDE DEF x, g
  <2>6. Append(g, x) \in Seq(S) /\ ToSet(Append(g, x)) = ToSet(g) \cup {x}
    <3>1. Append(g, x) = g \o <<x>> /\ <<x>> \in Seq(S) /\ ToSet(<<x>>) = {x}
      <4>1. Append(g, x) = g \o <<x>>
        BY <2>2, <2>3, AppendIsConcat
      <4>2. <<x>> \in Seq(S) /\ ToSet(<<x>>) = {x}
        BY <2>2 DEF ToSet
      <4> QED BY <4>1, <4>2
    <3>2. g \o <<x>> \in Seq(S) /\ ToSet(g \o <<x>>) = ToSet(g) \cup ToSet(<<x>>)
      BY <2>3, <3>1, ElementsConcat
    <3> QED BY <3>1, <3>2
  <2>7. k[i + 1] \in Seq(S) /\ ToSet(k[i + 1]) = {fs[j] : j \in 1..i + 1} \cap wanted
    <3>1. CASE x \in wanted
      <4>1. ToSet(k[i + 1]) = (({fs[j] : j \in 1..i} \cap wanted) \cup {x})
        BY <2>3, <2>4, <2>6, <3>1
      <4> QED BY <2>4, <2>5, <2>6, <3>1, <4>1
    <3>2. CASE x \notin wanted
      BY <2>3, <2>4, <2>5, <3>2
    <3> QED BY <3>1, <3>2
  <2> QED BY <2>1, <2>7
<1> HIDE DEF T
<1>6. n \in T
  <2>1. n \in Nat /\ n \in 0..n
    BY <1>0
  <2>2. \A i \in 0..n : i \in T
    BY <1>4, <1>5, <2>1, UpTo
  <2> QED BY <2>1, <2>2
<1> QED BY <1>0, <1>2, <1>6 DEF T

LEMMA PartElements ==
    ASSUME NEW S, NEW s \in Seq(S), NEW a \in 1..Len(s) + 1, NEW b \in a - 1..Len(s)
    PROVE  SubSeq(s, a, b) \in Seq(S) /\ ToSet(SubSeq(s, a, b)) = {s[i] : i \in a..b}
<1> DEFINE w == SubSeq(s, a, b)
           n == b - a + 1
<1>0. Len(s) \in Nat /\ a \in Nat /\ b \in Int
  BY LenProperties
<1>1. w \in Seq(S) /\ Len(w) = n /\ \A i \in 1..n : w[i] = s[a + i - 1] /\ a + i - 1 \in a..b
  BY PartIs
<1> HIDE DEF w
<1>2. ToSet(w) = {w[i] : i \in 1..n}
  BY <1>1, ElementsAre
<1>3. ASSUME NEW i \in a..b PROVE s[i] \in {w[j] : j \in 1..n}
  <2>1. i - a + 1 \in 1..n /\ a + (i - a + 1) - 1 = i
    BY <1>0
  <2>2. w[i - a + 1] = s[i]
    BY <1>1, <2>1
  <2> QED BY <2>1, <2>2
<1>4. {w[j] : j \in 1..n} = {s[i] : i \in a..b}
  <2>1. ASSUME NEW j \in 1..n PROVE w[j] \in {s[i] : i \in a..b}
    BY <1>1
  <2> QED BY <1>3, <2>1
<1> QED BY <1>1, <1>2, <1>4 DEF w

\* One element less.
LEMMA Removed ==
    ASSUME NEW S, NEW s \in Seq(S), NEW i \in 1..Len(s)
    PROVE  /\ RemoveAt(s, i) \in Seq(S) /\ ToSet(RemoveAt(s, i)) \subseteq ToSet(s)
           /\ ToSet(s) \subseteq ToSet(RemoveAt(s, i)) \cup {s[i]}
<1> DEFINE a == SubSeq(s, 1, i - 1)
           b == SubSeq(s, i + 1, Len(s))
<1>0. Len(s) \in Nat /\ i \in Nat /\ ToSet(s) = {s[j] : j \in 1..Len(s)}
  BY ElementsAre
<1>1. a \in Seq(S) /\ ToSet(a) = {s[j] : j \in 1..i - 1}
  BY <1>0, PartElements
<1>2. b \in Seq(S) /\ ToSet(b) = {s[j] : j \in i + 1..Len(s)}
  BY <1>0, PartElements
<1>3. RemoveAt(s, i) = a \o b
  BY DEF RemoveAt
<1> HIDE DEF a, b
<1>4. a \o b \in Seq(S) /\ ToSet(a \o b) = ToSet(a) \cup ToSet(b)
  BY <1>1, <1>2, ElementsConcat
<1>5. \A j \in 1..Len(s) : j \in 1..i - 1 \/ j = i \/ j \in i + 1..Len(s)
  BY <1>0
<1>6. (\A j \in 1..i - 1 : j \in 1..Len(s)) /\ \A j \in i + 1..Len(s) : j \in 1..Len(s)
  BY <1>0
<1> QED BY <1>0, <1>1, <1>2, <1>3, <1>4, <1>5, <1>6

-----------------------------------------------------------------------------
(* What the frames tell. *)

Value == [address : Octet, value : Octet]

\* A value that is that of its address, unless the frame of the address was damaged.
Own(u, d) == u.value = Byte("value", u.address.of) \/ u.address.of \in d

\* A frame in which each byte of an undamaged frame is followed by its next one.
SoundIn(f, d) ==
    /\ f \in Seq(Octet) /\ Len(f) >= 1
    /\ \A p \in 1..Len(f) - 1 : f[p].of \notin d => Follows(f[p], f[p + 1])

\* What the connector keeps comes from its frames, what it keeps and what it told are
\* values of their addresses, and every frame that tells a value is among them.
KeptInv ==
    /\ pendingFrames \in Seq(Seq(Octet))
    /\ ToSet(pendingFrames) \subseteq {f \in ToSet(frames) : ~Notice(f)}
    /\ pendingUpdates \in Seq(Value)
    /\ \A u \in ToSet(pendingUpdates) \cup heard : Own(u, damaged)
    /\ FramesAreHeard

LEMMA FramesAreParts ==
    ASSUME NEW S, NEW s \in Seq(S)
    PROVE  \A f \in ToSet(FramesOf(s)) : \E e \in Ends(s) : \E i \in 1..e :
               StartsAt(s, e, i) /\ f = SubSeq(s, i, e)
<1> DEFINE E == Ends(s)
           fs == FramesOf(s)
<1>1. E \subseteq 1..Len(s) /\ \A n \in 1..Cardinality(E) : NthOf(E, n) \in E
  BY EndsAre, NthIn
<1>2. DOMAIN fs = 1..Cardinality(E) /\ \A n \in 1..Cardinality(E) : fs[n] = FrameEndingAt(s, NthOf(E, n))
  BY FramesOfIs
<1> HIDE DEF E, fs
<1> SUFFICES ASSUME NEW f \in ToSet(fs)
             PROVE  \E e \in E : \E i \in 1..e : StartsAt(s, e, i) /\ f = SubSeq(s, i, e)
  BY DEF E, fs
<1>3. PICK n \in 1..Cardinality(E) : f = fs[n]
  BY <1>2 DEF ToSet
<1> DEFINE e == NthOf(E, n)
<1>4. e \in E /\ e \in 1..Len(s) /\ f = FrameEndingAt(s, e)
  BY <1>1, <1>2, <1>3
<1> HIDE DEF e
<1>5. PICK i \in 1..e : StartsAt(s, e, i)
  BY <1>4, StartExists
<1>6. f = SubSeq(s, i, e)
  BY <1>4, <1>5, StartIs
<1> QED BY <1>4, <1>5, <1>6

LEMMA FramesAreSound ==
    ASSUME NEW r \in Seq(Octet), NEW l \in Seq(Octet), NEW d, Flows(r \o l, d)
    PROVE  \A f \in ToSet(FramesOf(r)) : SoundIn(f, d)
<1> SUFFICES ASSUME NEW f \in ToSet(FramesOf(r)) PROVE SoundIn(f, d)
  OBVIOUS
<1>1. PICK e \in Ends(r) : \E i \in 1..e : StartsAt(r, e, i) /\ f = SubSeq(r, i, e)
  BY FramesAreParts
<1>2. PICK i \in 1..e : StartsAt(r, e, i) /\ f = SubSeq(r, i, e)
  BY <1>1
<1>3. e \in 1..Len(r) /\ Len(r) \in Nat /\ Len(l) \in Nat /\ e \in Nat /\ i \in Nat /\ i >= 1 /\ i <= e /\ e <= Len(r)
  BY EndsAre, LenProperties
<1>4. f \in Seq(Octet) /\ Len(f) = e - i + 1 /\ \A p \in 1..e - i + 1 : f[p] = r[i + p - 1]
  <2>1. i \in 1..Len(r) + 1 /\ e \in i - 1..Len(r)
    BY <1>3
  <2> QED BY <1>2, <2>1, PartIs
<1>5. \A k \in i..e - 1 : r[k].is # "F7"
  <2>1. PICK j \in 1..i : \A k \in j..e - 1 : r[k].is # "F7"
    BY <1>2 DEF StartsAt
  <2>2. \A k \in i..e - 1 : k \in j..e - 1
    BY <1>3
  <2> QED BY <2>1, <2>2
<1> DEFINE w == r \o l
<1>6. Len(w) = Len(r) + Len(l) /\ \A k \in 1..Len(r) : k \in 1..Len(w) /\ w[k] = r[k]
  <2>1. Len(w) = Len(r) + Len(l)
        /\ \A k \in 1..Len(r) + Len(l) : w[k] = IF k <= Len(r) THEN r[k] ELSE l[k - Len(r)]
    BY ConcatProperties
  <2>2. \A k \in 1..Len(r) : k \in 1..Len(r) + Len(l) /\ k <= Len(r)
    BY <1>3
  <2> HIDE DEF w
  <2> QED BY <2>1, <2>2
<1>7. Flows(w, d)
  OBVIOUS
<1> HIDE DEF w
<1>8. ASSUME NEW p \in 1..Len(f) - 1, f[p].of \notin d PROVE Follows(f[p], f[p + 1])
  <2>1. /\ p \in 1..e - i + 1 /\ p + 1 \in 1..e - i + 1 /\ i + p - 1 \in i..e - 1
        /\ i + p - 1 \in 1..Len(r) /\ (i + p - 1) + 1 \in 1..Len(r)
        /\ i + (p + 1) - 1 = (i + p - 1) + 1
    BY <1>3, <1>4
  <2>2. f[p] = w[i + p - 1] /\ f[p + 1] = w[(i + p - 1) + 1]
    BY <1>4, <1>6, <2>1
  <2>3. w[i + p - 1].is # "F7" /\ i + p - 1 \in 1..Len(w)
    BY <1>5, <1>6, <2>1
  <2> QED BY <1>7, <1>8, <2>2, <2>3 DEF Flows
<1>9. Len(f) >= 1
  BY <1>3, <1>4
<1> QED BY <1>4, <1>8, <1>9 DEF SoundIn

\* What a byte of an undamaged frame tells about the one two places after it.
LEMMA ThenValue ==
    ASSUME NEW f, NEW d, SoundIn(f, d), NEW p \in 1..Len(f) - 2,
           f[p + 1].is \in Kinds, f[p].of \notin d
    PROVE  f[p + 2] = Byte("value", f[p].of)
<1>0. Len(f) \in Nat /\ f \in Seq(Octet) /\ p \in 1..Len(f) - 1 /\ p + 1 \in 1..Len(f) - 1
      /\ (p + 1) + 1 = p + 2 /\ p + 2 \in 1..Len(f)
  <2>1. Len(f) \in Nat /\ f \in Seq(Octet)
    BY LenProperties DEF SoundIn
  <2> QED BY <2>1
<1>2. Follows(f[p], f[p + 1])
  BY <1>0 DEF SoundIn
<1>3. f[p + 1].of = f[p].of
  BY <1>2 DEF Follows
<1>4. Follows(f[p + 1], f[p + 2])
  BY <1>0, <1>3 DEF SoundIn
<1>5. f[p + 2].of = f[p].of /\ f[p + 2].is = "value"
  BY <1>3, <1>4 DEF Follows, Kinds
<1>6. f[p + 2] \in Octet
  BY <1>0, ElementOfSeq
<1> QED BY <1>5, <1>6 DEF Octet, Byte

LEMMA UpdateIs ==
    ASSUME NEW f, NEW d, SoundIn(f, d), Notice(f) \/ IsAnswer(f)
    PROVE  Update(f) \in Value /\ Own(Update(f), d) /\ Update(f).address \in ToSet(f)
<1>1. f \in Seq(Octet) /\ Len(f) \in Nat /\ Len(f) >= 5 /\ f[3].is \in Kinds
  BY LenProperties DEF SoundIn, Notice, IsAnswer, Kinds
<1>2. 2 \in 1..Len(f) /\ 4 \in 1..Len(f) /\ 2 \in 1..Len(f) - 2 /\ 2 + 1 = 3 /\ 2 + 2 = 4
  BY <1>1
<1>3. f[2] \in Octet /\ f[4] \in Octet /\ f[2] \in ToSet(f)
  BY <1>1, <1>2, ElementsAre
<1>4. f[2].of \notin d => f[4] = Byte("value", f[2].of)
  BY <1>1, <1>2, ThenValue
<1> QED BY <1>3, <1>4 DEF Update, Value, Own

LEMMA AnswerIs ==
    ASSUME NEW f, NEW d, SoundIn(f, d), NEW at \in Signatures(f), ~(Len(f) < at + 3)
    PROVE  Own([address |-> f[at], value |-> f[at + 2]], d)
<1>1. f \in Seq(Octet) /\ Len(f) \in Nat /\ Len(f) >= 1
  BY LenProperties DEF SoundIn
<1>2. at \in 1..Len(f) - 1 /\ f[at + 1] = Byte("info", f[at].of)
  BY DEF Signatures
<1>3. at \in 1..Len(f) - 2
  BY <1>1, <1>2
<1>4. f[at + 1].is \in Kinds
  BY <1>2 DEF Byte, Kinds
<1>5. f[at].of \notin d => f[at + 2] = Byte("value", f[at].of)
  BY <1>3, <1>4, ThenValue
<1> QED BY <1>5 DEF Own

LEMMA ParsedAre ==
    ASSUME NEW fs \in Seq(Seq(Octet)), \A f \in ToSet(fs) : Update(f) \in Value
    PROVE  Parsed(fs) \in Seq(Value) /\ ToSet(Parsed(fs)) = {Update(f) : f \in ToSet(fs)}
<1>1. Len(fs) \in Nat /\ DOMAIN fs = 1..Len(fs) /\ ToSet(fs) = {fs[i] : i \in 1..Len(fs)}
  BY ElementsAre
<1> DEFINE e(i) == Update(fs[i])
<1>2. \A i \in 1..Len(fs) : e(i) \in Value
  BY <1>1
<1>3. Parsed(fs) = [i \in 1..Len(fs) |-> e(i)]
  BY <1>1 DEF Parsed
<1> HIDE DEF e
<1>4. [i \in 1..Len(fs) |-> e(i)] \in Seq(Value)
  BY <1>1, <1>2, IsASeq
<1>5. ToSet(Parsed(fs)) = {e(i) : i \in 1..Len(fs)}
  BY <1>3 DEF ToSet
<1>6. {e(i) : i \in 1..Len(fs)} = {Update(f) : f \in ToSet(fs)}
  BY <1>1 DEF e
<1> QED BY <1>3, <1>4, <1>5, <1>6

-----------------------------------------------------------------------------
(* Reads, listener and calls. *)

\* A frame that tells a value is still waiting, its value is kept or told, or a set took it.
LeftIn(f, waiting, values) ==
    \/ f \in waiting \/ Update(f) \in values
    \/ \E u \in heard : u.address \in ToSet(f)
    \/ ~Notice(f) /\ f \in taken

\* After a read, by whichever thread: what it has taken is sorted and nothing is missing.
LEMMA Sorted ==
    ASSUME StreamInv, FlowInv, KeptInv, StreamInv', FlowInv',
           NEW k \in 0..Len(line), Read(k), damaged' = damaged
    PROVE  /\ \A f \in ToSet(frames') : SoundIn(f, damaged)
           /\ Waiting(k) \in Seq(Seq(Octet))
           /\ ToSet(Waiting(k)) \subseteq {f \in ToSet(frames') : ~Notice(f)}
           /\ UpdatesFound(k) \in Seq(Value)
           /\ \A u \in ToSet(UpdatesFound(k)) : Own(u, damaged)
           /\ \A f \in ToSet(frames') : Due(f) => LeftIn(f, ToSet(Waiting(k)), ToSet(UpdatesFound(k)))
<1> DEFINE N == Frames(k)
           Fs == Seq(Octet)
           notices == {f \in ToSet(N) : Notice(f)}
           others == {f \in ToSet(N) : ~Notice(f)}
<1>1. \A f \in ToSet(frames') : SoundIn(f, damaged)
  BY FramesAreSound DEF StreamInv, FlowInv
<1>2. N \in Seq(Fs)
  <2>1. SubSeq(line, 1, k) \in Seq(Octet)
    <3>1. line \in Seq(Octet) /\ 1 \in 1..Len(line) + 1 /\ k \in 1 - 1..Len(line)
      BY LenProperties DEF StreamInv
    <3> QED BY <3>1, PartIs
  <2>2. rx \o SubSeq(line, 1, k) \in Seq(Octet)
    BY <2>1, GoesOn DEF StreamInv
  <2> QED BY <2>2, ExtractedIs, FramesType DEF Frames
<1>3. ToSet(frames') = ToSet(frames) \cup ToSet(N)
  <2>1. frames \in Seq(Fs)
    BY FramesType DEF StreamInv
  <2>2. frames' = frames \o N
    BY DEF Read
  <2> HIDE DEF N
  <2> QED BY <1>2, <2>1, <2>2, ElementsConcat
<1> HIDE DEF N
<1>4. /\ NoticesOf(N) \in Seq(Fs) /\ ToSet(NoticesOf(N)) = notices
      /\ OthersOf(N) \in Seq(Fs) /\ ToSet(OthersOf(N)) = others
  <2>1. NoticesOf(N) = Those(N, notices) /\ OthersOf(N) = Those(N, others)
    BY DEF NoticesOf, OthersOf
  <2>2. ToSet(N) \cap notices = notices /\ ToSet(N) \cap others = others
    OBVIOUS
  <2> HIDE DEF notices, others
  <2>3. /\ Those(N, notices) \in Seq(Fs) /\ ToSet(Those(N, notices)) = ToSet(N) \cap notices
        /\ Those(N, others) \in Seq(Fs) /\ ToSet(Those(N, others)) = ToSet(N) \cap others
    BY <1>2, ThoseAre
  <2> QED BY <2>1, <2>2, <2>3
<1>5. /\ pendingFrames \in Seq(Fs) /\ ToSet(pendingFrames) \subseteq {f \in ToSet(frames) : ~Notice(f)}
      /\ pendingUpdates \in Seq(Value) /\ \A u \in ToSet(pendingUpdates) \cup heard : Own(u, damaged)
      /\ \A f \in ToSet(frames) : Due(f) => LeftIn(f, ToSet(pendingFrames), ToSet(pendingUpdates))
  BY DEF KeptInv, FramesAreHeard, LeftIn
<1>6. Waiting(k) \in Seq(Fs) /\ ToSet(Waiting(k)) = ToSet(pendingFrames) \cup others
  <2>1. Waiting(k) = pendingFrames \o OthersOf(N)
    BY DEF Waiting, N
  <2>2. pendingFrames \o OthersOf(N) \in Seq(Fs)
        /\ ToSet(pendingFrames \o OthersOf(N)) = ToSet(pendingFrames) \cup ToSet(OthersOf(N))
    BY <1>4, <1>5, ElementsConcat
  <2> QED BY <1>4, <2>1, <2>2
<1>7. \A f \in notices : Update(f) \in Value /\ Own(Update(f), damaged)
  BY <1>1, <1>3, UpdateIs
<1>8. /\ UpdatesFound(k) \in Seq(Value)
      /\ ToSet(UpdatesFound(k)) = ToSet(pendingUpdates) \cup {Update(f) : f \in notices}
  <2>1. UpdatesFound(k) = pendingUpdates \o Parsed(NoticesOf(N))
    BY DEF UpdatesFound, N
  <2>2. /\ Parsed(NoticesOf(N)) \in Seq(Value)
        /\ ToSet(Parsed(NoticesOf(N))) = {Update(f) : f \in ToSet(NoticesOf(N))}
    <3> HIDE DEF notices
    <3> QED BY <1>4, <1>7, ParsedAre
  <2>3. /\ pendingUpdates \o Parsed(NoticesOf(N)) \in Seq(Value)
        /\ ToSet(pendingUpdates \o Parsed(NoticesOf(N))) = ToSet(pendingUpdates) \cup ToSet(Parsed(NoticesOf(N)))
    BY <1>5, <2>2, ElementsConcat
  <2> HIDE DEF notices
  <2> QED BY <1>4, <2>1, <2>2, <2>3
<1>9. ASSUME NEW f \in ToSet(frames'), Due(f)
      PROVE  LeftIn(f, ToSet(Waiting(k)), ToSet(UpdatesFound(k)))
  <2>1. CASE f \in ToSet(frames)
    <3>1. LeftIn(f, ToSet(pendingFrames), ToSet(pendingUpdates))
      BY <1>5, <1>9, <2>1
    <3> QED BY <1>6, <1>8, <3>1 DEF LeftIn
  <2>2. CASE f \in ToSet(N) /\ Notice(f)
    BY <1>8, <2>2 DEF LeftIn
  <2>3. CASE f \in ToSet(N) /\ ~Notice(f)
    BY <1>6, <2>3 DEF LeftIn
  <2> QED BY <1>3, <2>1, <2>2, <2>3
<1>10. ToSet(Waiting(k)) \subseteq {f \in ToSet(frames') : ~Notice(f)}
  BY <1>3, <1>5, <1>6
<1>11. \A u \in ToSet(UpdatesFound(k)) : Own(u, damaged)
  BY <1>5, <1>7, <1>8
<1> QED BY <1>1, <1>6, <1>8, <1>9, <1>10, <1>11

\* The place a search has found is one of the sequence.
LEMMA ShortIs ==
    ASSUME NEW S, NEW s \in Seq(S)
    PROVE  LET i == SelectInSeq(s, TooShort) IN i = 0 \/ (i \in 1..Len(s) /\ TooShort(s[i]))
<1> DEFINE I == {i \in 1..Len(s) : TooShort(s[i])}
<1>1. SelectInSeq(s, TooShort) = IF I # {} THEN CHOOSE x \in I : \A y \in I : x <= y ELSE 0
  BY DEF SelectInSeq, Min
<1>2. I # {} => \E x \in I : \A y \in I : x <= y
  <2>1. I \subseteq Nat
    OBVIOUS
  <2> HIDE DEF I
  <2> QED BY <2>1, Smallest
<1>3. I # {} => SelectInSeq(s, TooShort) \in I
  <2> HIDE DEF I
  <2> QED BY <1>1, <1>2
<1> QED BY <1>1, <1>3

\* The listener tells what it has parsed, or keeps it with what it has not looked at.
LEMMA KeptListen ==
    ASSUME StreamInv, FlowInv, KeptInv, StreamInv', FlowInv', NEW k \in 0..Len(line), Listen(k)
    PROVE  KeptInv'
<1> DEFINE W == Waiting(k)
           U == UpdatesFound(k)
           Fs == Seq(Octet)
           bad == SelectInSeq(W, TooShort)
           upTo == IF bad = 0 THEN Len(W) ELSE bad - 1
           head == SubSeq(W, 1, upTo)
           infos == {f \in ToSet(head) : IsAnswer(f)}
           news == U \o Parsed(AnswersOf(head))
<1>1. Read(k) /\ damaged' = damaged /\ taken' = taken
  BY DEF Listen
<1>2. /\ \A f \in ToSet(frames') : SoundIn(f, damaged)
      /\ W \in Seq(Fs) /\ ToSet(W) \subseteq {f \in ToSet(frames') : ~Notice(f)}
      /\ U \in Seq(Value) /\ \A u \in ToSet(U) : Own(u, damaged)
      /\ \A f \in ToSet(frames') : Due(f) => LeftIn(f, ToSet(W), ToSet(U))
  BY <1>1, Sorted
<1>3. IF bad = 0 THEN heard' = heard \cup ToSet(news) /\ pendingFrames' = <<>> /\ pendingUpdates' = <<>>
      ELSE pendingFrames' = SubSeq(W, bad + 1, Len(W)) /\ pendingUpdates' = news /\ heard' = heard
  BY DEF Listen, Undelivered
<1> HIDE DEF W, U
<1>4. bad = 0 \/ (bad \in 1..Len(W) /\ TooShort(W[bad]))
  BY <1>2, ShortIs
<1>5. Len(W) \in Nat /\ ToSet(W) = {W[i] : i \in 1..Len(W)}
  BY <1>2, ElementsAre
<1> HIDE DEF bad
<1>6. upTo \in 0..Len(W) /\ head \in Seq(Fs) /\ ToSet(head) = {W[i] : i \in 1..upTo}
  <2>1. upTo \in 0..Len(W)
    BY <1>4, <1>5
  <2> HIDE DEF upTo
  <2>2. 1 \in 1..Len(W) + 1 /\ upTo \in 1 - 1..Len(W)
    BY <1>5, <2>1
  <2> QED BY <1>2, <2>1, <2>2, PartElements
<1> HIDE DEF head
<1>7. infos \subseteq ToSet(frames')
  <2>1. \A i \in 1..upTo : i \in 1..Len(W)
    BY <1>5, <1>6
  <2> QED BY <1>2, <1>5, <1>6, <2>1
<1>8. \A f \in infos : Update(f) \in Value /\ Own(Update(f), damaged) /\ Update(f).address \in ToSet(f)
  <2>1. \A f \in infos : SoundIn(f, damaged) /\ IsAnswer(f)
    BY <1>2, <1>7
  <2> HIDE DEF infos
  <2> QED BY <2>1, UpdateIs
<1>9. AnswersOf(head) \in Seq(Fs) /\ ToSet(AnswersOf(head)) = infos
  <2>1. AnswersOf(head) = Those(head, infos) /\ ToSet(head) \cap infos = infos
    BY DEF AnswersOf
  <2> HIDE DEF infos
  <2> QED BY <1>6, <2>1, ThoseAre
<1> HIDE DEF infos
<1>10. news \in Seq(Value) /\ ToSet(news) = ToSet(U) \cup {Update(f) : f \in infos}
  <2>1. /\ Parsed(AnswersOf(head)) \in Seq(Value)
        /\ ToSet(Parsed(AnswersOf(head))) = {Update(f) : f \in ToSet(AnswersOf(head))}
    BY <1>8, <1>9, ParsedAre
  <2>2. /\ U \o Parsed(AnswersOf(head)) \in Seq(Value)
        /\ ToSet(U \o Parsed(AnswersOf(head))) = ToSet(U) \cup ToSet(Parsed(AnswersOf(head)))
    BY <1>2, <2>1, ElementsConcat
  <2> QED BY <1>9, <2>1, <2>2
<1> HIDE DEF news
<1>11. \A u \in ToSet(news) : Own(u, damaged)
  BY <1>2, <1>8, <1>10
<1>12. \A u \in heard : Own(u, damaged)
  BY DEF KeptInv
\* A waiting frame that tells a value is an answer, and long enough to be parsed.
<1>13. \A f \in ToSet(W) : Due(f) => IsAnswer(f) /\ ~TooShort(f)
  <2>1. ASSUME NEW f \in ToSet(W), Due(f) PROVE IsAnswer(f) /\ ~TooShort(f)
    <3>1. IsAnswer(f)
      BY <1>2, <2>1 DEF Due
    <3>2. Len(f) >= 5
      BY <3>1 DEF IsAnswer
    <3> QED BY <3>1, <3>2 DEF TooShort
  <2> QED BY <2>1
<1>14. CASE bad = 0
  <2>1. heard' = heard \cup ToSet(news) /\ pendingFrames' = <<>> /\ pendingUpdates' = <<>>
    BY <1>3, <1>14
  <2>2. ToSet(<<>>) = {} /\ <<>> \in Seq(Fs) /\ <<>> \in Seq(Value)
    BY EmptySeq DEF ToSet
  <2>3. ToSet(head) = ToSet(W)
    BY <1>5, <1>6, <1>14
  <2>4. ASSUME NEW f \in ToSet(frames'), Due(f)
        PROVE  (\E u \in heard' : u.address \in ToSet(f)) \/ (~Notice(f) /\ f \in taken')
    <3>1. LeftIn(f, ToSet(W), ToSet(U))
      BY <1>2, <2>4
    <3>2. CASE f \in ToSet(W)
      <4>1. f \in infos
        BY <1>13, <2>3, <2>4, <3>2 DEF infos
      <4> QED BY <1>8, <1>10, <2>1, <4>1
    <3>3. CASE Update(f) \in ToSet(U)
      <4>1. Update(f).address \in ToSet(f)
        <5>1. SoundIn(f, damaged) /\ (Notice(f) \/ IsAnswer(f))
          BY <1>2, <2>4 DEF Due
        <5> QED BY <5>1, UpdateIs
      <4> QED BY <1>10, <2>1, <3>3, <4>1
    <3>4. CASE \E u \in heard : u.address \in ToSet(f)
      BY <2>1, <3>4
    <3>5. CASE ~Notice(f) /\ f \in taken
      BY <1>1, <3>5
    <3> QED BY <3>1, <3>2, <3>3, <3>4, <3>5 DEF LeftIn
  <2> QED BY <1>1, <1>11, <1>12, <2>1, <2>2, <2>4 DEF KeptInv, FramesAreHeard
<1>15. CASE bad # 0
  <2>1. pendingFrames' = SubSeq(W, bad + 1, Len(W)) /\ pendingUpdates' = news /\ heard' = heard
    BY <1>3, <1>15
  <2>2. bad \in 1..Len(W) /\ TooShort(W[bad]) /\ upTo = bad - 1
    BY <1>4, <1>15
  <2>3. pendingFrames' \in Seq(Fs) /\ ToSet(pendingFrames') = {W[i] : i \in bad + 1..Len(W)}
    <3>1. bad + 1 \in 1..Len(W) + 1 /\ Len(W) \in (bad + 1) - 1..Len(W)
      BY <1>5, <2>2
    <3> QED BY <1>2, <2>1, <3>1, PartElements
  <2>4. ToSet(pendingFrames') \subseteq ToSet(W)
    <3>1. \A i \in bad + 1..Len(W) : i \in 1..Len(W)
      BY <1>5, <2>2
    <3> QED BY <1>5, <2>3, <3>1
  <2>5. ASSUME NEW f \in ToSet(frames'), Due(f)
        PROVE  \/ f \in ToSet(pendingFrames') \/ Update(f) \in ToSet(pendingUpdates')
               \/ \E u \in heard' : u.address \in ToSet(f)
               \/ ~Notice(f) /\ f \in taken'
    <3>1. LeftIn(f, ToSet(W), ToSet(U))
      BY <1>2, <2>5
    <3>2. CASE f \in ToSet(W)
      <4>1. PICK i \in 1..Len(W) : f = W[i]
        BY <1>5, <3>2
      <4>2. i # bad
        BY <1>13, <2>2, <2>5, <3>2, <4>1
      <4>3. CASE i < bad
        <5>1. i \in 1..upTo
          BY <1>5, <2>2, <4>3
        <5>2. f \in infos
          BY <1>6, <1>13, <2>5, <3>2, <4>1, <5>1 DEF infos
        <5> QED BY <1>10, <2>1, <5>2
      <4>4. CASE i > bad
        <5>1. i \in bad + 1..Len(W)
          BY <1>5, <2>2, <4>4
        <5> QED BY <2>3, <4>1, <5>1
      <4>5. i < bad \/ i > bad
        BY <1>5, <2>2, <4>2
      <4> QED BY <4>3, <4>4, <4>5
    <3>3. CASE Update(f) \in ToSet(U)
      BY <1>10, <2>1, <3>3
    <3>4. CASE \E u \in heard : u.address \in ToSet(f)
      BY <2>1, <3>4
    <3>5. CASE ~Notice(f) /\ f \in taken
      BY <1>1, <3>5
    <3> QED BY <3>1, <3>2, <3>3, <3>4, <3>5 DEF LeftIn
  <2>6. ToSet(pendingFrames') \subseteq {f \in ToSet(frames') : ~Notice(f)}
    BY <1>2, <2>4
  <2>7. \A u \in ToSet(pendingUpdates') \cup heard' : Own(u, damaged')
    BY <1>1, <1>11, <1>12, <2>1
  <2>8. FramesAreHeard'
    BY <2>5 DEF FramesAreHeard
  <2> QED BY <1>10, <2>1, <2>3, <2>6, <2>7, <2>8 DEF KeptInv
<1> QED BY <1>14, <1>15

\* A read takes a frame with the signature, and leaves the others where they are.
LEMMA KeptAnswer ==
    ASSUME StreamInv, FlowInv, KeptInv, StreamInv', FlowInv', NEW k \in 0..Len(line), ReadAnswer(k)
    PROVE  KeptInv'
<1> DEFINE W == Waiting(k)
           U == UpdatesFound(k)
           Fs == Seq(Octet)
<1>1. Read(k) /\ damaged' = damaged /\ pendingUpdates' = U /\ taken' = taken
  BY DEF ReadAnswer
<1>2. /\ \A f \in ToSet(frames') : SoundIn(f, damaged)
      /\ W \in Seq(Fs) /\ ToSet(W) \subseteq {f \in ToSet(frames') : ~Notice(f)}
      /\ U \in Seq(Value) /\ \A u \in ToSet(U) : Own(u, damaged)
      /\ \A f \in ToSet(frames') : Due(f) => LeftIn(f, ToSet(W), ToSet(U))
  BY <1>1, Sorted
<1>3. \/ pendingFrames' = W /\ heard' = heard
      \/ \E hit \in DOMAIN W : \E at \in Signatures(W[hit]) :
           /\ pendingFrames' = RemoveAt(W, hit)
           /\ heard' = heard \cup (IF Len(W[hit]) < at + 3 THEN {}
                                   ELSE {[address |-> W[hit][at], value |-> W[hit][at + 2]]})
  BY DEF ReadAnswer
<1> HIDE DEF W, U
<1>5. Len(W) \in Nat /\ DOMAIN W = 1..Len(W) /\ ToSet(W) = {W[i] : i \in 1..Len(W)}
  BY <1>2, ElementsAre
<1>6. \A u \in heard : Own(u, damaged)
  BY DEF KeptInv
<1>7. CASE pendingFrames' = W /\ heard' = heard
  BY <1>1, <1>2, <1>6, <1>7 DEF KeptInv, FramesAreHeard, LeftIn
<1>8. ASSUME NEW hit \in 1..Len(W), NEW g, g = W[hit], NEW at \in Signatures(g),
             NEW value, value = [address |-> g[at], value |-> g[at + 2]],
             pendingFrames' = RemoveAt(W, hit),
             heard' = heard \cup (IF Len(g) < at + 3 THEN {} ELSE {value})
      PROVE  KeptInv'
  <2>2. g \in ToSet(W)
    BY <1>5, <1>8
  <2>3. /\ pendingFrames' \in Seq(Fs) /\ ToSet(pendingFrames') \subseteq ToSet(W)
        /\ ToSet(W) \subseteq ToSet(pendingFrames') \cup {g}
    BY <1>2, <1>8, Removed
  <2>4. SoundIn(g, damaged) /\ g \in Seq(Octet)
    BY <1>2, <2>2 DEF SoundIn
  <2>5. ~(Len(g) < at + 3) => Own(value, damaged)
    BY <1>8, <2>4, AnswerIs
  <2>6. \A u \in ToSet(pendingUpdates') \cup heard' : Own(u, damaged')
    <3>1. \A u \in heard' : Own(u, damaged)
      BY <1>6, <1>8, <2>5
    <3> QED BY <1>1, <1>2, <3>1
  <2>7. ASSUME NEW f \in ToSet(frames'), Due(f)
        PROVE  \/ f \in ToSet(pendingFrames') \/ Update(f) \in ToSet(pendingUpdates')
               \/ \E u \in heard' : u.address \in ToSet(f)
               \/ ~Notice(f) /\ f \in taken'
    <3>1. LeftIn(f, ToSet(W), ToSet(U))
      BY <1>2, <2>7
    <3>2. CASE f \in ToSet(W) /\ f # g
      BY <2>3, <3>2
    <3>3. CASE f \in ToSet(W) /\ f = g
      <4>1. Len(g) >= at + 3
        BY <1>2, <2>7, <3>3 DEF Due
      <4>2. at \in 1..Len(g) - 1 /\ Len(g) \in Nat
        BY <2>4, LenProperties DEF Signatures
      <4>3. value \in heard'
        <5>1. ~(Len(g) < at + 3)
          BY <4>1, <4>2
        <5> QED BY <1>8, <5>1
      <4>4. value.address = g[at] /\ at \in 1..Len(g)
        BY <1>8, <4>2
      <4>5. value.address \in ToSet(g)
        BY <2>4, <4>4, ElementsAre
      <4> QED BY <3>3, <4>3, <4>5
    <3>4. CASE Update(f) \in ToSet(U)
      BY <1>1, <3>4
    <3>5. CASE \E u \in heard : u.address \in ToSet(f)
      BY <1>8, <3>5
    <3>6. CASE ~Notice(f) /\ f \in taken
      BY <1>1, <3>6
    <3> QED BY <3>1, <3>2, <3>3, <3>4, <3>5, <3>6 DEF LeftIn
  <2>8. ToSet(pendingFrames') \subseteq {f \in ToSet(frames') : ~Notice(f)}
    BY <1>2, <2>3
  <2>9. FramesAreHeard'
    BY <2>7 DEF FramesAreHeard
  <2> QED BY <1>1, <1>2, <2>3, <2>6, <2>8, <2>9 DEF KeptInv
<1> QED BY <1>3, <1>5, <1>7, <1>8

\* A set takes the first frame that waits, which is no notification.
LEMMA KeptAny ==
    ASSUME StreamInv, FlowInv, KeptInv, StreamInv', FlowInv', NEW k \in 0..Len(line), ReadAny(k)
    PROVE  KeptInv'
<1> DEFINE W == Waiting(k)
           U == UpdatesFound(k)
           Fs == Seq(Octet)
<1>1. Read(k) /\ damaged' = damaged /\ pendingUpdates' = U /\ heard' = heard
  BY DEF ReadAny
<1>2. /\ W \in Seq(Fs) /\ ToSet(W) \subseteq {f \in ToSet(frames') : ~Notice(f)}
      /\ U \in Seq(Value) /\ \A u \in ToSet(U) : Own(u, damaged)
      /\ \A f \in ToSet(frames') : Due(f) => LeftIn(f, ToSet(W), ToSet(U))
  BY <1>1, Sorted
<1>3. IF W = <<>> THEN pendingFrames' = <<>> /\ taken' = taken
      ELSE pendingFrames' = Tail(W) /\ taken' = taken \cup {Head(W)}
  BY DEF ReadAny
<1> HIDE DEF W, U
<1>4. Len(W) \in Nat /\ ToSet(W) = {W[i] : i \in 1..Len(W)}
  BY <1>2, ElementsAre
<1>5. \A u \in heard : Own(u, damaged)
  BY DEF KeptInv
\* What waited still waits or was taken.
<1>6. /\ pendingFrames' \in Seq(Fs) /\ ToSet(pendingFrames') \subseteq ToSet(W)
      /\ ToSet(W) \subseteq ToSet(pendingFrames') \cup taken' /\ taken \subseteq taken'
  <2>1. CASE W = <<>>
    BY <1>2, <1>3, <2>1
  <2>2. CASE W # <<>>
    <3>1. /\ Tail(W) \in Seq(Fs) /\ Len(Tail(W)) = Len(W) - 1
          /\ \A i \in 1..Len(Tail(W)) : Tail(W)[i] = W[i + 1]
          /\ Head(W) = W[1]
      BY <1>2, <2>2, HeadTailProperties
    <3>2. ToSet(Tail(W)) = {Tail(W)[i] : i \in 1..Len(W) - 1}
      BY <3>1, ElementsAre
    <3>3. \A i \in 1..Len(W) - 1 : i + 1 \in 1..Len(W) /\ Tail(W)[i] = W[i + 1]
      BY <1>4, <3>1
    <3>4. ToSet(Tail(W)) \subseteq ToSet(W)
      BY <1>4, <3>2, <3>3
    <3>5. ASSUME NEW i \in 1..Len(W) PROVE W[i] \in ToSet(Tail(W)) \cup {Head(W)}
      <4>1. CASE i = 1
        BY <3>1, <4>1
      <4>2. CASE i # 1
        <5>1. i - 1 \in 1..Len(W) - 1 /\ (i - 1) + 1 = i
          BY <1>4, <4>2
        <5>2. Tail(W)[i - 1] = W[i]
          BY <3>3, <5>1
        <5> QED BY <3>2, <5>1, <5>2
      <4> QED BY <4>1, <4>2
    <3> QED BY <1>3, <1>4, <2>2, <3>1, <3>4, <3>5
  <2> QED BY <2>1, <2>2
<1>7. \A f \in ToSet(W) : ~Notice(f)
  BY <1>2
<1>8. FramesAreHeard'
  <2>1. ASSUME NEW f \in ToSet(frames'), Due(f)
        PROVE  \/ f \in ToSet(pendingFrames') \/ Update(f) \in ToSet(pendingUpdates')
               \/ \E u \in heard' : u.address \in ToSet(f)
               \/ ~Notice(f) /\ f \in taken'
    <3>1. LeftIn(f, ToSet(W), ToSet(U))
      BY <1>2, <2>1
    <3> QED BY <1>1, <1>6, <1>7, <3>1 DEF LeftIn
  <2> QED BY <2>1 DEF FramesAreHeard
<1>9. ToSet(pendingFrames') \subseteq {f \in ToSet(frames') : ~Notice(f)}
  BY <1>2, <1>6
<1>10. \A u \in ToSet(pendingUpdates') \cup heard' : Own(u, damaged')
  BY <1>1, <1>2, <1>5
<1> QED BY <1>1, <1>2, <1>6, <1>8, <1>9, <1>10 DEF KeptInv

LEMMA KeptInit == FramingInit => KeptInv
<1> SUFFICES ASSUME FramingInit PROVE KeptInv
  OBVIOUS
<1>1. pendingFrames = <<>> /\ pendingUpdates = <<>> /\ heard = {} /\ frames = <<>>
  BY DEF FramingInit
<1>2. ToSet(<<>>) = {}
  BY DEF ToSet
<1> QED BY <1>1, <1>2, EmptySeq DEF KeptInv, FramesAreHeard

LEMMA KeptNext ==
    StreamInv /\ FlowInv /\ KeptInv /\ StreamInv' /\ FlowInv' /\ [FramingNext]_framingVars => KeptInv'
<1> SUFFICES ASSUME StreamInv, FlowInv, KeptInv, StreamInv', FlowInv', [FramingNext]_framingVars PROVE KeptInv'
  OBVIOUS
<1>1. ASSUME NEW k \in 0..Len(line), Listen(k) PROVE KeptInv'
  BY <1>1, KeptListen
<1>2. ASSUME NEW k \in 0..Len(line), ReadAnswer(k) PROVE KeptInv'
  BY <1>2, KeptAnswer
<1>6. ASSUME NEW k \in 0..Len(line), ReadAny(k) PROVE KeptInv'
  BY <1>6, KeptAny
<1>3. ASSUME NEW k \in 0..Len(line), Cut(k) PROVE KeptInv'
  <2>1. pendingFrames' = <<>> /\ pendingUpdates' = <<>> /\ heard' = heard /\ frames' = <<>> /\ damaged' = damaged
    BY <1>3 DEF Cut
  <2>2. ToSet(<<>>) = {}
    BY DEF ToSet
  <2> QED BY <2>1, <2>2, EmptySeq DEF KeptInv, FramesAreHeard
<1>4. ASSUME NEW i \in DOMAIN line, NEW j \in DOMAIN line, Overrun(i, j) PROVE KeptInv'
  <2>1. /\ pendingFrames' = pendingFrames /\ pendingUpdates' = pendingUpdates /\ heard' = heard /\ frames' = frames
        /\ taken' = taken /\ damaged \subseteq damaged'
    BY <1>4 DEF Overrun, history
  <2>2. \A u : Own(u, damaged) => Own(u, damaged')
    BY <2>1 DEF Own
  <2> QED BY <2>1, <2>2 DEF KeptInv, FramesAreHeard
<1>5. CASE (\E kind \in Kinds : Transmit(kind)) \/ Ask \/ StopAsking \/ UNCHANGED framingVars
  <2>1. /\ pendingFrames' = pendingFrames /\ pendingUpdates' = pendingUpdates /\ heard' = heard
        /\ frames' = frames /\ taken' = taken /\ damaged' = damaged
    BY <1>5 DEF Transmit, Ask, StopAsking, framingVars, history
  <2> QED BY <2>1 DEF KeptInv, FramesAreHeard
<1> QED BY <1>1, <1>2, <1>3, <1>4, <1>5, <1>6 DEF FramingNext, Line, Connector

\* No frame tells another zone's value unless it was damaged itself, and nothing that tells
\* a value is left out, except an answer a set took for its response: for any number of frames, lost bytes and lost connections, whoever
\* reads and whether or not the listener survives (_read_available_locked,
\* _collect_unsolicited_updates_locked, _pop_matching_frame_locked).
THEOREM ValuesAreHeard == FramingSpec => []HeardAsSent
<1> DEFINE Inv == StreamInv /\ FlowInv /\ KeptInv
<1>1. FramingInit => Inv
  BY StreamInit, FlowInit, KeptInit
<1>2. Inv /\ [FramingNext]_framingVars => Inv'
  BY StreamNext, FlowNext, KeptNext
<1>3. Inv => HeardAsSent
  BY DEF KeptInv, Own, HeardAsSent, NoForeignValue
<1> QED BY <1>1, <1>2, <1>3, PTL DEF FramingSpec
=============================================================================
