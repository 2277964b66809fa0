-------------------------- MODULE SseFramingProofs --------------------------
(***************************************************************************)
(* What SseFraming keeps for any payloads, any cap and any chunks.         *)
(***************************************************************************)
EXTENDS SseFraming, FiniteSetTheorems, TLAPS

\* The parts of a line: what it says, and what comes before the newline.
Said(line) ==
    (IF line = "blank" THEN <<>> ELSE <<line>>) \o (IF line \in Long THEN <<"...", "...">> ELSE <<>>)
Return == IF crlf THEN <<"\r">> ELSE <<>>

\* No byte of a line but the newline is one.
LEMMA ByteKinds ==
    ASSUME NEW line \in Lines
    PROVE  /\ line \in Bytes /\ "\n" \in Bytes /\ "\r" \in Bytes /\ "..." \in Bytes
           /\ line # "\n" /\ line # "..." /\ line # "\r"
           /\ "..." # "\n" /\ "\r" # "\n" /\ "..." # "\r"
           /\ line \in Payloads => line # "blank" /\ line \notin Names
           /\ line \in Long => line # "blank"
  BY FramingAssumption DEF Bytes, Lines, Names

\* What a line says, byte by byte.
LEMMA SaidBytes ==
    ASSUME NEW line \in Lines
    PROVE  /\ Said(line) \in Seq(Bytes) /\ Len(Said(line)) \in 0..3
           /\ \A j \in 1..Len(Said(line)) : Said(line)[j] # "\n" /\ Said(line)[j] # "\r"
           /\ line = "blank" => Len(Said(line)) = 0
           /\ line # "blank" => Len(Said(line)) >= 1 /\ Said(line)[1] = line
  <1>1. CASE line = "blank"
    <2>1. Said(line) = <<>>
      BY <1>1, ByteKinds DEF Said
    <2>2. Said(line) \in Seq(Bytes) /\ Len(Said(line)) = 0
      BY <2>1
    <2> QED
      BY <1>1, <2>2
  <1>2. CASE line # "blank" /\ line \in Long
    <2>1. Said(line) = <<line>> \o <<"...", "...">>
      BY <1>2 DEF Said
    <2>2. <<line>> \in Seq(Bytes) /\ <<"...", "...">> \in Seq(Bytes)
      BY ByteKinds
    <2>3. /\ Said(line) \in Seq(Bytes) /\ Len(Said(line)) = 3
          /\ Said(line)[1] = line /\ Said(line)[2] = "..." /\ Said(line)[3] = "..."
      BY <2>1, <2>2
    <2> QED
      BY <1>2, <2>3, ByteKinds
  <1>3. CASE line # "blank" /\ line \notin Long
    <2>1. Said(line) = <<line>>
      BY <1>3 DEF Said
    <2> QED
      BY <1>3, <2>1, ByteKinds
  <1> QED
    BY <1>1, <1>2, <1>3

\* Bytes joined to bytes.
LEMMA Joined ==
    ASSUME NEW s \in Seq(Bytes), NEW t \in Seq(Bytes)
    PROVE  /\ s \o t \in Seq(Bytes) /\ Len(s \o t) = Len(s) + Len(t)
           /\ \A j \in 1..Len(s) : (s \o t)[j] = s[j]
           /\ \A j \in 1..Len(t) : (s \o t)[Len(s) + j] = t[j]
  OBVIOUS

\* A line is what it says, the return and a newline.
LEMMA LineParts ==
    ASSUME NEW line \in Lines
    PROVE  /\ Return \in Seq(Bytes) /\ Len(Return) \in 0..1
           /\ \A j \in 1..Len(Return) : Return[j] = "\r"
           /\ BytesOf(line) \in Seq(Bytes)
           /\ Len(BytesOf(line)) = Len(Said(line)) + Len(Return) + 1
           /\ \A j \in 1..Len(Said(line)) : BytesOf(line)[j] = Said(line)[j]
           /\ \A j \in 1..Len(Return) : BytesOf(line)[Len(Said(line)) + j] = "\r"
           /\ BytesOf(line)[Len(BytesOf(line))] = "\n"
  <1>1. /\ Return \in Seq(Bytes) /\ Len(Return) \in 0..1
        /\ \A j \in 1..Len(Return) : Return[j] = "\r"
    BY ByteKinds DEF Return
  <1>2. BytesOf(line) = Said(line) \o Return \o <<"\n">>
    BY DEF BytesOf, Said, Return
  <1> HIDE DEF Return
  <1>3. /\ Said(line) \in Seq(Bytes) /\ Len(Said(line)) \in Nat /\ <<"\n">> \in Seq(Bytes)
    BY SaidBytes, ByteKinds
  <1>4. /\ Said(line) \o Return \in Seq(Bytes)
        /\ Len(Said(line) \o Return) = Len(Said(line)) + Len(Return)
        /\ \A j \in 1..Len(Said(line)) : (Said(line) \o Return)[j] = Said(line)[j]
        /\ \A j \in 1..Len(Return) : (Said(line) \o Return)[Len(Said(line)) + j] = Return[j]
    BY <1>1, <1>3, Joined
  <1> QED
    BY <1>1, <1>2, <1>3, <1>4

\* The only newline of a line is its last byte.
LEMMA LineBytes ==
    ASSUME NEW line \in Lines
    PROVE  /\ BytesOf(line) \in Seq(Bytes)
           /\ Len(BytesOf(line)) \in Nat \ {0}
           /\ BytesOf(line)[Len(BytesOf(line))] = "\n"
           /\ \A j \in 1..(Len(BytesOf(line)) - 1) : BytesOf(line)[j] # "\n"
  <1>1. ASSUME NEW j \in 1..(Len(BytesOf(line)) - 1)
        PROVE  BytesOf(line)[j] # "\n"
    <2>1. CASE j <= Len(Said(line))
      BY <2>1, LineParts, SaidBytes
    <2>2. CASE j > Len(Said(line))
      <3>1. PICK i \in 1..Len(Return) : j = Len(Said(line)) + i
        <4>1. j - Len(Said(line)) \in 1..Len(Return)
          BY <2>2, LineParts, SaidBytes
        <4>2. j = Len(Said(line)) + (j - Len(Said(line)))
          BY SaidBytes
        <4> QED
          BY <4>1, <4>2
      <3>2. BytesOf(line)[Len(Said(line)) + i] = "\r"
        BY LineParts
      <3> QED
        BY <3>1, <3>2
    <2> QED
      BY <2>1, <2>2, SaidBytes
  <1> QED
    BY <1>1, LineParts, SaidBytes

\* What is left of a line without its newline and its carriage return.
LEMMA ContentIs ==
    ASSUME NEW line \in Lines, NEW raw \in Seq(Bytes),
           Len(raw) = Len(BytesOf(line)) - 1,
           \A j \in 1..Len(raw) : raw[j] = BytesOf(line)[j]
    PROVE  IF line = "blank" THEN Content(raw) = <<>>
           ELSE Content(raw) # <<>> /\ Content(raw)[1] = line
  <1> DEFINE K == {0} \cup {i \in DOMAIN raw : raw[i] # "\r"}
  <1>0. Len(raw) \in 0..4 /\ Content(raw) = SubSeq(raw, 1, Max(K))
    <2>1. Len(raw) \in 0..4
      <3>1. Len(Said(line)) \in 0..3
        BY SaidBytes
      <3>2. Len(Return) \in 0..1 /\ Len(BytesOf(line)) = Len(Said(line)) + Len(Return) + 1
        BY LineParts
      <3>3. PICK a \in 0..3, b \in 0..1 : Len(BytesOf(line)) = a + b + 1
        BY <3>1, <3>2
      <3> QED
        BY <3>3
    <2>2. Content(raw) = SubSeq(raw, 1, Max(K))
      BY DEF Content
    <2> QED
      BY <2>1, <2>2
  <1>1. CASE line = "blank"
    <2>1. \A j \in 1..Len(raw) : raw[j] = "\r"
      BY <1>1, LineParts, SaidBytes
    <2>2. K = {0}
      BY <2>1
    <2>3. Max(K) = 0
      BY <2>2 DEF Max
    <2>4. SubSeq(raw, 1, 0) = <<>>
      OBVIOUS
    <2> QED
      BY <1>0, <1>1, <2>3, <2>4
  <1>2. CASE line # "blank"
    <2>1. Len(raw) >= 1 /\ raw[1] = line
      BY <1>0, <1>2, LineParts, SaidBytes
    <2>2. 1 \in K /\ K \subseteq 0..4 /\ K \subseteq 0..Len(raw)
      BY <1>0, <2>1, ByteKinds
    <2> HIDE DEF K
    <2>3. \E k \in K : \A y \in K : k >= y
      <3>1. CASE 4 \in K
        BY <2>2, <3>1
      <3>2. CASE 4 \notin K /\ 3 \in K
        BY <2>2, <3>2
      <3>3. CASE 4 \notin K /\ 3 \notin K /\ 2 \in K
        BY <2>2, <3>3
      <3>4. CASE 4 \notin K /\ 3 \notin K /\ 2 \notin K
        BY <2>2, <3>4
      <3> QED
        BY <3>1, <3>2, <3>3, <3>4
    <2>4. Max(K) \in K /\ \A y \in K : Max(K) >= y
      BY <2>3 DEF Max
    <2>5. Max(K) \in 1..Len(raw)
      <3>1. PICK k \in 0..Len(raw) : k = Max(K)
        BY <2>2, <2>4
      <3>2. k >= 1
        BY <2>2, <2>4, <3>1
      <3> QED
        BY <1>0, <3>1, <3>2
    <2>6. Len(SubSeq(raw, 1, Max(K))) = Max(K) /\ SubSeq(raw, 1, Max(K))[1] = raw[1]
      BY <2>5
    <2> QED
      BY <1>0, <1>2, <2>1, <2>5, <2>6
  <1> QED
    BY <1>1, <1>2

-----------------------------------------------------------------------------
\* A number greater than all of a set comes last in it, and moves none of the others.
LEMMA PlaceOfLast ==
    ASSUME NEW S \in SUBSET Nat, IsFiniteSet(S), NEW b \in Nat, \A i \in S : i < b
    PROVE  /\ Cardinality(S) \in Nat
           /\ Cardinality(S \cup {b}) = Cardinality(S) + 1
           /\ Place(S \cup {b}, b) = Cardinality(S) + 1
           /\ \A i \in S : Place(S \cup {b}, i) = Place(S, i) /\ Place(S, i) \in 1..Cardinality(S)
  <1>1. b \notin S
    OBVIOUS
  <1>2. Cardinality(S) \in Nat /\ Cardinality(S \cup {b}) = Cardinality(S) + 1
    BY <1>1, FS_AddElement, FS_CardinalityType
  <1>3. {j \in S \cup {b} : j <= b} = S \cup {b}
    <2>1. \A j \in S \cup {b} : j <= b
      OBVIOUS
    <2> QED
      BY <2>1
  <1>4. ASSUME NEW i \in S
        PROVE  Place(S \cup {b}, i) = Place(S, i) /\ Place(S, i) \in 1..Cardinality(S)
    <2> DEFINE T == {j \in S : j <= i}
    <2>1. {j \in S \cup {b} : j <= i} = T
      OBVIOUS
    <2>2. T \in SUBSET S /\ i \in T
      OBVIOUS
    <2>3. IsFiniteSet(T) /\ Cardinality(T) <= Cardinality(S)
      BY <2>2, FS_Subset
    <2>4. Cardinality(T) \in Nat /\ Cardinality(T) # 0
      BY <2>2, <2>3, FS_EmptySet, FS_CardinalityType
    <2> HIDE DEF T
    <2>5. Place(S \cup {b}, i) = Cardinality(T) /\ Place(S, i) = Cardinality(T)
      BY <2>1 DEF Place, T
    <2> QED
      BY <1>2, <2>3, <2>4, <2>5
  <1> QED
    BY <1>2, <1>3, <1>4 DEF Place

\* A block is of lines before the one that ends it.
LEMMA BlockBefore ==
    ASSUME NEW b \in Int
    PROVE  /\ Block(b) \subseteq 1..(b - 1) /\ DataAt(b) \subseteq Block(b)
           /\ DataAt(b) \in SUBSET Nat /\ IsFiniteSet(DataAt(b))
           /\ \A i \in DataAt(b) : i < b
  <1>1. Block(b) \subseteq 1..(b - 1) /\ DataAt(b) \subseteq Block(b)
    BY DEF Block, DataAt
  <1>2. IsFiniteSet(1..(b - 1))
    BY FS_Interval
  <1>3. DataAt(b) \in SUBSET (1..(b - 1))
    BY <1>1
  <1>4. IsFiniteSet(DataAt(b))
    BY <1>2, <1>3, FS_Subset
  <1> QED
    BY <1>1, <1>3, <1>4

\* A line goes on with its block, or ends it.
LEMMA BlockStep ==
    ASSUME NEW b \in Nat \ {0}
    PROVE  Block(b + 1) = IF sent[b] = "blank" THEN {} ELSE Block(b) \cup {b}
  <1>1. CASE sent[b] = "blank"
    <2>1. ASSUME NEW i \in Block(b + 1) PROVE FALSE
      <3>1. b \in i..(b + 1 - 1)
        BY <2>1 DEF Block
      <3> QED
        BY <1>1, <2>1, <3>1 DEF Block
    <2> QED
      BY <1>1, <2>1
  <1>2. CASE sent[b] # "blank"
    <2>1. ASSUME NEW i \in Block(b + 1) PROVE i \in Block(b) \cup {b}
      BY <2>1 DEF Block
    <2>2. ASSUME NEW i \in Block(b) \cup {b} PROVE i \in Block(b + 1)
      <3>1. i \in 1..b
        BY <2>2, BlockBefore
      <3>2. ASSUME NEW j \in i..b PROVE sent[j] # "blank"
        BY <1>2, <2>2, <3>1, <3>2 DEF Block
      <3> QED
        BY <3>1, <3>2 DEF Block
    <2> QED
      BY <1>2, <2>1, <2>2
  <1> QED
    BY <1>1, <1>2

\* The last event field in the block before line b, if it has one.
NameIs(name, b) ==
    IF name = "none" THEN \A i \in Block(b) : sent[i] \notin Names ELSE Named(b, name)

\* Before the first line, and after a blank one, there is nothing.
LEMMA NothingYet ==
    ASSUME NEW b, Block(b) = {}
    PROVE  Says(<<>>, b) /\ NameIs("none", b)
  <1>1. DataAt(b) = {}
    BY DEF DataAt
  <1> QED
    BY <1>1, FS_EmptySet DEF Says, NameIs

\* A line that is not blank adds to the data what it carries ...
LEMMA DataStep ==
    ASSUME NEW b \in Nat \ {0}, sent[b] # "blank", NEW payloads \in Seq(Payloads), Says(payloads, b)
    PROVE  /\ sent[b] \in Payloads => Says(Append(payloads, sent[b]), b + 1)
           /\ sent[b] \notin Payloads => Says(payloads, b + 1)
  <1>1. Block(b + 1) = Block(b) \cup {b}
    BY BlockStep
  <1>2. /\ DataAt(b) \in SUBSET Nat /\ IsFiniteSet(DataAt(b))
        /\ \A i \in DataAt(b) : i < b
    BY BlockBefore
  <1>3. CASE sent[b] \notin Payloads
    <2>1. DataAt(b + 1) = DataAt(b)
      BY <1>1, <1>3 DEF DataAt
    <2> QED
      BY <1>3, <2>1 DEF Says
  <1>4. CASE sent[b] \in Payloads
    <2> DEFINE S == DataAt(b)
    <2>1. DataAt(b + 1) = S \cup {b}
      BY <1>1, <1>4 DEF DataAt
    <2>2. /\ Cardinality(S) \in Nat
          /\ Cardinality(S \cup {b}) = Cardinality(S) + 1
          /\ Place(S \cup {b}, b) = Cardinality(S) + 1
          /\ \A i \in S : Place(S \cup {b}, i) = Place(S, i) /\ Place(S, i) \in 1..Cardinality(S)
      BY <1>2, PlaceOfLast
    <2>3. Len(payloads) = Cardinality(S) /\ \A i \in S : payloads[Place(S, i)] = sent[i]
      BY DEF Says
    <2> HIDE DEF S
    <2>4. Len(Append(payloads, sent[b])) = Cardinality(S \cup {b})
      BY <2>2, <2>3
    <2>5. ASSUME NEW i \in S \cup {b}
          PROVE  Append(payloads, sent[b])[Place(S \cup {b}, i)] = sent[i]
      <3>1. CASE i = b
        BY <2>2, <2>3, <3>1
      <3>2. CASE i \in S
        <4>1. Place(S, i) \in 1..Len(payloads) /\ payloads[Place(S, i)] = sent[i]
          BY <2>2, <2>3, <3>2
        <4>2. Append(payloads, sent[b])[Place(S, i)] = payloads[Place(S, i)]
          BY <4>1
        <4> QED
          BY <2>2, <3>2, <4>1, <4>2
      <3> QED
        BY <3>1, <3>2
    <2> QED
      BY <1>4, <2>1, <2>4, <2>5 DEF Says
  <1> QED
    BY <1>3, <1>4

\* ... and is its name if it is one.
LEMMA NameStep ==
    ASSUME NEW b \in Nat \ {0}, sent[b] # "blank", NEW name, NameIs(name, b)
    PROVE  /\ sent[b] \in Names => NameIs(sent[b], b + 1)
           /\ sent[b] \notin Names => NameIs(name, b + 1)
  <1>1. Block(b + 1) = Block(b) \cup {b}
    BY BlockStep
  <1>0. Block(b) \subseteq 1..(b - 1)
    BY BlockBefore
  <1>2. CASE sent[b] \in Names
    <2>1. sent[b] # "none"
      BY <1>2 DEF Names
    <2>2. \A j \in Block(b + 1) : ~(j > b)
      BY <1>0, <1>1
    <2> QED
      BY <1>1, <1>2, <2>1, <2>2 DEF NameIs, Named
  <1>3. CASE sent[b] \notin Names
    BY <1>0, <1>1, <1>3 DEF NameIs, Named
  <1> QED
    BY <1>2, <1>3

\* Lines that are sent later change none of this.
LEMMA SentGrows ==
    ASSUME NEW line, sent \in Seq(Lines), sent' = Append(sent, line), NEW b \in 1..(Len(sent) + 1)
    PROVE  /\ Block(b)' = Block(b) /\ DataAt(b)' = DataAt(b)
           /\ \A i \in Block(b) : sent'[i] = sent[i]
           /\ \A name : Named(b, name)' = Named(b, name)
           /\ \A payloads : Says(payloads, b)' = Says(payloads, b)
  <1>1. \A i \in 1..(b - 1) : sent'[i] = sent[i]
    OBVIOUS
  <1>2. Block(b)' = Block(b)
    BY <1>1 DEF Block
  <1>3. Block(b) \subseteq 1..(b - 1)
    BY DEF Block
  <1>4. \A i \in Block(b) : sent'[i] = sent[i]
    BY <1>1, <1>3
  <1>5. DataAt(b)' = DataAt(b)
    BY <1>2, <1>4 DEF DataAt
  <1>6. \A name : Named(b, name)' = Named(b, name)
    BY <1>2, <1>4 DEF Named
  <1>7. DataAt(b) \subseteq Block(b)
    BY DEF DataAt
  <1>8. \A payloads : Says(payloads, b)' = Says(payloads, b)
    BY <1>4, <1>5, <1>7 DEF Says
  <1> QED
    BY <1>2, <1>4, <1>5, <1>6, <1>8

-----------------------------------------------------------------------------
\* Reading has come to the end of line m.
ReadTo(m) == m \in 0..Len(sent) /\ Read = EndOf(m)

\* The lines that end by the end of line m are the first m.
LEMMA LinesInText ==
    ASSUME TypeOK, TextIsLines, NEW m \in 0..Len(sent)
    PROVE  /\ {i \in DOMAIN sent : ends[i] <= EndOf(m)} = 1..m
           /\ EndOf(m) \in Nat /\ EndOf(m) <= Len(text)
           /\ EndOf(m) < Len(text) => m < Len(sent)
  <1>1. /\ Len(sent) \in Nat /\ Len(ends) = Len(sent) /\ DOMAIN sent = 1..Len(sent)
        /\ DOMAIN ends = 1..Len(sent) /\ \A i \in 1..Len(sent) : ends[i] \in Nat
    BY DEF TypeOK, TextIsLines
  <1>2. m \in Nat /\ m <= Len(sent)
    BY <1>1
  <1>3. \A i \in 0..Len(sent) : EndOf(i) \in Nat
    BY <1>1 DEF EndOf
  <1>4. EndOf(m) \in Nat
    BY <1>3
  <1>5. EndOf(m) <= Len(text) /\ (EndOf(m) < Len(text) => m < Len(sent))
    <2>1. Len(text) = EndOf(Len(sent))
      BY DEF TextIsLines
    <2>2. CASE m = Len(sent)
      BY <1>4, <2>1, <2>2
    <2>3. CASE m < Len(sent)
      <3>1. m = 0 \/ ends[m] < ends[Len(sent)]
        BY <1>1, <1>2, <2>3 DEF TextIsLines
      <3> QED
        BY <1>1, <1>2, <1>3, <2>1, <2>3, <3>1 DEF EndOf
    <2>4. Len(sent) \in Nat
      BY <1>1
    <2>5. m = Len(sent) \/ m < Len(sent)
      BY <1>2, <2>4
    <2> QED
      BY <2>2, <2>3, <2>5
  <1>6. ASSUME NEW i \in 1..Len(sent)
        PROVE  ends[i] <= EndOf(m) <=> i <= m
    <2>1. CASE m = 0
      <3>1. sent[i] \in Lines /\ i - 1 \in 0..Len(sent)
        BY <1>1 DEF TypeOK
      <3>2. Len(BytesOf(sent[i])) \in Nat \ {0}
        BY <3>1, LineBytes
      <3>3. ends[i] = EndOf(i - 1) + Len(BytesOf(sent[i]))
        BY <1>1 DEF TextIsLines
      <3>4. ends[i] > 0
        BY <1>3, <3>1, <3>2, <3>3
      <3> QED
        BY <1>1, <2>1, <3>4 DEF EndOf
    <2>2. CASE m # 0
      <3>1. m \in 1..Len(sent) /\ EndOf(m) = ends[m]
        BY <1>1, <1>2, <2>2 DEF EndOf
      <3>2. /\ i < m => ends[i] < ends[m]
            /\ m < i => ends[m] < ends[i]
        BY <1>1, <3>1 DEF TextIsLines
      <3> QED
        BY <1>1, <3>1, <3>2
    <2> QED
      BY <2>1, <2>2
  <1>7. {i \in DOMAIN sent : ends[i] <= EndOf(m)} = 1..m
    <2>1. {i \in DOMAIN sent : ends[i] <= EndOf(m)} = {i \in 1..Len(sent) : i <= m}
      BY <1>1, <1>6
    <2>2. {i \in 1..Len(sent) : i <= m} = 1..m
      BY <1>1, <1>2
    <2> QED
      BY <2>1, <2>2
  <1> QED
    BY <1>4, <1>5, <1>7

\* What is read next is a line of its own, from its first byte on.
LEMMA NextLine ==
    ASSUME TypeOK, TextIsLines, BufferIsText, NEW m, ReadTo(m), m < Len(sent)
    PROVE  /\ m + 1 \in 1..Len(sent) /\ sent[m + 1] \in Lines
           /\ EndOf(m + 1) = Read + Len(BytesOf(sent[m + 1]))
           /\ \A j \in 1..Len(BytesOf(sent[m + 1])) :
                j <= Len(buffer) => buffer[j] = BytesOf(sent[m + 1])[j]
  <1>1. m + 1 \in 1..Len(sent) /\ m + 1 \in DOMAIN sent /\ m \in Nat
    BY DEF TypeOK, ReadTo
  <1>2. sent[m + 1] \in Lines
    BY <1>1 DEF TypeOK
  <1> DEFINE bytes == BytesOf(sent[m + 1])
  <1>3. bytes \in Seq(Bytes) /\ Len(bytes) \in Nat
    BY <1>2, LineBytes
  <1>4. /\ ends[m + 1] = EndOf(m) + Len(bytes)
        /\ \A j \in DOMAIN bytes : text[EndOf(m) + j] = bytes[j]
    <2>1. PICK i \in 1..Len(sent) : i = m + 1
      BY <1>1
    <2>2. i \in DOMAIN sent /\ i - 1 = m
      BY <1>1, <2>1
    <2>3. /\ ends[i] = EndOf(i - 1) + Len(BytesOf(sent[i]))
          /\ \A j \in DOMAIN BytesOf(sent[i]) : text[EndOf(i - 1) + j] = BytesOf(sent[i])[j]
      BY <2>2 DEF TextIsLines
    <2> QED
      BY <2>1, <2>2, <2>3
  <1>5. ASSUME NEW j \in 1..Len(bytes), j <= Len(buffer)
        PROVE  buffer[j] = bytes[j]
    <2>1. j \in DOMAIN bytes /\ j \in DOMAIN buffer
      BY <1>3, <1>5 DEF TypeOK
    <2>2. buffer[j] = text[Read + j]
      BY <2>1 DEF BufferIsText
    <2> QED
      BY <1>4, <2>1, <2>2 DEF ReadTo
  <1> QED
    BY <1>1, <1>2, <1>4, <1>5 DEF EndOf, ReadTo

\* A buffer without a newline is the beginning of a line, and not all of it.
LEMMA Incomplete ==
    ASSUME TypeOK, TextIsLines, BufferIsText, NEW m, ReadTo(m), m < Len(sent), ~LineComplete
    PROVE  Len(buffer) < Len(BytesOf(sent[m + 1]))
  <1> DEFINE bytes == BytesOf(sent[m + 1])
  <1>1. Len(bytes) \in Nat \ {0} /\ bytes[Len(bytes)] = "\n"
    BY NextLine, LineBytes
  <1>2. ASSUME Len(bytes) <= Len(buffer) PROVE FALSE
    <2>1. buffer[Len(bytes)] = "\n"
      BY <1>1, <1>2, NextLine
    <2>2. Len(bytes) \in DOMAIN buffer
      BY <1>1, <1>2 DEF TypeOK
    <2> QED
      BY <2>1, <2>2 DEF LineComplete, LineEnds
  <1>3. Len(buffer) \in Nat
    BY DEF TypeOK
  <1> QED
    BY <1>1, <1>2, <1>3

\* The first newline in the buffer is the one of the line that is read next.
LEMMA FirstEnd ==
    ASSUME TypeOK, TextIsLines, BufferIsText, NEW m, ReadTo(m), LineComplete
    PROVE  /\ m < Len(sent)
           /\ Min(LineEnds) = Len(BytesOf(sent[m + 1]))
           /\ Len(BytesOf(sent[m + 1])) <= Len(buffer)
  <1>1. PICK e \in 1..Len(buffer) : buffer[e] = "\n"
    BY DEF LineComplete, LineEnds, TypeOK
  <1>2. m < Len(sent)
    <2>1. Len(buffer) \in Nat /\ taken \in Nat /\ Len(text) \in Nat /\ taken <= Len(text)
      BY DEF TypeOK, BufferIsText
    <2>2. Read < Len(text)
      BY <1>1, <2>1 DEF Read
    <2> QED
      BY <2>2, LinesInText DEF ReadTo
  <1> DEFINE bytes == BytesOf(sent[m + 1])
             k == Len(bytes)
  <1>3. /\ k \in Nat \ {0} /\ bytes[k] = "\n"
        /\ \A j \in 1..(k - 1) : bytes[j] # "\n"
    BY <1>2, NextLine, LineBytes
  <1>4. \A j \in 1..k : j <= Len(buffer) => buffer[j] = bytes[j]
    BY <1>2, NextLine
  <1>5. Len(buffer) \in Nat
    BY DEF TypeOK
  <1> HIDE DEF bytes, k
  <1>6. k <= Len(buffer)
    BY <1>1, <1>3, <1>4, <1>5
  <1>7. k \in LineEnds
    BY <1>3, <1>4, <1>5, <1>6 DEF LineEnds, TypeOK
  <1>8. ASSUME NEW y \in LineEnds PROVE k <= y
    <2>1. y \in 1..Len(buffer) /\ buffer[y] = "\n"
      BY <1>8 DEF LineEnds, TypeOK
    <2> QED
      BY <1>3, <1>4, <1>5, <2>1
  <1>9. \A x \in LineEnds : (\A y \in LineEnds : x <= y) => x = k
    <2>1. LineEnds \subseteq Int
      BY <1>5 DEF LineEnds, TypeOK
    <2> QED
      BY <1>7, <1>8, <2>1
  <1>10. Min(LineEnds) = k
    BY <1>7, <1>8, <1>9 DEF Min
  <1> QED
    BY <1>2, <1>6, <1>10 DEF k, bytes

-----------------------------------------------------------------------------
\* A block has one name at most.
LEMMA OneName ==
    ASSUME NEW b \in Int, NEW name, NameIs(name, b), name \in {"none"} \cup Names
    PROVE  Named(b, "cues") <=> name = "cues"
  <1>1. CASE name = "none"
    BY <1>1 DEF NameIs, Named, Names
  <1>2. CASE name = "cues"
    BY <1>2 DEF NameIs
  <1>3. CASE name = "other" /\ Named(b, "cues")
    <2>1. PICK i \in Block(b) : sent[i] = "other" /\ \A j \in Block(b) : j > i => sent[j] \notin Names
      BY <1>3 DEF NameIs, Named
    <2>2. PICK k \in Block(b) : sent[k] = "cues" /\ \A j \in Block(b) : j > k => sent[j] \notin Names
      BY <1>3 DEF Named
    <2>3. i \in Int /\ k \in Int
      BY <2>1, <2>2 DEF Block
    <2>4. i > k \/ k > i \/ i = k
      BY <2>3
    <2> QED
      BY <2>1, <2>2, <2>4 DEF Names
  <1> QED
    BY <1>1, <1>2, <1>3 DEF Names

\* A line that ends an event hands it on, and no other does.
LEMMA EndStep ==
    ASSUME NEW S \in SUBSET Nat, IsFiniteSet(S), NEW b \in Nat, \A i \in S : i < b,
           NEW sequence \in Seq(Seq(Payloads)), NEW payloads \in Seq(Payloads),
           Len(sequence) = Cardinality(S), \A i \in S : Says(sequence[Place(S, i)], i),
           Says(payloads, b)
    PROVE  /\ Len(Append(sequence, payloads)) = Cardinality(S \cup {b})
           /\ \A i \in S \cup {b} : Says(Append(sequence, payloads)[Place(S \cup {b}, i)], i)
  <1>1. /\ Cardinality(S) \in Nat
        /\ Cardinality(S \cup {b}) = Cardinality(S) + 1
        /\ Place(S \cup {b}, b) = Cardinality(S) + 1
        /\ \A i \in S : Place(S \cup {b}, i) = Place(S, i) /\ Place(S, i) \in 1..Cardinality(S)
    BY PlaceOfLast
  <1>2. Len(Append(sequence, payloads)) = Cardinality(S \cup {b})
    BY <1>1
  <1>3. ASSUME NEW i \in S \cup {b}
        PROVE  Says(Append(sequence, payloads)[Place(S \cup {b}, i)], i)
    <2>1. CASE i = b
      <3>1. Append(sequence, payloads)[Len(sequence) + 1] = payloads
        OBVIOUS
      <3>2. Place(S \cup {b}, b) = Len(sequence) + 1
        BY <1>1
      <3> QED
        BY <2>1, <3>1, <3>2
    <2>2. CASE i \in S
      <3>1. Place(S, i) \in 1..Len(sequence) /\ Place(S \cup {b}, i) = Place(S, i)
        BY <1>1, <2>2
      <3>2. Append(sequence, payloads)[Place(S, i)] = sequence[Place(S, i)]
        BY <3>1
      <3> QED
        BY <2>2, <3>1, <3>2
    <2> QED
      BY <2>1, <2>2
  <1> QED
    BY <1>2, <1>3

\* What was handed on, when reading has come to the end of line m.
LEMMA EventEndsTo ==
    ASSUME TypeOK, TextIsLines, NEW m, ReadTo(m)
    PROVE  EventEnds = {b \in 1..m : sent[b] = "blank" /\ Named(b, "cues") /\ DataAt(b) # {}}
  <1>1. m \in 0..Len(sent) /\ Read = EndOf(m)
    BY DEF ReadTo
  <1>2. ReadLines = 1..m
    BY <1>1, LinesInText DEF ReadLines
  <1> QED
    BY <1>2 DEF EventEnds

\* A connection begins with nothing sent, read or handed on.
Beginning ==
    /\ sent = <<>> /\ text = <<>> /\ ends = <<>> /\ taken = 0 /\ buffer = <<>>
    /\ event = "none" /\ data = <<>> /\ refused = FALSE /\ handed = <<>>

LEMMA BeginsOK ==
    ASSUME crlf \in BOOLEAN, Beginning
    PROVE  IInv
  <1>0. Len(sent) = 0 /\ Len(buffer) = 0 /\ Len(data) = 0 /\ taken = 0
    BY DEF Beginning
  <1>1. TypeOK
    <2>1. /\ sent \in Seq(Lines) /\ text \in Seq(Bytes) /\ ends \in Seq(Nat) /\ buffer \in Seq(Bytes)
          /\ data \in Seq(Payloads) /\ handed \in Seq(Seq(Payloads))
      BY DEF Beginning
    <2>2. Len(buffer) <= Cap
      BY <1>0, FramingAssumption
    <2> QED
      BY <2>1, <2>2 DEF TypeOK, Beginning
  <1>2. TextIsLines
    BY DEF TextIsLines, EndOf, Beginning
  <1>3. BufferIsText
    BY DEF BufferIsText, Beginning
  <1>4. Read = 0 /\ EndOf(0) = 0 /\ Len(sent) = 0
    <2>1. Read = 0
      BY <1>0 DEF Read
    <2>2. EndOf(0) = 0
      BY DEF EndOf
    <2> QED
      BY <1>0, <2>1, <2>2
  <1>5. FieldsOf(1)
    <2>1. Block(1) = {}
      BY DEF Block
    <2> QED
      BY <2>1, NothingYet DEF FieldsOf, NameIs, Beginning
  <1>6. ReadsWholeLines
    BY <1>4, <1>5 DEF ReadsWholeLines
  <1>7. EventEnds = {}
    BY DEF EventEnds, ReadLines, Beginning
  <1>8. HandsOnWhatWasSaid
    BY <1>7, FS_EmptySet DEF HandsOnWhatWasSaid, Beginning
  <1>9. OnlyLongLinesRefused
    BY DEF OnlyLongLinesRefused, Beginning
  <1> QED
    BY <1>1, <1>2, <1>3, <1>6, <1>8, <1>9 DEF IInv

\* A line that is sent later changes nothing of what was read.
LEMMA SendsOK ==
    ASSUME IInv, NEW line \in Lines, Sends(line)
    PROVE  IInv'
  <1> DEFINE bytes == BytesOf(line)
  <1>0. PICK n \in Nat : n = Len(sent)
    BY DEF IInv, TypeOK
  <1>1. TypeOK /\ TextIsLines /\ BufferIsText /\ HandsOnWhatWasSaid /\ OnlyLongLinesRefused
    BY DEF IInv
  <1>2. /\ sent \in Seq(Lines) /\ text \in Seq(Bytes) /\ ends \in Seq(Nat) /\ crlf \in BOOLEAN
        /\ taken \in Nat /\ buffer \in Seq(Bytes) /\ Len(buffer) \in Nat /\ n = Len(sent) /\ Len(text) \in Nat
    BY <1>0, <1>1 DEF TypeOK
  <1>3. /\ sent' = Append(sent, line) /\ text' = text \o bytes
        /\ ends' = Append(ends, Len(text) + Len(bytes))
        /\ UNCHANGED <<crlf, taken, buffer, event, data, refused, handed>>
    BY DEF Sends
  <1>4. bytes \in Seq(Bytes) /\ Len(bytes) \in Nat \ {0}
    BY LineBytes
  <1>5. \A i : BytesOf(sent[i])' = BytesOf(sent'[i])
    BY <1>3 DEF BytesOf
  <1> HIDE DEF bytes
  <1>6. /\ Len(sent') = n + 1 /\ sent'[n + 1] = line
        /\ \A i \in 1..n : sent'[i] = sent[i]
    BY <1>2, <1>3
  <1>7. /\ Len(ends) = n /\ Len(ends') = n + 1 /\ ends'[n + 1] = Len(text) + Len(bytes)
        /\ \A i \in 1..n : ends'[i] = ends[i] /\ ends[i] \in Nat
    BY <1>1, <1>2, <1>3, <1>4 DEF TextIsLines
  <1>8. /\ Len(text') = Len(text) + Len(bytes)
        /\ \A j \in 1..Len(text) : text'[j] = text[j]
        /\ \A j \in 1..Len(bytes) : text'[Len(text) + j] = bytes[j]
    BY <1>2, <1>3, <1>4
  <1>9. \A i \in 0..n : EndOf(i)' = EndOf(i) /\ EndOf(i) \in Nat
    BY <1>7 DEF EndOf
  <1>10. Read' = Read
    BY <1>3 DEF Read
  <1>11. TypeOK'
    <2>1. sent' \in Seq(Lines) /\ text' \in Seq(Bytes) /\ ends' \in Seq(Nat)
      BY <1>2, <1>3, <1>4
    <2> QED
      BY <1>1, <1>3, <2>1 DEF TypeOK
  <1>12. TextIsLines'
    <2>1. Len(text) = EndOf(n)
      BY <1>0, <1>1 DEF TextIsLines
    <2>2. EndOf(n + 1)' = Len(text) + Len(bytes)
      BY <1>2, <1>7 DEF EndOf
    <2>3. ASSUME NEW i \in 1..(n + 1), NEW j \in 1..(n + 1), i < j
          PROVE  ends'[i] < ends'[j]
      <3>1. CASE j \in 1..n
        <4>1. i \in 1..n /\ i \in DOMAIN ends /\ j \in DOMAIN ends
          BY <1>2, <1>7, <2>3, <3>1
        <4> QED
          BY <1>1, <1>7, <2>3, <3>1, <4>1 DEF TextIsLines
      <3>2. CASE j = n + 1
        <4>1. i \in 1..n
          BY <1>2, <2>3, <3>2
        <4>2. EndOf(i) <= Len(text) /\ EndOf(i) = ends[i]
          BY <1>0, <1>1, <4>1, LinesInText DEF EndOf
        <4> QED
          BY <1>2, <1>4, <1>7, <3>2, <4>1, <4>2
      <3> QED
        BY <3>1, <3>2
    <2>4. ASSUME NEW i \in 1..(n + 1)
          PROVE  /\ ends'[i] = EndOf(i - 1)' + Len(BytesOf(sent'[i]))
                 /\ \A j \in DOMAIN BytesOf(sent'[i]) : text'[EndOf(i - 1)' + j] = BytesOf(sent'[i])[j]
      <3>1. CASE i \in 1..n
        <4>1. i \in DOMAIN sent /\ sent[i] \in Lines /\ sent'[i] = sent[i] /\ i - 1 \in 0..n
          BY <1>2, <1>6, <3>1
        <4>2. BytesOf(sent[i]) \in Seq(Bytes)
          BY <4>1, LineBytes
        <4>3. /\ ends[i] = EndOf(i - 1) + Len(BytesOf(sent[i]))
              /\ \A j \in DOMAIN BytesOf(sent[i]) : text[EndOf(i - 1) + j] = BytesOf(sent[i])[j]
          BY <1>1, <4>1 DEF TextIsLines
        <4>4. EndOf(i - 1)' = EndOf(i - 1) /\ EndOf(i - 1) \in Nat
          BY <1>9, <4>1
        <4>5. ends[i] <= Len(text)
          <5>1. EndOf(i) <= Len(text) /\ EndOf(i) = ends[i]
            BY <1>1, <1>2, <3>1, LinesInText DEF EndOf
          <5> QED
            BY <5>1
        <4>6. ASSUME NEW j \in DOMAIN BytesOf(sent[i])
              PROVE  text'[EndOf(i - 1) + j] = text[EndOf(i - 1) + j]
          <5>1. EndOf(i - 1) + j \in 1..Len(text)
            BY <1>2, <4>2, <4>3, <4>4, <4>5
          <5> QED
            BY <1>8, <5>1
        <4> QED
          BY <1>7, <3>1, <4>1, <4>3, <4>4, <4>6
      <3>2. CASE i = n + 1
        <4>1. i - 1 = n /\ sent'[i] = line
          BY <1>2, <1>6, <3>2
        <4>2. EndOf(n)' = Len(text)
          BY <1>2, <1>9, <2>1
        <4>3. ends'[i] = EndOf(i - 1)' + Len(BytesOf(sent'[i]))
          BY <1>7, <3>2, <4>1, <4>2 DEF bytes
        <4>4. DOMAIN bytes = 1..Len(bytes)
          BY <1>4
        <4>5. \A j \in DOMAIN bytes : text'[Len(text) + j] = bytes[j]
          BY <1>8, <4>4
        <4> QED
          BY <4>1, <4>2, <4>3, <4>5 DEF bytes
      <3> QED
        BY <3>1, <3>2
    <2>5. DOMAIN sent' = 1..(n + 1) /\ DOMAIN ends' = 1..(n + 1)
      BY <1>2, <1>3, <1>6, <1>7
    <2>6. /\ Len(ends') = Len(sent') /\ Len(text') = EndOf(n + 1)'
          /\ \A i, j \in DOMAIN ends' : i < j => ends'[i] < ends'[j]
      BY <1>6, <1>7, <1>8, <2>2, <2>3, <2>5
    <2>7. \A i \in DOMAIN sent' :
             /\ ends'[i] = EndOf(i - 1)' + Len(BytesOf(sent[i])')
             /\ \A j \in DOMAIN (BytesOf(sent[i])') :
                  text'[EndOf(i - 1)' + j] = (BytesOf(sent[i])')[j]
      BY <1>5, <2>4, <2>5
    <2>8. EndOf(Len(sent))' = EndOf(n + 1)'
      BY <1>6 DEF EndOf
    <2> QED
      BY <2>6, <2>7, <2>8 DEF TextIsLines
  <1>13. BufferIsText'
    <2>1. /\ Len(buffer) <= taken /\ taken <= Len(text)
          /\ \A j \in DOMAIN buffer : buffer[j] = text[Read + j]
      BY <1>1 DEF BufferIsText
    <2>2. \A j \in DOMAIN buffer : Read + j \in 1..Len(text)
      BY <1>2, <2>1 DEF Read
    <2>3. Len(buffer) <= taken /\ taken <= Len(text')
      BY <1>2, <1>4, <1>8, <2>1
    <2>4. \A j \in DOMAIN buffer : buffer[j] = text'[Read + j]
      BY <1>8, <2>1, <2>2
    <2> QED
      BY <1>3, <1>10, <2>3, <2>4 DEF BufferIsText
  <1>14. PICK m \in 0..n : Read = EndOf(m) /\ FieldsOf(m + 1)
    BY <1>0 DEF IInv, ReadsWholeLines
  <1>15. ReadsWholeLines'
    <2>1. m + 1 \in 1..(Len(sent) + 1)
      BY <1>2, <1>14
    <2>2. /\ \A i \in Block(m + 1) : sent'[i] = sent[i]
          /\ Block(m + 1)' = Block(m + 1)
          /\ Named(m + 1, event)' = Named(m + 1, event)
          /\ Says(data, m + 1)' = Says(data, m + 1)
      BY <1>2, <1>3, <2>1, SentGrows
    <2>3. FieldsOf(m + 1)'
      BY <1>3, <1>14, <2>2 DEF FieldsOf
    <2> QED
      BY <1>2, <1>6, <1>9, <1>10, <1>14, <2>3 DEF ReadsWholeLines
  <1>16. HandsOnWhatWasSaid'
    <2>1. ReadLines' = ReadLines
      <3>1. Read <= Len(text) /\ Read \in Int
        BY <1>1, <1>2 DEF BufferIsText, Read
      <3>2. ~(ends'[n + 1] <= Read)
        BY <1>2, <1>4, <1>7, <3>1
      <3>3. DOMAIN sent' = (1..n) \cup {n + 1} /\ DOMAIN sent = 1..n
        BY <1>0, <1>2, <1>3, <1>6
      <3>4. ReadLines' = {i \in DOMAIN sent' : ends'[i] <= Read}
        BY <1>10 DEF ReadLines
      <3> QED
        BY <1>7, <3>2, <3>3, <3>4 DEF ReadLines
    <2>2. ASSUME NEW b \in ReadLines
          PROVE  /\ sent'[b] = sent[b]
                 /\ DataAt(b)' = DataAt(b)
                 /\ Named(b, "cues")' = Named(b, "cues")
                 /\ \A payloads : Says(payloads, b)' = Says(payloads, b)
      <3>1. b \in 1..n /\ b \in 1..(Len(sent) + 1)
        BY <1>0, <1>2, <2>2 DEF ReadLines
      <3> QED
        BY <1>2, <1>3, <1>6, <3>1, SentGrows
    <2>3. EventEnds' = EventEnds
      BY <2>1, <2>2 DEF EventEnds
    <2>4. ASSUME NEW b \in EventEnds
          PROVE  Says(handed[Place(EventEnds, b)], b)'
      <3>1. b \in ReadLines
        BY DEF EventEnds
      <3>2. Says(handed[Place(EventEnds, b)], b)
        BY <1>1 DEF HandsOnWhatWasSaid
      <3>3. PICK p : p = handed[Place(EventEnds, b)]
        OBVIOUS
      <3>4. Place(EventEnds, b)' = Place(EventEnds, b)
        BY <2>3 DEF Place
      <3>5. (handed[Place(EventEnds, b)])' = p
        BY <1>3, <3>3, <3>4
      <3>6. Says(p, b)'
        BY <2>2, <3>1, <3>2, <3>3
      <3> QED
        BY <3>5, <3>6 DEF Says
    <2> QED
      BY <1>1, <1>3, <2>3, <2>4 DEF HandsOnWhatWasSaid
  <1>17. OnlyLongLinesRefused'
    <2>1. SUFFICES ASSUME refused' PROVE \E i \in DOMAIN sent' : Len(BytesOf(sent[i])') > Cap - MaxChunk
      BY DEF OnlyLongLinesRefused
    <2>2. PICK i \in DOMAIN sent : Len(BytesOf(sent[i])) > Cap - MaxChunk
      BY <1>1, <1>3, <2>1 DEF OnlyLongLinesRefused
    <2>3. i \in DOMAIN sent' /\ sent'[i] = sent[i]
      BY <1>0, <1>2, <1>3, <1>6, <2>2
    <2> QED
      BY <1>5, <2>2, <2>3
  <1> QED
    BY <1>11, <1>12, <1>13, <1>15, <1>16, <1>17 DEF IInv

\* A chunk puts the bytes that come next into the buffer; given up is a line longer than
\* what the cap leaves.
LEMMA ChunkOK ==
    ASSUME IInv, NEW n \in 1..MaxChunk, Chunk(n)
    PROVE  IInv'
  <1> DEFINE chunk == SubSeq(text, taken + 1, taken + n)
  <1>1. TypeOK /\ TextIsLines /\ BufferIsText /\ HandsOnWhatWasSaid /\ OnlyLongLinesRefused
    BY DEF IInv
  <1>2. /\ text \in Seq(Bytes) /\ Len(text) \in Nat /\ taken \in Nat
        /\ buffer \in Seq(Bytes) /\ Len(buffer) \in Nat /\ Cap \in Nat /\ MaxChunk \in Nat /\ n \in Nat
    BY <1>1, FramingAssumption DEF TypeOK
  <1>3. /\ ~refused /\ ~LineComplete /\ n <= Len(text) - taken
        /\ taken' = taken + n /\ buffer' = buffer \o chunk /\ refused' = Oversized(buffer')
        /\ UNCHANGED <<crlf, sent, text, ends, event, data, handed>>
    BY DEF Chunk, server
  <1>4. /\ chunk \in Seq(Bytes) /\ Len(chunk) = n
        /\ \A j \in 1..n : chunk[j] = text[taken + j]
    BY <1>2, <1>3
  <1> HIDE DEF chunk
  <1>5. /\ buffer' \in Seq(Bytes) /\ Len(buffer') = Len(buffer) + n
        /\ \A j \in 1..Len(buffer) : buffer'[j] = buffer[j]
        /\ \A j \in 1..n : buffer'[Len(buffer) + j] = chunk[j]
    <2>1. buffer' = buffer \o chunk
      BY <1>3
    <2>2. buffer \in Seq(Bytes) /\ n \in Nat
      BY <1>2
    <2> QED
      BY <1>4, <2>1, <2>2, Joined
  <1>6. Read' = Read
    <2>1. taken' = taken + n /\ Len(buffer') = Len(buffer) + n
      BY <1>3, <1>5
    <2>2. taken \in Nat /\ Len(buffer) \in Nat /\ n \in Nat
      BY <1>2
    <2> QED
      BY <2>1, <2>2 DEF Read
  <1>7. TypeOK'
    <2>1. refused' \in BOOLEAN /\ (~refused' => Len(buffer') <= Cap)
      <3>1. refused' = (Len(buffer') > Cap)
        BY <1>3 DEF Oversized
      <3>2. CASE Len(buffer') > Cap
        BY <3>1, <3>2
      <3>3. CASE ~(Len(buffer') > Cap)
        <4>1. Len(buffer') <= Cap
          BY <1>2, <1>5, <3>3
        <4> QED
          BY <3>1, <3>3, <4>1
      <3> QED
        BY <3>2, <3>3
    <2>2. taken' \in Nat
      BY <1>2, <1>3
    <2> QED
      BY <1>1, <1>3, <1>5, <2>1, <2>2 DEF TypeOK
  <1>8. TextIsLines'
    BY <1>1, <1>3 DEF TextIsLines, EndOf, BytesOf
  <1>9. BufferIsText'
    <2>1. /\ Len(buffer) <= taken /\ taken <= Len(text)
          /\ \A j \in 1..Len(buffer) : buffer[j] = text[Read + j]
      BY <1>1, <1>2 DEF BufferIsText
    <2>2. Len(buffer') <= taken' /\ taken' <= Len(text)
      BY <1>2, <1>3, <1>5, <2>1
    <2>3. ASSUME NEW j \in 1..(Len(buffer) + n)
          PROVE  buffer'[j] = text[Read + j]
      <3>1. CASE j <= Len(buffer)
        BY <1>2, <1>5, <2>1, <3>1
      <3>2. CASE j > Len(buffer)
        <4>1. PICK k \in 1..n : j = Len(buffer) + k
          <5>1. j - Len(buffer) \in 1..n /\ j = Len(buffer) + (j - Len(buffer))
            BY <1>2, <3>2
          <5> QED
            BY <5>1
        <4>2. Read + j = taken + k
          BY <1>2, <4>1 DEF Read
        <4> QED
          BY <1>4, <1>5, <4>1, <4>2
      <3> QED
        BY <1>2, <3>1, <3>2
    <2>4. DOMAIN buffer' = 1..(Len(buffer) + n)
      BY <1>2, <1>5
    <2> QED
      BY <1>3, <1>6, <2>2, <2>3, <2>4 DEF BufferIsText
  <1>10. ReadsWholeLines'
    <2>1. PICK m \in 0..Len(sent) : Read = EndOf(m) /\ FieldsOf(m + 1)
      BY DEF IInv, ReadsWholeLines
    <2>2. EndOf(m)' = EndOf(m)
      BY <1>3 DEF EndOf
    <2>3. FieldsOf(m + 1)'
      BY <1>3, <2>1 DEF FieldsOf, Says, Named, DataAt, Block, Place
    <2> QED
      BY <1>3, <1>6, <2>1, <2>2, <2>3 DEF ReadsWholeLines
  <1>11. HandsOnWhatWasSaid'
    <2>1. ReadLines' = ReadLines
      BY <1>3, <1>6 DEF ReadLines
    <2>2. EventEnds' = EventEnds
      BY <1>3, <2>1 DEF EventEnds, Named, DataAt, Block
    <2> QED
      BY <1>1, <1>3, <2>2 DEF HandsOnWhatWasSaid, Says, DataAt, Block, Place
  <1>12. OnlyLongLinesRefused'
    <2>1. SUFFICES ASSUME refused'
                   PROVE  \E i \in DOMAIN sent : Len(BytesOf(sent[i])) > Cap - MaxChunk
      BY <1>3 DEF OnlyLongLinesRefused, BytesOf
    <2>2. PICK m \in 0..Len(sent) : Read = EndOf(m)
      BY DEF IInv, ReadsWholeLines
    <2>3. ReadTo(m)
      BY <2>2 DEF ReadTo
    <2>4. Read < Len(text)
      BY <1>1, <1>2, <1>3 DEF BufferIsText, Read
    <2>5. m < Len(sent)
      BY <1>1, <2>2, <2>4, LinesInText
    <2>6. Len(buffer) < Len(BytesOf(sent[m + 1])) /\ m + 1 \in DOMAIN sent
          /\ Len(BytesOf(sent[m + 1])) \in Nat
      BY <1>1, <1>3, <2>3, <2>5, Incomplete, NextLine, LineBytes DEF TypeOK
    <2>7. Len(buffer) + n > Cap
      BY <1>3, <1>5, <2>1 DEF Oversized
    <2>8. Len(buffer) > Cap - MaxChunk
      BY <1>2, <2>7
    <2> QED
      BY <1>2, <2>6, <2>8
  <1> QED
    BY <1>7, <1>8, <1>9, <1>10, <1>11, <1>12 DEF IInv

\* A line that is read does to the fields what it does, and one that ends an event hands
\* it on.
LEMMA ReadsLineOK ==
    ASSUME IInv, ReadsLine
    PROVE  IInv'
  <1>1. TypeOK /\ TextIsLines /\ BufferIsText /\ HandsOnWhatWasSaid /\ OnlyLongLinesRefused
    BY DEF IInv
  <1>2. /\ buffer \in Seq(Bytes) /\ Len(buffer) \in Nat /\ taken \in Nat /\ data \in Seq(Payloads)
        /\ handed \in Seq(Seq(Payloads)) /\ Len(sent) \in Nat /\ event \in {"none"} \cup Names
        /\ sent \in Seq(Lines)
    BY <1>1 DEF TypeOK
  <1>3. PICK m \in 0..Len(sent) : Read = EndOf(m) /\ FieldsOf(m + 1)
    BY DEF IInv, ReadsWholeLines
  <1>4. ReadTo(m) /\ LineComplete /\ ~refused
    BY <1>3 DEF ReadTo, ReadsLine
  <1> DEFINE line == sent[m + 1]
  <1>5. PICK k \in Nat \ {0} : k = Len(BytesOf(line)) /\ k = Min(LineEnds) /\ k <= Len(buffer)
    <2>1. /\ m < Len(sent) /\ Min(LineEnds) = Len(BytesOf(line))
          /\ Len(BytesOf(line)) <= Len(buffer)
      BY <1>1, <1>4, FirstEnd
    <2>2. Len(BytesOf(line)) \in Nat \ {0}
      BY <1>1, <1>4, <2>1, NextLine, LineBytes
    <2> QED
      BY <2>1, <2>2
  <1>6. /\ m < Len(sent) /\ m + 1 \in 1..Len(sent) /\ line \in Lines
        /\ EndOf(m + 1) = Read + k
        /\ \A j \in 1..k : buffer[j] = BytesOf(line)[j]
    <2>1. m < Len(sent)
      BY <1>1, <1>4, FirstEnd
    <2>2. /\ m + 1 \in 1..Len(sent) /\ line \in Lines
          /\ EndOf(m + 1) = Read + Len(BytesOf(line))
          /\ \A j \in 1..Len(BytesOf(line)) : j <= Len(buffer) => buffer[j] = BytesOf(line)[j]
      BY <1>1, <1>4, <2>1, NextLine
    <2> QED
      BY <1>2, <1>5, <2>1, <2>2
  <1> DEFINE raw == SubSeq(buffer, 1, k - 1)
  <1>7. /\ Takes(Content(raw))
        /\ buffer' = SubSeq(buffer, k + 1, Len(buffer))
        /\ UNCHANGED <<crlf, sent, text, ends, taken, refused>>
    BY <1>5 DEF ReadsLine, server
  <1>8. IF line = "blank" THEN Content(raw) = <<>>
        ELSE Content(raw) # <<>> /\ Content(raw)[1] = line
    <2>1. /\ raw \in Seq(Bytes) /\ Len(raw) = k - 1
          /\ \A j \in 1..(k - 1) : raw[j] = buffer[j]
      BY <1>2, <1>5
    <2>2. Len(raw) = Len(BytesOf(line)) - 1
      BY <1>5, <2>1
    <2>3. \A j \in 1..Len(raw) : raw[j] = BytesOf(line)[j]
      <3>1. \A j \in 1..(k - 1) : j \in 1..k
        BY <1>5
      <3> HIDE DEF raw, line
      <3> QED
        BY <1>6, <2>1, <3>1
    <2> HIDE DEF raw, line
    <2> QED
      BY <1>6, <2>1, <2>2, <2>3, ContentIs
  <1> HIDE DEF raw
  <1>9. line = "blank" => Ends
    BY <1>7, <1>8 DEF Takes
  <1>10. line # "blank" =>
           /\ event' = (IF line \in Names THEN line ELSE event)
           /\ data' = (IF line \in Payloads THEN Append(data, line) ELSE data)
           /\ UNCHANGED handed
    BY <1>7, <1>8 DEF Takes, Carries
  <1>11. /\ buffer' \in Seq(Bytes) /\ Len(buffer') = Len(buffer) - k
         /\ \A j \in 1..(Len(buffer) - k) : buffer'[j] = buffer[k + j]
    BY <1>2, <1>5, <1>7
  <1>12. Read' = Read + k /\ Read \in Int
    BY <1>2, <1>5, <1>7, <1>11 DEF Read
  <1>13. TypeOK'
    <2>1. event' \in {"none"} \cup Names
      BY <1>2, <1>9, <1>10 DEF Ends
    <2>2. data' \in Seq(Payloads)
      <3>1. CASE line = "blank"
        BY <1>9, <3>1 DEF Ends
      <3>2. CASE line # "blank" /\ line \in Payloads
        BY <1>2, <1>10, <3>2
      <3>3. CASE line # "blank" /\ line \notin Payloads
        BY <1>2, <1>10, <3>3
      <3> QED
        BY <3>1, <3>2, <3>3
    <2>3. handed' \in Seq(Seq(Payloads))
      <3>1. handed' = handed \/ handed' = Append(handed, data)
        BY <1>9, <1>10 DEF Ends
      <3>2. Append(handed, data) \in Seq(Seq(Payloads))
        BY <1>2
      <3> QED
        BY <1>2, <3>1, <3>2
    <2>4. Len(buffer') <= Cap
      BY <1>1, <1>2, <1>4, <1>5, <1>11, FramingAssumption DEF TypeOK
    <2> QED
      BY <1>1, <1>7, <1>11, <2>1, <2>2, <2>3, <2>4 DEF TypeOK
  <1>14. TextIsLines'
    BY <1>1, <1>7 DEF TextIsLines, EndOf, BytesOf
  <1>15. BufferIsText'
    <2>1. /\ Len(buffer) <= taken /\ taken <= Len(text)
          /\ \A j \in 1..Len(buffer) : buffer[j] = text[Read + j]
      BY <1>1, <1>2 DEF BufferIsText
    <2>2. Len(buffer') <= taken
      BY <1>2, <1>5, <1>11, <2>1
    <2>3. ASSUME NEW j \in 1..(Len(buffer) - k)
          PROVE  buffer'[j] = text[Read + k + j]
      <3>1. k + j \in 1..Len(buffer)
        BY <1>2, <1>5
      <3>2. buffer[k + j] = text[Read + (k + j)]
        BY <2>1, <3>1
      <3>3. Read + (k + j) = Read + k + j
        BY <1>5, <1>12
      <3> QED
        BY <1>11, <3>2, <3>3
    <2>4. DOMAIN buffer' = 1..(Len(buffer) - k)
      BY <1>11
    <2> QED
      BY <1>7, <1>12, <2>1, <2>2, <2>3, <2>4 DEF BufferIsText
  <1>16. /\ m + 1 \in Nat \ {0} /\ m + 1 \in Int /\ m + 1 + 1 = m + 2
         /\ Says(data, m + 1) /\ NameIs(event, m + 1)
    BY <1>3 DEF FieldsOf, NameIs
  <1>17. Says(data', m + 2) /\ NameIs(event', m + 2)
    <2>1. CASE line = "blank"
      <3>1. Block(m + 2) = {}
        BY <1>16, <2>1, BlockStep
      <3> QED
        BY <1>9, <2>1, <3>1, NothingYet DEF Ends
    <2>2. CASE line # "blank"
      <3>1. Says(data', m + 2)
        BY <1>2, <1>10, <1>16, <2>2, DataStep
      <3>2. NameIs(event', m + 2)
        BY <1>10, <1>16, <2>2, NameStep
      <3> QED
        BY <3>1, <3>2
    <2> QED
      BY <2>1, <2>2
  <1>18. ReadsWholeLines'
    <2>1. m + 1 \in 0..Len(sent') /\ (m + 1) + 1 = m + 2
      BY <1>6, <1>7
    <2>2. EndOf(m + 1)' = EndOf(m + 1)
      BY <1>7 DEF EndOf
    <2>3. FieldsOf(m + 2)'
      BY <1>7, <1>17 DEF FieldsOf, NameIs, Says, Named, DataAt, Block, Place
    <2> QED
      BY <1>6, <1>12, <2>1, <2>2, <2>3 DEF ReadsWholeLines
  <1>19. HandsOnWhatWasSaid'
    <2> DEFINE E == EventEnds
               b == m + 1
    <2>1. ReadLines = 1..m /\ ReadLines' = 1..b
      <3>1. /\ {i \in DOMAIN sent : ends[i] <= EndOf(m)} = 1..m
            /\ {i \in DOMAIN sent : ends[i] <= EndOf(b)} = 1..b
        BY <1>1, <1>6, LinesInText
      <3>2. Read' = EndOf(b)
        BY <1>6, <1>12
      <3> QED
        BY <1>3, <1>7, <3>1, <3>2 DEF ReadLines
    <2>2. E = {i \in 1..m : sent[i] = "blank" /\ Named(i, "cues") /\ DataAt(i) # {}}
      BY <2>1 DEF EventEnds
    <2>3. EventEnds' = {i \in 1..b : sent[i] = "blank" /\ Named(i, "cues") /\ DataAt(i) # {}}
      BY <1>7, <2>1 DEF EventEnds, Named, DataAt, Block
    <2>4. 1..b = (1..m) \cup {b} /\ b \in Nat
      BY <1>3
    <2>5. /\ E \in SUBSET Nat /\ IsFiniteSet(E) /\ \A i \in E : i < b
      <3>1. E \in SUBSET (1..m) /\ IsFiniteSet(1..m)
        BY <1>3, <2>2, FS_Interval
      <3>2. IsFiniteSet(E)
        BY <3>1, FS_Subset
      <3> QED
        BY <1>3, <3>1, <3>2
    <2>6. Len(handed) = Cardinality(E) /\ \A i \in E : Says(handed[Place(E, i)], i)
      BY <1>1 DEF HandsOnWhatWasSaid
    <2>7. Named(b, "cues") <=> event = "cues"
      BY <1>2, <1>16, OneName
    <2>8. DataAt(b) # {} <=> data # <<>>
      <3>1. IsFiniteSet(DataAt(b))
        BY <1>16, BlockBefore
      <3>2. Len(data) = 0 <=> DataAt(b) = {}
        BY <1>16, <3>1, FS_EmptySet DEF Says
      <3> QED
        BY <1>2, <3>2
    <2> HIDE DEF E
    <2>9. CASE line = "blank" /\ event = "cues" /\ data # <<>>
      <3>1. EventEnds' = E \cup {b}
        BY <2>2, <2>3, <2>4, <2>7, <2>8, <2>9
      <3>2. handed' = Append(handed, data)
        BY <1>9, <2>9 DEF Ends
      <3>3. Says(data, b)
        BY <1>16
      <3>4. /\ Len(Append(handed, data)) = Cardinality(E \cup {b})
            /\ \A i \in E \cup {b} : Says(Append(handed, data)[Place(E \cup {b}, i)], i)
        <4> HIDE DEF b
        <4> QED
          BY <1>2, <2>4, <2>5, <2>6, <3>3, EndStep
      <3>5. ASSUME NEW i \in E \cup {b}
            PROVE  Says(handed[Place(EventEnds, i)], i)'
        <4>1. PICK p : p = Append(handed, data)[Place(E \cup {b}, i)]
          OBVIOUS
        <4>2. Place(EventEnds, i)' = Place(E \cup {b}, i)
          BY <3>1 DEF Place
        <4>3. (handed[Place(EventEnds, i)])' = p
          BY <3>2, <4>1, <4>2
        <4>4. Says(p, i)
          BY <3>4, <4>1
        <4>5. Says(p, i)'
          BY <1>7, <4>4 DEF Says, DataAt, Block, Place
        <4> QED
          BY <4>3, <4>5 DEF Says
      <3> QED
        BY <3>1, <3>2, <3>4, <3>5 DEF HandsOnWhatWasSaid
    <2>10. CASE ~(line = "blank" /\ event = "cues" /\ data # <<>>)
      <3>1. EventEnds' = E
        BY <2>2, <2>3, <2>4, <2>7, <2>8, <2>10
      <3>2. handed' = handed
        BY <1>9, <1>10, <2>10 DEF Ends
      <3> QED
        BY <1>7, <2>6, <3>1, <3>2 DEF HandsOnWhatWasSaid, Says, DataAt, Block, Place
    <2> QED
      BY <2>9, <2>10
  <1>20. OnlyLongLinesRefused'
    BY <1>4, <1>7 DEF OnlyLongLinesRefused
  <1> QED
    BY <1>13, <1>14, <1>15, <1>18, <1>19, <1>20 DEF IInv

\* A stream that ends is followed by one that begins with nothing.
LEMMA ReconnectsOK ==
    ASSUME IInv, Reconnects
    PROVE  IInv'
  <1>1. (crlf \in BOOLEAN)' /\ Beginning'
    BY DEF Reconnects, Beginning, IInv, TypeOK
  <1>2. (crlf \in BOOLEAN /\ Beginning => IInv)'
    BY BeginsOK, PTL
  <1> QED
    BY <1>1, <1>2

-----------------------------------------------------------------------------
\* The inductive invariant: the text is the lines, the buffer what has come of it, and
\* the fields are those of the block that is being read.
THEOREM FramingInductive == Spec => []IInv
  <1>1. Init => IInv
    BY BeginsOK DEF Init, Beginning
  <1>2. IInv /\ [Next]_vars => IInv'
    <2> SUFFICES ASSUME IInv, [Next]_vars PROVE IInv'
      OBVIOUS
    <2>1. ASSUME NEW line \in Lines, Sends(line) PROVE IInv'
      BY <2>1, SendsOK
    <2>2. ASSUME NEW n \in 1..MaxChunk, Chunk(n) PROVE IInv'
      BY <2>2, ChunkOK
    <2>3. CASE ReadsLine
      BY <2>3, ReadsLineOK
    <2>4. CASE Reconnects
      BY <2>4, ReconnectsOK
    <2>5. CASE UNCHANGED vars
      <3>1. TypeOK' /\ OnlyLongLinesRefused'
        BY <2>5 DEF vars, IInv, TypeOK, OnlyLongLinesRefused, BytesOf
      <3>2. TextIsLines' /\ BufferIsText'
        BY <2>5 DEF vars, IInv, TextIsLines, BufferIsText, EndOf, BytesOf, Read
      <3>3. ReadsWholeLines'
        <4>1. PICK m \in 0..Len(sent) : Read = EndOf(m) /\ FieldsOf(m + 1)
          BY DEF IInv, ReadsWholeLines
        <4>2. EndOf(m)' = EndOf(m) /\ Read' = Read
          BY <2>5 DEF vars, EndOf, Read
        <4>3. FieldsOf(m + 1)'
          BY <2>5, <4>1 DEF vars, FieldsOf, Says, Named, DataAt, Block, Place
        <4> QED
          BY <2>5, <4>1, <4>2, <4>3 DEF vars, ReadsWholeLines
      <3>4. HandsOnWhatWasSaid'
        <4>1. EventEnds' = EventEnds
          BY <2>5 DEF vars, EventEnds, ReadLines, Read, Named, DataAt, Block
        <4> QED
          BY <2>5, <4>1 DEF vars, IInv, HandsOnWhatWasSaid, Says, DataAt, Block, Place
      <3> QED
        BY <3>1, <3>2, <3>3, <3>4 DEF IInv
    <2> QED
      BY <2>1, <2>2, <2>3, <2>4, <2>5 DEF Next
  <1> QED
    BY <1>1, <1>2, PTL DEF Spec

\* TypeOK: the variables keep their shapes, and a buffer that is read the cap.
THEOREM FramingTypeCorrect == Spec => []TypeOK
  <1>1. IInv => TypeOK
    BY DEF IInv
  <1> QED
    BY <1>1, FramingInductive, PTL

\* HandsOnWhatWasSaid: however the bytes are cut, the events handed on are those of the
\* lines read.
THEOREM HandsOnCorrect == Spec => []HandsOnWhatWasSaid
  <1>1. IInv => HandsOnWhatWasSaid
    BY DEF IInv
  <1> QED
    BY <1>1, FramingInductive, PTL

\* OnlyLongLinesRefused: no number of short lines gives up a connection.
THEOREM LongLinesCorrect == Spec => []OnlyLongLinesRefused
  <1>1. IInv => OnlyLongLinesRefused
    BY DEF IInv
  <1> QED
    BY <1>1, FramingInductive, PTL
=============================================================================
