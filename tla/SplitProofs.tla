------------------------------ MODULE SplitProofs ------------------------------
(* Of the packet splitter, for packets of any length, any number of them and any   *)
(* reads: what leaves is cut into the client's packets and nothing is lost, doubled  *)
(* or moved.                                                                         *)
EXTENDS Splitter, SequenceTheorems, NaturalsInduction, WellFoundedInduction, TLAPS

\* What holds of 0 and is passed on holds of every natural.
LEMMA PassedOn ==
  ASSUME NEW T, 0 \in T, \A n \in Nat : n \in T => n + 1 \in T
  PROVE  Nat \subseteq T
<1> SUFFICES ASSUME NEW m \in Nat, m \notin T  PROVE FALSE
  OBVIOUS
<1> DEFINE R == OpToRel(<, Nat)
           Out == {n \in Nat : n \notin T}
<1>1. IsWellFoundedOn(R, Nat)
  BY NatLessThanWellFounded
<1>2. \A x, y \in Nat : <<x, y>> \in R <=> x < y
  BY DEF OpToRel
<1>3. Out \subseteq Nat /\ Out # {}
  OBVIOUS
<1> HIDE DEF R
<1>4. PICK x \in Out : \A y \in Out : ~(<<y, x>> \in R)
  BY <1>1, <1>3, WFMin
<1>5. x \in Nat /\ x # 0 /\ x - 1 \in Nat /\ x - 1 < x
  OBVIOUS
<1>6. x - 1 \in T
  BY <1>2, <1>4, <1>5
<1> QED  BY <1>5, <1>6

----------------------------------------------------------------------------
(* What the recursive functions compute.                                       *)

Parts == Seq(Seq(Nat))

\* FlattenSeq is computed from left to right.
LEMMA FlattenWalks ==
  ASSUME NEW seqs \in Parts, seqs # <<>>
  PROVE  \E f : /\ f[1] = seqs[1]
                /\ \A i \in 2..Len(seqs) : f[i] = f[i - 1] \o seqs[i]
                /\ Seqs!FlattenSeq(seqs) = f[Len(seqs)]
<1> DEFINE N == Len(seqs)
           Walk(f) == f = [i \in 1..N |-> IF i = 1 THEN seqs[i] ELSE f[i - 1] \o seqs[i]]
           Upto(n) == \E f : f = [i \in 1..n |-> IF i = 1 THEN seqs[i] ELSE f[i - 1] \o seqs[i]]
           T == {n \in Nat : Upto(n)}
<1>0. N \in Nat /\ N # 0
  OBVIOUS
<1>1. 0 \in T
  <2> DEFINE f == [i \in 1..0 |-> IF i = 1 THEN seqs[i] ELSE <<>>]
  <2>1. f = [i \in 1..0 |-> IF i = 1 THEN seqs[i] ELSE f[i - 1] \o seqs[i]]
    OBVIOUS
  <2> HIDE DEF f
  <2> QED  BY <2>1
<1>2. ASSUME NEW n \in Nat, n \in T  PROVE n + 1 \in T
  <2>1. PICK f : f = [i \in 1..n |-> IF i = 1 THEN seqs[i] ELSE f[i - 1] \o seqs[i]]
    BY <1>2
  <2> DEFINE g == [i \in 1..n + 1 |-> IF i = 1 THEN seqs[i] ELSE f[i - 1] \o seqs[i]]
  <2>2. ASSUME NEW i \in 1..n  PROVE g[i] = f[i]
    <3>1. i \in 1..n + 1
      OBVIOUS
    <3>2. g[i] = IF i = 1 THEN seqs[i] ELSE f[i - 1] \o seqs[i]
      BY <3>1, Zenon
    <3>3. f[i] = IF i = 1 THEN seqs[i] ELSE f[i - 1] \o seqs[i]
      BY <2>1, Zenon
    <3> QED  BY <3>2, <3>3
  <2>3. \A i \in 1..n + 1 : i # 1 => i - 1 \in 1..n
    OBVIOUS
  <2>4. g = [i \in 1..n + 1 |-> IF i = 1 THEN seqs[i] ELSE g[i - 1] \o seqs[i]]
    BY <2>2, <2>3, Zenon
  <2> HIDE DEF g
  <2>5. Upto(n + 1)
    BY <2>4, Zenon
  <2> HIDE DEF Upto
  <2> QED  BY <2>5
<1>3. N \in T
  BY <1>0, <1>1, <1>2, PassedOn
<1>4. \E f : Walk(f)
  BY <1>3
<1>5. PICK f : Walk(f) /\ Seqs!FlattenSeq(seqs) = f[N]
  <2> DEFINE f == CHOOSE f : Walk(f)
  <2>1. Walk(f)
    BY <1>4
  <2>2. Seqs!FlattenSeq(seqs) = f[N]
    BY <1>0 DEF Seqs!FlattenSeq
  <2> QED  BY <2>1, <2>2
<1>6. f[1] = seqs[1]
  BY <1>0, <1>5
<1>7. ASSUME NEW i \in 2..N  PROVE f[i] = f[i - 1] \o seqs[i]
  <2>1. i \in 1..N /\ i # 1
    BY <1>0
  <2>2. f[i] = IF i = 1 THEN seqs[i] ELSE f[i - 1] \o seqs[i]
    BY <1>5, <2>1, Zenon
  <2> QED  BY <2>1, <2>2
<1> HIDE DEF N
<1> WITNESS f
<1> QED  BY <1>5, <1>6, <1>7 DEF N

LEMMA FlattenEmpty ==  Seqs!FlattenSeq(<<>>) = <<>>
BY DEF Seqs!FlattenSeq

LEMMA FlattenTyped ==
  ASSUME NEW seqs \in Parts
  PROVE  Seqs!FlattenSeq(seqs) \in Seq(Nat)
<1>1. CASE seqs = <<>>
  <2>1. <<>> \in Seq(Nat)
    OBVIOUS
  <2> QED  BY <1>1, <2>1, FlattenEmpty, Zenon
<1>2. CASE seqs # <<>>
  <2>1. PICK f : /\ f[1] = seqs[1]
                 /\ \A i \in 2..Len(seqs) : f[i] = f[i - 1] \o seqs[i]
                 /\ Seqs!FlattenSeq(seqs) = f[Len(seqs)]
    BY <1>2, FlattenWalks
  <2> DEFINE T == {n \in Nat : n + 1 \in 1..Len(seqs) => f[n + 1] \in Seq(Nat)}
  <2>2. Len(seqs) \in Nat /\ Len(seqs) # 0 /\ \A i \in 1..Len(seqs) : seqs[i] \in Seq(Nat)
    BY <1>2 DEF Parts
  <2>3. 0 \in T
    BY <2>1, <2>2
  <2>4. ASSUME NEW n \in Nat, n \in T  PROVE n + 1 \in T
    <3> SUFFICES ASSUME n + 2 \in 1..Len(seqs)  PROVE f[n + 2] \in Seq(Nat)
      BY <2>2
    <3>1. n + 2 \in 2..Len(seqs) /\ n + 1 \in 1..Len(seqs) /\ (n + 2) - 1 = n + 1
      BY <2>2
    <3>2. f[n + 2] = f[n + 1] \o seqs[n + 2]
      BY <2>1, <3>1
    <3>3. f[n + 1] \in Seq(Nat) /\ seqs[n + 2] \in Seq(Nat)
      BY <2>2, <2>4, <3>1
    <3> QED  BY <3>2, <3>3
  <2>5. Len(seqs) - 1 \in Nat /\ (Len(seqs) - 1) + 1 = Len(seqs) /\ Len(seqs) \in 1..Len(seqs)
    BY <2>2
  <2>6. Nat \subseteq T
    BY <2>3, <2>4, PassedOn
  <2> QED  BY <2>1, <2>5, <2>6
<1> QED  BY <1>1, <1>2

\* One sequence more.
LEMMA FlattenAppend ==
  ASSUME NEW seqs \in Parts, NEW more \in Seq(Nat)
  PROVE  Seqs!FlattenSeq(Append(seqs, more)) = Seqs!FlattenSeq(seqs) \o more
<1> DEFINE N == Len(seqs)
           longer == Append(seqs, more)
<1>1. /\ N \in Nat /\ longer \in Parts /\ Len(longer) = N + 1 /\ longer # <<>>
      /\ longer[N + 1] = more /\ \A i \in 1..N : longer[i] = seqs[i]
  <2>1. longer \in Parts /\ N \in Nat
    BY AppendProperties DEF Parts
  <2>2. Len(longer) = N + 1 /\ longer[N + 1] = more /\ longer # <<>>
    BY AppendProperties DEF Parts
  <2>3. \A i \in 1..N : longer[i] = seqs[i]
    BY AppendProperties DEF Parts
  <2> QED  BY <2>1, <2>2, <2>3
<1>2. PICK g : /\ g[1] = longer[1]
               /\ \A i \in 2..N + 1 : g[i] = g[i - 1] \o longer[i]
               /\ Seqs!FlattenSeq(longer) = g[N + 1]
  BY <1>1, FlattenWalks
<1> HIDE DEF longer
<1>3. CASE seqs = <<>>
  <2>1. N = 0 /\ <<>> \o more = more
    BY <1>3
  <2> QED  BY <1>1, <1>2, <1>3, <2>1, FlattenEmpty DEF longer
<1>4. CASE seqs # <<>>
  <2>1. PICK f : /\ f[1] = seqs[1]
                 /\ \A i \in 2..N : f[i] = f[i - 1] \o seqs[i]
                 /\ Seqs!FlattenSeq(seqs) = f[N]
    BY <1>4, FlattenWalks
  <2> DEFINE T == {n \in Nat : n + 1 \in 1..N => f[n + 1] = g[n + 1]}
  <2>2. N # 0
    BY <1>4
  <2>3. 0 \in T
    BY <1>1, <1>2, <2>1, <2>2
  <2>4. ASSUME NEW n \in Nat, n \in T  PROVE n + 1 \in T
    <3> SUFFICES ASSUME n + 2 \in 1..N  PROVE f[n + 2] = g[n + 2]
      BY <1>1
    <3>1. /\ n + 2 \in 2..N /\ n + 2 \in 2..N + 1 /\ n + 1 \in 1..N /\ (n + 2) - 1 = n + 1
      BY <1>1
    <3>2. f[n + 2] = f[n + 1] \o seqs[n + 2]
      BY <2>1, <3>1
    <3>3. g[n + 2] = g[n + 1] \o longer[n + 2]
      BY <1>2, <3>1
    <3> QED  BY <1>1, <2>4, <3>1, <3>2, <3>3
  <2>5. N - 1 \in Nat /\ (N - 1) + 1 = N /\ N \in 1..N /\ N + 1 \in 2..N + 1 /\ (N + 1) - 1 = N
    BY <1>1, <2>2
  <2>6. f[N] = g[N]
    <3>1. N - 1 \in T
      BY <2>3, <2>4, <2>5, PassedOn
    <3> QED  BY <2>5, <3>1
  <2>7. g[N + 1] = g[N] \o longer[N + 1]
    BY <1>2, <2>5
  <2> QED  BY <1>1, <1>2, <2>1, <2>6, <2>7 DEF longer
<1> QED  BY <1>3, <1>4

\* Taken computes byte by byte.
LEMMA TakenWalks ==
  ASSUME NEW s, NEW chunk \in Seq(Nat)
  PROVE  /\ Taken(s, chunk)[0] = s
         /\ \A n \in 1..Len(chunk) :
              Taken(s, chunk)[n] = TakeByte(Taken(s, chunk)[n - 1], chunk[n])
<1> DEFINE N == Len(chunk)
           Walk(f) == f = [n \in 0..N |-> IF n = 0 THEN s ELSE TakeByte(f[n - 1], chunk[n])]
           Upto(k) == \E f : f = [n \in 0..k |-> IF n = 0 THEN s ELSE TakeByte(f[n - 1], chunk[n])]
           T == {k \in Nat : Upto(k)}
<1>0. N \in Nat
  OBVIOUS
<1>1. 0 \in T
  <2> DEFINE f == [n \in 0..0 |-> s]
  <2>1. \A n \in 0..0 : n = 0
    OBVIOUS
  <2>2. f = [n \in 0..0 |-> IF n = 0 THEN s ELSE TakeByte(f[n - 1], chunk[n])]
    BY <2>1, Zenon
  <2> HIDE DEF f
  <2>3. Upto(0)
    BY <2>2, Zenon
  <2> HIDE DEF Upto
  <2> QED  BY <2>3
<1>2. ASSUME NEW k \in Nat, k \in T  PROVE k + 1 \in T
  <2>1. PICK f : f = [n \in 0..k |-> IF n = 0 THEN s ELSE TakeByte(f[n - 1], chunk[n])]
    BY <1>2, Zenon
  <2> DEFINE g == [n \in 0..k + 1 |-> IF n = 0 THEN s ELSE TakeByte(f[n - 1], chunk[n])]
  <2>2. ASSUME NEW n \in 0..k  PROVE g[n] = f[n]
    <3>1. n \in 0..k + 1
      OBVIOUS
    <3>2. g[n] = IF n = 0 THEN s ELSE TakeByte(f[n - 1], chunk[n])
      BY <3>1, Zenon
    <3>3. f[n] = IF n = 0 THEN s ELSE TakeByte(f[n - 1], chunk[n])
      BY <2>1, Zenon
    <3> QED  BY <3>2, <3>3, Zenon
  <2>3. \A n \in 0..k + 1 : n # 0 => n - 1 \in 0..k
    OBVIOUS
  <2>4. g = [n \in 0..k + 1 |-> IF n = 0 THEN s ELSE TakeByte(g[n - 1], chunk[n])]
    BY <2>2, <2>3, Zenon
  <2> HIDE DEF g
  <2>5. Upto(k + 1)
    BY <2>4, Zenon
  <2> HIDE DEF Upto
  <2> QED  BY <2>5
<1>3. N \in T
  BY <1>0, <1>1, <1>2, PassedOn
<1>4. \E f : Walk(f)
  BY <1>3, Zenon
<1>5. Walk(Taken(s, chunk))
  BY <1>4, Zenon DEF Taken
<1>6. 0 \in 0..N
  BY <1>0
<1>7. Taken(s, chunk)[0] = s
  BY <1>5, <1>6, Zenon
<1>8. ASSUME NEW n \in 1..N  PROVE Taken(s, chunk)[n] = TakeByte(Taken(s, chunk)[n - 1], chunk[n])
  <2>1. n \in 0..N /\ n # 0
    BY <1>0
  <2> QED  BY <1>5, <2>1, Zenon
<1> QED  BY <1>7, <1>8

----------------------------------------------------------------------------
(* Headers.                                                                    *)

Announced == 0..MAX_PACKET_LEN + WordBytes
IsAbridged == proto = "abridged"

\* A number is its lowest byte and what is above.
LEMMA LowByte ==
  ASSUME NEW n \in Nat
  PROVE  Byte(n) \in 0..255 /\ Above(n) \in Nat /\ n = Byte(n) + 256 * Above(n)
BY SMT DEF Byte, Above

LEMMA ThreeBytes ==
  ASSUME NEW n \in Nat
  PROVE  /\ Byte(n) \in 0..255 /\ Byte(Above(n)) \in 0..255 /\ Above(Above(n)) \in Nat
         /\ n = Number(Byte(n), Byte(Above(n)), Above(Above(n)))
<1>1. Byte(n) \in 0..255 /\ Above(n) \in Nat /\ n = Byte(n) + 256 * Above(n)
  BY LowByte
<1>2. /\ Byte(Above(n)) \in 0..255 /\ Above(Above(n)) \in Nat
      /\ Above(n) = Byte(Above(n)) + 256 * Above(Above(n))
  BY <1>1, LowByte
<1> QED  BY <1>1, <1>2 DEF Number

LEMMA Below ==
  ASSUME NEW q \in Nat, NEW r \in 0..255, NEW k \in Nat, r + 256 * q <= 256 * k + 4
  PROVE  q <= k
BY SMT

LEMMA FourBytes ==
  ASSUME NEW n \in Nat, n <= 16 * 1024 * 1024 + 4
  PROVE  LET high == Above(n)
             top  == Above(Above(high))
         IN  /\ Byte(n) \in 0..255 /\ Byte(high) \in 0..255 /\ Byte(Above(high)) \in 0..255
             /\ top \in {0, 1}
             /\ n = Number(Byte(n), Byte(high), Number(Byte(Above(high)), top, 0))
<1> DEFINE q == Above(n)
           top == Above(Above(q))
<1>1. Byte(n) \in 0..255 /\ q \in Nat /\ n = Byte(n) + 256 * q
  BY LowByte
<1> HIDE DEF q
<1>2. q <= 256 * 256
  <2>1. 16 * 1024 * 1024 = 256 * (256 * 256) /\ 256 * 256 \in Nat
    BY SMT
  <2> QED  BY <1>1, <2>1, Below, SMT
<1>3. Byte(q) \in 0..255 /\ Above(q) \in Nat /\ q = Byte(q) + 256 * Above(q)
  BY <1>1, LowByte
<1>4. Byte(Above(q)) \in 0..255 /\ top \in Nat /\ Above(q) = Byte(Above(q)) + 256 * top
  BY <1>3, LowByte
<1> HIDE DEF top
<1>5. top <= 1
  BY <1>2, <1>3, <1>4, SMT
<1>6. top \in {0, 1}
  BY <1>4, <1>5
<1>7. n = Byte(n) + 256 * (Byte(q) + 256 * (Byte(Above(q)) + 256 * top))
  BY <1>1, <1>3, <1>4
<1>8. n = Number(Byte(n), Byte(q), Number(Byte(Above(q)), top, 0))
  BY <1>1, <1>3, <1>4, <1>7 DEF Number
<1> QED  BY <1>1, <1>3, <1>4, <1>6, <1>8 DEF q, top

LEMMA Quarter ==
  ASSUME NEW n \in Nat, n % 4 = 0
  PROVE  \E w \in Nat : w = n \div 4 /\ n = 4 * w
BY SMT

LEMMA SevenBits ==
  ASSUME NEW w \in Nat, w < 127
  PROVE  /\ w % 128 = w /\ (128 + w) % 128 = w
         /\ w \notin {127, 255} /\ 128 + w \notin {127, 255}
BY SMT

\* A header is known to be whole with its last byte and not before, and tells the
\* length it announces.
HeaderOf(h, length) ==
  /\ h \in Seq(Nat) /\ Len(h) \in {1, 4}
  /\ HeaderLen(h) = Len(h) /\ PayloadLen(h) = length
  /\ \A x \in Seq(Nat) : x # <<>> /\ x[1] = h[1] /\ Len(x) < Len(h) => HeaderLen(x) = Len(h)

LEMMA HeadersRead ==
  ASSUME proto \in {"abridged", "intermediate"}, NEW length \in Announced,
         IsAbridged => length % WordBytes = 0, NEW h \in Headers(length)
  PROVE  HeaderOf(h, length)
<1>1. length \in Nat /\ length <= 16 * 1024 * 1024 + 4
  <2> DEFINE k == 16 * 1024 * 1024 + 4
  <2>1. length \in 0..k
    BY DEF Announced, MAX_PACKET_LEN, WordBytes
  <2>2. k \in Int
    BY SMT
  <2> HIDE DEF k
  <2>3. length \in Nat /\ length <= k
    BY <2>1, <2>2, SMT
  <2> QED  BY <2>3 DEF k
<1>2. CASE IsAbridged
  <2>1. PICK w \in Nat : w = length \div 4 /\ length = 4 * w
    BY <1>1, <1>2, Quarter DEF WordBytes
  <2> DEFINE a == Byte(w)
             b == Byte(Above(w))
             c == Above(Above(w))
  <2>2. a \in 0..255 /\ b \in 0..255 /\ c \in Nat /\ Number(a, b, c) = w
    BY ThreeBytes
  <2>3. \/ \E first \in {127, 255} : h = <<first, a, b, c>>
        \/ w < 127 /\ h \in {<<w>>, <<128 + w>>}
    BY <1>2, <2>1 DEF Headers, WordBytes, IsAbridged
  <2> HIDE DEF a, b, c
  <2>4. ASSUME NEW first \in {127, 255}, h = <<first, a, b, c>>  PROVE HeaderOf(h, length)
    <3>1. h \in Seq(Nat) /\ Len(h) = 4 /\ h[1] = first /\ h[2] = a /\ h[3] = b /\ h[4] = c /\ h # <<>>
      <4>1. first \in Nat /\ a \in Nat /\ b \in Nat /\ c \in Nat
        BY <2>2
      <4> QED  BY <2>4, <4>1
    <3>2. Number(h[2], h[3], h[4]) = w
      BY <2>2, <3>1
    <3>3. PayloadLen(h) = length
      BY <1>2, <2>1, <2>4, <3>1, <3>2 DEF PayloadLen, Extended, WordBytes, IsAbridged
    <3>4. HeaderLen(h) = 4
      BY <1>2, <2>4, <3>1 DEF HeaderLen, Extended, IsAbridged
    <3>5. \A x \in Seq(Nat) : x # <<>> /\ x[1] = h[1] => HeaderLen(x) = 4
      BY <1>2, <2>4, <3>1 DEF HeaderLen, Extended, IsAbridged
    <3> QED  BY <3>1, <3>3, <3>4, <3>5 DEF HeaderOf
  <2>5. ASSUME w < 127, NEW first \in {w, 128 + w}, h = <<first>>  PROVE HeaderOf(h, length)
    <3>1. h \in Seq(Nat) /\ Len(h) = 1 /\ h[1] = first /\ h # <<>>
      BY <2>5
    <3>2. first % 128 = w /\ first \notin {127, 255}
      BY <2>5, SevenBits
    <3>3. PayloadLen(h) = length
      BY <1>2, <2>1, <3>1, <3>2, SMT DEF PayloadLen, Extended, WordBytes, IsAbridged
    <3>4. HeaderLen(h) = 1
      BY <1>2, <3>1, <3>2 DEF HeaderLen, Extended, IsAbridged
    <3>5. \A x \in Seq(Nat) : x # <<>> => Len(x) >= 1
      OBVIOUS
    <3> QED  BY <3>1, <3>3, <3>4, <3>5 DEF HeaderOf
  <2> QED  BY <2>3, <2>4, <2>5
<1>3. CASE ~IsAbridged
  <2> DEFINE high == Above(length)
             a == Byte(length)
             b == Byte(high)
             c == Byte(Above(high))
             d == Above(Above(high))
  <2>1. PICK ack \in {0, 128} : h = <<a, b, c, d + ack>>
    BY <1>3 DEF Headers, IsAbridged
  <2>2. /\ a \in 0..255 /\ b \in 0..255 /\ c \in 0..255 /\ d \in {0, 1}
        /\ length = Number(a, b, Number(c, d, 0))
    BY <1>1, FourBytes
  <2> HIDE DEF a, b, c, d
  <2>3. (d + ack) % 128 = d
    BY <2>2, SMT
  <2>4. h \in Seq(Nat) /\ Len(h) = 4 /\ h[1] = a /\ h[2] = b /\ h[3] = c /\ h[4] = d + ack /\ h # <<>>
    BY <2>1, <2>2
  <2>6. PayloadLen(h) = length
    BY <1>3, <2>2, <2>3, <2>4 DEF PayloadLen, IsAbridged
  <2>7. \A x : HeaderLen(x) = 4
    BY <1>3 DEF HeaderLen, IsAbridged
  <2> QED  BY <2>4, <2>6, <2>7 DEF HeaderOf
<1> QED  BY <1>2, <1>3

----------------------------------------------------------------------------
(* Sequences.                                                                  *)

LEMMA OneMore ==
  ASSUME NEW S, NEW s \in Seq(S), NEW n \in 0..Len(s) - 1
  PROVE  SubSeq(s, 1, n + 1) = Append(SubSeq(s, 1, n), s[n + 1])
<1>1. n \in Nat /\ Len(s) \in Nat /\ n + 1 \in 1..Len(s) /\ (n + 1) - 1 = n
  OBVIOUS
<1>2. SubSeq(s, 1, n + 1) = SubSeq(s, 1, n) \o <<s[n + 1]>>
  <2>1. 1 \in 1..Len(s)
    BY <1>1
  <2> QED  BY <1>1, <2>1, SubSeqRecursiveSecond
<1>3. SubSeq(s, 1, n) \in Seq(S) /\ s[n + 1] \in S
  <2>1. \A i \in 1..n : s[i] \in S
    BY <1>1
  <2> QED  BY <1>1, <2>1, SubSeqProperties
<1> QED  BY <1>2, <1>3, AppendIsConcat

LEMMA Regroup ==
  ASSUME NEW s \in Seq(Nat), NEW t \in Seq(Nat), NEW u \in Seq(Nat)
  PROVE  (s \o t) \o u = s \o (t \o u)
BY ConcatAssociative

LEMMA AppendLast ==
  ASSUME NEW S, NEW s \in Seq(S), NEW t \in Seq(S), NEW x \in S
  PROVE  s \o Append(t, x) = Append(s \o t, x)
<1>1. /\ s \o t \in Seq(S) /\ <<x>> \in Seq(S) /\ Append(t, x) = t \o <<x>>
      /\ Append(s \o t, x) = (s \o t) \o <<x>>
  BY AppendIsConcat, ConcatProperties
<1> QED  BY <1>1, ConcatAssociative

LEMMA LastByte ==
  ASSUME NEW s \in Seq(Nat), NEW t \in Seq(Nat), NEW x \in Nat
  PROVE  s \o Append(t, x) = Append(s \o t, x)
BY AppendLast

LEMMA LastPart ==
  ASSUME NEW s \in Parts, NEW t \in Parts, NEW x \in Seq(Nat)
  PROVE  s \o Append(t, x) = Append(s \o t, x)
BY AppendLast DEF Parts

LEMMA FirstOf ==
  ASSUME NEW S, NEW s \in Seq(S), NEW n \in 0..Len(s)
  PROVE  /\ SubSeq(s, 1, n) \in Seq(S) /\ Len(SubSeq(s, 1, n)) = n
         /\ \A i \in 1..n : SubSeq(s, 1, n)[i] = s[i]
         /\ SubSeq(s, 1, 0) = <<>> /\ SubSeq(s, 1, Len(s)) = s
<1>1. n \in Nat /\ Len(s) \in Nat /\ \A i \in 1..n : s[i] \in S
  OBVIOUS
<1>2. SubSeq(s, 1, n) \in Seq(S) /\ Len(SubSeq(s, 1, n)) = n
  BY <1>1, SubSeqProperties
<1>3. \A i \in 1..n : SubSeq(s, 1, n)[i] = s[i]
  <2>1. \A i \in 1..n - 1 + 1 : SubSeq(s, 1, n)[i] = s[1 + i - 1]
    BY <1>1, SubSeqProperties
  <2> QED  BY <1>1, <2>1
<1>4. SubSeq(s, 1, 0) = <<>>
  BY SubSeqEmpty
<1> QED  BY <1>2, <1>3, <1>4, SubSeqFull

\* The first k packets, and the bytes they take up.
Whole(k) == SubSeq(packets, 1, k)
Start(k) == Seqs!FlattenSeq(Whole(k))

LEMMA StreamTyped ==
  ASSUME packets \in Parts  PROVE Stream \in Seq(Nat)
BY FlattenTyped DEF Stream

LEMMA WholeGrows ==
  ASSUME packets \in Parts
  PROVE  /\ Whole(0) = <<>> /\ Whole(Len(packets)) = packets
         /\ \A k \in 0..Len(packets) : Whole(k) \in Parts /\ Len(Whole(k)) = k /\ Start(k) \in Seq(Nat)
         /\ \A k \in 0..Len(packets) - 1 :
              /\ packets[k + 1] \in Seq(Nat)
              /\ Whole(k + 1) = Append(Whole(k), packets[k + 1])
              /\ Start(k + 1) = Start(k) \o packets[k + 1]
<1>1. packets \in Seq(Seq(Nat)) /\ Len(packets) \in Nat
  BY DEF Parts
<1>2. \A k \in 0..Len(packets) : Whole(k) \in Parts /\ Len(Whole(k)) = k
  BY <1>1, FirstOf DEF Parts, Whole
<1>3. Whole(0) = <<>> /\ Whole(Len(packets)) = packets
  <2>1. 0 \in 0..Len(packets)
    BY <1>1
  <2> QED  BY <1>1, <2>1, FirstOf DEF Whole
<1>4. \A k \in 0..Len(packets) : Start(k) \in Seq(Nat)
  BY <1>2, FlattenTyped DEF Start
<1>5. ASSUME NEW k \in 0..Len(packets) - 1
      PROVE  /\ packets[k + 1] \in Seq(Nat)
             /\ Whole(k + 1) = Append(Whole(k), packets[k + 1])
             /\ Start(k + 1) = Start(k) \o packets[k + 1]
  <2>1. k + 1 \in 1..Len(packets) /\ k \in 0..Len(packets)
    BY <1>1
  <2>2. packets[k + 1] \in Seq(Nat)
    BY <1>1, <2>1
  <2>3. Whole(k + 1) = Append(Whole(k), packets[k + 1])
    BY <1>1, OneMore DEF Whole
  <2> QED  BY <1>2, <2>1, <2>2, <2>3, FlattenAppend DEF Start
<1> QED  BY <1>2, <1>3, <1>4, <1>5

\* The stream goes on behind the first k packets.
LEMMA StreamGoesOn ==
  ASSUME packets \in Parts, NEW k \in 0..Len(packets)
  PROVE  \E rest \in Seq(Nat) : Stream = Start(k) \o rest
<1> DEFINE N == Len(packets)
           T == {d \in Nat : d <= N => \E rest \in Seq(Nat) : Stream = Start(N - d) \o rest}
<1>0. N \in Nat
  BY DEF Parts
<1>1. 0 \in T
  <2>1. Stream = Start(N) /\ Start(N) \in Seq(Nat) /\ N - 0 = N
    BY <1>0, WholeGrows DEF Stream, Start
  <2>2. Stream = Start(N - 0) \o <<>> /\ <<>> \in Seq(Nat)
    BY <2>1, ConcatEmptySeq
  <2> QED  BY <2>2
<1>2. ASSUME NEW d \in Nat, d \in T  PROVE d + 1 \in T
  <2>1. ASSUME d + 1 <= N  PROVE \E rest \in Seq(Nat) : Stream = Start(N - (d + 1)) \o rest
    <3> DEFINE j == N - (d + 1)
    <3>1. j \in 0..N - 1 /\ j + 1 = N - d /\ j \in 0..N /\ d <= N
      BY <1>0, <2>1
    <3>2. PICK rest \in Seq(Nat) : Stream = Start(N - d) \o rest
      BY <1>2, <3>1
    <3> HIDE DEF j
    <3>3. Start(j) \in Seq(Nat) /\ packets[j + 1] \in Seq(Nat) /\ Start(j + 1) = Start(j) \o packets[j + 1]
      BY <3>1, WholeGrows
    <3>4. (Start(j) \o packets[j + 1]) \o rest = Start(j) \o (packets[j + 1] \o rest)
      BY <3>2, <3>3, Regroup
    <3>5. packets[j + 1] \o rest \in Seq(Nat)
      BY <3>2, <3>3, ConcatProperties
    <3>6. Stream = Start(j) \o (packets[j + 1] \o rest)
      BY <3>1, <3>2, <3>3, <3>4
    <3>7. \E more \in Seq(Nat) : Stream = Start(j) \o more
      BY <3>5, <3>6
    <3> QED  BY <3>7 DEF j
  <2>2. d + 1 \in Nat
    OBVIOUS
  <2> HIDE DEF N
  <2> QED  BY <2>1, <2>2
<1>3. N - k \in Nat /\ N - k <= N /\ N - (N - k) = k
  BY <1>0
<1>4. N - k \in T
  BY <1>1, <1>2, <1>3, PassedOn
<1> HIDE DEF N
<1> QED  BY <1>3, <1>4

\* Where the bytes of packet k + 1 are in the stream.
LEMMA ByteOf ==
  ASSUME packets \in Parts, NEW k \in 0..Len(packets) - 1, NEW j \in 0..Len(packets[k + 1]) - 1
  PROVE  /\ Len(Start(k)) + j + 1 \in 1..Len(Stream)
         /\ Stream[Len(Start(k)) + j + 1] = packets[k + 1][j + 1]
<1>1. Len(packets) \in Nat /\ k \in 0..Len(packets) /\ k + 1 \in 0..Len(packets)
  BY DEF Parts
<1>2. /\ Start(k) \in Seq(Nat) /\ packets[k + 1] \in Seq(Nat) /\ Start(k + 1) \in Seq(Nat)
      /\ Start(k + 1) = Start(k) \o packets[k + 1]
  BY <1>1, WholeGrows
<1>3. PICK rest \in Seq(Nat) : Stream = Start(k + 1) \o rest
  BY <1>1, StreamGoesOn
<1> DEFINE a == Start(k)
           p == packets[k + 1]
           i == Len(a) + j + 1
<1>4. a \in Seq(Nat) /\ p \in Seq(Nat) /\ Start(k + 1) = a \o p /\ a \o p \in Seq(Nat)
  BY <1>2
<1> HIDE DEF a, p
<1>5. /\ Len(a) \in Nat /\ Len(p) \in Nat /\ Len(rest) \in Nat
      /\ Len(a \o p) = Len(a) + Len(p) /\ Len((a \o p) \o rest) = Len(a) + Len(p) + Len(rest)
  BY <1>4, ConcatProperties
<1>6. j \in 0..Len(p) - 1
  BY DEF p
<1>7. i \in 1..Len(a) + Len(p) + Len(rest) /\ i <= Len(a) + Len(p) /\ i > Len(a) /\ i - Len(a) = j + 1
      /\ i \in 1..Len(a) + Len(p)
  BY <1>5, <1>6
<1> HIDE DEF i
<1>8. ((a \o p) \o rest)[i] = (a \o p)[i]
  BY <1>4, <1>5, <1>7, ConcatProperties
<1>9. (a \o p)[i] = p[j + 1]
  BY <1>4, <1>5, <1>7, ConcatProperties
<1> QED  BY <1>3, <1>4, <1>5, <1>7, <1>8, <1>9 DEF a, p, i

----------------------------------------------------------------------------
(* One byte.                                                                   *)

Splitters ==
  [packet : Seq(Nat), header : Seq(Nat), len : Nat, disabled : BOOLEAN,
   rest : BOOLEAN, parts : Parts, error : BOOLEAN]

\* Packet p begins with header h, and is as long as that announces if it may be.
Framed(p, h, length) ==
  /\ HeaderOf(h, length)
  /\ Len(h) <= Len(p) /\ SubSeq(p, 1, Len(h)) = h
  /\ length \in 1..MAX_PACKET_LEN => Len(p) = Len(h) + length

\* The splitter is within packet p.
Amid(s, p) ==
  /\ Len(s.packet) < Len(p) /\ s.packet = SubSeq(p, 1, Len(s.packet))
  /\ \E h \in Seq(Nat), length \in Announced :
       /\ Framed(p, h, length)
       /\ Len(s.packet) < Len(h) => s.header = s.packet /\ s.len = 0
       /\ Len(s.packet) >= Len(h) =>
            length \in 1..MAX_PACKET_LEN /\ s.header = h /\ s.len = Len(p)

\* What an assignment to one field does.
LEMMA SetsPacket ==
  ASSUME NEW s \in Splitters, NEW x \in Seq(Nat)
  PROVE  LET t == [s EXCEPT !.packet = x]
         IN  /\ t \in Splitters /\ t.packet = x
             /\ t.header = s.header /\ t.len = s.len /\ t.disabled = s.disabled
             /\ t.rest = s.rest /\ t.parts = s.parts /\ t.error = s.error
BY DEF Splitters

LEMMA SetsHeader ==
  ASSUME NEW s \in Splitters, NEW x \in Seq(Nat)
  PROVE  LET t == [s EXCEPT !.header = x]
         IN  /\ t \in Splitters /\ t.header = x
             /\ t.packet = s.packet /\ t.len = s.len /\ t.disabled = s.disabled
             /\ t.rest = s.rest /\ t.parts = s.parts /\ t.error = s.error
BY DEF Splitters

LEMMA SetsLen ==
  ASSUME NEW s \in Splitters, NEW x \in Nat
  PROVE  LET t == [s EXCEPT !.len = x]
         IN  /\ t \in Splitters /\ t.len = x
             /\ t.packet = s.packet /\ t.header = s.header /\ t.disabled = s.disabled
             /\ t.rest = s.rest /\ t.parts = s.parts /\ t.error = s.error
BY DEF Splitters

LEMMA SetsDisabled ==
  ASSUME NEW s \in Splitters, NEW x \in BOOLEAN
  PROVE  LET t == [s EXCEPT !.disabled = x]
         IN  /\ t \in Splitters /\ t.disabled = x
             /\ t.packet = s.packet /\ t.header = s.header /\ t.len = s.len
             /\ t.rest = s.rest /\ t.parts = s.parts /\ t.error = s.error
BY DEF Splitters

LEMMA SetsRest ==
  ASSUME NEW s \in Splitters, NEW x \in BOOLEAN
  PROVE  LET t == [s EXCEPT !.rest = x]
         IN  /\ t \in Splitters /\ t.rest = x
             /\ t.packet = s.packet /\ t.header = s.header /\ t.len = s.len
             /\ t.disabled = s.disabled /\ t.parts = s.parts /\ t.error = s.error
BY DEF Splitters

LEMMA SetsParts ==
  ASSUME NEW s \in Splitters, NEW x \in Parts
  PROVE  LET t == [s EXCEPT !.parts = x]
         IN  /\ t \in Splitters /\ t.parts = x
             /\ t.packet = s.packet /\ t.header = s.header /\ t.len = s.len
             /\ t.disabled = s.disabled /\ t.rest = s.rest /\ t.error = s.error
BY DEF Splitters

LEMMA SetsError ==
  ASSUME NEW s \in Splitters, NEW x \in BOOLEAN
  PROVE  LET t == [s EXCEPT !.error = x]
         IN  /\ t \in Splitters /\ t.error = x
             /\ t.packet = s.packet /\ t.header = s.header /\ t.len = s.len
             /\ t.disabled = s.disabled /\ t.rest = s.rest /\ t.parts = s.parts
BY DEF Splitters

LEMMA Truths ==  TRUE \in BOOLEAN /\ FALSE \in BOOLEAN
BY Zenon

\* What the steps of the splitter assign.
Growing(s, h) == [s EXCEPT !.header = h, !.packet = h]
Counting(s, h, n) == [s EXCEPT !.header = h, !.packet = h, !.len = n]

LEMMA HeaderGrows ==
  ASSUME NEW s \in Splitters, NEW h \in Seq(Nat)
  PROVE  LET t == Growing(s, h)
         IN  /\ t \in Splitters /\ t.header = h /\ t.packet = h /\ t.len = s.len /\ t.parts = s.parts
             /\ t.disabled = s.disabled /\ t.rest = s.rest /\ t.error = s.error
<1> DEFINE u == [s EXCEPT !.header = h]
           t == Growing(s, h)
<1>1. /\ u \in Splitters /\ u.header = h /\ u.len = s.len /\ u.parts = s.parts
      /\ u.disabled = s.disabled /\ u.rest = s.rest /\ u.error = s.error
  BY SetsHeader
<1>2. t = [u EXCEPT !.packet = h]
  BY Zenon DEF Growing
<1> HIDE DEF t, u
<1>3. /\ t \in Splitters /\ t.header = h /\ t.packet = h /\ t.len = s.len /\ t.parts = s.parts
      /\ t.disabled = s.disabled /\ t.rest = s.rest /\ t.error = s.error
  BY <1>1, <1>2, SetsPacket
<1> QED  BY <1>3 DEF t

LEMMA HeaderEnds ==
  ASSUME NEW s \in Splitters, NEW h \in Seq(Nat), NEW n \in Nat
  PROVE  LET t == Counting(s, h, n)
         IN  /\ t \in Splitters /\ t.header = h /\ t.packet = h /\ t.len = n /\ t.parts = s.parts
             /\ t.disabled = s.disabled /\ t.rest = s.rest /\ t.error = s.error
<1> DEFINE u == Growing(s, h)
           t == Counting(s, h, n)
<1>1. /\ u \in Splitters /\ u.header = h /\ u.packet = h /\ u.parts = s.parts
      /\ u.disabled = s.disabled /\ u.rest = s.rest /\ u.error = s.error
  BY HeaderGrows
<1>2. t = [u EXCEPT !.len = n]
  BY Zenon DEF Growing, Counting
<1> HIDE DEF t, u
<1>3. /\ t \in Splitters /\ t.header = h /\ t.packet = h /\ t.len = n /\ t.parts = s.parts
      /\ t.disabled = s.disabled /\ t.rest = s.rest /\ t.error = s.error
  BY <1>1, <1>2, SetsLen
<1> QED  BY <1>3 DEF t

LEMMA RestBegins ==
  ASSUME NEW s \in Splitters, NEW p \in Seq(Nat)
  PROVE  LET t == [s EXCEPT !.packet = p, !.rest = TRUE, !.header = <<>>]
         IN  /\ t \in Splitters /\ t.packet = p /\ t.rest = TRUE /\ t.parts = s.parts
             /\ t.disabled = s.disabled /\ t.error = s.error
<1>0. <<>> \in Seq(Nat)
  OBVIOUS
<1>1. TRUE \in BOOLEAN
  BY Zenon
<1> DEFINE u == [s EXCEPT !.packet = p]
           v == [u EXCEPT !.rest = TRUE]
           t == [s EXCEPT !.packet = p, !.rest = TRUE, !.header = <<>>]
<1>2. t = [v EXCEPT !.header = <<>>]
  BY Zenon
<1>3. /\ u \in Splitters /\ u.packet = p /\ u.parts = s.parts
      /\ u.disabled = s.disabled /\ u.error = s.error
  BY SetsPacket
<1> HIDE DEF t, u
<1>4. /\ v \in Splitters /\ v.packet = p /\ v.rest = TRUE /\ v.parts = s.parts
      /\ v.disabled = s.disabled /\ v.error = s.error
  BY <1>1, <1>3, SetsRest, Zenon
<1> HIDE DEF v
<1>5. /\ t \in Splitters /\ t.packet = p /\ t.rest = TRUE /\ t.parts = s.parts
      /\ t.disabled = s.disabled /\ t.error = s.error
  BY <1>0, <1>2, <1>4, SetsHeader, Zenon
<1> QED  BY <1>5, Zenon DEF t

LEMMA PacketEnds ==
  ASSUME NEW s \in Splitters, NEW ps \in Parts
  PROVE  LET t == [s EXCEPT !.packet = <<>>, !.header = <<>>, !.len = 0, !.parts = ps]
         IN  /\ t \in Splitters /\ t.header = <<>> /\ t.packet = <<>> /\ t.len = 0 /\ t.parts = ps
             /\ t.disabled = s.disabled /\ t.rest = s.rest /\ t.error = s.error
<1> DEFINE u == [s EXCEPT !.packet = <<>>]
           v == [u EXCEPT !.header = <<>>]
           w == [v EXCEPT !.len = 0]
           t == [s EXCEPT !.packet = <<>>, !.header = <<>>, !.len = 0, !.parts = ps]
<1>0. <<>> \in Seq(Nat) /\ 0 \in Nat
  OBVIOUS
<1>1. t = [w EXCEPT !.parts = ps]
  BY Zenon
<1> HIDE DEF t
<1>2. /\ u \in Splitters /\ u.packet = <<>>
      /\ u.disabled = s.disabled /\ u.rest = s.rest /\ u.error = s.error
  BY <1>0, SetsPacket
<1> HIDE DEF u
<1>3. /\ v \in Splitters /\ v.header = <<>> /\ v.packet = <<>>
      /\ v.disabled = s.disabled /\ v.rest = s.rest /\ v.error = s.error
  BY <1>0, <1>2, SetsHeader
<1> HIDE DEF v
<1>4. /\ w \in Splitters /\ w.header = <<>> /\ w.packet = <<>> /\ w.len = 0
      /\ w.disabled = s.disabled /\ w.rest = s.rest /\ w.error = s.error
  BY <1>0, <1>3, SetsLen
<1> HIDE DEF w
<1>5. /\ t \in Splitters /\ t.header = <<>> /\ t.packet = <<>> /\ t.len = 0 /\ t.parts = ps
      /\ t.disabled = s.disabled /\ t.rest = s.rest /\ t.error = s.error
  BY <1>1, <1>4, SetsParts
<1> QED  BY <1>5 DEF t

\* A byte within a packet: it is refused, it ends a header of length zero, it leaves
\* the splitter within the packet, or it completes the packet.
LEMMA AmidStep ==
  ASSUME NEW s \in Splitters, ~s.error, ~s.rest, NEW p \in Seq(Nat), Amid(s, p)
  PROVE  LET byte == p[Len(s.packet) + 1]
             t == TakeByte(s, byte)
         IN  /\ t \in Splitters /\ t.disabled = s.disabled
             /\ \/ t.error
                \/ /\ ~t.error /\ t.rest
                   /\ t.parts = s.parts /\ t.packet = Append(s.packet, byte)
                \/ /\ ~t.error /\ ~t.rest
                   /\ t.parts = s.parts /\ t.packet = Append(s.packet, byte) /\ Amid(t, p)
                \/ /\ ~t.error /\ ~t.rest
                   /\ p = Append(s.packet, byte) /\ t.parts = Append(s.parts, p)
                   /\ t.packet = <<>> /\ t.header = <<>> /\ t.len = 0
<1> DEFINE j == Len(s.packet)
           byte == p[j + 1]
           t == TakeByte(s, byte)
           x == SubSeq(p, 1, j + 1)
<1>1. /\ s.packet \in Seq(Nat) /\ s.header \in Seq(Nat) /\ s.len \in Nat /\ s.parts \in Parts
      /\ j \in Nat /\ Len(p) \in Nat /\ j < Len(p) /\ s.packet = SubSeq(p, 1, j)
  BY DEF Splitters, Amid
<1>2. byte \in Nat /\ j \in 0..Len(p) - 1 /\ j + 1 \in 0..Len(p)
  BY <1>1
<1>3. x = Append(s.packet, byte)
  BY <1>1, <1>2, OneMore
<1>4. x \in Seq(Nat) /\ Len(x) = j + 1 /\ \A i \in 1..j + 1 : x[i] = p[i]
  BY <1>2, FirstOf
<1>5. PICK h \in Seq(Nat), length \in Announced :
        /\ Framed(p, h, length)
        /\ j < Len(h) => s.header = s.packet /\ s.len = 0
        /\ j >= Len(h) => length \in 1..MAX_PACKET_LEN /\ s.header = h /\ s.len = Len(p)
  BY DEF Amid
<1>6. /\ Len(h) \in {1, 4} /\ HeaderLen(h) = Len(h) /\ PayloadLen(h) = length
      /\ \A y \in Seq(Nat) : y # <<>> /\ y[1] = h[1] /\ Len(y) < Len(h) => HeaderLen(y) = Len(h)
      /\ Len(h) <= Len(p) /\ SubSeq(p, 1, Len(h)) = h
      /\ length \in 1..MAX_PACKET_LEN => Len(p) = Len(h) + length
  BY <1>5 DEF Framed, HeaderOf
<1>7. Len(h) \in Nat /\ length \in Nat /\ (length = 0 \/ length > MAX_PACKET_LEN \/ length \in 1..MAX_PACKET_LEN)
  <2>1. MAX_PACKET_LEN \in Nat /\ WordBytes \in Nat
    BY SMT DEF MAX_PACKET_LEN, WordBytes
  <2>2. MAX_PACKET_LEN + WordBytes \in Nat
    BY <2>1
  <2> QED  BY <1>6, <2>1, <2>2 DEF Announced
<1>8. p[1] = h[1] /\ x[1] = h[1] /\ x # <<>>
  <2>1. 1 \in 1..Len(h) /\ Len(h) \in 0..Len(p) /\ 1 \in 1..j + 1
    BY <1>1, <1>6
  <2>2. \A i \in 1..Len(h) : SubSeq(p, 1, Len(h))[i] = p[i]
    BY <2>1, FirstOf
  <2> QED  BY <1>4, <1>6, <2>1, <2>2
<1> HIDE DEF j, x, byte
<1>9. CASE j < Len(h)
  <2>1. s.header = s.packet /\ s.len = 0 /\ Append(s.header, byte) = x /\ Append(s.packet, byte) = x
    BY <1>3, <1>5, <1>9
  <2>2. t = HeaderByte(s, byte)
    BY <2>1, Zenon DEF TakeByte
  <2>3. CASE j + 1 < Len(h)
    <3>1. Len(x) < HeaderLen(x)
      BY <1>4, <1>6, <1>8, <2>3
    <3>2. t = Growing(s, x)
      BY <2>1, <2>2, <3>1, Zenon DEF HeaderByte, Growing
    <3> HIDE DEF t
    <3>3. /\ t \in Splitters /\ t.header = x /\ t.packet = x /\ t.len = 0 /\ t.parts = s.parts
          /\ t.disabled = s.disabled /\ t.rest = s.rest /\ t.error = s.error
      <4> DEFINE g == Growing(s, x)
      <4>1. /\ g \in Splitters /\ g.header = x /\ g.packet = x /\ g.len = s.len /\ g.parts = s.parts
            /\ g.disabled = s.disabled /\ g.rest = s.rest /\ g.error = s.error
        BY <1>4, HeaderGrows
      <4> HIDE DEF g
      <4>2. t = g
        BY <3>2 DEF g
      <4> QED  BY <2>1, <4>1, <4>2
    <3>4. Len(t.packet) < Len(p) /\ t.packet = SubSeq(p, 1, Len(t.packet))
      BY <1>1, <1>4, <1>6, <2>3, <3>3 DEF x
    <3>5. Len(t.packet) < Len(h)
      BY <1>4, <2>3, <3>3
    <3>6. Amid(t, p)
      BY <1>4, <1>5, <1>7, <3>3, <3>4, <3>5 DEF Amid
    <3> QED  BY <1>3, <3>3, <3>6 DEF t, byte, j
  <2>4. CASE j + 1 >= Len(h)
    <3>1. j + 1 = Len(h) /\ x = h
      BY <1>1, <1>6, <1>7, <1>9, <2>4 DEF x
    <3>2. ~(Len(x) < HeaderLen(x)) /\ PayloadLen(x) = length
      BY <1>6, <1>7, <3>1
    <3>3. CASE length = 0
      <4>1. t = [s EXCEPT !.packet = x, !.rest = TRUE, !.header = <<>>]
        BY <2>1, <2>2, <3>2, <3>3, Zenon DEF HeaderByte
      <4> HIDE DEF t
      <4>2. /\ t \in Splitters /\ t.packet = x /\ t.rest = TRUE /\ t.parts = s.parts
            /\ t.disabled = s.disabled /\ t.error = s.error
        BY <1>1, <1>4, <4>1, RestBegins, Zenon
      <4> QED  BY <1>3, <4>2 DEF t, byte, j
    <3>4. CASE length # 0 /\ length > MAX_PACKET_LEN
      <4>1. t = [s EXCEPT !.error = TRUE]
        BY <2>1, <2>2, <3>2, <3>4, Zenon DEF HeaderByte
      <4> HIDE DEF t
      <4>2. t \in Splitters /\ t.error = TRUE /\ t.disabled = s.disabled
        BY <1>1, <1>4, <4>1, Truths, SetsError, Zenon
      <4> QED  BY <4>2 DEF t, byte, j
    <3>5. CASE length # 0 /\ ~(length > MAX_PACKET_LEN)
      <4>1. t = Counting(s, x, length + Len(x))
        BY <2>1, <2>2, <3>2, <3>5, Zenon DEF HeaderByte, Counting
      <4> HIDE DEF t
      <4>2. length \in 1..MAX_PACKET_LEN /\ length + Len(x) = Len(p) /\ length + Len(x) \in Nat
            /\ length >= 1
        BY <1>6, <1>7, <3>1, <3>5
      <4>3. /\ t \in Splitters /\ t.header = x /\ t.packet = x /\ t.len = length + Len(x)
            /\ t.parts = s.parts
            /\ t.disabled = s.disabled /\ t.rest = s.rest /\ t.error = s.error
        <5> DEFINE n == length + Len(x)
                   g == Counting(s, x, n)
        <5>1. n \in Nat
          BY <4>2
        <5> HIDE DEF n
        <5>2. /\ g \in Splitters /\ g.header = x /\ g.packet = x /\ g.len = n /\ g.parts = s.parts
              /\ g.disabled = s.disabled /\ g.rest = s.rest /\ g.error = s.error
          BY <1>4, <5>1, HeaderEnds
        <5> HIDE DEF g
        <5>3. t = g
          BY <4>1 DEF g, n
        <5> QED  BY <5>2, <5>3 DEF n
      <4>4. Len(t.packet) < Len(p) /\ t.packet = SubSeq(p, 1, Len(t.packet)) /\ Len(t.packet) = Len(h)
        BY <1>6, <1>7, <3>1, <4>2, <4>3
      <4>5. Amid(t, p)
        BY <1>5, <1>7, <3>1, <4>2, <4>3, <4>4 DEF Amid
      <4> QED  BY <1>3, <4>3, <4>5 DEF t, byte, j
    <3> QED  BY <3>3, <3>4, <3>5
  <2>5. j + 1 < Len(h) \/ j + 1 >= Len(h)
    BY <1>1, <1>7, <1>9
  <2> QED  BY <2>3, <2>4, <2>5, Zenon
<1>10. CASE j >= Len(h)
  <2>1. length \in 1..MAX_PACKET_LEN /\ s.header = h /\ s.len = Len(p) /\ s.len # 0
    BY <1>1, <1>5, <1>10
  <2>2. t = PayloadByte(s, byte)
    BY <2>1, Zenon DEF TakeByte
  <2>3. CASE j + 1 = Len(p)
    <3>1. x = p /\ Len(x) = s.len /\ Append(s.parts, p) \in Parts
      <4>1. x = p
        BY <2>3, FirstOf DEF x
      <4>2. Append(s.parts, p) \in Parts
        BY <1>1 DEF Parts
      <4> QED  BY <1>4, <2>1, <2>3, <4>1, <4>2
    <3>2. t = [s EXCEPT !.packet = <<>>, !.header = <<>>, !.len = 0, !.parts = Append(s.parts, p)]
      BY <1>3, <2>2, <3>1, Zenon DEF PayloadByte
    <3> HIDE DEF t
    <3>3. /\ t \in Splitters /\ t.header = <<>> /\ t.packet = <<>> /\ t.len = 0 /\ t.parts = Append(s.parts, p)
          /\ t.disabled = s.disabled /\ t.rest = s.rest /\ t.error = s.error
      BY <1>1, <1>4, <3>1, <3>2, PacketEnds, Zenon
    <3> QED  BY <1>3, <3>1, <3>3 DEF t, byte, j
  <2>4. CASE j + 1 # Len(p)
    <3>1. Len(x) # s.len
      BY <1>4, <2>1, <2>4
    <3>2. t = [s EXCEPT !.packet = x]
      BY <1>3, <2>2, <3>1, Zenon DEF PayloadByte
    <3> HIDE DEF t
    <3>3. /\ t \in Splitters /\ t.header = s.header /\ t.packet = x /\ t.len = s.len /\ t.parts = s.parts
          /\ t.disabled = s.disabled /\ t.rest = s.rest /\ t.error = s.error
      BY <1>1, <1>4, <3>2, SetsPacket, Zenon
    <3>4. /\ Len(t.packet) < Len(p) /\ t.packet = SubSeq(p, 1, Len(t.packet))
          /\ Len(t.packet) >= Len(h) /\ ~(Len(t.packet) < Len(h))
      BY <1>1, <1>4, <1>7, <1>10, <2>4, <3>3 DEF x
    <3>5. Amid(t, p)
      BY <1>5, <1>7, <2>1, <3>3, <3>4 DEF Amid
    <3> QED  BY <1>3, <3>3, <3>5 DEF t, byte, j
  <2> QED  BY <2>3, <2>4, Zenon
<1>11. j < Len(h) \/ j >= Len(h)
  BY <1>1, <1>7
<1> QED  BY <1>9, <1>10, <1>11, Zenon

----------------------------------------------------------------------------
(* The bytes of a read.                                                        *)

\* Each packet of the stream begins with a header, and is as long as it announces.
StreamShape ==
  /\ packets \in Parts
  /\ \A i \in 1..Len(packets) :
       \E h \in Seq(Nat), length \in Announced : Framed(packets[i], h, length)

\* Between the first q bytes read and what has been sent nothing is lost, doubled or
\* out of its order.
Conserved(s, q) == Seqs!FlattenSeq(messages \o s.parts) \o s.packet = SubSeq(Stream, 1, q)

\* Whole packets have been sent or wait to be, and the splitter is within the next.
InFrame(s) ==
  \E k \in 0..Len(packets) :
    /\ messages \o s.parts = Whole(k)
    /\ k = Len(packets) => s.packet = <<>> /\ s.header = <<>> /\ s.len = 0
    /\ k < Len(packets) => Amid(s, packets[k + 1])

\* Within a read that began before any foreign bytes.
Reading(s, q) ==
  /\ s \in Splitters /\ ~s.disabled
  /\ ~s.error => Conserved(s, q) /\ (~s.rest => InFrame(s))

LEMMA ByteConserves ==
  ASSUME packets \in Parts, messages \in Parts, NEW s \in Splitters, NEW t \in Splitters,
         NEW q \in 0..Len(Stream) - 1, Conserved(s, q),
         \/ t.parts = s.parts /\ t.packet = Append(s.packet, Stream[q + 1])
         \/ t.parts = Append(s.parts, Append(s.packet, Stream[q + 1])) /\ t.packet = <<>>
  PROVE  Conserved(t, q + 1)
<1> DEFINE byte == Stream[q + 1]
           sent == messages \o s.parts
           more == Append(s.packet, byte)
<1>1. Stream \in Seq(Nat) /\ Len(Stream) \in Nat /\ byte \in Nat
  BY StreamTyped
<1>2. s.parts \in Parts /\ s.packet \in Seq(Nat)
  BY DEF Splitters
<1>3. sent \in Parts
  BY <1>2, ConcatProperties DEF Parts
<1>4. Seqs!FlattenSeq(sent) \in Seq(Nat)
  BY <1>3, FlattenTyped
<1>5. SubSeq(Stream, 1, q + 1) = Append(SubSeq(Stream, 1, q), byte)
  BY <1>1, OneMore
<1>6. more \in Seq(Nat)
  BY <1>1, <1>2
<1>7. Seqs!FlattenSeq(sent) \o more = SubSeq(Stream, 1, q + 1)
  <2>1. Seqs!FlattenSeq(sent) \o more = Append(Seqs!FlattenSeq(sent) \o s.packet, byte)
    BY <1>1, <1>2, <1>4, LastByte
  <2> QED  BY <1>5, <2>1 DEF Conserved
<1>8. CASE t.parts = s.parts /\ t.packet = more
  BY <1>7, <1>8 DEF Conserved
<1>9. CASE t.parts = Append(s.parts, more) /\ t.packet = <<>>
  <2>1. messages \o t.parts = Append(sent, more)
    BY <1>2, <1>6, <1>9, LastPart
  <2>2. Seqs!FlattenSeq(messages \o t.parts) = Seqs!FlattenSeq(sent) \o more
    BY <1>3, <1>6, <2>1, FlattenAppend
  <2>3. Seqs!FlattenSeq(sent) \o more \in Seq(Nat)
    BY <1>4, <1>6, ConcatProperties
  <2>4. (Seqs!FlattenSeq(sent) \o more) \o <<>> = Seqs!FlattenSeq(sent) \o more
    BY <2>3, ConcatEmptySeq
  <2> QED  BY <1>7, <1>9, <2>2, <2>4 DEF Conserved
<1> QED  BY <1>8, <1>9

\* A splitter with nothing in hand is at the beginning of a packet.
LEMMA AmidAtStart ==
  ASSUME NEW s \in Splitters, s.packet = <<>>, s.header = <<>>, s.len = 0, NEW p \in Seq(Nat),
         \E h \in Seq(Nat), length \in Announced : Framed(p, h, length)
  PROVE  Amid(s, p)
<1>1. PICK h \in Seq(Nat), length \in Announced : Framed(p, h, length)
  OBVIOUS
<1>2. Len(h) \in {1, 4} /\ Len(h) <= Len(p) /\ Len(p) \in Nat /\ Len(s.packet) = 0
  BY <1>1 DEF Framed, HeaderOf
<1>3. SubSeq(p, 1, 0) = <<>>
  BY SubSeqEmpty
<1>4. Len(s.packet) < Len(p) /\ Len(s.packet) < Len(h) /\ ~(Len(s.packet) >= Len(h))
  <2>1. PICK a, b, c \in Nat : a = Len(s.packet) /\ b = Len(h) /\ c = Len(p)
    BY <1>2
  <2>2. a = 0 /\ b >= 1 /\ b <= c
    BY <1>2, <2>1
  <2>3. a < c /\ a < b /\ ~(a >= b)
    BY <2>2
  <2> QED  BY <2>1, <2>3
<1>5. s.packet = SubSeq(p, 1, Len(s.packet)) /\ s.header = s.packet
  BY <1>2, <1>3
<1> QED  BY <1>1, <1>4, <1>5 DEF Amid

\* The next byte of the stream is the next byte of the packet the splitter is in.
LEMMA NextByte ==
  ASSUME packets \in Parts, messages \in Parts, NEW s \in Splitters, InFrame(s),
         NEW q \in 0..Len(Stream) - 1, Conserved(s, q)
  PROVE  \E k \in 0..Len(packets) - 1 :
           /\ messages \o s.parts = Whole(k) /\ Amid(s, packets[k + 1])
           /\ packets[k + 1] \in Seq(Nat)
           /\ Stream[q + 1] = packets[k + 1][Len(s.packet) + 1]
<1>1. /\ Stream \in Seq(Nat) /\ Len(Stream) \in Nat /\ Len(packets) \in Nat
      /\ s.packet \in Seq(Nat)
  BY StreamTyped DEF Splitters, Parts
<1>2. PICK k \in 0..Len(packets) :
        /\ messages \o s.parts = Whole(k)
        /\ k = Len(packets) => s.packet = <<>> /\ s.header = <<>> /\ s.len = 0
        /\ k < Len(packets) => Amid(s, packets[k + 1])
  BY DEF InFrame
<1>3. Start(k) \in Seq(Nat) /\ Start(k) \o s.packet = SubSeq(Stream, 1, q)
  BY <1>2, WholeGrows DEF Conserved, Start
<1>4. Len(Start(k)) + Len(s.packet) = q
  <2>1. Len(SubSeq(Stream, 1, q)) = q
    BY <1>1, FirstOf
  <2>2. Len(Start(k) \o s.packet) = Len(Start(k)) + Len(s.packet)
    BY <1>1, <1>3, ConcatProperties
  <2> QED  BY <1>3, <2>1, <2>2
<1>5. k # Len(packets)
  <2> SUFFICES ASSUME k = Len(packets)  PROVE FALSE
    OBVIOUS
  <2>1. Start(k) = Stream /\ Len(s.packet) = 0
    BY <1>2, WholeGrows DEF Start, Stream
  <2> QED  BY <1>1, <1>4, <2>1
<1>6. k \in 0..Len(packets) - 1 /\ k < Len(packets)
  BY <1>1, <1>5
<1>7. packets[k + 1] \in Seq(Nat) /\ Amid(s, packets[k + 1])
  BY <1>2, <1>6, WholeGrows
<1>8. Len(s.packet) \in 0..Len(packets[k + 1]) - 1
  <2>1. Len(s.packet) < Len(packets[k + 1])
    BY <1>7 DEF Amid
  <2>2. Len(s.packet) \in Nat /\ Len(packets[k + 1]) \in Nat
    BY <1>1, <1>7
  <2> QED  BY <2>1, <2>2
<1>9. Stream[Len(Start(k)) + Len(s.packet) + 1] = packets[k + 1][Len(s.packet) + 1]
  BY <1>6, <1>8, ByteOf
<1>10. Stream[q + 1] = packets[k + 1][Len(s.packet) + 1]
  BY <1>4, <1>9
<1> QED  BY <1>2, <1>6, <1>7, <1>10

\* A byte of a read.
LEMMA ByteStep ==
  ASSUME StreamShape, messages \in Parts, NEW s, NEW q \in 0..Len(Stream) - 1, Reading(s, q)
  PROVE  Reading(TakeByte(s, Stream[q + 1]), q + 1)
<1> DEFINE byte == Stream[q + 1]
           t == TakeByte(s, byte)
<1>1. packets \in Parts /\ Stream \in Seq(Nat) /\ Len(Stream) \in Nat /\ byte \in Nat /\ Len(packets) \in Nat
  BY StreamTyped DEF StreamShape, Parts
<1>2. /\ s \in Splitters /\ ~s.disabled
      /\ ~s.error => Conserved(s, q) /\ (~s.rest => InFrame(s))
  BY DEF Reading
<1>3. s.packet \in Seq(Nat) /\ s.parts \in Parts
  BY <1>2 DEF Splitters
<1>4. CASE s.error
  <2>1. t = s
    BY <1>4, Zenon DEF TakeByte
  <2> QED  BY <1>2, <1>4, <2>1 DEF Reading
<1>5. CASE ~s.error /\ s.rest
  <2> DEFINE more == Append(s.packet, byte)
  <2>1. t = [s EXCEPT !.packet = more]
    BY <1>5, Zenon DEF TakeByte
  <2>2. more \in Seq(Nat)
    BY <1>1, <1>3
  <2> HIDE DEF t, more
  <2>3. /\ t \in Splitters /\ t.packet = more /\ t.parts = s.parts
        /\ t.disabled = s.disabled /\ t.rest = s.rest /\ t.error = s.error
    BY <1>2, <2>1, <2>2, SetsPacket
  <2>4. Conserved(t, q + 1)
    BY <1>1, <1>2, <1>5, <2>3, ByteConserves DEF more
  <2> QED  BY <1>2, <1>5, <2>3, <2>4 DEF Reading, t
<1>6. CASE ~s.error /\ ~s.rest
  <2>1. InFrame(s) /\ Conserved(s, q)
    BY <1>2, <1>6
  <2>2. PICK k \in 0..Len(packets) - 1 :
          /\ messages \o s.parts = Whole(k) /\ Amid(s, packets[k + 1])
          /\ packets[k + 1] \in Seq(Nat)
          /\ byte = packets[k + 1][Len(s.packet) + 1]
    BY <1>1, <1>2, <2>1, NextByte
  <2> DEFINE p == packets[k + 1]
  <2>3. /\ t \in Splitters /\ t.disabled = s.disabled
        /\ \/ t.error
           \/ /\ ~t.error /\ t.rest
              /\ t.parts = s.parts /\ t.packet = Append(s.packet, byte)
           \/ /\ ~t.error /\ ~t.rest
              /\ t.parts = s.parts /\ t.packet = Append(s.packet, byte) /\ Amid(t, p)
           \/ /\ ~t.error /\ ~t.rest
              /\ p = Append(s.packet, byte) /\ t.parts = Append(s.parts, p)
              /\ t.packet = <<>> /\ t.header = <<>> /\ t.len = 0
    <3>1. p \in Seq(Nat) /\ Amid(s, p) /\ byte = p[Len(s.packet) + 1]
      BY <2>2
    <3> HIDE DEF p, byte, t
    <3>2. t = TakeByte(s, p[Len(s.packet) + 1])
      BY <3>1 DEF t
    <3> QED  BY <1>2, <1>6, <3>1, <3>2, AmidStep, Zenon
  <2>4. k \in 0..Len(packets) /\ k < Len(packets) /\ k # Len(packets)
    BY <1>1
  <2> HIDE DEF t, byte
  <2>5. CASE t.error
    BY <1>2, <2>3, <2>5 DEF Reading, t, byte
  <2>6. CASE ~t.error /\ t.rest /\ t.parts = s.parts /\ t.packet = Append(s.packet, byte)
    <3>1. Conserved(t, q + 1)
      BY <1>1, <1>2, <2>1, <2>3, <2>6, ByteConserves DEF byte
    <3> QED  BY <1>2, <2>3, <2>6, <3>1 DEF Reading, t, byte
  <2>7. CASE /\ ~t.error /\ ~t.rest
             /\ t.parts = s.parts /\ t.packet = Append(s.packet, byte) /\ Amid(t, p)
    <3>1. Conserved(t, q + 1)
      BY <1>1, <1>2, <2>1, <2>3, <2>7, ByteConserves DEF byte
    <3>2. InFrame(t)
      BY <2>2, <2>4, <2>7 DEF InFrame
    <3> QED  BY <1>2, <2>3, <2>7, <3>1, <3>2 DEF Reading, t, byte
  <2>8. CASE /\ ~t.error /\ ~t.rest
             /\ p = Append(s.packet, byte) /\ t.parts = Append(s.parts, p)
             /\ t.packet = <<>> /\ t.header = <<>> /\ t.len = 0
    <3>1. Conserved(t, q + 1)
      BY <1>1, <1>2, <2>1, <2>3, <2>8, ByteConserves DEF byte
    <3>2. messages \o t.parts = Whole(k + 1)
      <4>1. messages \o Append(s.parts, p) = Append(messages \o s.parts, p)
        BY <1>3, <2>2, LastPart
      <4>2. Whole(k + 1) = Append(Whole(k), p)
        BY <1>1, WholeGrows
      <4> QED  BY <2>2, <2>8, <4>1, <4>2
    <3>3. k + 1 \in 0..Len(packets)
      BY <1>1
    <3>4. ASSUME k + 1 < Len(packets)  PROVE Amid(t, packets[(k + 1) + 1])
      <4>1. (k + 1) + 1 \in 1..Len(packets)
        BY <1>1, <3>4
      <4>2. packets[(k + 1) + 1] \in Seq(Nat)
        BY <1>1, <4>1 DEF Parts
      <4>3. \E h \in Seq(Nat), length \in Announced : Framed(packets[(k + 1) + 1], h, length)
        BY <4>1 DEF StreamShape
      <4> QED  BY <2>3, <2>8, <4>2, <4>3, AmidAtStart
    <3>5. InFrame(t)
      BY <2>8, <3>2, <3>3, <3>4 DEF InFrame
    <3> QED  BY <1>2, <2>3, <2>8, <3>1, <3>5 DEF Reading, t, byte
  <2> QED  BY <2>3, <2>5, <2>6, <2>7, <2>8
<1> QED  BY <1>4, <1>5, <1>6

\* A whole read.
LEMMA ReadSteps ==
  ASSUME StreamShape, messages \in Parts, NEW s, NEW q \in Nat, NEW n \in Nat,
         q + n <= Len(Stream), Reading(s, q)
  PROVE  LET chunk == SubSeq(Stream, q + 1, q + n)
         IN  Len(chunk) = n /\ chunk \in Seq(Nat) /\ Reading(Taken(s, chunk)[n], q + n)
<1> DEFINE chunk == SubSeq(Stream, q + 1, q + n)
           T == {i \in Nat : i <= n => Reading(Taken(s, chunk)[i], q + i)}
<1>1. Stream \in Seq(Nat) /\ Len(Stream) \in Nat
  BY StreamTyped DEF StreamShape
<1>2. chunk \in Seq(Nat) /\ Len(chunk) = n /\ \A i \in 1..n : chunk[i] = Stream[q + i]
  <2>1. q + 1 \in Int /\ q + n \in Int /\ \A i \in q + 1..q + n : Stream[i] \in Nat
    BY <1>1
  <2>2. /\ chunk \in Seq(Nat)
        /\ Len(chunk) = IF q + 1 <= q + n THEN q + n - (q + 1) + 1 ELSE 0
        /\ \A i \in 1..q + n - (q + 1) + 1 : chunk[i] = Stream[q + 1 + i - 1]
    BY <2>1, SubSeqProperties
  <2>3. Len(chunk) = n /\ q + n - (q + 1) + 1 = n
    BY <2>2
  <2>4. ASSUME NEW i \in 1..n  PROVE chunk[i] = Stream[q + i]
    <3>1. q + 1 + i - 1 = q + i
      OBVIOUS
    <3> QED  BY <2>2, <2>3, <3>1
  <2> QED  BY <2>2, <2>3, <2>4
<1> HIDE DEF chunk
<1>3. /\ Taken(s, chunk)[0] = s
      /\ \A i \in 1..n : Taken(s, chunk)[i] = TakeByte(Taken(s, chunk)[i - 1], chunk[i])
  <2>1. /\ Taken(s, chunk)[0] = s
        /\ \A i \in 1..Len(chunk) : Taken(s, chunk)[i] = TakeByte(Taken(s, chunk)[i - 1], chunk[i])
    BY <1>2, TakenWalks, Zenon
  <2>2. 1..Len(chunk) = 1..n
    BY <1>2, Zenon
  <2> QED  BY <2>1, <2>2, Zenon
<1>4. 0 \in T
  <2>1. q + 0 = q
    OBVIOUS
  <2> QED  BY <1>3, <2>1
<1>5. ASSUME NEW i \in Nat, i \in T  PROVE i + 1 \in T
  <2>1. ASSUME i + 1 <= n  PROVE Reading(Taken(s, chunk)[i + 1], q + (i + 1))
    <3>1. i <= n /\ i + 1 \in 1..n /\ (i + 1) - 1 = i /\ q + i \in 0..Len(Stream) - 1 /\ q + (i + 1) = (q + i) + 1
      BY <1>1, <2>1
    <3>2. Reading(Taken(s, chunk)[i], q + i)
      BY <1>5, <3>1
    <3>3. Taken(s, chunk)[i + 1] = TakeByte(Taken(s, chunk)[i], Stream[(q + i) + 1])
      BY <1>2, <1>3, <3>1
    <3>4. Reading(TakeByte(Taken(s, chunk)[i], Stream[(q + i) + 1]), (q + i) + 1)
      BY <3>1, <3>2, ByteStep
    <3> QED  BY <3>1, <3>3, <3>4
  <2>2. i + 1 \in Nat
    OBVIOUS
  <2> QED  BY <2>1, <2>2
<1>6. n \in T
  BY <1>4, <1>5, PassedOn
<1> QED  BY <1>2, <1>6 DEF chunk

\* After a read: the splitter has nothing of a stream that is no MTProto in hand, and
\* is within a packet of any other.
Between(s, q) ==
  /\ s \in Splitters
  /\ ~s.error => /\ ~s.rest /\ Conserved(s, q)
                 /\ s.disabled => s.packet = <<>>
                 /\ ~s.disabled => InFrame(s)

LEMMA RestEnds ==
  ASSUME NEW s \in Splitters, NEW ps \in Parts
  PROVE  LET t == [s EXCEPT !.parts = ps, !.packet = <<>>, !.rest = FALSE, !.disabled = TRUE]
         IN  /\ t \in Splitters /\ t.packet = <<>> /\ t.parts = ps /\ t.rest = FALSE
             /\ t.disabled = TRUE /\ t.error = s.error
<1> DEFINE u == [s EXCEPT !.parts = ps]
           v == [u EXCEPT !.packet = <<>>]
           w == [v EXCEPT !.rest = FALSE]
           t == [s EXCEPT !.parts = ps, !.packet = <<>>, !.rest = FALSE, !.disabled = TRUE]
<1>0. <<>> \in Seq(Nat)
  OBVIOUS
<1>1. t = [w EXCEPT !.disabled = TRUE]
  BY Zenon
<1> HIDE DEF t
<1>2. u \in Splitters /\ u.parts = ps /\ u.error = s.error
  BY SetsParts
<1> HIDE DEF u
<1>3. v \in Splitters /\ v.packet = <<>> /\ v.parts = ps /\ v.error = s.error
  BY <1>0, <1>2, SetsPacket
<1> HIDE DEF v
<1>4. w \in Splitters /\ w.packet = <<>> /\ w.parts = ps /\ w.error = s.error /\ w.rest = FALSE
  BY <1>3, SetsRest, Truths, Zenon
<1> HIDE DEF w
<1>5. /\ t \in Splitters /\ t.packet = <<>> /\ t.parts = ps /\ t.rest = FALSE
      /\ t.disabled = TRUE /\ t.error = s.error
  BY <1>1, <1>4, SetsDisabled, Truths, Zenon
<1> QED  BY <1>5, Zenon DEF t

\* What joins what was sent.
LEMMA PartConserves ==
  ASSUME messages \in Parts, NEW ps \in Parts, NEW x \in Seq(Nat)
  PROVE  Seqs!FlattenSeq(messages \o Append(ps, x)) \o <<>> = Seqs!FlattenSeq(messages \o ps) \o x
<1> DEFINE sent == messages \o ps
<1>1. sent \in Parts
  BY ConcatProperties DEF Parts
<1>2. messages \o Append(ps, x) = Append(sent, x)
  BY LastPart
<1> HIDE DEF sent
<1>3. Seqs!FlattenSeq(Append(sent, x)) = Seqs!FlattenSeq(sent) \o x
  BY <1>1, FlattenAppend
<1>4. Seqs!FlattenSeq(sent) \o x \in Seq(Nat)
  BY <1>1, FlattenTyped, ConcatProperties
<1>5. (Seqs!FlattenSeq(sent) \o x) \o <<>> = Seqs!FlattenSeq(sent) \o x
  BY <1>4, ConcatEmptySeq
<1> QED  BY <1>2, <1>3, <1>5 DEF sent

LEMMA ReadEnds ==
  ASSUME StreamShape, messages \in Parts, NEW s, NEW q \in Nat, NEW n \in Nat,
         q + n <= Len(Stream), Between(s, q), ~s.error, s.parts = <<>>
  PROVE  LET t == SplitRead(s, SubSeq(Stream, q + 1, q + n))
         IN  Between(t, q + n)
<1> DEFINE chunk == SubSeq(Stream, q + 1, q + n)
           t == SplitRead(s, chunk)
<1>1. /\ s \in Splitters /\ ~s.rest /\ Conserved(s, q) /\ (s.disabled => s.packet = <<>>)
      /\ ~s.disabled => InFrame(s)
  BY DEF Between
<1>2. Stream \in Seq(Nat) /\ Len(Stream) \in Nat
  BY StreamTyped DEF StreamShape
<1>3. CASE s.disabled
  <2>1. t = [s EXCEPT !.parts = <<chunk>>]
    BY <1>3, Zenon DEF SplitRead
  <2>2. chunk \in Seq(Nat) /\ SubSeq(Stream, 1, q) \o chunk = SubSeq(Stream, 1, q + n)
    <3>1. 1 \in 1..Len(Stream) + 1 /\ q \in 1 - 1..Len(Stream) /\ q + n \in q..Len(Stream)
      BY <1>2
    <3>2. SubSeq(Stream, 1, q) \o SubSeq(Stream, q + 1, q + n) = SubSeq(Stream, 1, q + n)
      BY <1>2, <3>1, ConcatAdjacentSubSeq
    <3>3. \A i \in q + 1..q + n : Stream[i] \in Nat
      BY <1>2
    <3>4. chunk \in Seq(Nat)
      BY <3>3, SubSeqProperties
    <3> QED  BY <3>2, <3>4
  <2> HIDE DEF chunk, t
  <2>3. <<chunk>> \in Parts /\ <<chunk>> = Append(<<>>, chunk) /\ <<>> \in Parts
    BY <2>2 DEF Parts
  <2>4. /\ t \in Splitters /\ t.parts = <<chunk>> /\ t.packet = s.packet
        /\ t.disabled = s.disabled /\ t.rest = s.rest /\ t.error = s.error
    BY <1>1, <2>1, <2>3, SetsParts, Zenon
  <2>5. Seqs!FlattenSeq(messages \o <<chunk>>) \o <<>> = Seqs!FlattenSeq(messages \o <<>>) \o chunk
    BY <2>2, <2>3, PartConserves
  <2>6. Seqs!FlattenSeq(messages \o <<>>) = SubSeq(Stream, 1, q)
    <3>1. Seqs!FlattenSeq(messages \o <<>>) \o <<>> = SubSeq(Stream, 1, q)
      BY <1>1, <1>3 DEF Conserved
    <3>2. messages \o <<>> \in Parts
      BY <2>3, ConcatProperties DEF Parts
    <3>3. Seqs!FlattenSeq(messages \o <<>>) \in Seq(Nat)
      BY <3>2, FlattenTyped
    <3> QED  BY <3>1, <3>3, ConcatEmptySeq
  <2>7. Conserved(t, q + n)
    BY <1>1, <1>3, <2>2, <2>4, <2>5, <2>6 DEF Conserved
  <2>8. Between(t, q + n)
    BY <1>1, <1>3, <2>4, <2>7 DEF Between
  <2> QED  BY <2>8 DEF t, chunk
<1>4. CASE ~s.disabled
  <2> DEFINE u == Taken(s, chunk)[Len(chunk)]
  <2>1. Reading(s, q)
    BY <1>1, <1>4 DEF Reading
  <2>2. Reading(u, q + n)
    BY <2>1, ReadSteps
  <2>3. t = IF u.rest
            THEN [u EXCEPT !.parts = Append(u.parts, u.packet), !.packet = <<>>,
                           !.rest = FALSE, !.disabled = TRUE]
            ELSE u
    BY <1>4, Zenon DEF SplitRead
  <2> HIDE DEF u, t, chunk
  <2>4. /\ u \in Splitters /\ ~u.disabled
        /\ ~u.error => Conserved(u, q + n) /\ (~u.rest => InFrame(u))
    BY <2>2 DEF Reading
  <2>5. CASE u.rest
    <3> DEFINE ps == Append(u.parts, u.packet)
    <3>1. u.parts \in Parts /\ u.packet \in Seq(Nat)
      BY <2>4 DEF Splitters
    <3>2. ps \in Parts
      BY <3>1 DEF Parts
    <3>3. t = [u EXCEPT !.parts = ps, !.packet = <<>>, !.rest = FALSE, !.disabled = TRUE]
      BY <2>3, <2>5, Zenon
    <3> HIDE DEF ps
    <3>4. /\ t \in Splitters /\ t.packet = <<>> /\ t.parts = ps /\ t.rest = FALSE
          /\ t.disabled = TRUE /\ t.error = u.error
      BY <2>4, <3>2, <3>3, RestEnds, Zenon
    <3>5. Seqs!FlattenSeq(messages \o ps) \o <<>> = Seqs!FlattenSeq(messages \o u.parts) \o u.packet
      BY <3>1, PartConserves DEF ps
    <3>6. ~t.error => Conserved(t, q + n)
      BY <2>4, <3>4, <3>5 DEF Conserved
    <3>7. Between(t, q + n)
      BY <3>4, <3>6, Zenon DEF Between
    <3> QED  BY <3>7 DEF t, chunk
  <2>6. CASE ~u.rest
    <3>1. t = u
      BY <2>3, <2>6
    <3>2. Between(t, q + n)
      BY <2>4, <2>6, <3>1 DEF Between
    <3> QED  BY <3>2 DEF t, chunk
  <2> QED  BY <2>5, <2>6
<1> QED  BY <1>3, <1>4

----------------------------------------------------------------------------
(* The streams.                                                                *)

LEMMA FramedPacket ==
  ASSUME NEW length \in Announced, NEW h, HeaderOf(h, length), NEW x \in Seq(Nat),
         length \in 1..MAX_PACKET_LEN => Len(x) = length
  PROVE  h \o x \in Seq(Nat) /\ Framed(h \o x, h, length)
<1> DEFINE p == h \o x
<1>1. h \in Seq(Nat)
  BY DEF HeaderOf
<1>2. /\ p \in Seq(Nat) /\ Len(p) = Len(h) + Len(x) /\ Len(h) \in Nat /\ Len(x) \in Nat
      /\ \A i \in 1..Len(h) : p[i] = h[i]
  BY <1>1, ConcatProperties
<1> HIDE DEF p
<1>3. Len(h) <= Len(p) /\ Len(h) \in 0..Len(p)
  BY <1>2
<1>4. SubSeq(p, 1, Len(h)) = h
  <2>1. /\ SubSeq(p, 1, Len(h)) \in Seq(Nat) /\ Len(SubSeq(p, 1, Len(h))) = Len(h)
        /\ \A i \in 1..Len(h) : SubSeq(p, 1, Len(h))[i] = p[i]
    BY <1>2, <1>3, FirstOf
  <2> QED  BY <1>1, <1>2, <2>1, SeqEqual
<1>5. Framed(p, h, length)
  BY <1>2, <1>3, <1>4 DEF Framed
<1> QED  BY <1>2, <1>5 DEF p

LEMMA LengthsAnnounced ==
  /\ Lengths \subseteq Announced /\ Lengths \subseteq 1..MAX_PACKET_LEN
  /\ 0 \in Announced /\ MAX_PACKET_LEN + WordBytes \in Announced
  /\ MAX_PACKET_LEN + WordBytes \notin 1..MAX_PACKET_LEN /\ 0 \notin 1..MAX_PACKET_LEN
  /\ 0 % WordBytes = 0 /\ (MAX_PACKET_LEN + WordBytes) % WordBytes = 0
<1>0. MAX_PACKET_LEN \in Nat /\ WordBytes \in Nat /\ WordBytes > 0
  BY SMT DEF MAX_PACKET_LEN, WordBytes
<1>1. /\ 0 \in Announced /\ MAX_PACKET_LEN + WordBytes \in Announced
      /\ MAX_PACKET_LEN + WordBytes \notin 1..MAX_PACKET_LEN /\ 0 \notin 1..MAX_PACKET_LEN
  BY <1>0, SMT DEF Announced
<1>2. Lengths \subseteq 1..MAX_PACKET_LEN
  BY SplitterAssumption, Zenon
<1>3. 1..MAX_PACKET_LEN \subseteq Announced
  BY <1>0, SMT DEF Announced
<1>4. 0 % WordBytes = 0
  BY SMT DEF WordBytes
<1>5. (MAX_PACKET_LEN + WordBytes) % WordBytes = 0
  BY SMT DEF MAX_PACKET_LEN, WordBytes
<1> HIDE DEF Announced, MAX_PACKET_LEN, WordBytes
<1> QED  BY <1>1, <1>2, <1>3, <1>4, <1>5, Zenon

LEMMA StreamsShaped ==
  ASSUME SplitInit  PROVE StreamShape
<1>1. proto \in {"abridged", "intermediate"}
  BY SplitterAssumption DEF SplitInit
<1>2. ASSUME NEW i \in Nat, NEW p \in Packets(i)
      PROVE  p \in Seq(Nat) /\ \E h \in Seq(Nat), length \in Announced : Framed(p, h, length)
  <2>1. PICK n \in Lengths : /\ proto = "abridged" => n % WordBytes = 0
                             /\ p \in {h \o Payload(i, n) : h \in Headers(n)}
    BY <1>2 DEF Packets
  <2>2. PICK h \in Headers(n) : p = h \o Payload(i, n)
    BY <2>1
  <2>3. n \in Announced /\ n \in Nat
    BY LengthsAnnounced
  <2>4. HeaderOf(h, n) /\ h \in Seq(Nat)
    BY <1>1, <2>1, <2>3, HeadersRead DEF IsAbridged, HeaderOf
  <2>5. Payload(i, n) \in Seq(Nat) /\ Len(Payload(i, n)) = n
    BY <2>3 DEF Payload
  <2> QED  BY <2>2, <2>3, <2>4, <2>5, FramedPacket
<1>3. ASSUME NEW p \in TooLong \cup Foreign
      PROVE  p \in Seq(Nat) /\ \E h \in Seq(Nat), length \in Announced : Framed(p, h, length)
  <2>1. CASE p \in TooLong
    <3> DEFINE n == MAX_PACKET_LEN + WordBytes
    <3>1. n \in Announced /\ n \notin 1..MAX_PACKET_LEN /\ n % WordBytes = 0 /\ p \in Headers(n)
      BY <2>1, LengthsAnnounced DEF TooLong
    <3> HIDE DEF n
    <3>2. HeaderOf(p, n) /\ p \in Seq(Nat)
      BY <1>1, <3>1, HeadersRead DEF HeaderOf
    <3>3. <<>> \in Seq(Nat) /\ p \o <<>> = p
      BY <3>2, ConcatEmptySeq
    <3>4. Framed(p \o <<>>, p, n)
      BY <3>1, <3>2, <3>3, FramedPacket
    <3> QED  BY <3>1, <3>2, <3>3, <3>4
  <2>2. CASE p \in Foreign
    <3>1. PICK h \in Headers(0), n \in 0..MaxTail : p = h \o Payload(9, n)
      BY <2>2 DEF Foreign
    <3>2. 0 \in Announced /\ 0 \notin 1..MAX_PACKET_LEN /\ 0 % WordBytes = 0 /\ MaxTail \in Nat
      BY LengthsAnnounced, SplitterAssumption
    <3>3. HeaderOf(h, 0) /\ h \in Seq(Nat)
      BY <1>1, <3>2, HeadersRead DEF HeaderOf
    <3>4. Payload(9, n) \in Seq(Nat)
      BY <3>2 DEF Payload
    <3> QED  BY <3>1, <3>2, <3>3, <3>4, FramedPacket
  <2> QED  BY <2>1, <2>2
<1>4. PICK n \in 0..MaxPackets, last \in {<<>>} \cup {<<p>> : p \in TooLong \cup Foreign} :
        \E whole \in [1..n -> UNION {Packets(i) : i \in 1..n}] :
          /\ \A i \in 1..n : whole[i] \in Packets(i)
          /\ packets = whole \o last
  BY DEF SplitInit
<1>5. PICK whole \in [1..n -> UNION {Packets(i) : i \in 1..n}] :
        (\A i \in 1..n : whole[i] \in Packets(i)) /\ packets = whole \o last
  BY <1>4
<1>6. n \in Nat /\ \A i \in 1..n : i \in Nat
  BY SplitterAssumption
<1> DEFINE Shaped(p) == p \in Seq(Nat) /\ \E h \in Seq(Nat), length \in Announced : Framed(p, h, length)
<1>7. \A i \in 1..n : Shaped(whole[i])
  BY <1>2, <1>5, <1>6
<1>8. last = <<>> \/ \E p \in TooLong \cup Foreign : last = <<p>>
  OBVIOUS
<1>9. \A i \in 1..Len(last) : Shaped(last[i])
  <2>1. CASE last = <<>>
    BY <2>1
  <2>2. ASSUME NEW p \in TooLong \cup Foreign, last = <<p>>  PROVE \A i \in 1..Len(last) : Shaped(last[i])
    <3>1. Len(last) = 1 /\ last[1] = p
      BY <2>2
    <3>2. Shaped(p)
      BY <1>3
    <3> HIDE DEF Shaped
    <3> QED  BY <3>1, <3>2
  <2> QED  BY <1>8, <2>1, <2>2
<1>10. last \in Parts /\ Len(last) \in Nat
  <2>1. CASE last = <<>>
    BY <2>1 DEF Parts
  <2>2. ASSUME NEW p \in TooLong \cup Foreign, last = <<p>>  PROVE last \in Parts /\ Len(last) \in Nat
    <3>1. p \in Seq(Nat)
      BY <1>3
    <3> QED  BY <2>2, <3>1 DEF Parts
  <2> QED  BY <1>8, <2>1, <2>2
<1>11. whole \in Parts /\ Len(whole) = n
  <2>1. whole = [i \in 1..n |-> whole[i]]
    BY <1>5
  <2>2. \A i \in 1..n : whole[i] \in Seq(Nat)
    BY <1>7
  <2>3. whole \in [1..n -> Seq(Nat)]
    BY <2>1, <2>2
  <2>4. whole \in Parts
    BY <1>6, <2>3 DEF Parts
  <2>5. Len(whole) = n
    BY <1>6, <2>3
  <2> QED  BY <2>4, <2>5
<1> HIDE DEF Shaped
<1>12. /\ packets \in Parts /\ Len(packets) = n + Len(last)
       /\ \A i \in 1..n + Len(last) :
            packets[i] = IF i <= n THEN whole[i] ELSE last[i - n]
  BY <1>5, <1>10, <1>11, ConcatProperties DEF Parts
<1>13. ASSUME NEW i \in 1..Len(packets)  PROVE Shaped(packets[i])
  <2>1. CASE i <= n
    <3>1. i \in 1..n /\ packets[i] = whole[i]
      BY <1>6, <1>10, <1>12, <2>1
    <3> QED  BY <1>7, <3>1
  <2>2. CASE ~(i <= n)
    <3>1. i - n \in 1..Len(last) /\ packets[i] = last[i - n]
      BY <1>6, <1>10, <1>12, <2>2
    <3> QED  BY <1>9, <3>1
  <2> QED  BY <2>1, <2>2
<1> QED  BY <1>12, <1>13 DEF StreamShape, Shaped

----------------------------------------------------------------------------
(* The invariant.                                                              *)

SplitInv ==
  /\ StreamShape
  /\ pos \in 0..Len(Stream) /\ upEnd \in {"no", "refused", "flushed"}
  /\ messages \in Parts
  /\ split \in Splitters /\ split.parts = <<>> /\ ~split.rest /\ ~split.error
  /\ upEnd = "no" => Between(split, pos)
  /\ upEnd = "flushed" => Conserved(split, pos)
  /\ upEnd = "refused" => Seqs!IsPrefix(Seqs!FlattenSeq(messages), Stream)

LEMMA NewTyped ==
  /\ New \in Splitters /\ New.packet = <<>> /\ New.header = <<>> /\ New.len = 0
  /\ New.parts = <<>> /\ ~New.rest /\ ~New.error /\ ~New.disabled
<1>1. <<>> \in Seq(Nat) /\ <<>> \in Parts /\ 0 \in Nat
  BY DEF Parts
<1>2. New \in Splitters
  BY <1>1, Truths, Zenon DEF New, Splitters
<1> QED  BY <1>2 DEF New

LEMMA SplitInvInit ==  SplitInit => SplitInv
<1> SUFFICES ASSUME SplitInit  PROVE SplitInv
  OBVIOUS
<1>1. StreamShape
  BY StreamsShaped
<1>2. packets \in Parts /\ Stream \in Seq(Nat) /\ Len(Stream) \in Nat /\ Len(packets) \in Nat
  BY <1>1, StreamTyped DEF StreamShape, Parts
<1>3. pos = 0 /\ split = New /\ messages = <<>> /\ upEnd = "no"
  BY DEF SplitInit
<1>4. messages \in Parts /\ messages \o <<>> = <<>> /\ pos \in 0..Len(Stream)
  BY <1>2, <1>3 DEF Parts
<1>5. /\ split \in Splitters /\ split.packet = <<>> /\ split.header = <<>> /\ split.len = 0
      /\ split.parts = <<>> /\ ~split.rest /\ ~split.error /\ ~split.disabled
  BY <1>3, NewTyped
<1>6. Conserved(split, pos)
  <2>1. SubSeq(Stream, 1, 0) = <<>>
    BY <1>2, FirstOf
  <2>2. <<>> \o <<>> = <<>>
    OBVIOUS
  <2> QED  BY <1>3, <1>4, <1>5, <2>1, <2>2, FlattenEmpty, Zenon DEF Conserved
<1>7. InFrame(split)
  <2>1. Whole(0) = <<>> /\ 0 \in 0..Len(packets)
    BY <1>2, WholeGrows
  <2>2. ASSUME 0 < Len(packets)  PROVE Amid(split, packets[0 + 1])
    <3>1. 1 \in 1..Len(packets) /\ 0 + 1 = 1
      BY <1>2, <2>2
    <3>2. packets[1] \in Seq(Nat) /\ \E h \in Seq(Nat), length \in Announced : Framed(packets[1], h, length)
      BY <1>1, <1>2, <3>1 DEF StreamShape, Parts
    <3> QED  BY <1>5, <3>1, <3>2, AmidAtStart
  <2> QED  BY <1>4, <1>5, <2>1, <2>2 DEF InFrame
<1>8. Between(split, pos)
  BY <1>5, <1>6, <1>7 DEF Between
<1> QED  BY <1>1, <1>3, <1>4, <1>5, <1>8 DEF SplitInv

\* What a splitter is within, and what has been conserved, while the stream stays.
LEMMA StreamStays ==
  ASSUME proto' = proto, packets' = packets
  PROVE  /\ StreamShape => StreamShape'
         /\ Stream' = Stream
         /\ \A k : Whole(k)' = Whole(k)
         /\ \A s, p : Amid(s, p) => Amid(s, p)'
<1>1. \A h, length : HeaderOf(h, length) <=> HeaderOf(h, length)'
  BY Zenon DEF HeaderOf, HeaderLen, PayloadLen
<1>2. \A p, h, length : Framed(p, h, length) <=> Framed(p, h, length)'
  BY <1>1, Zenon DEF Framed
<1>3. StreamShape => StreamShape'
  BY <1>2, Zenon DEF StreamShape
<1>4. Stream' = Stream /\ \A k : Whole(k)' = Whole(k)
  BY Zenon DEF Stream, Whole
<1>5. \A s, p : Amid(s, p) => Amid(s, p)'
  BY <1>2, Zenon DEF Amid
<1> QED  BY <1>3, <1>4, <1>5

LEMMA FlushEnds ==
  ASSUME NEW s \in Splitters
  PROVE  LET t == [s EXCEPT !.packet = <<>>, !.header = <<>>, !.len = 0]
         IN  /\ t \in Splitters /\ t.packet = <<>> /\ t.parts = s.parts
             /\ t.rest = s.rest /\ t.error = s.error
<1> DEFINE u == [s EXCEPT !.packet = <<>>]
           v == [u EXCEPT !.header = <<>>]
           t == [s EXCEPT !.packet = <<>>, !.header = <<>>, !.len = 0]
<1>0. <<>> \in Seq(Nat) /\ 0 \in Nat
  OBVIOUS
<1>1. t = [v EXCEPT !.len = 0]
  BY Zenon
<1> HIDE DEF t
<1>2. u \in Splitters /\ u.packet = <<>> /\ u.parts = s.parts /\ u.rest = s.rest /\ u.error = s.error
  BY <1>0, SetsPacket
<1> HIDE DEF u
<1>3. v \in Splitters /\ v.packet = <<>> /\ v.parts = s.parts /\ v.rest = s.rest /\ v.error = s.error
  BY <1>0, <1>2, SetsHeader
<1> HIDE DEF v
<1>4. t \in Splitters /\ t.packet = <<>> /\ t.parts = s.parts /\ t.rest = s.rest /\ t.error = s.error
  BY <1>0, <1>1, <1>3, SetsLen
<1> QED  BY <1>4 DEF t

\* What is followed by more of the same bytes is their beginning.
LEMMA Begins ==
  ASSUME NEW a \in Seq(Nat), NEW b \in Seq(Nat), NEW c \in Seq(Nat), NEW q \in 0..Len(c),
         a \o b = SubSeq(c, 1, q)
  PROVE  Seqs!IsPrefix(a, c)
<1> DEFINE d == SubSeq(c, 1, q)
<1>1. d \in Seq(Nat) /\ Len(d) = q /\ \A i \in 1..q : d[i] = c[i]
  BY FirstOf
<1>2. Len(a \o b) = Len(a) + Len(b) /\ \A i \in 1..Len(a) : (a \o b)[i] = a[i]
  BY ConcatProperties
<1> HIDE DEF d
<1>3. Len(a) \in Nat /\ Len(b) \in Nat /\ Len(c) \in Nat /\ Len(a) + Len(b) = q
  BY <1>1, <1>2 DEF d
<1>4. Len(a) \in 0..Len(c) /\ Len(a) <= Len(c) /\ \A i \in 1..Len(a) : i \in 1..q
  BY <1>3
<1>5. \A i \in 1..Len(a) : a[i] = c[i]
  BY <1>1, <1>2, <1>4 DEF d
<1>6. /\ SubSeq(c, 1, Len(a)) \in Seq(Nat) /\ Len(SubSeq(c, 1, Len(a))) = Len(a)
      /\ \A i \in 1..Len(a) : SubSeq(c, 1, Len(a))[i] = c[i]
  BY <1>4, FirstOf
<1>7. SubSeq(c, 1, Len(a)) = a
  BY <1>5, <1>6, SeqEqual
<1>8. SubSeq(a, 1, Len(a)) = a
  <2>1. Len(a) \in 0..Len(a)
    BY <1>3
  <2> QED  BY <2>1, FirstOf
<1> QED  BY <1>4, <1>7, <1>8 DEF Seqs!IsPrefix

LEMMA NothingMore ==
  ASSUME NEW x \in Parts  PROVE x \o <<>> = x /\ <<>> \in Parts
BY ConcatEmptySeq DEF Parts

LEMMA SplitInvInductive ==  SplitInv /\ [SplitNext]_splitVars => SplitInv'
<1> SUFFICES ASSUME SplitInv, [SplitNext]_splitVars  PROVE SplitInv'
  OBVIOUS
<1>1. /\ StreamShape /\ messages \in Parts /\ split \in Splitters /\ split.parts = <<>>
      /\ ~split.rest /\ ~split.error /\ pos \in 0..Len(Stream)
      /\ upEnd \in {"no", "refused", "flushed"}
      /\ upEnd = "no" => Between(split, pos)
  BY DEF SplitInv
<1>2. packets \in Parts /\ Stream \in Seq(Nat) /\ Len(Stream) \in Nat /\ Len(packets) \in Nat
  BY <1>1, StreamTyped DEF StreamShape, Parts
<1>3. split.packet \in Seq(Nat) /\ messages \o <<>> = messages
  BY <1>1, NothingMore DEF Splitters
<1>4. proto' = proto /\ packets' = packets
  BY DEF SplitNext, ReadsChunk, FlushesUpload, splitVars
<1>5. /\ StreamShape' /\ Stream' = Stream
      /\ \A k : Whole(k)' = Whole(k)
      /\ \A s, p : Amid(s, p) => Amid(s, p)'
  BY <1>1, <1>4, StreamStays
<1>6. ASSUME upEnd = "no"
      PROVE  /\ Seqs!FlattenSeq(messages) \o split.packet = SubSeq(Stream, 1, pos)
             /\ Seqs!FlattenSeq(messages) \in Seq(Nat)
  BY <1>1, <1>3, <1>6, FlattenTyped DEF Between, Conserved
<1>7. ASSUME NEW n \in 1..Len(Stream), ReadsChunk(n)  PROVE SplitInv'
  <2> DEFINE chunk == SubSeq(Stream, pos + 1, pos + n)
             t == SplitRead(split, chunk)
  <2>1. upEnd = "no" /\ pos + n <= Len(Stream) /\ pos' = pos + n
    BY <1>7 DEF ReadsChunk
  <2>2. IF t.error
        THEN upEnd' = "refused" /\ UNCHANGED <<split, messages>>
        ELSE split' = [t EXCEPT !.parts = <<>>] /\ messages' = messages \o t.parts /\ upEnd' = upEnd
    BY <1>7, Zenon DEF ReadsChunk
  <2>3. pos \in Nat /\ n \in Nat /\ pos + n \in 0..Len(Stream)
    BY <1>1, <1>2, <2>1
  <2>4. Between(t, pos + n)
    BY <1>1, <2>1, <2>3, ReadEnds
  <2> HIDE DEF t
  <2>5. CASE t.error
    <3>1. upEnd' = "refused" /\ split' = split /\ messages' = messages
      BY <2>2, <2>5
    <3>2. Seqs!IsPrefix(Seqs!FlattenSeq(messages), Stream)
      BY <1>1, <1>2, <1>3, <1>6, <2>1, Begins
    <3> QED  BY <1>1, <1>5, <2>1, <2>3, <3>1, <3>2 DEF SplitInv
  <2>6. CASE ~t.error
    <3>1. /\ t \in Splitters /\ ~t.rest /\ Conserved(t, pos + n)
          /\ t.disabled => t.packet = <<>>
          /\ ~t.disabled => InFrame(t)
      BY <2>4, <2>6 DEF Between
    <3>2. t.parts \in Parts
      BY <3>1 DEF Splitters
    <3>3. split' = [t EXCEPT !.parts = <<>>] /\ messages' = messages \o t.parts /\ upEnd' = "no"
      BY <2>1, <2>2, <2>6
    <3>4. /\ split' \in Splitters /\ split'.parts = <<>>
          /\ split'.packet = t.packet /\ split'.header = t.header /\ split'.len = t.len
          /\ split'.disabled = t.disabled /\ split'.rest = t.rest /\ split'.error = t.error
      BY <1>1, <3>1, <3>3, SetsParts, NothingMore, Zenon
    <3>5. messages' \in Parts /\ messages' \o <<>> = messages'
      <4>1. messages' \in Parts
        BY <1>1, <3>2, <3>3, ConcatProperties DEF Parts
      <4> QED  BY <4>1, NothingMore
    <3>6. Conserved(split, pos)'
      <4>1. messages' \o split'.parts = messages \o t.parts
        BY <3>3, <3>4, <3>5
      <4> QED  BY <1>5, <2>1, <3>1, <3>4, <4>1 DEF Conserved
    <3>7. ASSUME ~t.disabled  PROVE InFrame(split)'
      <4>1. PICK k \in 0..Len(packets) :
              /\ messages \o t.parts = Whole(k)
              /\ k = Len(packets) => t.packet = <<>> /\ t.header = <<>> /\ t.len = 0
              /\ k < Len(packets) => Amid(t, packets[k + 1])
        BY <3>1, <3>7 DEF InFrame
      <4>2. messages' \o split'.parts = Whole(k)'
        BY <1>5, <3>3, <3>4, <3>5, <4>1
      <4>3. ASSUME Amid(t, packets[k + 1])  PROVE Amid(split', packets[k + 1])
        BY <3>4, <4>3, Zenon DEF Amid
      <4>4. k < Len(packets') => Amid(split, packets[k + 1])'
        <5> DEFINE p == packets[k + 1]
        <5>1. k < Len(packets) => Amid(split', p)
          BY <4>1, <4>3
        <5>2. packets'[k + 1] = p
          BY <1>4
        <5>3. \A h, length : HeaderOf(h, length) <=> HeaderOf(h, length)'
          BY <1>4, Zenon DEF HeaderOf, HeaderLen, PayloadLen
        <5> HIDE DEF p
        <5>4. Amid(split', p) => Amid(split, packets[k + 1])'
          BY <5>2, <5>3, Zenon DEF Amid, Framed
        <5> QED  BY <1>4, <5>1, <5>4
      <4> QED  BY <1>4, <3>4, <4>1, <4>2, <4>4 DEF InFrame
    <3>8. Between(split, pos)'
      BY <3>1, <3>4, <3>6, <3>7 DEF Between
    <3> QED  BY <1>5, <2>1, <2>3, <3>1, <3>3, <3>4, <3>5, <3>8, <2>6 DEF SplitInv
  <2> QED  BY <2>5, <2>6
<1>8. ASSUME FlushesUpload  PROVE SplitInv'
  <2>1. /\ upEnd = "no" /\ upEnd' = "flushed" /\ pos' = pos
        /\ messages' = IF split.packet = <<>> THEN messages ELSE Append(messages, split.packet)
        /\ split' = [split EXCEPT !.packet = <<>>, !.header = <<>>, !.len = 0]
    BY <1>8 DEF FlushesUpload
  <2>2. /\ split' \in Splitters /\ split'.packet = <<>> /\ split'.parts = <<>>
        /\ ~split'.rest /\ ~split'.error
    BY <1>1, <2>1, FlushEnds, Zenon
  <2>3. messages' \in Parts
    BY <1>1, <1>3, <2>1 DEF Parts
  <2>4. messages' \o <<>> = messages'
    BY <2>3, NothingMore
  <2>5. Seqs!FlattenSeq(messages') \o <<>> = SubSeq(Stream, 1, pos)
    <3>1. CASE split.packet = <<>>
      BY <1>6, <2>1, <3>1
    <3>2. CASE split.packet # <<>>
      <4>1. messages' = Append(messages, split.packet)
        BY <2>1, <3>2
      <4>2. Seqs!FlattenSeq(messages') = Seqs!FlattenSeq(messages) \o split.packet
        BY <1>1, <1>3, <4>1, FlattenAppend
      <4>3. Seqs!FlattenSeq(messages') \in Seq(Nat)
        BY <2>3, FlattenTyped
      <4> QED  BY <1>6, <2>1, <4>2, <4>3, ConcatEmptySeq
    <3> QED  BY <3>1, <3>2
  <2>6. Conserved(split, pos)'
    BY <1>5, <2>1, <2>2, <2>4, <2>5 DEF Conserved
  <2> QED  BY <1>1, <1>5, <2>1, <2>2, <2>3, <2>6 DEF SplitInv
<1>9. CASE UNCHANGED splitVars
  <2>1. UNCHANGED <<proto, packets, pos, split, messages, upEnd>>
    BY <1>9 DEF splitVars
  <2>2. Between(split, pos) => Between(split, pos)'
    <3>1. Conserved(split, pos) => Conserved(split, pos)'
      BY <1>5, <2>1, Zenon DEF Conserved
    <3>2. InFrame(split) => InFrame(split)'
      <4>1. \A h, length : HeaderOf(h, length) <=> HeaderOf(h, length)'
        BY <2>1, Zenon DEF HeaderOf, HeaderLen, PayloadLen
      <4>2. \A k : Amid(split, packets[k + 1]) => Amid(split, packets[k + 1])'
        BY <2>1, <4>1, Zenon DEF Amid, Framed
      <4> QED  BY <2>1, <4>2, Zenon DEF InFrame, Whole
    <3> QED  BY <2>1, <3>1, <3>2, Zenon DEF Between
  <2>3. Conserved(split, pos) => Conserved(split, pos)'
    BY <1>5, <2>1, Zenon DEF Conserved
  <2> QED  BY <1>5, <2>1, <2>2, <2>3, Zenon DEF SplitInv
<1> QED  BY <1>7, <1>8, <1>9 DEF SplitNext

LEMMA SplitInvImplies ==  SplitInv => SplitTypeOK /\ PacketsWhole
<1> SUFFICES ASSUME SplitInv  PROVE SplitTypeOK /\ PacketsWhole
  OBVIOUS
<1>1. /\ StreamShape /\ messages \in Parts /\ split \in Splitters /\ split.parts = <<>>
      /\ ~split.rest /\ ~split.error /\ pos \in 0..Len(Stream)
      /\ upEnd \in {"no", "refused", "flushed"}
      /\ upEnd = "no" => Between(split, pos)
      /\ upEnd = "flushed" => Conserved(split, pos)
  BY DEF SplitInv
<1>2. packets \in Parts /\ Len(packets) \in Nat /\ messages \o <<>> = messages
  BY <1>1, NothingMore DEF StreamShape, Parts
<1>3. SplitTypeOK
  BY <1>1 DEF SplitTypeOK
<1>4. upEnd # "refused" => Seqs!FlattenSeq(messages) \o split.packet = SubSeq(Stream, 1, pos)
  <2>1. upEnd # "refused" => Conserved(split, pos)
    BY <1>1 DEF Between
  <2> QED  BY <1>1, <1>2, <2>1 DEF Conserved
<1>5. upEnd = "refused" => Seqs!IsPrefix(Seqs!FlattenSeq(messages), Stream)
  BY DEF SplitInv
<1>6. ASSUME ~split.disabled, upEnd = "no"
      PROVE  /\ Seqs!IsPrefix(messages, packets)
             /\ Len(messages) + 1 \in DOMAIN packets =>
                  Len(split.packet) < Len(packets[Len(messages) + 1])
  <2>1. InFrame(split)
    BY <1>1, <1>6 DEF Between
  <2>2. PICK k \in 0..Len(packets) :
          /\ messages \o split.parts = Whole(k)
          /\ k < Len(packets) => Amid(split, packets[k + 1])
    BY <2>1 DEF InFrame
  <2>3. messages = Whole(k) /\ Len(messages) = k
    BY <1>1, <1>2, <2>2, WholeGrows
  <2>4. SubSeq(messages, 1, Len(messages)) = messages
    <3>1. Len(messages) \in 0..Len(messages)
      BY <1>1 DEF Parts
    <3> QED  BY <1>1, <3>1, FirstOf DEF Parts
  <2>5. Seqs!IsPrefix(messages, packets)
    BY <1>2, <2>3, <2>4 DEF Seqs!IsPrefix, Whole
  <2>6. ASSUME k + 1 \in DOMAIN packets  PROVE Len(split.packet) < Len(packets[k + 1])
    <3>1. DOMAIN packets = 1..Len(packets)
      BY <1>2 DEF Parts
    <3>2. k < Len(packets)
      BY <1>2, <2>6, <3>1
    <3> QED  BY <2>2, <3>2 DEF Amid
  <2> QED  BY <2>3, <2>5, <2>6
<1>7. PacketsWhole
  BY <1>4, <1>5, <1>6, Zenon DEF PacketsWhole
<1> QED  BY <1>3, <1>7

----------------------------------------------------------------------------
(* The theorems.                                                               *)

\* No read leaves the splitter with packets that wait, a rest or an error: it is
\* always ready for the next (split_and_encrypt).
THEOREM SplitTyped ==  SplitSpec => []SplitTypeOK
<1>1. SplitInit => SplitInv
  BY SplitInvInit
<1>2. SplitInv /\ [SplitNext]_splitVars => SplitInv'
  BY SplitInvInductive
<1>3. SplitInv => SplitTypeOK
  BY SplitInvImplies
<1> QED  BY <1>1, <1>2, <1>3, PTL DEF SplitSpec

\* Whatever packets the client sends, of whatever lengths and in whatever reads, what
\* leaves is cut into its packets and no byte is lost, doubled or moved
\* (split_and_encrypt, flush).
THEOREM PacketsHold ==  SplitSpec => []PacketsWhole
<1>1. SplitInit => SplitInv
  BY SplitInvInit
<1>2. SplitInv /\ [SplitNext]_splitVars => SplitInv'
  BY SplitInvInductive
<1>3. SplitInv => PacketsWhole
  BY SplitInvImplies
<1> QED  BY <1>1, <1>2, <1>3, PTL DEF SplitSpec
=============================================================================
