------------------------------ MODULE WireProofs ------------------------------
(***************************************************************************)
(* Proofs about what goes over the wire: the lines the receive buffer      *)
(* yields, what the parser makes of them, and how a receiver reads what    *)
(* the reply builders make of that.                                        *)
(***************************************************************************)
EXTENDS Relay, SequenceTheorems, FiniteSetTheorems, WellFoundedInduction, TLAPS

(* The characters of a line: those a client sends, those the server adds.  *)
Fixed == {" ", ":", "\r", "\n", "a", "A", "*", "!", "unknown", "@ircServ",
          "ircServ", "PONG", "JOIN", "PRIVMSG", "KICK", "INVITE", "TOPIC", "MODE",
          "004", "353", "421", "text"}
Char == Fixed \cup UNION {Range(chunk) : chunk \in Chunks}

-----------------------------------------------------------------------------
(* Induction over the natural numbers, for a set.                          *)
LEMMA SetInduction ==
  ASSUME NEW S, 0 \in S, \A n \in Nat : n \in S => n + 1 \in S
  PROVE  Nat \subseteq S
  <1> DEFINE T == Nat \ S
  <1> SUFFICES ASSUME T # {} PROVE FALSE
    OBVIOUS
  <1>1. PICK x \in T : \A y \in T : ~ (<<y, x>> \in OpToRel(<, Nat))
    <2> HIDE DEF T
    <2>1. T \subseteq Nat
      BY DEF T
    <2> QED
      BY <2>1, NatLessThanWellFounded, WFMin
  <1>2. x # 0 /\ x - 1 \in Nat /\ x - 1 < x
    OBVIOUS
  <1>3. <<x - 1, x>> \in OpToRel(<, Nat)
    BY <1>2 DEF OpToRel
  <1>4. x - 1 \in S
    BY <1>1, <1>2, <1>3
  <1> QED
    BY <1>2, <1>4

(* A set of natural numbers has a least element.                           *)
LEMMA Least ==
  ASSUME NEW T, T \subseteq Nat, T # {}
  PROVE  Min(T) \in T /\ \A y \in T : Min(T) <= y
  <1>1. PICK x \in T : \A y \in T : ~ (<<y, x>> \in OpToRel(<, Nat))
    BY NatLessThanWellFounded, WFMin
  <1>2. ASSUME NEW y \in T PROVE x <= y
    <2>1. x \in Nat /\ y \in Nat /\ ~ (<<y, x>> \in OpToRel(<, Nat))
      BY <1>1
    <2> QED
      BY <2>1 DEF OpToRel
  <1>3. \E z \in T : \A y \in T : z <= y
    BY <1>2
  <1> QED
    BY <1>3 DEF Min

-----------------------------------------------------------------------------
(* FlattenSeq takes its result from the function f that has put the first i*)
(* parts of s together at i.                                               *)
PutTogether(f, s, n) ==
  f = [i \in 1..n |-> IF i = 1 THEN s[i] ELSE f[i - 1] \o s[i]]
CanPut(s, n, S) == \E f \in [1..n -> Seq(S)] : PutTogether(f, s, n)

LEMMA PutMore ==
  ASSUME NEW S, NEW s \in Seq(Seq(S)), NEW n \in Nat, n + 1 <= Len(s),
         NEW f \in [1..n -> Seq(S)], PutTogether(f, s, n)
  PROVE  CanPut(s, n + 1, S)
  <1> DEFINE next == IF n = 0 THEN s[n + 1] ELSE f[n] \o s[n + 1]
             g == [i \in 1..n + 1 |-> IF i <= n THEN f[i] ELSE next]
  <1>1. s[n + 1] \in Seq(S)
    OBVIOUS
  <1>2. next \in Seq(S)
    <2>1. CASE n = 0
      BY <1>1, <2>1
    <2>2. CASE n # 0
      <3>1. f[n] \in Seq(S)
        BY <2>2
      <3> QED
        BY <1>1, <2>2, <3>1, ConcatProperties
    <2> QED
      BY <2>1, <2>2
  <1> HIDE DEF next
  <1>3. g \in [1..n + 1 -> Seq(S)]
    BY <1>2
  <1>4. \A i \in 1..n : f[i] = IF i = 1 THEN s[i] ELSE f[i - 1] \o s[i]
    BY DEF PutTogether
  <1>5. ASSUME NEW i \in 1..n + 1
        PROVE  g[i] = IF i = 1 THEN s[i] ELSE g[i - 1] \o s[i]
    <2>1. CASE i <= n
      <3>1. i \in 1..n
        BY <2>1
      <3>2. f[i] = IF i = 1 THEN s[i] ELSE f[i - 1] \o s[i]
        BY <1>4, <3>1
      <3>3. g[i] = f[i] /\ (i # 1 => g[i - 1] = f[i - 1])
        BY <2>1
      <3> HIDE DEF g
      <3> QED
        BY <3>3, <3>2
    <2>2. CASE i = n + 1
      BY <2>2 DEF next
    <2> QED
      BY <2>1, <2>2
  <1>6. PutTogether(g, s, n + 1)
    <2> HIDE DEF g
    <2>1. DOMAIN g = 1..n + 1 /\ g = [i \in DOMAIN g |-> g[i]]
      BY <1>3
    <2> QED
      BY <1>5, <2>1 DEF PutTogether
  <1> HIDE DEF g
  <1> QED
    BY <1>3, <1>6 DEF CanPut

LEMMA AllPut ==
  ASSUME NEW S, NEW s \in Seq(Seq(S))
  PROVE  CanPut(s, Len(s), S)
  <1> DEFINE T == {n \in Nat : n <= Len(s) => CanPut(s, n, S)}
  <1>1. 0 \in T
    <2> DEFINE f == [i \in 1..0 |-> s[i]]
    <2>1. f \in [1..0 -> Seq(S)] /\ PutTogether(f, s, 0)
      BY DEF PutTogether
    <2> HIDE DEF f
    <2>2. CanPut(s, 0, S)
      BY <2>1 DEF CanPut
    <2> QED
      BY <2>2
  <1>2. ASSUME NEW n \in Nat, n \in T PROVE n + 1 \in T
    <2>1. ASSUME n + 1 <= Len(s) PROVE CanPut(s, n + 1, S)
      <3>1. CanPut(s, n, S)
        BY <1>2, <2>1
      <3>2. PICK f \in [1..n -> Seq(S)] : PutTogether(f, s, n)
        BY <3>1 DEF CanPut
      <3> QED
        BY <2>1, <3>2, PutMore
    <2> QED
      BY <2>1
  <1> HIDE DEF T
  <1>3. Nat \subseteq T
    BY <1>1, <1>2, SetInduction
  <1>4. Len(s) \in T
    BY <1>3
  <1> QED
    BY <1>4 DEF T

LEMMA FlattenIs ==
  ASSUME NEW S, NEW s \in Seq(Seq(S)), Len(s) # 0,
         NEW f, PutTogether(f, s, Len(s))
  PROVE  FlattenSeq(s) = f[Len(s)]
  <1> DEFINE h == CHOOSE g : PutTogether(g, s, Len(s))
             T == {n \in Nat : n + 1 <= Len(s) => h[n + 1] = f[n + 1]}
  <1>1. PutTogether(h, s, Len(s))
    OBVIOUS
  <1>2. FlattenSeq(s) = h[Len(s)]
    BY DEF FlattenSeq, PutTogether
  <1> HIDE DEF h
  <1>3. \A i \in 1..Len(s) : /\ f[i] = IF i = 1 THEN s[i] ELSE f[i - 1] \o s[i]
                             /\ h[i] = IF i = 1 THEN s[i] ELSE h[i - 1] \o s[i]
    BY <1>1 DEF PutTogether
  <1>4. 0 \in T
    BY <1>3
  <1>5. ASSUME NEW n \in Nat, n \in T PROVE n + 1 \in T
    <2> SUFFICES ASSUME n + 2 <= Len(s) PROVE h[n + 2] = f[n + 2]
      OBVIOUS
    <2>1. h[n + 1] = f[n + 1]
      BY <1>5
    <2>2. n + 2 \in 1..Len(s) /\ n + 2 # 1 /\ (n + 2) - 1 = n + 1
      OBVIOUS
    <2> HIDE DEF T
    <2> QED
      BY <1>3, <2>1, <2>2
  <1> HIDE DEF T
  <1>6. Nat \subseteq T
    BY <1>4, <1>5, SetInduction
  <1>7. Len(s) - 1 \in T /\ (Len(s) - 1) + 1 = Len(s)
    BY <1>6
  <1> QED
    BY <1>2, <1>7 DEF T

LEMMA FlattenNone == FlattenSeq(<<>>) = <<>>
  BY DEF FlattenSeq

LEMMA FlattenAppend ==
  ASSUME NEW S, NEW s \in Seq(Seq(S)), NEW c \in Seq(S)
  PROVE  /\ FlattenSeq(s) \in Seq(S)
         /\ FlattenSeq(Append(s, c)) = FlattenSeq(s) \o c
  <1> DEFINE t == Append(s, c)
  <1>1. /\ t \in Seq(Seq(S)) /\ Len(t) = Len(s) + 1 /\ Len(t) # 0
        /\ t[Len(s) + 1] = c /\ \A i \in 1..Len(s) : t[i] = s[i]
    OBVIOUS
  <1>2. PICK f \in [1..Len(s) -> Seq(S)] : PutTogether(f, s, Len(s))
    BY AllPut DEF CanPut
  <1>3. PICK g \in [1..Len(t) -> Seq(S)] : PutTogether(g, t, Len(t))
    BY <1>1, AllPut DEF CanPut
  <1> HIDE DEF t
  <1>4. FlattenSeq(t) = g[Len(s) + 1]
    BY <1>1, <1>3, FlattenIs
  <1>5. \A i \in 1..Len(s) + 1 : g[i] = IF i = 1 THEN t[i] ELSE g[i - 1] \o t[i]
    BY <1>1, <1>3 DEF PutTogether
  <1>6. CASE Len(s) = 0
    <2>1. s = <<>> /\ <<>> \o c = c
      BY <1>6, ConcatEmptySeq
    <2>2. g[1] = c
      BY <1>1, <1>5, <1>6
    <2>3. FlattenSeq(s) = <<>> /\ <<>> \in Seq(S) /\ FlattenSeq(t) = c
      BY <1>4, <1>6, <2>1, <2>2, FlattenNone, EmptySeq
    <2> QED
      BY <2>1, <2>3 DEF t
  <1>7. CASE Len(s) # 0
    <2>1. FlattenSeq(s) = f[Len(s)] /\ f[Len(s)] \in Seq(S)
      BY <1>2, <1>7, FlattenIs
    <2> DEFINE h == [i \in 1..Len(s) |-> g[i]]
    <2>2. PutTogether(h, s, Len(s))
      <3>1. ASSUME NEW i \in 1..Len(s)
            PROVE  h[i] = IF i = 1 THEN s[i] ELSE h[i - 1] \o s[i]
        <4>1. CASE i = 1
          BY <1>1, <1>5, <4>1
        <4>2. CASE i # 1
          <5>1. i - 1 \in 1..Len(s) /\ i \in 1..Len(s) + 1 /\ t[i] = s[i]
            BY <1>1, <4>2
          <5>2. h[i] = g[i] /\ h[i - 1] = g[i - 1]
            BY <5>1
          <5> QED
            BY <1>5, <4>2, <5>1, <5>2
        <4> QED
          BY <4>1, <4>2
      <3>2. DOMAIN h = 1..Len(s) /\ h = [i \in DOMAIN h |-> h[i]]
        OBVIOUS
      <3> HIDE DEF h
      <3> QED
        BY <3>1, <3>2 DEF PutTogether
    <2>3. FlattenSeq(s) = g[Len(s)]
      <3>1. Len(s) \in 1..Len(s) /\ h[Len(s)] = g[Len(s)]
        BY <1>7
      <3> HIDE DEF h
      <3> QED
        BY <1>7, <2>2, <3>1, FlattenIs
    <2>4. g[Len(s) + 1] = g[Len(s)] \o c
      <3>1. Len(s) + 1 \in 1..Len(s) + 1 /\ Len(s) + 1 # 1 /\ (Len(s) + 1) - 1 = Len(s)
        BY <1>7
      <3> QED
        BY <1>1, <1>5, <3>1
    <2> QED
      BY <1>4, <2>1, <2>3, <2>4 DEF t
  <1> QED
    BY <1>6, <1>7

LEMMA FlattenConcat ==
  ASSUME NEW S, NEW s \in Seq(Seq(S)), NEW t \in Seq(Seq(S))
  PROVE  FlattenSeq(s \o t) = FlattenSeq(s) \o FlattenSeq(t)
  <1> DEFINE P(u) == FlattenSeq(s \o u) = FlattenSeq(s) \o FlattenSeq(u)
             T == {n \in Nat : n <= Len(t) => P(SubSeq(t, 1, n))}
  <1>1. 0 \in T
    <2>1. SubSeq(t, 1, 0) = <<>> /\ s \o <<>> = s
      OBVIOUS
    <2>2. FlattenSeq(s) \in Seq(S) /\ FlattenSeq(<<>>) = <<>>
      BY FlattenAppend, FlattenNone, EmptySeq
    <2>3. FlattenSeq(s) \o <<>> = FlattenSeq(s)
      BY <2>2, ConcatEmptySeq
    <2> QED
      BY <2>1, <2>2, <2>3
  <1>2. ASSUME NEW n \in Nat, n \in T PROVE n + 1 \in T
    <2> SUFFICES ASSUME n + 1 <= Len(t) PROVE P(SubSeq(t, 1, n + 1))
      OBVIOUS
    <2> DEFINE u == SubSeq(t, 1, n)
               x == t[n + 1]
    <2>1. u \in Seq(Seq(S)) /\ x \in Seq(S)
      OBVIOUS
    <2>2. SubSeq(t, 1, n + 1) = Append(u, x)
      OBVIOUS
    <2>3. P(u)
      BY <1>2
    <2> HIDE DEF u, x
    <2>4. s \o u \in Seq(Seq(S)) /\ s \o Append(u, x) = Append(s \o u, x)
      BY <2>1
    <2>5. /\ FlattenSeq(Append(s \o u, x)) = FlattenSeq(s \o u) \o x
          /\ FlattenSeq(Append(u, x)) = FlattenSeq(u) \o x
          /\ FlattenSeq(s) \in Seq(S) /\ FlattenSeq(u) \in Seq(S)
      BY <2>1, <2>4, FlattenAppend
    <2>6. (FlattenSeq(s) \o FlattenSeq(u)) \o x = FlattenSeq(s) \o (FlattenSeq(u) \o x)
      <3> DEFINE a == FlattenSeq(s)
                 b == FlattenSeq(u)
      <3>1. a \in Seq(S) /\ b \in Seq(S) /\ x \in Seq(S)
        BY <2>1, <2>5
      <3> HIDE DEF a, b
      <3>2. (a \o b) \o x = a \o (b \o x)
        BY <3>1, ConcatAssociative, SMTT(30)
      <3> QED
        BY <3>2 DEF a, b
    <2> QED
      BY <2>2, <2>3, <2>4, <2>5, <2>6
  <1> HIDE DEF T
  <1>3. Nat \subseteq T
    BY <1>1, <1>2, SetInduction
  <1>4. Len(t) \in T /\ Len(t) <= Len(t)
    BY <1>3
  <1>5. P(SubSeq(t, 1, Len(t)))
    BY <1>4 DEF T
  <1>6. SubSeq(t, 1, Len(t)) = t
    OBVIOUS
  <1> QED
    BY <1>5, <1>6

-----------------------------------------------------------------------------
(* The character c occurs in s.                                            *)
Has(s, c) == \E k \in 1..Len(s) : s[k] = c

LEMMA HasConcat ==
  ASSUME NEW S, NEW s \in Seq(S), NEW t \in Seq(S), NEW c
  PROVE  Has(s \o t, c) <=> Has(s, c) \/ Has(t, c)
  <1>1. /\ Len(s) \in Nat /\ Len(t) \in Nat /\ Len(s \o t) = Len(s) + Len(t)
        /\ \A i \in 1..Len(s) + Len(t) :
             (s \o t)[i] = IF i <= Len(s) THEN s[i] ELSE t[i - Len(s)]
    BY ConcatProperties
  <1>2. ASSUME NEW k \in 1..Len(s \o t), (s \o t)[k] = c
        PROVE  Has(s, c) \/ Has(t, c)
    <2>1. CASE k <= Len(s)
      BY <1>1, <1>2, <2>1 DEF Has
    <2>2. CASE k > Len(s)
      <3>1. k - Len(s) \in 1..Len(t) /\ t[k - Len(s)] = c
        BY <1>1, <1>2, <2>2
      <3> QED
        BY <3>1 DEF Has
    <2> QED
      BY <1>1, <2>1, <2>2
  <1>3. ASSUME NEW k \in 1..Len(s), s[k] = c
        PROVE  Has(s \o t, c)
    <2>1. k \in 1..Len(s \o t) /\ (s \o t)[k] = c
      BY <1>1, <1>3
    <2> QED
      BY <2>1 DEF Has
  <1>4. ASSUME NEW k \in 1..Len(t), t[k] = c
        PROVE  Has(s \o t, c)
    <2>1. /\ k + Len(s) \in 1..Len(s \o t) /\ ~(k + Len(s) <= Len(s))
          /\ (k + Len(s)) - Len(s) = k
      BY <1>1
    <2>2. (s \o t)[k + Len(s)] = c
      BY <1>1, <1>4, <2>1
    <2> QED
      BY <2>1, <2>2 DEF Has
  <1> QED
    BY <1>2, <1>3, <1>4 DEF Has

LEMMA HasOne ==
  ASSUME NEW S, NEW x \in S, NEW c
  PROVE  Has(<<x>>, c) <=> x = c
  <1>1. Len(<<x>>) = 1 /\ <<x>>[1] = x
    OBVIOUS
  <1> QED
    BY <1>1 DEF Has

LEMMA HasNone ==
  ASSUME NEW c
  PROVE  ~Has(<<>>, c)
  BY DEF Has

-----------------------------------------------------------------------------
(* A character alone, or nothing.                                          *)
Kept(x, chars) == IF x \in chars THEN <<>> ELSE <<x>>
Parts(s, chars) == [k \in 1..Len(s) |-> Kept(s[k], chars)]

LEMMA KeptType ==
  ASSUME NEW S, NEW x \in S, NEW chars
  PROVE  Kept(x, chars) \in Seq(S)
  BY DEF Kept

LEMMA PartsType ==
  ASSUME NEW S, NEW s \in Seq(S), NEW chars
  PROVE  /\ Parts(s, chars) \in Seq(Seq(S))
         /\ Len(Parts(s, chars)) = Len(s)
         /\ \A k \in 1..Len(s) : Parts(s, chars)[k] = Kept(s[k], chars)
         /\ Without(s, chars) = FlattenSeq(Parts(s, chars))
  <1>1. \A k \in 1..Len(s) : Kept(s[k], chars) \in Seq(S)
    BY KeptType, ElementOfSeq
  <1>2. Len(s) \in Nat /\ DOMAIN s = 1..Len(s)
    BY LenProperties
  <1>3. Parts(s, chars) \in [1..Len(s) -> Seq(S)]
    BY <1>1 DEF Parts
  <1>4. Parts(s, chars) \in Seq(Seq(S)) /\ Len(Parts(s, chars)) = Len(s)
    BY <1>2, <1>3
  <1>5. Without(s, chars) = FlattenSeq(Parts(s, chars))
    BY <1>2 DEF Without, Parts, Kept
  <1> QED
    BY <1>4, <1>5 DEF Parts

LEMMA WithoutType ==
  ASSUME NEW S, NEW s \in Seq(S), NEW chars
  PROVE  Without(s, chars) \in Seq(S)
  <1>1. Parts(s, chars) \in Seq(Seq(S)) /\ <<>> \in Seq(S)
    BY PartsType, EmptySeq
  <1>2. FlattenSeq(Parts(s, chars)) \in Seq(S)
    BY <1>1, FlattenAppend
  <1> QED
    BY <1>2, PartsType

LEMMA WithoutConcat ==
  ASSUME NEW S, NEW s \in Seq(S), NEW t \in Seq(S), NEW chars
  PROVE  Without(s \o t, chars) = Without(s, chars) \o Without(t, chars)
  <1> DEFINE a == Parts(s, chars)
             b == Parts(t, chars)
             c == Parts(s \o t, chars)
  <1>1. /\ s \o t \in Seq(S)
        /\ Len(s) \in Nat /\ Len(t) \in Nat /\ Len(s \o t) = Len(s) + Len(t)
        /\ \A i \in 1..Len(s) + Len(t) :
             (s \o t)[i] = IF i <= Len(s) THEN s[i] ELSE t[i - Len(s)]
    BY ConcatProperties
  <1>2. /\ a \in Seq(Seq(S)) /\ Len(a) = Len(s)
        /\ \A k \in 1..Len(s) : a[k] = Kept(s[k], chars)
        /\ Without(s, chars) = FlattenSeq(a)
    BY PartsType
  <1>3. /\ b \in Seq(Seq(S)) /\ Len(b) = Len(t)
        /\ \A k \in 1..Len(t) : b[k] = Kept(t[k], chars)
        /\ Without(t, chars) = FlattenSeq(b)
    BY PartsType
  <1>4. /\ c \in Seq(Seq(S)) /\ Len(c) = Len(s \o t)
        /\ \A k \in 1..Len(s \o t) : c[k] = Kept((s \o t)[k], chars)
        /\ Without(s \o t, chars) = FlattenSeq(c)
    BY <1>1, PartsType
  <1> HIDE DEF a, b, c
  <1>5. /\ a \o b \in Seq(Seq(S)) /\ Len(a \o b) = Len(a) + Len(b)
        /\ \A i \in 1..Len(a) + Len(b) :
             (a \o b)[i] = IF i <= Len(a) THEN a[i] ELSE b[i - Len(a)]
    <2>1. a \in Seq(Seq(S)) /\ b \in Seq(Seq(S))
      BY <1>2, <1>3
    <2> QED
      BY <2>1, ConcatProperties
  <1>6. ASSUME NEW i \in 1..Len(c) PROVE c[i] = (a \o b)[i]
    <2>1. CASE i <= Len(s)
      BY <1>1, <1>2, <1>3, <1>4, <1>5, <2>1
    <2>2. CASE i > Len(s)
      <3>1. i - Len(s) \in 1..Len(t) /\ (s \o t)[i] = t[i - Len(s)]
        BY <1>1, <1>4, <2>2
      <3>2. (a \o b)[i] = b[i - Len(s)]
        BY <1>1, <1>2, <1>3, <1>4, <1>5, <2>2
      <3> QED
        BY <1>1, <1>3, <1>4, <3>1, <3>2
    <2>3. i <= Len(s) \/ i > Len(s)
      BY <1>1
    <2> QED
      BY <2>1, <2>2, <2>3
  <1>7. Len(c) = Len(a \o b)
    BY <1>1, <1>2, <1>3, <1>4, <1>5
  <1>8. c = a \o b
    BY <1>4, <1>5, <1>6, <1>7, SeqEqual
  <1>9. FlattenSeq(a \o b) = FlattenSeq(a) \o FlattenSeq(b)
    BY <1>2, <1>3, FlattenConcat
  <1> QED
    BY <1>2, <1>3, <1>4, <1>8, <1>9

LEMMA WithoutOne ==
  ASSUME NEW S, NEW x \in S, NEW chars
  PROVE  /\ Without(<<x>>, chars) = Kept(x, chars)
         /\ Without(<<>>, chars) = <<>>
  <1>1. Len(<<x>>) = 1 /\ <<x>> \in Seq(S) /\ <<x>>[1] = x /\ Len(<<>>) = 0
    OBVIOUS
  <1>2. Parts(<<>>, chars) = <<>>
    BY <1>1 DEF Parts
  <1>3. Without(<<>>, chars) = FlattenSeq(Parts(<<>>, chars))
    BY EmptySeq, PartsType
  <1>4. Parts(<<x>>, chars) = <<Kept(x, chars)>>
    BY <1>1 DEF Parts
  <1>5. Kept(x, chars) \in Seq(S) /\ <<>> \in Seq(Seq(S))
    BY KeptType
  <1>6. <<Kept(x, chars)>> = Append(<<>>, Kept(x, chars))
    OBVIOUS
  <1>7. FlattenSeq(Append(<<>>, Kept(x, chars))) = FlattenSeq(<<>>) \o Kept(x, chars)
    BY <1>5, FlattenAppend
  <1>8. <<>> \o Kept(x, chars) = Kept(x, chars)
    BY <1>5, ConcatEmptySeq
  <1>9. Without(<<x>>, chars) = FlattenSeq(Parts(<<x>>, chars))
    BY <1>1, PartsType
  <1> QED
    BY <1>2, <1>3, <1>4, <1>6, <1>7, <1>8, <1>9, FlattenNone

(* A sequence grows by its next element.                                   *)
LEMMA Longer ==
  ASSUME NEW S, NEW s \in Seq(S), NEW n \in Nat, n + 1 <= Len(s)
  PROVE  /\ SubSeq(s, 1, n) \in Seq(S) /\ s[n + 1] \in S
         /\ <<s[n + 1]>> \in Seq(S)
         /\ SubSeq(s, 1, n + 1) = SubSeq(s, 1, n) \o <<s[n + 1]>>
  <1>1. s[n + 1] \in S
    OBVIOUS
  <1>2. SubSeq(s, 1, n) \in Seq(S)
    OBVIOUS
  <1>3. n + 1 \in 1..Len(s) /\ 1 \in 1..Len(s) /\ (n + 1) - 1 = n /\ n + 1 \in 1..Len(s)
    OBVIOUS
  <1>4. SubSeq(s, 1, n + 1) = SubSeq(s, 1, (n + 1) - 1) \o <<s[n + 1]>>
    BY <1>3, SubSeqRecursiveSecond
  <1> QED
    BY <1>1, <1>2, <1>3, <1>4

LEMMA WithoutKeeps ==
  ASSUME NEW S, NEW s \in Seq(S), NEW chars, NEW c, c \notin chars
  PROVE  Has(Without(s, chars), c) <=> Has(s, c)
  <1> DEFINE P(u) == Has(Without(u, chars), c) <=> Has(u, c)
             T == {n \in Nat : n <= Len(s) => P(SubSeq(s, 1, n))}
  <1>1. P(<<>>)
    <2>1. Without(<<>>, chars) = <<>>
      BY WithoutOne
    <2> QED
      BY <2>1, HasNone
  <1>2. ASSUME NEW n \in Nat, n + 1 <= Len(s), P(SubSeq(s, 1, n))
        PROVE  P(SubSeq(s, 1, n + 1))
    <2> DEFINE u == SubSeq(s, 1, n)
               x == s[n + 1]
    <2>1. u \in Seq(S) /\ x \in S /\ <<x>> \in Seq(S)
          /\ SubSeq(s, 1, n + 1) = u \o <<x>>
      BY <1>2, Longer
    <2>2. P(u)
      BY <1>2
    <2> HIDE DEF u, x
    <2>3. Without(u \o <<x>>, chars) = Without(u, chars) \o Without(<<x>>, chars)
      <3> DEFINE y == <<x>>
      <3>1. u \in Seq(S) /\ y \in Seq(S)
        BY <2>1
      <3> HIDE DEF y
      <3>2. Without(u \o y, chars) = Without(u, chars) \o Without(y, chars)
        BY <3>1, WithoutConcat
      <3> QED
        BY <3>2 DEF y
    <2>4. Without(<<x>>, chars) = Kept(x, chars)
      BY <2>1, WithoutOne
    <2>5. Has(Kept(x, chars), c) <=> x = c
      BY <2>1, HasOne, HasNone DEF Kept
    <2>6. Has(<<x>>, c) <=> x = c
      BY <2>1, HasOne
    <2>7. /\ Has(Without(u, chars) \o Kept(x, chars), c)
               <=> Has(Without(u, chars), c) \/ Has(Kept(x, chars), c)
          /\ Has(u \o <<x>>, c) <=> Has(u, c) \/ Has(<<x>>, c)
      BY <2>1, WithoutType, KeptType, HasConcat
    <2>8. P(u \o <<x>>)
      BY <2>2, <2>3, <2>4, <2>5, <2>6, <2>7
    <2> QED
      BY <2>1, <2>8
  <1>3. SubSeq(s, 1, 0) = <<>> /\ SubSeq(s, 1, Len(s)) = s
    OBVIOUS
  <1> HIDE DEF P
  <1>4. 0 \in T
    BY <1>1, <1>3
  <1>5. ASSUME NEW n \in Nat, n \in T PROVE n + 1 \in T
    BY <1>2, <1>5
  <1> HIDE DEF T
  <1>6. Nat \subseteq T
    BY <1>4, <1>5, SetInduction
  <1>7. Len(s) \in T /\ Len(s) <= Len(s)
    BY <1>6
  <1>8. P(SubSeq(s, 1, Len(s)))
    BY <1>7 DEF T
  <1> QED
    BY <1>3, <1>8 DEF P

-----------------------------------------------------------------------------
(* Pieces of a sequence.                                                   *)
LEMMA Piece ==
  ASSUME NEW S, NEW s \in Seq(S), NEW m \in 1..Len(s) + 1, NEW n \in 0..Len(s)
  PROVE  /\ SubSeq(s, m, n) \in Seq(S)
         /\ Len(SubSeq(s, m, n)) = IF m <= n THEN n - m + 1 ELSE 0
         /\ \A i \in 1..n - m + 1 : SubSeq(s, m, n)[i] = s[m + i - 1]
  <1>1. m \in Int /\ n \in Int /\ \A i \in m..n : s[i] \in S
    OBVIOUS
  <1> QED
    BY <1>1, SubSeqProperties

(* What stands before the end of s is not changed by what follows s.       *)
LEMMA PieceOfConcat ==
  ASSUME NEW S, NEW s \in Seq(S), NEW t \in Seq(S),
         NEW m \in 1..Len(s) + 1, NEW n \in 0..Len(s)
  PROVE  SubSeq(s \o t, m, n) = SubSeq(s, m, n)
  <1>1. /\ s \o t \in Seq(S) /\ Len(s \o t) = Len(s) + Len(t) /\ Len(t) \in Nat
        /\ \A i \in 1..Len(s) + Len(t) :
             (s \o t)[i] = IF i <= Len(s) THEN s[i] ELSE t[i - Len(s)]
    BY ConcatProperties
  <1> DEFINE a == SubSeq(s \o t, m, n)
             b == SubSeq(s, m, n)
  <1>2. /\ b \in Seq(S) /\ Len(b) = IF m <= n THEN n - m + 1 ELSE 0
        /\ \A i \in 1..n - m + 1 : b[i] = s[m + i - 1]
    BY Piece
  <1>3. m \in 1..Len(s \o t) + 1 /\ n \in 0..Len(s \o t)
    BY <1>1
  <1>4. /\ a \in Seq(S) /\ Len(a) = IF m <= n THEN n - m + 1 ELSE 0
        /\ \A i \in 1..n - m + 1 : a[i] = (s \o t)[m + i - 1]
    BY <1>1, <1>3, Piece
  <1> HIDE DEF a, b
  <1>5. ASSUME NEW i \in 1..Len(a) PROVE a[i] = b[i]
    <2>1. i \in 1..n - m + 1 /\ m + i - 1 \in 1..Len(s)
      BY <1>4
    <2>2. (s \o t)[m + i - 1] = s[m + i - 1]
      BY <1>1, <2>1
    <2> QED
      BY <1>2, <1>4, <2>1, <2>2
  <1>6. Len(a) = Len(b)
    BY <1>2, <1>4
  <1>7. a = b
    BY <1>2, <1>4, <1>5, <1>6, SeqEqual
  <1> QED
    BY <1>7 DEF a, b

(* What follows s is added to the end of its last piece.                   *)
LEMMA EndOfConcat ==
  ASSUME NEW S, NEW s \in Seq(S), NEW t \in Seq(S), NEW m \in 1..Len(s) + 1
  PROVE  SubSeq(s \o t, m, Len(s \o t)) = SubSeq(s, m, Len(s)) \o t
  <1>1. /\ s \o t \in Seq(S) /\ Len(s \o t) = Len(s) + Len(t)
        /\ Len(s) \in Nat /\ Len(t) \in Nat
        /\ \A i \in 1..Len(s) + Len(t) :
             (s \o t)[i] = IF i <= Len(s) THEN s[i] ELSE t[i - Len(s)]
    BY ConcatProperties
  <1> DEFINE st == s \o t
             a == SubSeq(st, m, Len(st))
             b == SubSeq(s, m, Len(s))
             c == b \o t
  <1>2. /\ b \in Seq(S) /\ Len(b) = Len(s) - m + 1
        /\ \A i \in 1..Len(s) - m + 1 : b[i] = s[m + i - 1]
    <2>1. Len(s) \in 0..Len(s)
      BY <1>1
    <2> QED
      BY <1>1, <2>1, Piece
  <1> HIDE DEF b, st
  <1>3. /\ a \in Seq(S) /\ Len(a) = Len(s) + Len(t) - m + 1
        /\ \A i \in 1..Len(s) + Len(t) - m + 1 : a[i] = st[m + i - 1]
    <2>1. m \in 1..Len(st) + 1 /\ Len(st) \in 0..Len(st) /\ st \in Seq(S)
      BY <1>1 DEF st
    <2> QED
      BY <1>1, <2>1, Piece DEF st
  <1>4. /\ c \in Seq(S) /\ Len(c) = Len(b) + Len(t)
        /\ \A i \in 1..Len(b) + Len(t) :
             c[i] = IF i <= Len(b) THEN b[i] ELSE t[i - Len(b)]
    BY <1>2, ConcatProperties
  <1> HIDE DEF a, c
  <1>5. Len(a) = Len(c)
    BY <1>1, <1>2, <1>3, <1>4
  <1>6. ASSUME NEW i \in 1..Len(a) PROVE a[i] = c[i]
    <2>1. /\ i \in 1..Len(s) + Len(t) - m + 1 /\ i \in 1..Len(b) + Len(t)
          /\ m + i - 1 \in 1..Len(s) + Len(t)
      BY <1>1, <1>2, <1>3
    <2>2. a[i] = st[m + i - 1]
      BY <1>3, <2>1
    <2>3. CASE i <= Len(b)
      <3>1. m + i - 1 <= Len(s) /\ i \in 1..Len(s) - m + 1
        BY <1>1, <1>2, <2>1, <2>3
      <3>2. st[m + i - 1] = s[m + i - 1] /\ c[i] = b[i] /\ b[i] = s[m + i - 1]
        BY <1>1, <1>2, <1>4, <2>1, <2>3, <3>1 DEF st
      <3> QED
        BY <2>2, <3>2
    <2>4. CASE i > Len(b)
      <3>1. ~(m + i - 1 <= Len(s)) /\ ~(i <= Len(b))
            /\ (m + i - 1) - Len(s) = i - Len(b)
        BY <1>1, <1>2, <2>1, <2>4
      <3>2. st[m + i - 1] = t[(m + i - 1) - Len(s)] /\ c[i] = t[i - Len(b)]
        BY <1>1, <1>4, <2>1, <3>1 DEF st
      <3> QED
        BY <2>2, <3>1, <3>2
    <2>5. i <= Len(b) \/ i > Len(b)
      BY <1>1, <1>2
    <2> QED
      BY <2>3, <2>4, <2>5
  <1>7. a = c
    BY <1>3, <1>4, <1>5, <1>6, SeqEqual
  <1> QED
    BY <1>7 DEF a, c, b, st

(* Pieces of what follows the first q elements.                            *)
Behind(s, q) == SubSeq(s, q + 1, Len(s))

LEMMA PieceOfEnd ==
  ASSUME NEW S, NEW s \in Seq(S), NEW q \in 0..Len(s)
  PROVE  /\ Behind(s, q) \in Seq(S) /\ Len(Behind(s, q)) = Len(s) - q
         /\ \A i \in 1..Len(Behind(s, q)) : Behind(s, q)[i] = s[q + i]
         /\ \A p \in 1..Len(Behind(s, q)) :
              /\ SubSeq(s, q + 1, (q + p) - 1) = SubSeq(Behind(s, q), 1, p - 1)
              /\ Behind(s, q + p) = Behind(Behind(s, q), p)
  <1> DEFINE r == Behind(s, q)
  <1>1. Len(s) \in Nat /\ q \in Nat /\ q <= Len(s)
    OBVIOUS
  <1>2. q + 1 \in 1..Len(s) + 1 /\ Len(s) \in 0..Len(s)
    BY <1>1
  <1>3. /\ r \in Seq(S)
        /\ Len(r) = IF q + 1 <= Len(s) THEN Len(s) - (q + 1) + 1 ELSE 0
        /\ \A i \in 1..Len(s) - (q + 1) + 1 : r[i] = s[(q + 1) + i - 1]
    BY <1>2, Piece DEF Behind
  <1> HIDE DEF r
  <1>4. Len(r) = Len(s) - q
    BY <1>1, <1>3
  <1>5. ASSUME NEW i \in 1..Len(r) PROVE r[i] = s[q + i]
    <2>1. i \in 1..Len(s) - (q + 1) + 1 /\ (q + 1) + i - 1 = q + i
      BY <1>1, <1>4
    <2> QED
      BY <1>3, <2>1
  <1>6. ASSUME NEW p \in 1..Len(r)
        PROVE  SubSeq(s, q + 1, (q + p) - 1) = SubSeq(r, 1, p - 1)
    <2> DEFINE u == SubSeq(s, q + 1, (q + p) - 1)
               v == SubSeq(r, 1, p - 1)
    <2>1. p \in Nat /\ p >= 1 /\ q + p <= Len(s)
      BY <1>1, <1>4
    <2>2. (q + p) - 1 \in 0..Len(s)
      BY <1>1, <2>1
    <2>3. /\ u \in Seq(S)
          /\ Len(u) = IF q + 1 <= (q + p) - 1 THEN ((q + p) - 1) - (q + 1) + 1 ELSE 0
          /\ \A i \in 1..((q + p) - 1) - (q + 1) + 1 : u[i] = s[(q + 1) + i - 1]
      BY <1>2, <2>2, Piece
    <2>4. r \in Seq(S) /\ 1 \in 1..Len(r) + 1 /\ p - 1 \in 0..Len(r)
      BY <1>1, <1>3, <1>4, <2>1
    <2>5. /\ v \in Seq(S) /\ Len(v) = IF 1 <= p - 1 THEN p - 1 - 1 + 1 ELSE 0
          /\ \A i \in 1..p - 1 - 1 + 1 : v[i] = r[1 + i - 1]
      BY <2>4, Piece
    <2> HIDE DEF u, v
    <2>6. Len(u) = p - 1
      BY <1>1, <2>1, <2>3
    <2>7. Len(v) = p - 1
      BY <2>1, <2>5
    <2>8. ASSUME NEW i \in 1..Len(u) PROVE u[i] = v[i]
      <3>1. /\ i \in 1..((q + p) - 1) - (q + 1) + 1 /\ (q + 1) + i - 1 = q + i
            /\ i \in 1..p - 1 - 1 + 1 /\ 1 + i - 1 = i /\ i \in 1..Len(r)
        BY <1>1, <2>1, <2>6
      <3>2. u[i] = s[q + i] /\ v[i] = r[i]
        BY <2>3, <2>5, <3>1
      <3> QED
        BY <1>5, <3>1, <3>2
    <2>9. u \in Seq(S) /\ v \in Seq(S) /\ Len(u) = Len(v)
      BY <2>3, <2>5, <2>6, <2>7
    <2>10. u = v
      BY <2>8, <2>9, SeqEqual
    <2> QED
      BY <2>10 DEF u, v
  <1>7. ASSUME NEW p \in 1..Len(r)
        PROVE  SubSeq(s, (q + p) + 1, Len(s)) = SubSeq(r, p + 1, Len(r))
    <2> DEFINE u == SubSeq(s, (q + p) + 1, Len(s))
               v == SubSeq(r, p + 1, Len(r))
    <2>1. p \in Nat /\ p >= 1 /\ q + p <= Len(s)
      BY <1>1, <1>4
    <2>2. (q + p) + 1 \in 1..Len(s) + 1
      BY <1>1, <2>1
    <2>3. /\ u \in Seq(S)
          /\ Len(u) = IF (q + p) + 1 <= Len(s) THEN Len(s) - ((q + p) + 1) + 1 ELSE 0
          /\ \A i \in 1..Len(s) - ((q + p) + 1) + 1 : u[i] = s[((q + p) + 1) + i - 1]
      BY <1>2, <2>2, Piece
    <2>4. r \in Seq(S) /\ p + 1 \in 1..Len(r) + 1 /\ Len(r) \in 0..Len(r)
      BY <1>1, <1>3, <1>4, <2>1
    <2>5. /\ v \in Seq(S)
          /\ Len(v) = IF p + 1 <= Len(r) THEN Len(r) - (p + 1) + 1 ELSE 0
          /\ \A i \in 1..Len(r) - (p + 1) + 1 : v[i] = r[(p + 1) + i - 1]
      BY <2>4, Piece
    <2> HIDE DEF u, v
    <2>6. Len(u) = (Len(s) - q) - p
      BY <1>1, <2>1, <2>3
    <2>7. Len(v) = (Len(s) - q) - p
      <3>1. Len(v) = IF p + 1 <= Len(r) THEN Len(r) - (p + 1) + 1 ELSE 0
        BY <2>5
      <3> QED
        BY <1>1, <1>4, <2>1, <3>1
    <2>8. ASSUME NEW i \in 1..Len(u) PROVE u[i] = v[i]
      <3>1. /\ i \in 1..Len(s) - ((q + p) + 1) + 1
            /\ ((q + p) + 1) + i - 1 = q + (p + i)
            /\ i \in 1..Len(r) - (p + 1) + 1 /\ (p + 1) + i - 1 = p + i
            /\ p + i \in 1..Len(r)
        BY <1>1, <1>4, <2>1, <2>6
      <3>2. u[i] = s[q + (p + i)] /\ v[i] = r[p + i]
        BY <2>3, <2>5, <3>1
      <3> QED
        BY <1>5, <3>1, <3>2
    <2>9. u \in Seq(S) /\ v \in Seq(S) /\ Len(u) = Len(v)
      BY <2>3, <2>5, <2>6, <2>7
    <2>10. u = v
      BY <2>8, <2>9, SeqEqual
    <2> QED
      BY <2>10 DEF u, v
  <1>8. ASSUME NEW p \in 1..Len(r) PROVE Behind(s, q + p) = Behind(r, p)
    BY <1>7 DEF Behind
  <1> QED
    BY <1>3, <1>4, <1>5, <1>6, <1>8 DEF r

(* s is a, then x, then b.                                                 *)
Around(s, a, x, b) == s = (a \o <<x>>) \o b

LEMMA CutBehind ==
  ASSUME NEW S, NEW s \in Seq(S), NEW q \in 0..Len(s), NEW p \in 1..Len(Behind(s, q))
  PROVE  /\ SubSeq(s, q + 1, (q + p) - 1) = SubSeq(Behind(s, q), 1, p - 1)
         /\ Behind(s, q + p) = Behind(Behind(s, q), p)
  BY PieceOfEnd

LEMMA AroundShape ==
  ASSUME NEW S, NEW a \in Seq(S), NEW x \in S, NEW b \in Seq(S),
         NEW s, Around(s, a, x, b)
  PROVE  /\ s \in Seq(S) /\ Len(s) = Len(a) + 1 + Len(b)
         /\ \A i \in 1..Len(a) : s[i] = a[i]
         /\ s[Len(a) + 1] = x
         /\ \A i \in 1..Len(b) : s[Len(a) + 1 + i] = b[i]
         /\ SubSeq(s, 1, Len(a)) = a
         /\ SubSeq(s, Len(a) + 2, Len(s)) = b
  <1> DEFINE y == <<x>>
             d == a \o y
  <1>1. y \in Seq(S) /\ Len(y) = 1 /\ y[1] = x /\ Len(a) \in Nat /\ Len(b) \in Nat
    OBVIOUS
  <1>2. s = d \o b
    BY DEF Around
  <1> HIDE DEF y
  <1>3. /\ d \in Seq(S) /\ Len(d) = Len(a) + Len(y)
        /\ \A i \in 1..Len(a) + Len(y) :
             d[i] = IF i <= Len(a) THEN a[i] ELSE y[i - Len(a)]
    BY <1>1, ConcatProperties
  <1> HIDE DEF d
  <1>4. /\ s \in Seq(S) /\ Len(s) = Len(d) + Len(b)
        /\ \A i \in 1..Len(d) + Len(b) :
             s[i] = IF i <= Len(d) THEN d[i] ELSE b[i - Len(d)]
    <2>1. d \in Seq(S)
      BY <1>3
    <2>2. /\ d \o b \in Seq(S) /\ Len(d \o b) = Len(d) + Len(b)
          /\ \A i \in 1..Len(d) + Len(b) :
               (d \o b)[i] = IF i <= Len(d) THEN d[i] ELSE b[i - Len(d)]
      BY <2>1, ConcatProperties
    <2> QED
      BY <1>2, <2>2
  <1>5. Len(s) = Len(a) + 1 + Len(b) /\ Len(d) = Len(a) + 1
    BY <1>1, <1>3, <1>4
  <1>6. ASSUME NEW i \in 1..Len(a) PROVE s[i] = a[i]
    <2>1. i \in 1..Len(a) + Len(y) /\ i \in 1..Len(d) + Len(b) /\ i <= Len(a)
          /\ i <= Len(d)
      BY <1>1, <1>5
    <2> QED
      BY <1>3, <1>4, <2>1
  <1>7. s[Len(a) + 1] = x
    <2> DEFINE k == Len(a) + 1
    <2>1. /\ k \in 1..Len(a) + Len(y) /\ k \in 1..Len(d) + Len(b) /\ ~(k <= Len(a))
          /\ k <= Len(d) /\ k - Len(a) = 1
      BY <1>1, <1>5
    <2> HIDE DEF k
    <2>2. s[k] = x
      BY <1>1, <1>3, <1>4, <2>1
    <2> QED
      BY <2>2 DEF k
  <1>8. ASSUME NEW i \in 1..Len(b) PROVE s[Len(a) + 1 + i] = b[i]
    <2> DEFINE k == Len(a) + 1 + i
    <2>1. k \in 1..Len(d) + Len(b) /\ ~(k <= Len(d)) /\ k - Len(d) = i
      BY <1>1, <1>5
    <2> HIDE DEF k
    <2>2. s[k] = b[i]
      BY <1>4, <2>1
    <2> QED
      BY <2>2 DEF k
  <1>9. SubSeq(s, 1, Len(a)) = a
    <2> DEFINE u == SubSeq(s, 1, Len(a))
    <2>1. 1 \in 1..Len(s) + 1 /\ Len(a) \in 0..Len(s)
      BY <1>1, <1>5
    <2>2. /\ u \in Seq(S) /\ Len(u) = IF 1 <= Len(a) THEN Len(a) - 1 + 1 ELSE 0
          /\ \A i \in 1..Len(a) - 1 + 1 : u[i] = s[1 + i - 1]
      BY <1>4, <2>1, Piece
    <2> HIDE DEF u
    <2>3. Len(u) = Len(a)
      BY <1>1, <2>2
    <2>4. ASSUME NEW i \in 1..Len(u) PROVE u[i] = a[i]
      <3>1. i \in 1..Len(a) - 1 + 1 /\ 1 + i - 1 = i /\ i \in 1..Len(a)
        BY <1>1, <2>3
      <3> QED
        BY <1>6, <2>2, <3>1
    <2>5. u = a
      BY <2>2, <2>3, <2>4, SeqEqual
    <2> QED
      BY <2>5 DEF u
  <1>10. SubSeq(s, Len(a) + 2, Len(s)) = b
    <2> DEFINE u == SubSeq(s, Len(a) + 2, Len(s))
    <2>1. Len(a) + 2 \in 1..Len(s) + 1 /\ Len(s) \in 0..Len(s)
      BY <1>1, <1>5
    <2>2. /\ u \in Seq(S)
          /\ Len(u) = IF Len(a) + 2 <= Len(s) THEN Len(s) - (Len(a) + 2) + 1 ELSE 0
          /\ \A i \in 1..Len(s) - (Len(a) + 2) + 1 : u[i] = s[(Len(a) + 2) + i - 1]
      BY <1>4, <2>1, Piece
    <2> HIDE DEF u
    <2>3. Len(u) = Len(b)
      BY <1>1, <1>5, <2>2
    <2>4. ASSUME NEW i \in 1..Len(u) PROVE u[i] = b[i]
      <3>1. i \in 1..Len(s) - (Len(a) + 2) + 1 /\ i \in 1..Len(b)
            /\ (Len(a) + 2) + i - 1 = Len(a) + 1 + i
        BY <1>1, <1>5, <2>3
      <3> QED
        BY <1>8, <2>2, <3>1
    <2>5. u = b
      BY <2>2, <2>3, <2>4, SeqEqual
    <2> QED
      BY <2>5 DEF u
  <1> QED
    BY <1>4, <1>5, <1>6, <1>7, <1>8, <1>9, <1>10

(* Every element has its place.                                            *)
LEMMA SplitAt ==
  ASSUME NEW S, NEW s \in Seq(S), NEW p \in 1..Len(s)
  PROVE  /\ SubSeq(s, 1, p - 1) \in Seq(S) /\ Len(SubSeq(s, 1, p - 1)) = p - 1
         /\ SubSeq(s, p + 1, Len(s)) \in Seq(S)
         /\ Len(SubSeq(s, p + 1, Len(s))) = Len(s) - p
         /\ Around(s, SubSeq(s, 1, p - 1), s[p], SubSeq(s, p + 1, Len(s)))
  <1>1. Len(s) \in Nat /\ p \in Nat
    OBVIOUS
  <1>2. 1 \in 1..Len(s) + 1 /\ p - 1 \in 0..Len(s) /\ p + 1 \in 1..Len(s) + 1
        /\ Len(s) \in 0..Len(s) /\ p \in 0..Len(s) /\ p - 1 >= 0
    BY <1>1
  <1>3. SubSeq(s, 1, p - 1) \in Seq(S) /\ Len(SubSeq(s, 1, p - 1)) = p - 1
    <2>1. Len(SubSeq(s, 1, p - 1)) = IF 1 <= p - 1 THEN p - 1 - 1 + 1 ELSE 0
      BY <1>2, Piece
    <2> QED
      BY <1>1, <1>2, <2>1, Piece
  <1>4. SubSeq(s, p + 1, Len(s)) \in Seq(S)
        /\ Len(SubSeq(s, p + 1, Len(s))) = Len(s) - p
    <2>1. Len(SubSeq(s, p + 1, Len(s)))
            = IF p + 1 <= Len(s) THEN Len(s) - (p + 1) + 1 ELSE 0
      BY <1>2, Piece
    <2> QED
      BY <1>1, <1>2, <2>1, Piece
  <1>5. SubSeq(s, 1, p) = SubSeq(s, 1, p - 1) \o <<s[p]>>
    <2>1. p - 1 \in Nat /\ (p - 1) + 1 = p
      BY <1>1
    <2> QED
      BY <2>1, Longer
  <1>6. SubSeq(s, 1, p) \o SubSeq(s, p + 1, Len(s)) = SubSeq(s, 1, Len(s))
    <2>1. p \in 1 - 1..Len(s) /\ Len(s) \in p..Len(s)
      BY <1>1
    <2> QED
      BY <1>2, <2>1, ConcatAdjacentSubSeq
  <1>7. SubSeq(s, 1, Len(s)) = s
    BY SubSeqFull
  <1> QED
    BY <1>3, <1>4, <1>5, <1>6, <1>7 DEF Around

(* A buffer with a line feed is a line, its line feed and the rest, and    *)
(* LineEnd finds it.                                                       *)
LEMMA LineEndIs ==
  ASSUME NEW S, NEW s \in Seq(S)
  PROVE  LineEnd(s) = IF {i \in 1..Len(s) : s[i] = "\n"} # {}
                        THEN Min({i \in 1..Len(s) : s[i] = "\n"}) ELSE 0
  BY DEF LineEnd, SelectInSeq

LEMMA LineEndFirst ==
  ASSUME NEW S, NEW s \in Seq(S)
  PROVE  /\ LineEnd(s) # 0 <=> Has(s, "\n")
         /\ Has(s, "\n") => /\ LineEnd(s) \in 1..Len(s) /\ s[LineEnd(s)] = "\n"
                            /\ \A i \in 1..Len(s) : s[i] = "\n" => LineEnd(s) <= i
  <1> DEFINE I == {i \in 1..Len(s) : s[i] = "\n"}
  <1>1. Len(s) \in Nat /\ I \subseteq Nat /\ 0 \notin I
    OBVIOUS
  <1>2. Has(s, "\n") <=> I # {}
    BY DEF Has
  <1>3. LineEnd(s) = IF I # {} THEN Min(I) ELSE 0
    BY LineEndIs
  <1>4. ASSUME I # {} PROVE Min(I) \in I /\ \A i \in I : Min(I) <= i
    <2> HIDE DEF I
    <2> QED
      BY <1>1, <1>4, Least
  <1> QED
    BY <1>1, <1>2, <1>3, <1>4

LEMMA LineEndFound ==
  ASSUME NEW S, NEW a \in Seq(S), NEW b \in Seq(S), "\n" \in S,
         NEW s, Around(s, a, "\n", b), ~Has(a, "\n")
  PROVE  LineEnd(s) = Len(a) + 1
  <1> DEFINE p == LineEnd(s)
             x == "\n"
             k == Len(a) + 1
  <1>1. /\ s \in Seq(S) /\ Len(s) = Len(a) + 1 + Len(b)
        /\ \A i \in 1..Len(a) : s[i] = a[i]
        /\ s[k] = x /\ Len(a) \in Nat /\ Len(b) \in Nat
    BY AroundShape
  <1>2. k \in 1..Len(s)
    BY <1>1
  <1>3. Has(s, x)
    BY <1>1, <1>2 DEF Has
  <1>4. /\ p \in 1..Len(s) /\ s[p] = x
        /\ \A i \in 1..Len(s) : s[i] = x => p <= i
    BY <1>1, <1>3, LineEndFirst
  <1>5. \A i \in 1..Len(a) : a[i] # x
    BY DEF Has
  <1> HIDE DEF p, x
  <1>6. p <= k
    BY <1>1, <1>2, <1>4
  <1>7. ~ (p \in 1..Len(a))
    BY <1>1, <1>4, <1>5
  <1>8. p = k
    <2>1. p \in Nat \ {0} /\ Len(a) \in Nat
      BY <1>1, <1>4
    <2> QED
      BY <1>6, <1>7, <2>1 DEF k
  <1> QED
    BY <1>8 DEF p

LEMMA LineEndSplits ==
  ASSUME NEW S, NEW s \in Seq(S), Has(s, "\n")
  PROVE  /\ LineEnd(s) \in 1..Len(s)
         /\ Around(s, SubSeq(s, 1, LineEnd(s) - 1), "\n",
                   SubSeq(s, LineEnd(s) + 1, Len(s)))
         /\ ~Has(SubSeq(s, 1, LineEnd(s) - 1), "\n")
  <1> DEFINE p == LineEnd(s)
             a == SubSeq(s, 1, p - 1)
             x == "\n"
  <1>1. /\ p \in 1..Len(s) /\ s[p] = x
        /\ \A i \in 1..Len(s) : s[i] = x => p <= i
    BY LineEndFirst
  <1> HIDE DEF p, x
  <1>2. /\ a \in Seq(S) /\ Len(a) = p - 1
        /\ Around(s, a, s[p], SubSeq(s, p + 1, Len(s)))
    BY <1>1, SplitAt
  <1>3. ASSUME NEW i \in 1..Len(a), a[i] = x PROVE FALSE
    <2>1. 1 \in 1..Len(s) + 1 /\ p - 1 \in 0..Len(s) /\ i \in 1..(p - 1) - 1 + 1
          /\ 1 + i - 1 = i /\ i \in 1..Len(s) /\ ~(p <= i)
      BY <1>1, <1>2
    <2>2. a[i] = s[1 + i - 1]
      BY <2>1, Piece
    <2> QED
      BY <1>1, <1>3, <2>1, <2>2
  <1>4. ~Has(a, x)
    BY <1>3 DEF Has
  <1> QED
    BY <1>1, <1>2, <1>4 DEF p, x

(* Taking characters out of a line does not change where it ends.          *)
LEMMA WithoutAround ==
  ASSUME NEW S, NEW a \in Seq(S), NEW x \in S, NEW b \in Seq(S), NEW s,
         Around(s, a, x, b), NEW chars, x \notin chars
  PROVE  Around(Without(s, chars), Without(a, chars), x, Without(b, chars))
  <1> DEFINE y == <<x>>
             d == a \o y
  <1>1. y \in Seq(S) /\ s = d \o b
    BY DEF Around
  <1>2. Without(y, chars) = y
    BY WithoutOne DEF Kept
  <1> HIDE DEF y
  <1>3. d \in Seq(S) /\ Without(d, chars) = Without(a, chars) \o Without(y, chars)
    BY <1>1, ConcatProperties, WithoutConcat
  <1> HIDE DEF d
  <1>4. d \in Seq(S)
    BY <1>3
  <1>5. Without(d \o b, chars) = Without(d, chars) \o Without(b, chars)
    BY <1>4, WithoutConcat
  <1>6. Without(s, chars) = (Without(a, chars) \o y) \o Without(b, chars)
    BY <1>1, <1>2, <1>3, <1>5
  <1> QED
    BY <1>6 DEF Around, y

-----------------------------------------------------------------------------
(* The stream st is cut behind the line feed of each of the lines ls: the  *)
(* i-th of them ends at c[i].                                              *)
CutPlaces(st, n, c) ==
  /\ c \in [0..n -> 0..Len(st)] /\ c[0] = 0
  /\ \A i, j \in 0..n : i < j => c[i] < c[j]
  /\ \A i \in 1..n : st[c[i]] = "\n"
  /\ \A k \in 1..Len(st) : k <= c[n] /\ st[k] = "\n" => \E i \in 1..n : k = c[i]

RawLine(st, c, i) == SubSeq(st, c[i - 1] + 1, c[i] - 1)
Rest(st, c, n) == Behind(st, c[n])

Cut(st, ls, c) ==
  /\ CutPlaces(st, Len(ls), c)
  /\ \A i \in 1..Len(ls) : ls[i] = WithoutCR(Printable(RawLine(st, c, i)))

LEMMA CutsAreOrdered ==
  ASSUME NEW S, NEW st \in Seq(S), NEW n \in Nat, NEW c, CutPlaces(st, n, c),
         NEW i \in 1..n
  PROVE  /\ c[i - 1] \in 0..Len(st) /\ c[i] \in 1..Len(st) /\ c[i - 1] < c[i]
         /\ c[i - 1] + 1 \in 1..Len(st) + 1 /\ c[i] - 1 \in 0..Len(st)
         /\ c[i] <= c[n]
  <1>1. i \in 0..n /\ i - 1 \in 0..n /\ n \in 0..n /\ i - 1 < i /\ Len(st) \in Nat
    OBVIOUS
  <1>2. c[i - 1] \in 0..Len(st) /\ c[i] \in 0..Len(st) /\ c[n] \in 0..Len(st)
    BY <1>1 DEF CutPlaces
  <1>3. c[i - 1] < c[i] /\ (i < n => c[i] < c[n])
    BY <1>1 DEF CutPlaces
  <1>4. i < n \/ i = n
    BY <1>1
  <1> QED
    BY <1>1, <1>2, <1>3, <1>4

(* More of the stream leaves the cuts where they are.                      *)
LEMMA CutMore ==
  ASSUME NEW S, NEW st \in Seq(S), NEW t \in Seq(S), NEW ls, Len(ls) \in Nat,
         NEW c, Cut(st, ls, c)
  PROVE  /\ Cut(st \o t, ls, c)
         /\ Rest(st \o t, c, Len(ls)) = Rest(st, c, Len(ls)) \o t
  <1> DEFINE n == Len(ls)
             w == st \o t
  <1>1. /\ w \in Seq(S) /\ Len(w) = Len(st) + Len(t)
        /\ Len(st) \in Nat /\ Len(t) \in Nat
        /\ \A i \in 1..Len(st) + Len(t) :
             w[i] = IF i <= Len(st) THEN st[i] ELSE t[i - Len(st)]
    BY ConcatProperties
  <1>2. n \in Nat /\ n \in 0..n
    OBVIOUS
  <1>3. CutPlaces(st, n, c) /\ c[n] \in 0..Len(st)
    BY <1>2 DEF Cut, CutPlaces
  <1> HIDE DEF n
  <1>4. \A k \in 1..Len(st) : k \in 1..Len(w) /\ w[k] = st[k]
    BY <1>1
  <1>5. CutPlaces(w, n, c)
    <2> HIDE DEF w
    <2>1. c \in [0..n -> 0..Len(w)] /\ c[0] = 0
      BY <1>1, <1>3 DEF CutPlaces
    <2>2. \A i, j \in 0..n : i < j => c[i] < c[j]
      BY <1>3 DEF CutPlaces
    <2>3. ASSUME NEW i \in 1..n PROVE w[c[i]] = "\n"
      <3>1. c[i] \in 1..Len(st)
        BY <1>2, <1>3, CutsAreOrdered
      <3>2. st[c[i]] = "\n"
        BY <1>3 DEF CutPlaces
      <3> QED
        BY <1>4, <3>1, <3>2
    <2>4. ASSUME NEW k \in 1..Len(w), k <= c[n], w[k] = "\n"
          PROVE  \E i \in 1..n : k = c[i]
      <3>1. k \in 1..Len(st)
        BY <1>1, <1>3, <2>4
      <3>2. st[k] = "\n"
        BY <1>4, <2>4, <3>1
      <3> QED
        BY <1>3, <2>4, <3>1, <3>2 DEF CutPlaces
    <2> QED
      BY <2>1, <2>2, <2>3, <2>4 DEF CutPlaces
  <1>6. ASSUME NEW i \in 1..n PROVE RawLine(w, c, i) = RawLine(st, c, i)
    <2>1. c[i - 1] + 1 \in 1..Len(st) + 1 /\ c[i] - 1 \in 0..Len(st)
      BY <1>2, <1>3, CutsAreOrdered
    <2> QED
      BY <2>1, PieceOfConcat DEF RawLine
  <1>7. \A i \in 1..n : ls[i] = WithoutCR(Printable(RawLine(st, c, i)))
    BY DEF Cut, n
  <1>8. \A i \in 1..n : ls[i] = WithoutCR(Printable(RawLine(w, c, i)))
    BY <1>6, <1>7
  <1>9. Cut(w, ls, c)
    BY <1>5, <1>8 DEF Cut, n
  <1>10. c[n] + 1 \in 1..Len(st) + 1
    BY <1>1, <1>3
  <1>11. Rest(w, c, n) = Rest(st, c, n) \o t
    BY <1>10, EndOfConcat DEF Rest, Behind
  <1> QED
    BY <1>9, <1>11 DEF n

(* The next cut is at the first line feed of the rest.                     *)
NextCut(c, n, p) == [i \in 0..n + 1 |-> IF i <= n THEN c[i] ELSE c[n] + p]

LEMMA CutNext ==
  ASSUME NEW S, NEW st \in Seq(S), NEW n \in Nat, NEW c, CutPlaces(st, n, c),
         NEW p, p = LineEnd(Rest(st, c, n)), Has(Rest(st, c, n), "\n")
  PROVE  /\ CutPlaces(st, n + 1, NextCut(c, n, p))
         /\ \A i \in 1..n : RawLine(st, NextCut(c, n, p), i) = RawLine(st, c, i)
         /\ RawLine(st, NextCut(c, n, p), n + 1) = SubSeq(Rest(st, c, n), 1, p - 1)
         /\ Rest(st, NextCut(c, n, p), n + 1)
              = Behind(Rest(st, c, n), p)
  <1> DEFINE r == Rest(st, c, n)
             d == NextCut(c, n, p)
             x == "\n"
  <1>1. Len(st) \in Nat /\ n \in 0..n /\ n + 1 \in 0..n + 1 /\ 0 \in 0..n
    OBVIOUS
  <1>2. c[n] \in 0..Len(st)
    BY <1>1 DEF CutPlaces
  <1>3. c[n] + 1 \in 1..Len(st) + 1 /\ Len(st) \in 0..Len(st) /\ c[n] \in Nat
    BY <1>1, <1>2
  <1>4. /\ r \in Seq(S) /\ Len(r) = Len(st) - c[n]
        /\ \A i \in 1..Len(r) : r[i] = st[c[n] + i]
    BY <1>2, PieceOfEnd DEF Rest
  <1>5. /\ p \in 1..Len(r) /\ r[p] = x
        /\ \A i \in 1..Len(r) : r[i] = x => p <= i
    BY <1>4, LineEndFirst
  <1> HIDE DEF r
  <1>6. /\ \A i \in 0..n : d[i] = c[i]
        /\ d[n + 1] = c[n] + p
        /\ DOMAIN d = 0..n + 1 /\ d = [i \in DOMAIN d |-> d[i]]
    BY <1>1 DEF NextCut
  <1> HIDE DEF d
  <1>7. /\ c[n] + p \in 1..Len(st) /\ c[n] < c[n] + p /\ p \in Nat
        /\ Len(st) \in Nat /\ c[n] \in Nat /\ p >= 1 /\ c[n] + p <= Len(st)
        /\ Len(r) = Len(st) - c[n]
    <2>1. Len(r) = Len(st) - c[n] /\ p \in 1..Len(r)
      BY <1>4, <1>5
    <2> QED
      BY <1>1, <1>2, <2>1
  <1>8. CutPlaces(st, n + 1, d)
    <2>1. ASSUME NEW i \in 0..n + 1 PROVE d[i] \in 0..Len(st)
      <3>1. CASE i \in 0..n
        BY <1>6, <3>1 DEF CutPlaces
      <3>2. CASE i = n + 1
        BY <1>6, <1>7, <3>2
      <3> QED
        BY <3>1, <3>2
    <2>2. d \in [0..n + 1 -> 0..Len(st)]
      BY <1>6, <2>1
    <2>3. d[0] = 0
      BY <1>1, <1>6 DEF CutPlaces
    <2>4. ASSUME NEW i \in 0..n + 1, NEW j \in 0..n + 1, i < j
          PROVE  d[i] < d[j]
      <3>1. i \in 0..n
        BY <2>4
      <3>2. CASE j \in 0..n
        BY <1>6, <2>4, <3>1, <3>2 DEF CutPlaces
      <3>3. CASE j = n + 1
        <4>1. i < n => c[i] < c[n]
          BY <1>1, <3>1 DEF CutPlaces
        <4>2. c[i] \in 0..Len(st)
          BY <3>1 DEF CutPlaces
        <4>3. i < n \/ i = n
          BY <3>1
        <4>4. c[i] < c[n] + p
          BY <1>1, <1>2, <1>7, <4>1, <4>2, <4>3
        <4> QED
          BY <1>6, <3>1, <3>3, <4>4
      <3> QED
        BY <3>2, <3>3
    <2>5. ASSUME NEW i \in 1..n + 1 PROVE st[d[i]] = "\n"
      <3>1. CASE i \in 1..n
        <4>1. i \in 0..n
          BY <3>1
        <4> QED
          BY <1>6, <3>1, <4>1 DEF CutPlaces
      <3>2. CASE i = n + 1
        <4>1. r[p] = st[c[n] + p]
          BY <1>4, <1>5
        <4> QED
          BY <1>5, <1>6, <3>2, <4>1 DEF x
      <3> QED
        BY <3>1, <3>2
    <2>6. ASSUME NEW k \in 1..Len(st), k <= d[n + 1], st[k] = "\n"
          PROVE  \E i \in 1..n + 1 : k = d[i]
      <3>1. CASE k <= c[n]
        <4>1. PICK i \in 1..n : k = c[i]
          BY <2>6, <3>1 DEF CutPlaces
        <4>2. i \in 0..n /\ i \in 1..n + 1
          BY <4>1
        <4> QED
          BY <1>6, <4>1, <4>2
      <3>2. CASE ~(k <= c[n])
        <4>1. k - c[n] \in 1..Len(st) - c[n] /\ c[n] + (k - c[n]) = k
          BY <1>1, <1>2, <3>2
        <4>2. r[k - c[n]] = x /\ k - c[n] \in 1..Len(r)
          BY <1>4, <2>6, <4>1 DEF x
        <4>3. p <= k - c[n]
          BY <1>5, <4>2
        <4>4. k = d[n + 1]
          BY <1>2, <1>6, <1>7, <2>6, <4>3
        <4> QED
          BY <4>4
      <3> QED
        BY <3>1, <3>2
    <2> QED
      BY <2>2, <2>3, <2>4, <2>5, <2>6 DEF CutPlaces
  <1>9. ASSUME NEW i \in 1..n PROVE RawLine(st, d, i) = RawLine(st, c, i)
    <2>1. i \in 0..n /\ i - 1 \in 0..n
      OBVIOUS
    <2> QED
      BY <1>6, <2>1 DEF RawLine
  <1>10. /\ SubSeq(st, c[n] + 1, (c[n] + p) - 1) = SubSeq(r, 1, p - 1)
         /\ Behind(st, c[n] + p) = Behind(r, p)
    <2>1. r = Behind(st, c[n])
      BY DEF r, Rest
    <2>2. c[n] \in 0..Len(st) /\ p \in 1..Len(Behind(st, c[n]))
      BY <1>2, <1>5, <2>1
    <2>3. /\ SubSeq(st, c[n] + 1, (c[n] + p) - 1) = SubSeq(Behind(st, c[n]), 1, p - 1)
          /\ Behind(st, c[n] + p) = Behind(Behind(st, c[n]), p)
      BY <2>2, CutBehind
    <2> QED
      BY <2>1, <2>3
  <1>11. RawLine(st, d, n + 1) = SubSeq(r, 1, p - 1)
    <2>1. d[(n + 1) - 1] = c[n]
      BY <1>1, <1>6
    <2> QED
      BY <1>6, <1>10, <2>1 DEF RawLine
  <1>12. Rest(st, d, n + 1) = Behind(r, p)
    BY <1>6, <1>10 DEF Rest
  <1> QED
    BY <1>8, <1>9, <1>11, <1>12 DEF d, r

-----------------------------------------------------------------------------
(* The places up to the i-th, when they grow.                              *)
Places(c, i) == {c[j] : j \in 0..i - 1}

LEMMA PlacesCounted ==
  ASSUME NEW n \in Nat, NEW c, \A i \in 0..n : c[i] \in Nat,
         \A i, j \in 0..n : i < j => c[i] < c[j],
         NEW k \in 0..n + 1
  PROVE  Cardinality(Places(c, k)) = k
  <1> DEFINE P(i) == IsFiniteSet(Places(c, i)) /\ Cardinality(Places(c, i)) = i
             T == {i \in Nat : i <= n + 1 => P(i)}
  <1>1. 0 \in T
    <2>1. Places(c, 0) = {}
      BY DEF Places
    <2> QED
      BY <2>1, FS_EmptySet
  <1>2. ASSUME NEW i \in Nat, i + 1 <= n + 1, P(i) PROVE P(i + 1)
    <2>1. Places(c, i + 1) = Places(c, i) \cup {c[i]}
      <3>1. \A j : j \in 0..(i + 1) - 1 <=> j \in 0..i - 1 \/ j = i
        OBVIOUS
      <3> QED
        BY <3>1 DEF Places
    <2>2. c[i] \notin Places(c, i)
      <3>1. ASSUME NEW j \in 0..i - 1 PROVE c[i] # c[j]
        <4>1. i \in 0..n /\ j \in 0..n /\ j < i
          BY <1>2
        <4>2. c[j] < c[i] /\ c[j] \in Nat /\ c[i] \in Nat
          BY <4>1
        <4> QED
          BY <4>2
      <3> QED
        BY <3>1 DEF Places
    <2> QED
      BY <1>2, <2>1, <2>2, FS_AddElement
  <1> HIDE DEF P
  <1>3. ASSUME NEW i \in Nat, i \in T PROVE i + 1 \in T
    BY <1>2, <1>3
  <1> HIDE DEF T
  <1>4. Nat \subseteq T
    BY <1>1, <1>3, SetInduction
  <1>5. k \in T /\ k <= n + 1
    BY <1>4
  <1> QED
    BY <1>5 DEF T, P

LEMMA AllFeeds ==
  ASSUME Stream \in Seq(Char), NEW n \in Nat, NEW c, CutPlaces(Stream, n, c),
         ~Has(Rest(Stream, c, n), "\n")
  PROVE  LineFeeds = Places(c, n + 1)
  <1>1. Len(Stream) \in Nat /\ DOMAIN Stream = 1..Len(Stream) /\ (n + 1) - 1 = n
        /\ n \in 0..n /\ 0 \in 0..n
    BY LenProperties
  <1>2. c[n] \in 0..Len(Stream) /\ c[0] = 0
    BY <1>1 DEF CutPlaces
  <1>3. ASSUME NEW k \in DOMAIN Stream, Stream[k] = "\n" PROVE k <= c[n]
    <2> SUFFICES ASSUME k > c[n] PROVE FALSE
      BY <1>1, <1>2
    <2>1. /\ Len(Behind(Stream, c[n])) = Len(Stream) - c[n]
          /\ \A i \in 1..Len(Behind(Stream, c[n])) :
               Behind(Stream, c[n])[i] = Stream[c[n] + i]
      BY <1>2, PieceOfEnd
    <2>2. k - c[n] \in 1..Len(Behind(Stream, c[n])) /\ c[n] + (k - c[n]) = k
      BY <1>1, <1>2, <2>1
    <2>3. Behind(Stream, c[n])[k - c[n]] = "\n"
      BY <1>3, <2>1, <2>2
    <2> QED
      BY <2>2, <2>3 DEF Has, Rest
  <1>4. ASSUME NEW k \in LineFeeds PROVE k \in Places(c, n + 1)
    <2>1. CASE k = 0
      BY <1>1, <1>2, <2>1 DEF Places
    <2>2. CASE k # 0
      <3>1. k \in DOMAIN Stream /\ Stream[k] = "\n"
        BY <2>2 DEF LineFeeds
      <3>2. \E i \in 1..n : k = c[i]
        BY <1>1, <1>3, <3>1 DEF CutPlaces
      <3> QED
        BY <1>1, <3>2 DEF Places
    <2> QED
      BY <2>1, <2>2
  <1>5. ASSUME NEW j \in 0..n PROVE c[j] \in LineFeeds
    <2>1. CASE j = 0
      BY <1>2, <2>1 DEF LineFeeds
    <2>2. CASE j # 0
      <3>1. j \in 1..n
        BY <2>2
      <3>2. c[j] \in 1..Len(Stream) /\ Stream[c[j]] = "\n"
        BY <3>1, CutsAreOrdered DEF CutPlaces
      <3> QED
        BY <1>1, <3>2 DEF LineFeeds
    <2> QED
      BY <2>1, <2>2
  <1> QED
    BY <1>1, <1>4, <1>5 DEF Places

LEMMA NthFeed ==
  ASSUME Stream \in Seq(Char), NEW n \in Nat, NEW c, CutPlaces(Stream, n, c),
         LineFeeds = Places(c, n + 1), NEW i \in 0..n
  PROVE  /\ Nth(i + 1) = c[i]
         /\ i < n => NextFeed(c[i]) = c[i + 1]
  <1>1. (n + 1) - 1 = n /\ (i + 1) - 1 = i /\ i \in 0..n + 1
    OBVIOUS
  <1>2. /\ \A j \in 0..n : c[j] \in Nat
        /\ \A j, k \in 0..n : j < k => c[j] < c[k]
    BY DEF CutPlaces
  <1>3. \A k : k \in LineFeeds <=> \E j \in 0..n : k = c[j]
    BY <1>1 DEF Places
  <1>4. ASSUME NEW j \in 0..n
        PROVE  Cardinality({k \in LineFeeds : k < c[j]}) = j
    <2>1. \A k \in 0..n : c[k] < c[j] <=> k \in 0..j - 1
      <3>1. ASSUME NEW k \in 0..n PROVE c[k] < c[j] <=> k < j
        <4>1. c[k] \in Nat /\ c[j] \in Nat
          BY <1>2
        <4>2. (k < j => c[k] < c[j]) /\ (j < k => c[j] < c[k])
          BY <1>2
        <4>3. k < j \/ k = j \/ j < k
          OBVIOUS
        <4> QED
          BY <4>1, <4>2, <4>3
      <3> QED
        BY <3>1
    <2>2. \A k \in 0..j - 1 : k \in 0..n
      OBVIOUS
    <2>3. {k \in LineFeeds : k < c[j]} = Places(c, j)
      BY <1>3, <2>1, <2>2 DEF Places
    <2>4. j \in 0..n + 1
      OBVIOUS
    <2> QED
      BY <1>2, <2>3, <2>4, PlacesCounted
  <1>5. Nth(i + 1) = c[i]
    <2> DEFINE Q(k) == k \in LineFeeds
                       /\ Cardinality({j \in LineFeeds : j < k}) = (i + 1) - 1
    <2>1. Q(c[i])
      BY <1>1, <1>3, <1>4
    <2>2. ASSUME NEW k, Q(k) PROVE k = c[i]
      <3>1. PICK j \in 0..n : k = c[j]
        BY <1>3, <2>2
      <3>2. j = i
        BY <1>1, <1>4, <2>2, <3>1
      <3> QED
        BY <3>1, <3>2
    <2>3. Nth(i + 1) = CHOOSE k : Q(k)
      BY DEF Nth
    <2> HIDE DEF Q
    <2> QED
      BY <2>1, <2>2, <2>3
  <1>6. ASSUME i < n PROVE NextFeed(c[i]) = c[i + 1]
    <2>1. i + 1 \in 0..n
      BY <1>6
    <2> DEFINE Q(j) == j \in LineFeeds
                       /\ j > c[i] /\ \A k \in LineFeeds : k > c[i] => k >= j
    <2>2. Q(c[i + 1])
      <3>1. c[i + 1] > c[i] /\ c[i + 1] \in LineFeeds
        BY <1>2, <1>3, <2>1
      <3>2. ASSUME NEW k \in LineFeeds, k > c[i] PROVE k >= c[i + 1]
        <4>1. PICK j \in 0..n : k = c[j]
          BY <1>3
        <4>2. ~(j < i) /\ j # i
          BY <1>2, <3>2, <4>1
        <4>3. j = i + 1 \/ i + 1 < j
          BY <4>2
        <4> QED
          BY <1>2, <2>1, <4>1, <4>3
      <3> QED
        BY <3>1, <3>2
    <2>3. ASSUME NEW j, Q(j) PROVE j = c[i + 1]
      <3>1. j >= c[i + 1] /\ c[i + 1] >= j
        BY <2>2, <2>3
      <3>2. j \in Nat /\ c[i + 1] \in Nat
        BY <1>2, <1>3, <2>1, <2>3
      <3> QED
        BY <3>1, <3>2
    <2>4. NextFeed(c[i]) = CHOOSE j : Q(j)
      BY DEF NextFeed
    <2> HIDE DEF Q
    <2> QED
      BY <2>2, <2>3, <2>4
  <1> QED
    BY <1>5, <1>6

-----------------------------------------------------------------------------
(* The receive buffer.                                                     *)
Messages == {m \in {Parse(line) : line \in Seq(Char)} : m.command # <<>>}

InputInv ==
  /\ sent \in Seq(Seq(Char)) /\ recvBuffer \in Seq(Char)
  /\ lines \in Seq(Seq(Char)) /\ dispatched \in Seq(Messages)
  /\ \E c : /\ Cut(Stream, lines, c)
            /\ recvBuffer = Printable(Rest(Stream, c, Len(lines)))

LEMMA WithoutCRType ==
  ASSUME NEW line \in Seq(Char)
  PROVE  /\ WithoutCR(line) \in Seq(Char)
         /\ line \in {WithoutCR(line), Append(WithoutCR(line), "\r")}
         /\ line = WithoutCR(line) => line = <<>> \/ Last(line) # "\r"
  <1>1. CASE line # <<>> /\ Last(line) = "\r"
    <2>1. Len(line) \in Nat /\ Len(line) # 0
      BY <1>1
    <2>2. WithoutCR(line) = SubSeq(line, 1, Len(line) - 1) /\ line[Len(line)] = "\r"
      BY <1>1 DEF WithoutCR, Front, Last
    <2>3. /\ SubSeq(line, 1, Len(line) - 1) \in Seq(Char)
          /\ Len(SubSeq(line, 1, Len(line) - 1)) = Len(line) - 1
      <3>1. Len(line) \in 1..Len(line)
        BY <2>1
      <3> QED
        BY <3>1, SplitAt
    <2>4. line = Append(SubSeq(line, 1, Len(line) - 1), line[Len(line)])
      BY <2>1
    <2>5. line # SubSeq(line, 1, Len(line) - 1)
      BY <2>1, <2>3
    <2> QED
      BY <2>2, <2>3, <2>4, <2>5
  <1>2. CASE ~(line # <<>> /\ Last(line) = "\r")
    <2>1. WithoutCR(line) = line
      BY <1>2 DEF WithoutCR
    <2> QED
      BY <1>2, <2>1
  <1> QED
    BY <1>1, <1>2

LEMMA InputInit == Init => InputInv
  <1> SUFFICES ASSUME Init PROVE InputInv
    OBVIOUS
  <1>1. sent = <<>> /\ recvBuffer = <<>> /\ lines = <<>> /\ dispatched = <<>>
    BY DEF Init
  <1>2. Stream = <<>>
    BY <1>1, FlattenNone DEF Stream
  <1> DEFINE c == [i \in 0..0 |-> 0]
  <1>3. CutPlaces(<<>>, 0, c)
    BY DEF CutPlaces
  <1>4. Cut(<<>>, <<>>, c)
    BY <1>3 DEF Cut
  <1>5. Rest(<<>>, c, 0) = <<>>
    BY DEF Rest, Behind
  <1>6. Printable(<<>>) = <<>>
    BY WithoutOne DEF Printable
  <1> HIDE DEF c
  <1> QED
    BY <1>1, <1>2, <1>4, <1>5, <1>6 DEF InputInv

LEMMA StreamGrows ==
  ASSUME sent \in Seq(Seq(Char)), NEW chunk \in Seq(Char),
         sent' = Append(sent, chunk)
  PROVE  Stream \in Seq(Char) /\ Stream' = Stream \o chunk
  BY FlattenAppend DEF Stream

LEMMA ReceiveInv ==
  ASSUME InputInv, NEW chunk \in Chunks, Receive(chunk)
  PROVE  InputInv'
  <1>1. chunk \in Seq(Char)
    <2>1. chunk \in Seq(UNION {Range(t) : t \in Chunks})
      BY ChunksAssumption
    <2>2. UNION {Range(t) : t \in Chunks} \subseteq Char
      BY DEF Char
    <2> QED
      BY <2>1, <2>2, SeqMonotonic
  <1>2. /\ sent' = Append(sent, chunk) /\ lines' = lines /\ dispatched' = dispatched
        /\ recvBuffer' = recvBuffer \o Printable(chunk)
    BY DEF Receive
  <1>3. Stream \in Seq(Char) /\ Stream' = Stream \o chunk
    BY <1>1, <1>2, StreamGrows DEF InputInv
  <1>4. PICK c : /\ Cut(Stream, lines, c)
                 /\ recvBuffer = Printable(Rest(Stream, c, Len(lines)))
    BY DEF InputInv
  <1>5. Len(lines) \in Nat
    BY DEF InputInv
  <1>6. /\ Cut(Stream \o chunk, lines, c)
        /\ Rest(Stream \o chunk, c, Len(lines)) = Rest(Stream, c, Len(lines)) \o chunk
    BY <1>1, <1>3, <1>4, <1>5, CutMore
  <1>7. Rest(Stream, c, Len(lines)) \in Seq(Char)
    <2>1. Len(lines) \in 0..Len(lines)
      BY <1>5
    <2>2. c[Len(lines)] \in 0..Len(Stream)
      BY <1>4, <2>1 DEF Cut, CutPlaces
    <2> QED
      BY <1>3, <2>2, PieceOfEnd DEF Rest
  <1>8. Printable(Rest(Stream, c, Len(lines)) \o chunk)
          = Printable(Rest(Stream, c, Len(lines))) \o Printable(chunk)
    BY <1>1, <1>7, WithoutConcat DEF Printable
  <1>9. recvBuffer' = Printable(Rest(Stream', c, Len(lines')))
    BY <1>2, <1>3, <1>4, <1>6, <1>8
  <1>10. Cut(Stream', lines', c)
    BY <1>2, <1>3, <1>6
  <1>11. recvBuffer' \in Seq(Char)
    <2>1. recvBuffer \in Seq(Char) /\ Printable(chunk) \in Seq(Char)
      BY <1>1, WithoutType DEF InputInv, Printable
    <2> QED
      BY <1>2, <2>1, ConcatProperties
  <1>12. sent' \in Seq(Seq(Char))
    BY <1>1, <1>2 DEF InputInv
  <1> QED
    BY <1>2, <1>9, <1>10, <1>11, <1>12 DEF InputInv

(* Where the first line ends in the buffer and in the stream.              *)
LEMMA FirstLine ==
  ASSUME NEW r \in Seq(Char), LineEnd(Printable(r)) # 0
  PROVE  LET pos == LineEnd(Printable(r))
         IN  /\ Has(r, "\n")
             /\ SubSeq(Printable(r), 1, pos - 1)
                  = Printable(SubSeq(r, 1, LineEnd(r) - 1))
             /\ SubSeq(Printable(r), pos + 1, Len(Printable(r)))
                  = Printable(Behind(r, LineEnd(r)))
             /\ SubSeq(r, 1, LineEnd(r) - 1) \in Seq(Char)
             /\ Behind(r, LineEnd(r)) \in Seq(Char)
  <1> DEFINE buf == Printable(r)
             a == SubSeq(r, 1, LineEnd(r) - 1)
             b == Behind(r, LineEnd(r))
             x == "\n"
  <1>1. buf \in Seq(Char) /\ x \in Char /\ x \notin {Control}
    <2>1. buf \in Seq(Char)
      BY WithoutType DEF Printable
    <2>2. x \in Char /\ x \notin {Control}
      BY DEF Control, Char, Fixed
    <2> QED
      BY <2>1, <2>2
  <1>2. Has(buf, x)
    BY <1>1, LineEndFirst
  <1>3. Has(r, x)
    BY <1>1, <1>2, WithoutKeeps DEF Printable
  <1>4. LineEnd(r) \in 1..Len(r) /\ Around(r, a, x, b) /\ ~Has(a, x)
    BY <1>3, LineEndSplits DEF Behind
  <1>5. a \in Seq(Char) /\ b \in Seq(Char)
    BY <1>4, SplitAt DEF Behind
  <1> HIDE DEF x, a, b, buf
  <1>6. Around(Without(r, {Control}), Without(a, {Control}), x, Without(b, {Control}))
    BY <1>1, <1>4, <1>5, WithoutAround
  <1>7. Around(buf, Printable(a), x, Printable(b))
    BY <1>6 DEF Printable, buf
  <1>8. Printable(a) \in Seq(Char) /\ Printable(b) \in Seq(Char)
    BY <1>5, WithoutType DEF Printable
  <1>9. ~Has(Printable(a), x)
    BY <1>1, <1>4, <1>5, WithoutKeeps DEF Printable
  <1>10. LineEnd(buf) = Len(Printable(a)) + 1
    BY <1>1, <1>7, <1>8, <1>9, LineEndFound DEF x
  <1>11. /\ SubSeq(buf, 1, Len(Printable(a))) = Printable(a)
         /\ SubSeq(buf, Len(Printable(a)) + 2, Len(buf)) = Printable(b)
    <2>1. x \in Char
      BY <1>1
    <2> QED
      BY <2>1, <1>7, <1>8, AroundShape
  <1>12. Len(Printable(a)) \in Nat
    BY <1>8
  <1>13. LineEnd(buf) - 1 = Len(Printable(a))
         /\ LineEnd(buf) + 1 = Len(Printable(a)) + 2
    BY <1>10, <1>12
  <1>14. /\ SubSeq(buf, 1, LineEnd(buf) - 1) = Printable(a)
         /\ SubSeq(buf, LineEnd(buf) + 1, Len(buf)) = Printable(b)
    BY <1>11, <1>13
  <1> QED
    BY <1>3, <1>5, <1>14 DEF x, a, b, buf

LEMMA TakeLineInv ==
  ASSUME InputInv, TakeLine
  PROVE  InputInv'
  <1>1. PICK c : /\ Cut(Stream, lines, c)
                 /\ recvBuffer = Printable(Rest(Stream, c, Len(lines)))
    BY DEF InputInv
  <1> DEFINE n == Len(lines)
             r == Rest(Stream, c, n)
             p == LineEnd(r)
             raw == SubSeq(r, 1, p - 1)
             line == WithoutCR(Printable(raw))
             d == NextCut(c, n, p)
  <1>2. Stream \in Seq(Char) /\ Stream' = Stream /\ n \in Nat /\ n \in 0..n
        /\ lines \in Seq(Seq(Char)) /\ dispatched \in Seq(Messages)
    <2>1. Stream \in Seq(Char)
      BY FlattenAppend, EmptySeq DEF InputInv, Stream
    <2>2. Stream' = Stream
      BY DEF TakeLine, Stream
    <2> QED
      BY <2>1, <2>2 DEF InputInv
  <1>3. CutPlaces(Stream, n, c)
        /\ \A i \in 1..n : lines[i] = WithoutCR(Printable(RawLine(Stream, c, i)))
    BY <1>1 DEF Cut
  <1>4. r \in Seq(Char)
    <2>1. c[n] \in 0..Len(Stream)
      BY <1>2, <1>3 DEF CutPlaces
    <2> QED
      BY <1>2, <2>1, PieceOfEnd DEF Rest
  <1>5. recvBuffer = Printable(r) /\ LineEnd(Printable(r)) # 0
    BY <1>1 DEF TakeLine, HasLine
  <1> HIDE DEF r
  <1>6. /\ Has(r, "\n") /\ raw \in Seq(Char) /\ Behind(r, p) \in Seq(Char)
        /\ SubSeq(recvBuffer, 1, LineEnd(recvBuffer) - 1) = Printable(raw)
        /\ SubSeq(recvBuffer, LineEnd(recvBuffer) + 1, Len(recvBuffer))
             = Printable(Behind(r, p))
    BY <1>4, <1>5, FirstLine
  <1>7. /\ CutPlaces(Stream, n + 1, d)
        /\ \A i \in 1..n : RawLine(Stream, d, i) = RawLine(Stream, c, i)
        /\ RawLine(Stream, d, n + 1) = raw
        /\ Rest(Stream, d, n + 1) = Behind(r, p)
    BY <1>2, <1>3, <1>6, CutNext DEF r
  <1>8. line \in Seq(Char)
    <2>1. Printable(raw) \in Seq(Char)
      BY <1>6, WithoutType DEF Printable
    <2> QED
      BY <2>1, WithoutCRType
  <1>9. /\ recvBuffer' = Printable(Behind(r, p))
        /\ lines' = Append(lines, line)
        /\ dispatched' = IF Parse(line).command = <<>> THEN dispatched
                         ELSE Append(dispatched, Parse(line))
        /\ sent' = sent
    BY <1>6 DEF TakeLine
  <1> HIDE DEF p, raw, line, d, n
  <1>10. /\ lines' \in Seq(Seq(Char)) /\ Len(lines') = n + 1
         /\ lines'[n + 1] = line /\ \A i \in 1..n : lines'[i] = lines[i]
    BY <1>2, <1>8, <1>9 DEF n
  <1>11. ASSUME NEW i \in 1..n + 1
         PROVE  lines'[i] = WithoutCR(Printable(RawLine(Stream, d, i)))
    <2>1. CASE i \in 1..n
      BY <1>3, <1>7, <1>10, <2>1
    <2>2. CASE i = n + 1
      BY <1>7, <1>10, <2>2 DEF line
    <2>3. i \in 1..n \/ i = n + 1
      BY <1>2
    <2> QED
      BY <2>1, <2>2, <2>3
  <1>12. Cut(Stream', lines', d)
    BY <1>2, <1>7, <1>10, <1>11 DEF Cut
  <1>13. recvBuffer' = Printable(Rest(Stream', d, Len(lines')))
    BY <1>2, <1>7, <1>9, <1>10
  <1>14. recvBuffer' \in Seq(Char)
    BY <1>6, <1>9, WithoutType DEF Printable
  <1>15. dispatched' \in Seq(Messages)
    <2>1. CASE Parse(line).command = <<>>
      BY <1>2, <1>9, <2>1
    <2>2. CASE Parse(line).command # <<>>
      <3>1. Parse(line) \in Messages
        BY <1>8, <2>2 DEF Messages
      <3>2. Append(dispatched, Parse(line)) \in Seq(Messages)
        BY <1>2, <3>1, AppendProperties
      <3> QED
        BY <1>9, <2>2, <3>2
    <2> QED
      BY <2>1, <2>2
  <1>16. sent' \in Seq(Seq(Char))
    BY <1>9 DEF InputInv
  <1> QED
    BY <1>10, <1>12, <1>13, <1>14, <1>15, <1>16 DEF InputInv

LEMMA InputNext == InputInv /\ [Next]_vars => InputInv'
  <1> SUFFICES ASSUME InputInv, [Next]_vars PROVE InputInv'
    OBVIOUS
  <1>1. CASE UNCHANGED vars
    <2>1. Stream' = Stream
      BY <1>1 DEF vars, Stream
    <2> QED
      BY <1>1, <2>1 DEF vars, InputInv
  <1>2. CASE TakeLine
    BY <1>2, TakeLineInv
  <1>3. ASSUME NEW chunk \in Chunks, Receive(chunk) PROVE InputInv'
    BY <1>3, ReceiveInv
  <1> QED
    BY <1>1, <1>2, <1>3 DEF Next

(* The inductive invariant of the receive buffer: the lines are what stands*)
(* between the line feeds of the stream, the buffer is the rest of it.     *)
THEOREM InputInvariant == Spec => []InputInv
  <1>1. Init => InputInv
    BY InputInit
  <1>2. InputInv /\ [Next]_vars => InputInv'
    BY InputNext
  <1> QED
    BY <1>1, <1>2, PTL DEF Spec

LEMMA CutAsIfWhole == InputInv => AsIfWhole
  <1> SUFFICES ASSUME InputInv, ~HasLine PROVE AsIfWhole
    BY DEF AsIfWhole
  <1>1. PICK c : /\ Cut(Stream, lines, c)
                 /\ recvBuffer = Printable(Rest(Stream, c, Len(lines)))
    BY DEF InputInv
  <1> DEFINE n == Len(lines)
             r == Rest(Stream, c, n)
  <1>2. /\ Stream \in Seq(Char) /\ n \in Nat /\ n \in 0..n
        /\ lines \in Seq(Seq(Char)) /\ DOMAIN lines = 1..n
    <2>1. Stream \in Seq(Char)
      BY FlattenAppend, EmptySeq DEF InputInv, Stream
    <2> QED
      BY <2>1 DEF InputInv
  <1>3. CutPlaces(Stream, n, c)
        /\ \A i \in 1..n : lines[i] = WithoutCR(Printable(RawLine(Stream, c, i)))
    BY <1>1 DEF Cut
  <1>4. r \in Seq(Char)
    <2>1. c[n] \in 0..Len(Stream)
      BY <1>2, <1>3 DEF CutPlaces
    <2> QED
      BY <1>2, <2>1, PieceOfEnd DEF Rest
  <1>5. ~Has(r, "\n")
    <2> DEFINE x == "\n"
    <2>1. x \notin {Control}
      BY DEF Control
    <2>2. Printable(r) \in Seq(Char) /\ LineEnd(Printable(r)) = 0
      BY <1>1, <1>4, WithoutType DEF Printable, HasLine
    <2>3. ~Has(Printable(r), x)
      BY <2>2, LineEndFirst
    <2> HIDE DEF x, r
    <2>4. ~Has(r, x)
      BY <1>4, <2>1, <2>3, WithoutKeeps DEF Printable
    <2> QED
      BY <2>4 DEF x
  <1>6. LineFeeds = Places(c, n + 1)
    BY <1>2, <1>3, <1>5, AllFeeds
  <1>7. \A i \in 0..n : Nth(i + 1) = c[i] /\ (i < n => NextFeed(c[i]) = c[i + 1])
    BY <1>2, <1>3, <1>6, NthFeed
  <1>8. Len(lines) = Cardinality(LineFeeds) - 1
    <2>1. \A i \in 0..n : c[i] \in Nat
      BY <1>3 DEF CutPlaces
    <2>2. \A i, j \in 0..n : i < j => c[i] < c[j]
      BY <1>3 DEF CutPlaces
    <2>3. n + 1 \in 0..n + 1
      BY <1>2
    <2>4. Cardinality(Places(c, n + 1)) = n + 1
      BY <1>2, <2>1, <2>2, <2>3, PlacesCounted
    <2> QED
      BY <1>2, <1>6, <2>4
  <1>9. ASSUME NEW i \in DOMAIN lines
        PROVE  \E body \in {lines[i], Append(lines[i], "\r")} :
                 /\ body = Between(Nth(i), NextFeed(Nth(i)))
                 /\ body = lines[i] => body = <<>> \/ Last(body) # "\r"
    <2> DEFINE body == Printable(RawLine(Stream, c, i))
    <2>1. i \in 1..n /\ i - 1 \in 0..n /\ (i - 1) + 1 = i /\ i - 1 < n
      BY <1>2
    <2>2. Nth(i) = c[i - 1] /\ NextFeed(c[i - 1]) = c[i]
      <3>1. Nth((i - 1) + 1) = c[i - 1] /\ NextFeed(c[i - 1]) = c[(i - 1) + 1]
        BY <1>7, <2>1
      <3> QED
        BY <2>1, <3>1
    <2>3. body = Between(Nth(i), NextFeed(Nth(i)))
      BY <2>2 DEF Between, RawLine
    <2>4. body \in Seq(Char)
      <3>1. c[i - 1] + 1 \in 1..Len(Stream) + 1 /\ c[i] - 1 \in 0..Len(Stream)
        BY <1>2, <1>3, <2>1, CutsAreOrdered
      <3>2. RawLine(Stream, c, i) \in Seq(Char)
        BY <1>2, <3>1, Piece DEF RawLine
      <3> QED
        BY <3>2, WithoutType DEF Printable
    <2>5. lines[i] = WithoutCR(body)
      BY <1>3, <2>1
    <2> HIDE DEF body
    <2>6. /\ body \in {lines[i], Append(lines[i], "\r")}
          /\ body = lines[i] => body = <<>> \/ Last(body) # "\r"
      BY <2>4, <2>5, WithoutCRType
    <2> QED
      BY <2>3, <2>6
  <1>10. recvBuffer = Between(Nth(Len(lines) + 1), Len(Stream) + 1)
    <2>1. Nth(n + 1) = c[n]
      BY <1>2, <1>7
    <2>2. (Len(Stream) + 1) - 1 = Len(Stream)
      BY <1>2
    <2> QED
      BY <1>1, <2>1, <2>2 DEF Between, Rest, Behind
  <1> QED
    BY <1>8, <1>9, <1>10 DEF AsIfWhole

(* However recv cuts the stream, inside a word or between CR and LF, the   *)
(* loop of receiveData hands processMessage the lines of the stream, each  *)
(* once and in order, and keeps the unfinished one.                        *)
THEOREM CutsDoNotMatter == Spec => []AsIfWhole
  <1>1. InputInv => AsIfWhole
    BY CutAsIfWhole
  <1> QED
    BY <1>1, InputInvariant, PTL

-----------------------------------------------------------------------------
(* The loops of the parser.                                                *)
IsSpace(c) == c = " "

LEMMA ReachIs ==
  ASSUME NEW S, NEW s \in Seq(S), NEW p \in 1..Len(s) + 1, NEW stops
  PROVE  /\ Reach(s, p, stops) \in p..Len(s) + 1
         /\ \A i \in p..Reach(s, p, stops) - 1 : s[i] \notin stops
         /\ Reach(s, p, stops) <= Len(s) => s[Reach(s, p, stops)] \in stops
  <1> DEFINE I == {i \in p..Len(s) : s[i] \in stops}
             q == Reach(s, p, stops)
  <1>1. Len(s) \in Nat /\ p \in Nat /\ I \subseteq Nat /\ 0 \notin I
    OBVIOUS
  <1>2. q = IF (IF I # {} THEN Min(I) ELSE 0) = 0 THEN Len(s) + 1
            ELSE (IF I # {} THEN Min(I) ELSE 0)
    BY DEF Reach, SelectInSubSeq
  <1>3. CASE I = {}
    <2>1. q = Len(s) + 1
      BY <1>2, <1>3
    <2>2. \A i \in p..Len(s) : s[i] \notin stops
      BY <1>3
    <2> HIDE DEF q, I
    <2> QED
      BY <1>1, <2>1, <2>2 DEF q
  <1>4. CASE I # {}
    <2>1. Min(I) \in I /\ \A i \in I : Min(I) <= i
      <3> HIDE DEF I
      <3> QED
        BY <1>1, <1>4, Least
    <2>2. q = Min(I)
      BY <1>1, <1>2, <1>4, <2>1
    <2> HIDE DEF q
    <2>3. q \in p..Len(s) /\ s[q] \in stops
      BY <2>1, <2>2
    <2>4. ASSUME NEW i \in p..q - 1, s[i] \in stops PROVE FALSE
      <3>1. i \in I /\ ~(q <= i)
        BY <1>1, <2>3, <2>4
      <3> QED
        BY <2>1, <2>2, <3>1
    <2> QED
      BY <1>1, <2>3, <2>4 DEF q
  <1> QED
    BY <1>3, <1>4

LEMMA SpaceIs ==
  ASSUME NEW S, NEW s \in Seq(S), NEW p \in 1..Len(s) + 1
  PROVE  /\ SpaceFrom(s, p) \in p..Len(s) + 1
         /\ \A i \in p..SpaceFrom(s, p) - 1 : ~IsSpace(s[i])
         /\ SpaceFrom(s, p) <= Len(s) => IsSpace(s[SpaceFrom(s, p)])
  BY ReachIs DEF SpaceFrom, IsSpace

LEMMA WordIs ==
  ASSUME NEW S, NEW s \in Seq(S), NEW p \in 1..Len(s) + 1
  PROVE  /\ WordFrom(s, p) \in p..Len(s) + 1
         /\ \A i \in p..WordFrom(s, p) - 1 : IsSpace(s[i])
         /\ WordFrom(s, p) <= Len(s) => ~IsSpace(s[WordFrom(s, p)])
  <1> DEFINE stops == Range(s) \ {" "}
             q == WordFrom(s, p)
  <1>1. \A i \in 1..Len(s) : s[i] \in stops <=> ~IsSpace(s[i])
    <2>1. \A i \in 1..Len(s) : s[i] \in Range(s)
      <3>1. DOMAIN s = 1..Len(s)
        BY LenProperties
      <3> QED
        BY <3>1 DEF Range
    <2> QED
      BY <2>1 DEF IsSpace
  <1> HIDE DEF stops
  <1>2. /\ q \in p..Len(s) + 1
        /\ \A i \in p..q - 1 : s[i] \notin stops
        /\ q <= Len(s) => s[q] \in stops
    BY ReachIs DEF WordFrom, stops
  <1> HIDE DEF q
  <1>3. \A i \in p..q - 1 : i \in 1..Len(s)
    BY <1>2
  <1>4. q <= Len(s) => q \in 1..Len(s)
    BY <1>2
  <1> QED
    BY <1>1, <1>2, <1>3, <1>4 DEF q

(* They stop at the only place that looks like that.                       *)
LEMMA SpaceAt ==
  ASSUME NEW S, NEW s \in Seq(S), NEW p \in 1..Len(s) + 1, NEW q \in p..Len(s) + 1,
         \A i \in p..q - 1 : ~IsSpace(s[i]), q <= Len(s) => IsSpace(s[q])
  PROVE  SpaceFrom(s, p) = q
  <1> DEFINE r == SpaceFrom(s, p)
  <1>1. /\ r \in p..Len(s) + 1
        /\ \A i \in p..r - 1 : ~IsSpace(s[i])
        /\ r <= Len(s) => IsSpace(s[r])
    BY SpaceIs
  <1> HIDE DEF r
  <1>2. Len(s) \in Nat /\ p \in Nat /\ q \in Nat /\ r \in Nat
    BY <1>1
  <1>3. ASSUME r < q PROVE FALSE
    <2>1. r \in p..q - 1 /\ r <= Len(s)
      BY <1>1, <1>2, <1>3
    <2> QED
      BY <1>1, <2>1
  <1>4. ASSUME q < r PROVE FALSE
    <2>1. q \in p..r - 1 /\ q <= Len(s)
      BY <1>1, <1>2, <1>4
    <2> QED
      BY <1>1, <2>1
  <1>5. r = q
    BY <1>2, <1>3, <1>4
  <1> QED
    BY <1>5 DEF r

LEMMA WordAt ==
  ASSUME NEW S, NEW s \in Seq(S), NEW p \in 1..Len(s) + 1, NEW q \in p..Len(s) + 1,
         \A i \in p..q - 1 : IsSpace(s[i]), q <= Len(s) => ~IsSpace(s[q])
  PROVE  WordFrom(s, p) = q
  <1> DEFINE r == WordFrom(s, p)
  <1>1. /\ r \in p..Len(s) + 1
        /\ \A i \in p..r - 1 : IsSpace(s[i])
        /\ r <= Len(s) => ~IsSpace(s[r])
    BY WordIs
  <1> HIDE DEF r
  <1>2. Len(s) \in Nat /\ p \in Nat /\ q \in Nat /\ r \in Nat
    BY <1>1
  <1>3. ASSUME r < q PROVE FALSE
    <2>1. r \in p..q - 1 /\ r <= Len(s)
      BY <1>1, <1>2, <1>3
    <2> QED
      BY <1>1, <2>1
  <1>4. ASSUME q < r PROVE FALSE
    <2>1. q \in p..r - 1 /\ q <= Len(s)
      BY <1>1, <1>2, <1>4
    <2> QED
      BY <1>1, <2>1
  <1>5. r = q
    BY <1>2, <1>3, <1>4
  <1> QED
    BY <1>5 DEF r

-----------------------------------------------------------------------------
(* Params takes its result from this function: what is read from a place p *)
(* on when n parameters have been read and more is what is read after one  *)
(* more.                                                                   *)
ReadAt(s, n, more, p) ==
  LET q == WordFrom(s, p)
      r == SpaceFrom(s, q)
  IN  IF q > Len(s) \/ Enough(n) THEN <<>>
      ELSE IF s[q] = ":" THEN <<Trailing(s, q)>>
      ELSE <<SubSeq(s, q, r - 1)>> \o more[r]
ReadRow(s, n, more) == [p \in 1..Len(s) + 1 |-> ReadAt(s, n, more, p)]
ReadsFrom(s, f, k) == f = [n \in k..MaxParams |-> ReadRow(s, n, f[n + 1])]
CanRead(s, k) == \E f : ReadsFrom(s, f, k)

LEMMA ReadMore ==
  ASSUME NEW s, NEW k \in Nat, k + 1 <= MaxParams, CanRead(s, k + 1)
  PROVE  CanRead(s, k)
  <1>1. PICK f : ReadsFrom(s, f, k + 1)
    BY DEF CanRead
  <1> DEFINE g == [n \in k..MaxParams |-> IF n = k THEN ReadRow(s, k, f[k + 1])
                                                 ELSE f[n]]
  <1>2. MaxParams \in Nat
    BY ParserAssumption
  <1>3. \A n \in k + 1..MaxParams : f[n] = ReadRow(s, n, f[n + 1])
    BY <1>1 DEF ReadsFrom
  <1>4. /\ DOMAIN g = k..MaxParams /\ g = [n \in DOMAIN g |-> g[n]]
        /\ \A n \in k..MaxParams : g[n] = IF n = k THEN ReadRow(s, k, f[k + 1])
                                                   ELSE f[n]
    OBVIOUS
  <1> HIDE DEF g
  <1>5. DOMAIN f = k + 1..MaxParams
    BY <1>1 DEF ReadsFrom
  <1>6. ASSUME NEW n \in k..MaxParams PROVE g[n] = ReadRow(s, n, g[n + 1])
    <2>1. CASE n < MaxParams
      <3>1. n + 1 \in k..MaxParams /\ n + 1 # k
        BY <1>2, <2>1
      <3>2. g[n + 1] = f[n + 1]
        BY <1>4, <3>1
      <3>3. CASE n = k
        BY <1>4, <3>2, <3>3
      <3>4. CASE n # k
        <4>1. n \in k + 1..MaxParams
          BY <3>4
        <4> QED
          BY <1>3, <1>4, <3>2, <3>4, <4>1
      <3> QED
        BY <3>3, <3>4
    <2>2. CASE n = MaxParams
      <3>1. Enough(n)
        BY <1>2, <2>2 DEF Enough
      <3>2. \A more : ReadRow(s, n, more) = [p \in 1..Len(s) + 1 |-> <<>>]
        BY <3>1 DEF ReadRow, ReadAt
      <3>3. n # k /\ n \in k + 1..MaxParams
        BY <1>2, <2>2
      <3>4. g[n] = ReadRow(s, n, f[n + 1])
        BY <1>3, <1>4, <3>3
      <3> QED
        BY <3>2, <3>4
    <2> QED
      BY <1>2, <2>1, <2>2
  <1>7. ReadsFrom(s, g, k)
    BY <1>4, <1>6 DEF ReadsFrom
  <1> QED
    BY <1>7 DEF CanRead

LEMMA AllRead ==
  ASSUME NEW s
  PROVE  CanRead(s, 0)
  <1> DEFINE T == {m \in Nat : m <= MaxParams => CanRead(s, MaxParams - m)}
  <1>1. MaxParams \in Nat
    BY ParserAssumption
  <1>2. 0 \in T
    <2>1. Enough(MaxParams)
      BY <1>1 DEF Enough
    <2> DEFINE f == [n \in MaxParams..MaxParams |-> ReadRow(s, n, 0)]
    <2>2. \A more : ReadRow(s, MaxParams, more) = ReadRow(s, MaxParams, 0)
      BY <2>1 DEF ReadRow, ReadAt
    <2>3. \A n \in MaxParams..MaxParams : n = MaxParams
      BY <1>1
    <2>4. /\ DOMAIN f = MaxParams..MaxParams /\ f = [n \in DOMAIN f |-> f[n]]
          /\ \A n \in MaxParams..MaxParams : f[n] = ReadRow(s, n, 0)
      OBVIOUS
    <2> HIDE DEF f
    <2>5. \A n \in MaxParams..MaxParams : f[n] = ReadRow(s, n, f[n + 1])
      BY <2>2, <2>3, <2>4
    <2>6. ReadsFrom(s, f, MaxParams)
      BY <2>4, <2>5 DEF ReadsFrom
    <2>7. CanRead(s, MaxParams - 0)
      BY <1>1, <2>6 DEF CanRead
    <2> QED
      BY <2>7
  <1>3. ASSUME NEW m \in Nat, m \in T PROVE m + 1 \in T
    <2>1. ASSUME m + 1 <= MaxParams PROVE CanRead(s, MaxParams - (m + 1))
      <3> DEFINE k == MaxParams - (m + 1)
      <3>1. k \in Nat /\ k + 1 <= MaxParams /\ k + 1 = MaxParams - m /\ m <= MaxParams
        BY <1>1, <2>1
      <3>2. CanRead(s, k + 1)
        BY <1>3, <3>1
      <3> HIDE DEF k
      <3>3. CanRead(s, k)
        BY <3>1, <3>2, ReadMore
      <3> QED
        BY <3>3 DEF k
    <2> QED
      BY <2>1
  <1> HIDE DEF T
  <1>4. Nat \subseteq T
    BY <1>2, <1>3, SetInduction
  <1>5. MaxParams \in T /\ MaxParams <= MaxParams /\ MaxParams - MaxParams = 0
    BY <1>1, <1>4
  <1> QED
    BY <1>5 DEF T

(* What is read from the whole of a text.                                  *)
Given(s) == CHOOSE f : ReadsFrom(s, f, 0)
Read(s, n) == Given(s)[n][1]

LEMMA GivenIs ==
  ASSUME NEW s
  PROVE  /\ \A n \in 0..MaxParams : Given(s)[n] = ReadRow(s, n, Given(s)[n + 1])
         /\ \A p : Params(s, p) = Given(s)[0][p]
  <1>1. ReadsFrom(s, Given(s), 0)
    BY AllRead DEF CanRead, Given
  <1>2. \A n \in 0..MaxParams : Given(s)[n] = ReadRow(s, n, Given(s)[n + 1])
    <2> DEFINE f == Given(s)
    <2>1. f = [n \in 0..MaxParams |-> ReadRow(s, n, f[n + 1])]
      BY <1>1 DEF ReadsFrom
    <2> HIDE DEF f
    <2>2. \A n \in 0..MaxParams : f[n] = ReadRow(s, n, f[n + 1])
      BY <2>1
    <2> QED
      BY <2>2 DEF f
  <1>3. ASSUME NEW p PROVE Params(s, p) = Given(s)[0][p]
    BY DEF Params, Given, ReadsFrom, ReadRow, ReadAt
  <1> QED
    BY <1>2, <1>3

-----------------------------------------------------------------------------
(* The parts of a text that is one text behind another.                    *)
LEMMA Halves ==
  ASSUME NEW S, NEW a \in Seq(S), NEW b \in Seq(S)
  PROVE  SubSeq(a \o b, 1, Len(a)) = a /\ Behind(a \o b, Len(a)) = b
  <1> DEFINE s == a \o b
             u == SubSeq(s, 1, Len(a))
             v == Behind(s, Len(a))
  <1>1. /\ s \in Seq(S) /\ Len(s) = Len(a) + Len(b)
        /\ Len(a) \in Nat /\ Len(b) \in Nat
        /\ \A i \in 1..Len(a) + Len(b) : s[i] = IF i <= Len(a) THEN a[i] ELSE b[i - Len(a)]
    BY ConcatProperties
  <1> HIDE DEF s
  <1>2. 1 \in 1..Len(s) + 1 /\ Len(a) \in 0..Len(s)
    BY <1>1
  <1>3. u = a
    <2>1. /\ u \in Seq(S) /\ Len(u) = IF 1 <= Len(a) THEN Len(a) - 1 + 1 ELSE 0
          /\ \A i \in 1..Len(a) - 1 + 1 : u[i] = s[1 + i - 1]
      BY <1>1, <1>2, Piece
    <2> HIDE DEF u
    <2>2. Len(u) = Len(a)
      BY <1>1, <2>1
    <2>3. ASSUME NEW i \in 1..Len(u) PROVE u[i] = a[i]
      <3>1. i \in 1..Len(a) - 1 + 1 /\ 1 + i - 1 = i /\ i \in 1..Len(a) + Len(b)
            /\ i <= Len(a)
        BY <1>1, <2>2
      <3> QED
        BY <1>1, <2>1, <3>1
    <2>4. u \in Seq(S)
      BY <2>1
    <2> QED
      BY <2>2, <2>3, <2>4, SeqEqual
  <1>4. v = b
    <2>1. /\ v \in Seq(S) /\ Len(v) = Len(s) - Len(a)
          /\ \A i \in 1..Len(v) : v[i] = s[Len(a) + i]
      BY <1>1, <1>2, PieceOfEnd
    <2> HIDE DEF v
    <2>2. Len(v) = Len(b)
      BY <1>1, <2>1
    <2>3. ASSUME NEW i \in 1..Len(v) PROVE v[i] = b[i]
      <3>1. Len(a) + i \in 1..Len(a) + Len(b) /\ ~(Len(a) + i <= Len(a))
            /\ (Len(a) + i) - Len(a) = i
        BY <1>1, <2>2
      <3>2. s[Len(a) + i] = b[(Len(a) + i) - Len(a)]
        BY <1>1, <3>1
      <3> QED
        BY <2>1, <3>1, <3>2
    <2>4. v \in Seq(S)
      BY <2>1
    <2> QED
      BY <2>2, <2>3, <2>4, SeqEqual
  <1> QED
    BY <1>3, <1>4 DEF s

(* A text is its beginning and what is behind it.                          *)
LEMMA SplitBehind ==
  ASSUME NEW S, NEW s \in Seq(S), NEW k \in 0..Len(s)
  PROVE  /\ SubSeq(s, 1, k) \in Seq(S) /\ Len(SubSeq(s, 1, k)) = k
         /\ \A i \in 1..k : SubSeq(s, 1, k)[i] = s[i]
         /\ Behind(s, k) \in Seq(S)
         /\ s = SubSeq(s, 1, k) \o Behind(s, k)
  <1>1. Len(s) \in Nat /\ k \in Nat
    OBVIOUS
  <1>2. 1 \in 1..Len(s) + 1
    BY <1>1
  <1>3. /\ SubSeq(s, 1, k) \in Seq(S)
        /\ Len(SubSeq(s, 1, k)) = IF 1 <= k THEN k - 1 + 1 ELSE 0
        /\ \A i \in 1..k - 1 + 1 : SubSeq(s, 1, k)[i] = s[1 + i - 1]
    BY <1>2, Piece
  <1>4. Len(SubSeq(s, 1, k)) = k
    BY <1>1, <1>3
  <1>5. ASSUME NEW i \in 1..k PROVE SubSeq(s, 1, k)[i] = s[i]
    <2>1. i \in 1..k - 1 + 1 /\ 1 + i - 1 = i
      BY <1>1
    <2> QED
      BY <1>3, <2>1
  <1>6. Behind(s, k) \in Seq(S)
    BY PieceOfEnd
  <1>7. SubSeq(s, 1, k) \o SubSeq(s, k + 1, Len(s)) = SubSeq(s, 1, Len(s))
    <2>1. 1 \in 1..Len(s) + 1 /\ k \in 1 - 1..Len(s) /\ Len(s) \in k..Len(s)
      BY <1>1
    <2> QED
      BY <2>1, ConcatAdjacentSubSeq
  <1>8. SubSeq(s, 1, Len(s)) = s
    BY SubSeqFull
  <1>9. s = SubSeq(s, 1, k) \o Behind(s, k)
    BY <1>7, <1>8 DEF Behind
  <1> QED
    BY <1>3, <1>4, <1>5, <1>6, <1>9

-----------------------------------------------------------------------------
(* What is read depends only on what is left of the line.                  *)
LEMMA BehindShape ==
  ASSUME NEW S, NEW s \in Seq(S), NEW p \in 1..Len(s) + 1
  PROVE  /\ p - 1 \in 0..Len(s)
         /\ Behind(s, p - 1) \in Seq(S)
         /\ Len(Behind(s, p - 1)) = Len(s) - (p - 1)
         /\ \A i \in 1..Len(Behind(s, p - 1)) : Behind(s, p - 1)[i] = s[(p - 1) + i]
         /\ 1 \in 1..Len(Behind(s, p - 1)) + 1
  <1>1. p - 1 \in 0..Len(s) /\ Len(s) \in Nat
    OBVIOUS
  <1> DEFINE k == p - 1
  <1>2. k \in 0..Len(s)
    BY <1>1
  <1> HIDE DEF k
  <1>3. /\ Behind(s, k) \in Seq(S)
        /\ Len(Behind(s, k)) = Len(s) - k
        /\ \A i \in 1..Len(Behind(s, k)) : Behind(s, k)[i] = s[k + i]
    BY <1>2, PieceOfEnd
  <1>4. Len(Behind(s, k)) \in Nat
    BY <1>3
  <1>5. 1 \in 1..Len(Behind(s, k)) + 1
    BY <1>4
  <1> QED
    BY <1>1, <1>3, <1>5 DEF k

LEMMA WordBehind ==
  ASSUME NEW S, NEW s \in Seq(S), NEW p \in 1..Len(s) + 1
  PROVE  WordFrom(Behind(s, p - 1), 1) = WordFrom(s, p) - (p - 1)
  <1> DEFINE k == p - 1
             b == Behind(s, k)
             q == WordFrom(s, p)
  <1>1. /\ k \in 0..Len(s) /\ b \in Seq(S) /\ Len(b) = Len(s) - k
        /\ \A i \in 1..Len(b) : b[i] = s[k + i]
        /\ 1 \in 1..Len(b) + 1
    BY BehindShape
  <1>2. /\ q \in p..Len(s) + 1
        /\ \A i \in p..q - 1 : IsSpace(s[i])
        /\ q <= Len(s) => ~IsSpace(s[q])
    BY WordIs
  <1>3. Len(s) \in Nat /\ p \in Nat /\ p = k + 1
    OBVIOUS
  <1> HIDE DEF k, b, q
  <1>4. q - k \in 1..Len(b) + 1
    BY <1>1, <1>2, <1>3
  <1>5. ASSUME NEW i \in 1..(q - k) - 1 PROVE IsSpace(b[i])
    <2>1. i \in 1..Len(b) /\ k + i \in p..q - 1
      BY <1>1, <1>2, <1>3
    <2> QED
      BY <1>1, <1>2, <2>1
  <1>6. ASSUME q - k <= Len(b) PROVE ~IsSpace(b[q - k])
    <2>1. q - k \in 1..Len(b) /\ k + (q - k) = q /\ q <= Len(s)
      BY <1>1, <1>2, <1>3, <1>6
    <2> QED
      BY <1>1, <1>2, <2>1
  <1>7. WordFrom(b, 1) = q - k
    BY <1>1, <1>4, <1>5, <1>6, WordAt
  <1> QED
    BY <1>7 DEF b, q, k

LEMMA SpaceBehind ==
  ASSUME NEW S, NEW s \in Seq(S), NEW p \in 1..Len(s) + 1,
         NEW j \in p..Len(s) + 1
  PROVE  SpaceFrom(Behind(s, p - 1), j - (p - 1)) = SpaceFrom(s, j) - (p - 1)
  <1> DEFINE k == p - 1
             b == Behind(s, k)
             q == SpaceFrom(s, j)
  <1>1. /\ k \in 0..Len(s) /\ b \in Seq(S) /\ Len(b) = Len(s) - k
        /\ \A i \in 1..Len(b) : b[i] = s[k + i]
    BY BehindShape
  <1>2. j \in 1..Len(s) + 1
    OBVIOUS
  <1>3. /\ q \in j..Len(s) + 1
        /\ \A i \in j..q - 1 : ~IsSpace(s[i])
        /\ q <= Len(s) => IsSpace(s[q])
    BY <1>2, SpaceIs
  <1>4. Len(s) \in Nat /\ p \in Nat /\ p = k + 1 /\ j \in Nat /\ j >= p
    OBVIOUS
  <1> HIDE DEF k, b, q
  <1>5. j - k \in 1..Len(b) + 1 /\ q - k \in j - k..Len(b) + 1
    BY <1>1, <1>2, <1>3, <1>4
  <1>6. ASSUME NEW i \in j - k..(q - k) - 1 PROVE ~IsSpace(b[i])
    <2>1. i \in 1..Len(b) /\ k + i \in j..q - 1
      BY <1>1, <1>2, <1>3, <1>4
    <2> QED
      BY <1>1, <1>3, <2>1
  <1>7. ASSUME q - k <= Len(b) PROVE IsSpace(b[q - k])
    <2>1. q - k \in 1..Len(b) /\ k + (q - k) = q /\ q <= Len(s)
      BY <1>1, <1>2, <1>3, <1>4, <1>7
    <2> QED
      BY <1>1, <1>3, <2>1
  <1>8. SpaceFrom(b, j - k) = q - k
    BY <1>1, <1>5, <1>6, <1>7, SpaceAt
  <1> QED
    BY <1>8 DEF b, q, k

LEMMA PieceBehind ==
  ASSUME NEW S, NEW s \in Seq(S), NEW k \in 0..Len(s),
         NEW i \in 1..Len(Behind(s, k)) + 1, NEW j \in 0..Len(Behind(s, k))
  PROVE  SubSeq(Behind(s, k), i, j) = SubSeq(s, k + i, k + j)
  <1> DEFINE b == Behind(s, k)
             u == SubSeq(b, i, j)
             v == SubSeq(s, k + i, k + j)
  <1>1. /\ b \in Seq(S) /\ Len(b) = Len(s) - k
        /\ \A m \in 1..Len(b) : b[m] = s[k + m]
    BY PieceOfEnd
  <1> HIDE DEF b
  <1>2. Len(s) \in Nat /\ k \in Nat /\ i \in Nat /\ j \in Nat /\ Len(b) \in Nat
        /\ i \in 1..Len(b) + 1 /\ j \in 0..Len(b)
    BY <1>1 DEF b
  <1>3. /\ u \in Seq(S) /\ Len(u) = IF i <= j THEN j - i + 1 ELSE 0
        /\ \A m \in 1..j - i + 1 : u[m] = b[i + m - 1]
    BY <1>1, <1>2, Piece
  <1>4. k + i \in 1..Len(s) + 1 /\ k + j \in 0..Len(s)
    BY <1>1, <1>2
  <1>5. /\ v \in Seq(S)
        /\ Len(v) = IF k + i <= k + j THEN (k + j) - (k + i) + 1 ELSE 0
        /\ \A m \in 1..(k + j) - (k + i) + 1 : v[m] = s[(k + i) + m - 1]
    BY <1>4, Piece
  <1> HIDE DEF u, v
  <1>6. Len(u) = Len(v)
    BY <1>2, <1>3, <1>5
  <1>7. ASSUME NEW m \in 1..Len(u) PROVE u[m] = v[m]
    <2>1. Len(u) = IF i <= j THEN j - i + 1 ELSE 0
      BY <1>3
    <2>2. /\ m \in 1..j - i + 1 /\ m \in 1..(k + j) - (k + i) + 1
          /\ i + m - 1 \in 1..Len(b) /\ k + (i + m - 1) = (k + i) + m - 1
      BY <1>2, <2>1
    <2>3. u[m] = b[i + m - 1] /\ v[m] = s[(k + i) + m - 1]
      BY <1>3, <1>5, <2>2
    <2> QED
      BY <1>1, <2>2, <2>3
  <1>8. u \in Seq(S) /\ v \in Seq(S)
    BY <1>3, <1>5
  <1>9. u = v
    BY <1>6, <1>7, <1>8, SeqEqual
  <1> QED
    BY <1>9 DEF u, v, b

LEMMA GivenAt ==
  ASSUME NEW S, NEW s \in Seq(S), NEW p \in 1..Len(s) + 1, NEW n \in 0..MaxParams
  PROVE  Given(s)[n][p] = ReadAt(s, n, Given(s)[n + 1], p)
  <1>1. Given(s)[n] = ReadRow(s, n, Given(s)[n + 1])
    BY GivenIs
  <1>2. ReadRow(s, n, Given(s)[n + 1])[p] = ReadAt(s, n, Given(s)[n + 1], p)
    BY DEF ReadRow
  <1> QED
    BY <1>1, <1>2

LEMMA ReadBehindStep ==
  ASSUME NEW S, NEW n \in 0..MaxParams,
         n < MaxParams =>
           \A t \in Seq(S) : \A j \in 1..Len(t) + 1 :
             Given(t)[n + 1][j] = Read(Behind(t, j - 1), n + 1),
         NEW s \in Seq(S), NEW p \in 1..Len(s) + 1
  PROVE  Given(s)[n][p] = Read(Behind(s, p - 1), n)
  <1> DEFINE k == p - 1
             b == Behind(s, k)
             q == WordFrom(s, p)
             r == SpaceFrom(s, q)
  <1>1. /\ k \in 0..Len(s) /\ b \in Seq(S) /\ Len(b) = Len(s) - k
        /\ \A i \in 1..Len(b) : b[i] = s[k + i]
        /\ 1 \in 1..Len(b) + 1
    BY BehindShape
  <1>2. q \in p..Len(s) + 1 /\ (q <= Len(s) => ~IsSpace(s[q]))
    BY WordIs
  <1>3. Len(s) \in Nat /\ p \in Nat /\ p = k + 1 /\ MaxParams \in Nat
    BY ParserAssumption
  <1>4. q \in 1..Len(s) + 1
    BY <1>2
  <1>5. r \in q..Len(s) + 1 /\ (r <= Len(s) => IsSpace(s[r]))
    BY <1>4, SpaceIs
  <1>6. WordFrom(b, 1) = q - k
    BY WordBehind
  <1>7. SpaceFrom(b, q - k) = r - k
    BY <1>2, SpaceBehind
  <1>8. Given(s)[n][p] = ReadAt(s, n, Given(s)[n + 1], p)
    BY GivenAt
  <1>9. Read(b, n) = ReadAt(b, n, Given(b)[n + 1], 1)
    BY <1>1, GivenAt DEF Read
  <1> HIDE DEF k, b, q, r
  <1>10. CASE q > Len(s) \/ Enough(n)
    <2>1. Given(s)[n][p] = <<>>
      BY <1>8, <1>10 DEF ReadAt, q
    <2>2. q - k > Len(b) \/ Enough(n)
      BY <1>1, <1>2, <1>3, <1>10
    <2>3. Read(b, n) = <<>>
      BY <1>6, <1>9, <2>2 DEF ReadAt
    <2> QED
      BY <2>1, <2>3 DEF b, k
  <1>11. CASE ~(q > Len(s) \/ Enough(n))
    <2>1. /\ q \in 1..Len(s) /\ q - k \in 1..Len(b) /\ ~(q - k > Len(b))
          /\ k + (q - k) = q /\ k \in Nat
      BY <1>1, <1>2, <1>3, <1>11
    <2>2. b[q - k] = s[q]
      BY <1>1, <2>1
    <2>3. CASE s[q] = ":"
      <3>1. Given(s)[n][p] = <<Behind(s, q)>>
        BY <1>8, <1>11, <2>3 DEF ReadAt, q, Trailing, Behind
      <3>2. Read(b, n) = <<Behind(b, q - k)>>
        BY <1>6, <1>9, <1>11, <2>1, <2>2, <2>3 DEF ReadAt, Trailing, Behind
      <3>3. Behind(s, k + (q - k)) = Behind(b, q - k)
        BY <1>1, <2>1, PieceOfEnd DEF b
      <3> QED
        BY <2>1, <3>1, <3>2, <3>3 DEF b, k
    <2>4. CASE s[q] # ":"
      <3>1. Given(s)[n][p] = <<SubSeq(s, q, r - 1)>> \o Given(s)[n + 1][r]
        BY <1>8, <1>11, <2>4 DEF ReadAt, q, r
      <3>2. Read(b, n) = <<SubSeq(b, q - k, (r - k) - 1)>> \o Given(b)[n + 1][r - k]
        BY <1>6, <1>7, <1>9, <1>11, <2>1, <2>2, <2>4 DEF ReadAt
      <3>3. n < MaxParams
        BY <1>3, <1>11 DEF Enough
      <3>4. q < r
        <4>1. ~IsSpace(s[q])
          BY <1>2, <2>1
        <4>2. r # q
          BY <1>5, <2>1, <4>1
        <4> QED
          BY <1>2, <1>3, <1>5, <4>2
      <3>5. /\ r \in 1..Len(s) + 1 /\ r - k \in 1..Len(b) + 1
            /\ q - k \in 1..Len(b) + 1 /\ (r - k) - 1 \in 0..Len(b)
            /\ k + ((r - k) - 1) = r - 1 /\ (r - k) - 1 \in 1..Len(b)
        BY <1>1, <1>2, <1>3, <1>5, <2>1, <3>4
      <3>6. SubSeq(b, q - k, (r - k) - 1) = SubSeq(s, q, r - 1)
        <4>1. /\ k \in 0..Len(s)
              /\ q - k \in 1..Len(Behind(s, k)) + 1
              /\ (r - k) - 1 \in 0..Len(Behind(s, k))
          BY <1>1, <3>5 DEF b
        <4>2. PICK i \in 1..Len(Behind(s, k)) + 1 : i = q - k
          BY <4>1
        <4>3. PICK j \in 0..Len(Behind(s, k)) : j = (r - k) - 1
          BY <4>1
        <4>4. SubSeq(Behind(s, k), i, j) = SubSeq(s, k + i, k + j)
          BY <4>1, PieceBehind
        <4>5. k + i = q /\ k + j = r - 1
          BY <2>1, <3>5, <4>2, <4>3
        <4> QED
          BY <4>2, <4>3, <4>4, <4>5 DEF b
      <3>7. Behind(s, k + ((r - k) - 1)) = Behind(b, (r - k) - 1)
        BY <1>1, <3>5, PieceOfEnd DEF b
      <3>8. Given(s)[n + 1][r] = Read(Behind(s, r - 1), n + 1)
        BY <3>3, <3>5
      <3>9. Given(b)[n + 1][r - k] = Read(Behind(b, (r - k) - 1), n + 1)
        BY <1>1, <3>3, <3>5
      <3>10. Given(s)[n + 1][r] = Given(b)[n + 1][r - k]
        BY <3>5, <3>7, <3>8, <3>9
      <3> QED
        BY <3>1, <3>2, <3>6, <3>10 DEF b, k
    <2> QED
      BY <2>3, <2>4
  <1> QED
    BY <1>10, <1>11

LEMMA ReadBehind ==
  ASSUME NEW S, NEW n \in 0..MaxParams, NEW s \in Seq(S), NEW p \in 1..Len(s) + 1
  PROVE  Given(s)[n][p] = Read(Behind(s, p - 1), n)
  <1> DEFINE K(m) == \A t \in Seq(S) : \A j \in 1..Len(t) + 1 :
                       Given(t)[m][j] = Read(Behind(t, j - 1), m)
             T == {m \in Nat : m <= MaxParams => K(MaxParams - m)}
  <1>1. MaxParams \in Nat
    BY ParserAssumption
  <1>2. ASSUME NEW m \in 0..MaxParams, m < MaxParams => K(m + 1)
        PROVE  K(m)
    BY <1>2, ReadBehindStep
  <1> HIDE DEF K
  <1>3. 0 \in T
    <2>1. MaxParams \in 0..MaxParams /\ ~(MaxParams < MaxParams) /\ MaxParams - 0 = MaxParams
      BY <1>1
    <2> QED
      BY <1>2, <2>1
  <1>4. ASSUME NEW m \in Nat, m \in T PROVE m + 1 \in T
    <2>1. ASSUME m + 1 <= MaxParams PROVE K(MaxParams - (m + 1))
      <3>1. /\ MaxParams - (m + 1) \in 0..MaxParams /\ m <= MaxParams
            /\ (MaxParams - (m + 1)) + 1 = MaxParams - m
        BY <1>1, <2>1
      <3>2. K(MaxParams - m)
        BY <1>4, <3>1
      <3> QED
        BY <1>2, <3>1, <3>2
    <2> QED
      BY <2>1
  <1> HIDE DEF T
  <1>5. Nat \subseteq T
    BY <1>3, <1>4, SetInduction
  <1>6. MaxParams - n \in T /\ MaxParams - n <= MaxParams
        /\ MaxParams - (MaxParams - n) = n
    BY <1>1, <1>5
  <1>7. K(n)
    BY <1>6 DEF T
  <1> QED
    BY <1>7 DEF K

-----------------------------------------------------------------------------
(* The parameters of a line, told from its front: it is all spaces, or what*)
(* stands behind the spaces is a colon and a text, or a word and a rest.   *)
IsColon(c) == c = ":"
Spaces(s)  == \A i \in 1..Len(s) : IsSpace(s[i])
Bounded(s) == s = <<>> \/ IsSpace(s[1])
AWord(w)   == /\ w # <<>> /\ ~IsColon(w[1])
              /\ \A i \in 1..Len(w) : ~IsSpace(w[i])

LEMMA Colons == \A c : IsColon(c) => ~IsSpace(c)
  BY DEF IsColon, IsSpace

LEMMA WordsAre ==
  ASSUME NEW S, NEW w \in Seq(S)
  PROVE  IsWord(w) <=> AWord(w)
  <1>1. DOMAIN w = 1..Len(w)
    OBVIOUS
  <1>2. IsWord(w) <=> /\ w # <<>> /\ ~IsColon(w[1])
                      /\ \A k \in DOMAIN w : ~IsSpace(w[k])
    BY Zenon DEF IsWord, IsColon, IsSpace
  <1> QED
    BY <1>1, <1>2 DEF AWord

LEMMA ReadIs ==
  ASSUME NEW S, NEW s \in Seq(S), NEW n \in 0..MaxParams,
         NEW q, q = WordFrom(s, 1), NEW r, r = SpaceFrom(s, q)
  PROVE  Read(s, n) = IF q > Len(s) \/ Enough(n) THEN <<>>
                      ELSE IF IsColon(s[q]) THEN <<Behind(s, q)>>
                      ELSE <<SubSeq(s, q, r - 1)>> \o Read(Behind(s, r - 1), n + 1)
  <1>1. 1 \in 1..Len(s) + 1
    OBVIOUS
  <1>2. Read(s, n) = ReadAt(s, n, Given(s)[n + 1], 1)
    BY <1>1, GivenAt DEF Read
  <1>3. q \in 1..Len(s) + 1
    BY <1>1, WordIs
  <1>4. r \in 1..Len(s) + 1
    BY <1>3, SpaceIs
  <1>5. ~Enough(n) => n + 1 \in 0..MaxParams
    BY ParserAssumption DEF Enough
  <1>6. ~Enough(n) => Given(s)[n + 1][r] = Read(Behind(s, r - 1), n + 1)
    BY <1>4, <1>5, ReadBehind
  <1> QED
    BY <1>2, <1>6 DEF ReadAt, Trailing, Behind, IsColon

LEMMA JoinShape ==
  ASSUME NEW S, NEW a \in Seq(S), NEW b \in Seq(S)
  PROVE  /\ a \o b \in Seq(S) /\ Len(a \o b) = Len(a) + Len(b)
         /\ \A i \in 1..Len(a) : (a \o b)[i] = a[i]
         /\ \A i \in 1..Len(b) : (a \o b)[Len(a) + i] = b[i]
  OBVIOUS

Joined(s, a, b, c) == s = (a \o b) \o c

LEMMA ThreeParts ==
  ASSUME NEW S, NEW a \in Seq(S), NEW b \in Seq(S), NEW c \in Seq(S),
         NEW s, Joined(s, a, b, c)
  PROVE  /\ s \in Seq(S) /\ Len(s) = Len(a) + Len(b) + Len(c)
         /\ \A i \in 1..Len(a) : s[i] = a[i]
         /\ \A i \in 1..Len(b) : s[Len(a) + i] = b[i]
         /\ \A i \in 1..Len(c) : s[Len(a) + Len(b) + i] = c[i]
         /\ SubSeq(s, Len(a) + 1, Len(a) + Len(b)) = b
         /\ Behind(s, Len(a) + Len(b)) = c
  <1> DEFINE u == a \o b
  <1>1. /\ u \in Seq(S) /\ Len(u) = Len(a) + Len(b)
        /\ \A i \in 1..Len(a) : u[i] = a[i]
        /\ \A i \in 1..Len(b) : u[Len(a) + i] = b[i]
    BY JoinShape
  <1>2. Behind(u, Len(a)) = b
    BY Halves
  <1>3. s = u \o c
    BY DEF Joined
  <1> HIDE DEF u
  <1>4. /\ s \in Seq(S) /\ Len(s) = Len(u) + Len(c)
        /\ \A i \in 1..Len(u) : s[i] = u[i]
        /\ \A i \in 1..Len(c) : s[Len(u) + i] = c[i]
    <2>1. u \in Seq(S)
      BY <1>1
    <2>2. /\ u \o c \in Seq(S) /\ Len(u \o c) = Len(u) + Len(c)
          /\ \A i \in 1..Len(u) : (u \o c)[i] = u[i]
          /\ \A i \in 1..Len(c) : (u \o c)[Len(u) + i] = c[i]
      BY <2>1, JoinShape
    <2> QED
      BY <1>3, <2>2
  <1>5. Behind(s, Len(u)) = c
    BY <1>1, <1>3, Halves
  <1>6. SubSeq(s, Len(a) + 1, Len(u)) = SubSeq(u, Len(a) + 1, Len(u))
    <2>1. Len(a) + 1 \in 1..Len(u) + 1 /\ Len(u) \in 0..Len(u)
      BY <1>1
    <2> QED
      BY <1>1, <1>3, <2>1, PieceOfConcat
  <1>7. SubSeq(u, Len(a) + 1, Len(u)) = b
    BY <1>2 DEF Behind
  <1> QED
    BY <1>1, <1>4, <1>5, <1>6, <1>7

LEMMA ReadNothing ==
  ASSUME NEW S, NEW s \in Seq(S), NEW n \in 0..MaxParams, Spaces(s) \/ Enough(n)
  PROVE  Read(s, n) = <<>>
  <1>1. Spaces(s) => WordFrom(s, 1) = Len(s) + 1
    BY WordAt DEF Spaces
  <1>2. WordFrom(s, 1) > Len(s) \/ Enough(n)
    BY <1>1
  <1> QED
    BY <1>2, ReadIs

LEMMA ReadText ==
  ASSUME NEW S, NEW sp \in Seq(S), NEW x \in S, NEW t \in Seq(S), NEW s,
         Around(s, sp, x, t), Spaces(sp), IsColon(x),
         NEW n \in 0..MaxParams, ~Enough(n)
  PROVE  Read(s, n) = <<t>>
  <1>1. /\ s \in Seq(S) /\ Len(s) = Len(sp) + 1 + Len(t)
        /\ \A i \in 1..Len(sp) : s[i] = sp[i]
        /\ s[Len(sp) + 1] = x
        /\ SubSeq(s, Len(sp) + 2, Len(s)) = t
    BY AroundShape
  <1>2. /\ 1 \in 1..Len(s) + 1 /\ Len(sp) + 1 \in 1..Len(s) + 1
        /\ \A i \in 1..(Len(sp) + 1) - 1 : IsSpace(s[i])
        /\ ~IsSpace(s[Len(sp) + 1])
    BY <1>1, Colons DEF Spaces
  <1>3. WordFrom(s, 1) = Len(sp) + 1
    BY <1>1, <1>2, WordAt
  <1>4. Behind(s, Len(sp) + 1) = t
    BY <1>1 DEF Behind
  <1>5. ~(Len(sp) + 1 > Len(s))
    BY <1>1
  <1> QED
    BY <1>1, <1>3, <1>4, <1>5, ReadIs

LEMMA ReadWord ==
  ASSUME NEW S, NEW sp \in Seq(S), NEW w \in Seq(S), NEW rest \in Seq(S), NEW s,
         Joined(s, sp, w, rest), Spaces(sp), AWord(w), Bounded(rest),
         NEW n \in 0..MaxParams, ~Enough(n)
  PROVE  Read(s, n) = <<w>> \o Read(rest, n + 1)
  <1> DEFINE q == Len(sp) + 1
             r == Len(sp) + Len(w) + 1
  <1>1. /\ s \in Seq(S) /\ Len(s) = Len(sp) + Len(w) + Len(rest)
        /\ \A i \in 1..Len(sp) : s[i] = sp[i]
        /\ \A i \in 1..Len(w) : s[Len(sp) + i] = w[i]
        /\ \A i \in 1..Len(rest) : s[Len(sp) + Len(w) + i] = rest[i]
        /\ SubSeq(s, Len(sp) + 1, Len(sp) + Len(w)) = w
        /\ Behind(s, Len(sp) + Len(w)) = rest
    BY ThreeParts
  <1>2. /\ 1 \in 1..Len(s) + 1 /\ q \in 1..Len(s) /\ r \in q..Len(s) + 1
        /\ r - 1 = Len(sp) + Len(w) /\ 1 \in 1..Len(w)
    BY <1>1 DEF AWord
  <1>3. s[q] = w[1]
    BY <1>1, <1>2
  <1>4. ~IsSpace(s[q]) /\ ~IsColon(s[q])
    BY <1>2, <1>3 DEF AWord
  <1>5. WordFrom(s, 1) = q
    <2>1. \A i \in 1..q - 1 : IsSpace(s[i])
      BY <1>1 DEF Spaces
    <2>2. /\ s \in Seq(S) /\ 1 \in 1..Len(s) + 1 /\ q \in 1..Len(s) + 1
          /\ q <= Len(s) => ~IsSpace(s[q])
      BY <1>1, <1>2, <1>4
    <2> HIDE DEF q, r
    <2> QED
      BY <2>1, <2>2, WordAt
  <1>6. \A i \in q..r - 1 : ~IsSpace(s[i])
    <2> SUFFICES ASSUME NEW i \in q..r - 1 PROVE ~IsSpace(s[i])
      OBVIOUS
    <2>1. i - Len(sp) \in 1..Len(w) /\ Len(sp) + (i - Len(sp)) = i
      BY <1>1, <1>2
    <2>2. s[i] = w[i - Len(sp)]
      BY <1>1, <2>1
    <2> QED
      BY <2>1, <2>2 DEF AWord
  <1>7. r <= Len(s) => IsSpace(s[r])
    <2> SUFFICES ASSUME r <= Len(s) PROVE IsSpace(s[r])
      OBVIOUS
    <2>1. 1 \in 1..Len(rest)
      BY <1>1
    <2>2. s[r] = rest[1]
      BY <1>1, <2>1
    <2> QED
      BY <2>1, <2>2 DEF Bounded
  <1>8. SpaceFrom(s, q) = r
    <2>1. q \in 1..Len(s) + 1
      BY <1>1, <1>2
    <2> HIDE DEF q, r
    <2> QED
      BY <1>1, <1>2, <1>6, <1>7, <2>1, SpaceAt
  <1>9. SubSeq(s, q, r - 1) = w /\ Behind(s, r - 1) = rest
    BY <1>1, <1>2
  <1>10. ~(q > Len(s))
    BY <1>1, <1>2
  <1> HIDE DEF q, r
  <1>11. Read(s, n) = IF q > Len(s) \/ Enough(n) THEN <<>>
                      ELSE IF IsColon(s[q]) THEN <<Behind(s, q)>>
                      ELSE <<SubSeq(s, q, r - 1)>> \o Read(Behind(s, r - 1), n + 1)
    <2>1. s \in Seq(S)
      BY <1>1
    <2> QED
      BY <1>5, <1>8, <2>1, ReadIs
  <1> QED
    BY <1>4, <1>9, <1>10, <1>11

(* Every line is of one of the three forms.                                *)
LEMMA LineForms ==
  ASSUME NEW S, NEW s \in Seq(S)
  PROVE  \/ Spaces(s)
         \/ \E sp, t \in Seq(S), x \in S :
              Spaces(sp) /\ IsColon(x) /\ Around(s, sp, x, t)
         \/ \E sp, w, rest \in Seq(S) :
              /\ Spaces(sp) /\ AWord(w) /\ Bounded(rest)
              /\ Joined(s, sp, w, rest)
              /\ Len(rest) < Len(s)
  <1> DEFINE q  == WordFrom(s, 1)
             r  == SpaceFrom(s, q)
             sp == SubSeq(s, 1, q - 1)
  <1>1. 1 \in 1..Len(s) + 1 /\ Len(s) \in Nat
    OBVIOUS
  <1>2. /\ q \in 1..Len(s) + 1
        /\ \A i \in 1..q - 1 : IsSpace(s[i])
        /\ q <= Len(s) => ~IsSpace(s[q])
    BY <1>1, WordIs
  <1>3. /\ r \in q..Len(s) + 1
        /\ \A i \in q..r - 1 : ~IsSpace(s[i])
        /\ r <= Len(s) => IsSpace(s[r])
    BY <1>2, SpaceIs
  <1> HIDE DEF q, r
  <1>4. /\ sp \in Seq(S) /\ Len(sp) = q - 1
        /\ \A i \in 1..q - 1 : sp[i] = s[i]
    <2>1. q - 1 \in 0..Len(s)
      BY <1>1, <1>2
    <2> QED
      BY <2>1, SplitBehind
  <1>5. Spaces(sp)
    BY <1>2, <1>4 DEF Spaces
  <1> HIDE DEF sp
  <1>6. CASE q > Len(s)
    BY <1>1, <1>2, <1>6 DEF Spaces
  <1>7. CASE q <= Len(s) /\ IsColon(s[q])
    <2>1. q \in 1..Len(s)
      BY <1>1, <1>2, <1>7
    <2>2. /\ SubSeq(s, q + 1, Len(s)) \in Seq(S) /\ s[q] \in S
          /\ Around(s, sp, s[q], SubSeq(s, q + 1, Len(s)))
      BY <2>1, SplitAt DEF sp
    <2> QED
      BY <1>4, <1>5, <1>7, <2>2
  <1>8. CASE q <= Len(s) /\ ~IsColon(s[q])
    <2> DEFINE w == SubSeq(s, q, r - 1)
    <2>1. r # q
      <3>1. q \in 1..Len(s) /\ ~IsSpace(s[q])
        BY <1>1, <1>2, <1>8
      <3> QED
        BY <1>3, <3>1
    <2>2. /\ q \in 1..Len(s) + 1 /\ r - 1 \in 0..Len(s) /\ q <= r - 1
          /\ q - 1 \in 0..Len(s) /\ r - 1 < Len(s) + 1
          /\ (r - 1) - q + 1 \in Nat \ {0} /\ (q - 1) + 1 = q
      BY <1>1, <1>2, <1>3, <2>1
    <2>3. /\ w \in Seq(S) /\ Len(w) = (r - 1) - q + 1
          /\ \A i \in 1..(r - 1) - q + 1 : w[i] = s[q + i - 1]
      BY <2>2, Piece
    <2> HIDE DEF w
    <2>4. AWord(w)
      <3>1. w[1] = s[q] /\ w # <<>>
        BY <2>2, <2>3
      <3>2. ASSUME NEW i \in 1..Len(w) PROVE ~IsSpace(w[i])
        <4>1. q + i - 1 \in q..r - 1 /\ w[i] = s[q + i - 1]
          BY <2>2, <2>3
        <4> QED
          BY <1>3, <4>1
      <3> QED
        BY <1>8, <3>1, <3>2 DEF AWord
    <2>5. /\ Behind(s, r - 1) \in Seq(S) /\ Len(Behind(s, r - 1)) = Len(s) - (r - 1)
          /\ \A i \in 1..Len(Behind(s, r - 1)) : Behind(s, r - 1)[i] = s[(r - 1) + i]
          /\ s = SubSeq(s, 1, r - 1) \o Behind(s, r - 1)
      <3>1. r \in 1..Len(s) + 1
        BY <1>2, <1>3
      <3>2. s = SubSeq(s, 1, r - 1) \o Behind(s, r - 1)
        BY <2>2, SplitBehind
      <3> QED
        BY <3>1, <3>2, BehindShape
    <2>6. Bounded(Behind(s, r - 1)) /\ Len(Behind(s, r - 1)) < Len(s)
      <3>1. Len(Behind(s, r - 1)) < Len(s)
        BY <1>1, <1>2, <1>3, <2>2, <2>5
      <3>2. CASE r <= Len(s)
        <4>1. 1 \in 1..Len(Behind(s, r - 1)) /\ (r - 1) + 1 = r
          BY <1>1, <1>2, <1>3, <2>5, <3>2
        <4>2. Behind(s, r - 1)[1] = s[r]
          BY <2>5, <4>1
        <4> QED
          BY <1>3, <3>1, <3>2, <4>2 DEF Bounded
      <3>3. CASE ~(r <= Len(s))
        <4>1. Len(Behind(s, r - 1)) = 0
          BY <1>1, <1>2, <1>3, <2>5, <3>3
        <4>2. Behind(s, r - 1) = <<>>
          BY <2>5, <4>1
        <4> QED
          BY <3>1, <4>2 DEF Bounded
      <3> QED
        BY <3>2, <3>3
    <2>7. SubSeq(s, 1, r - 1) = sp \o w
      <3> DEFINE u == SubSeq(s, 1, r - 1)
      <3>1. u \in Seq(S) /\ Len(u) = r - 1 /\ \A i \in 1..r - 1 : u[i] = s[i]
        BY <2>2, SplitBehind
      <3> HIDE DEF u
      <3>2. /\ sp \o w \in Seq(S) /\ Len(sp \o w) = r - 1
            /\ \A i \in 1..q - 1 : (sp \o w)[i] = sp[i]
            /\ \A i \in 1..Len(w) : (sp \o w)[(q - 1) + i] = w[i]
        <4>1. /\ sp \o w \in Seq(S) /\ Len(sp \o w) = Len(sp) + Len(w)
              /\ \A i \in 1..Len(sp) : (sp \o w)[i] = sp[i]
              /\ \A i \in 1..Len(w) : (sp \o w)[Len(sp) + i] = w[i]
          <5>1. sp \in Seq(S) /\ w \in Seq(S)
            BY <1>4, <2>3
          <5> QED
            BY <5>1, JoinShape
        <4>2. Len(sp) = q - 1 /\ Len(sp) + Len(w) = r - 1
          BY <1>2, <1>3, <1>4, <2>3
        <4> QED
          BY <4>1, <4>2
      <3>3. ASSUME NEW i \in 1..r - 1 PROVE (sp \o w)[i] = s[i]
        <4>1. CASE i <= q - 1
          BY <1>4, <2>2, <3>2, <4>1
        <4>2. CASE ~(i <= q - 1)
          <5>1. /\ i - (q - 1) \in 1..Len(w) /\ (q - 1) + (i - (q - 1)) = i
                /\ q + (i - (q - 1)) - 1 = i
            BY <1>2, <2>2, <2>3, <4>2
          <5>2. w[i - (q - 1)] = s[i]
            BY <2>3, <5>1
          <5> QED
            BY <3>2, <5>1, <5>2
        <4> QED
          BY <4>1, <4>2
      <3>4. u = sp \o w
        BY <3>1, <3>2, <3>3, SeqEqual
      <3> QED
        BY <3>4 DEF u
    <2>8. Joined(s, sp, w, Behind(s, r - 1))
      BY <2>5, <2>7 DEF Joined
    <2> QED
      BY <1>4, <1>5, <2>3, <2>4, <2>5, <2>6, <2>8
  <1>9. q > Len(s) \/ q <= Len(s)
    BY <1>1, <1>2
  <1> QED
    BY <1>6, <1>7, <1>8, <1>9

-----------------------------------------------------------------------------
(* What is read: words, the last parameter anything, and never too many.   *)
Shape(p, n, S) == /\ p \in Seq(Seq(S)) /\ Len(p) <= MaxParams - n
                  /\ \A i \in 1..Len(p) - 1 : AWord(p[i])

(* A run of characters between spaces, as a command is.                    *)
Bare(w) == w # <<>> /\ \A i \in 1..Len(w) : ~IsSpace(w[i])

LEMMA Downwards ==
  ASSUME NEW T, \A n \in 0..MaxParams : (~Enough(n) => n + 1 \in T) => n \in T
  PROVE  \A n \in 0..MaxParams : n \in T
  <1> DEFINE U == {m \in Nat : m <= MaxParams => MaxParams - m \in T}
  <1>1. MaxParams \in Nat
    BY ParserAssumption
  <1>2. 0 \in U
    <2>1. MaxParams \in 0..MaxParams /\ Enough(MaxParams) /\ MaxParams - 0 = MaxParams
      BY <1>1 DEF Enough
    <2> QED
      BY <2>1
  <1>3. ASSUME NEW m \in Nat, m \in U PROVE m + 1 \in U
    <2>1. ASSUME m + 1 <= MaxParams PROVE MaxParams - (m + 1) \in T
      <3>1. /\ MaxParams - (m + 1) \in 0..MaxParams /\ m <= MaxParams
            /\ (MaxParams - (m + 1)) + 1 = MaxParams - m
        BY <1>1, <2>1
      <3>2. MaxParams - m \in T
        BY <1>3, <3>1
      <3> QED
        BY <3>1, <3>2
    <2> QED
      BY <2>1
  <1> HIDE DEF U
  <1>4. Nat \subseteq U
    BY <1>2, <1>3, SetInduction
  <1>5. ASSUME NEW n \in 0..MaxParams PROVE n \in T
    <2>1. MaxParams - n \in U /\ MaxParams - n <= MaxParams
          /\ MaxParams - (MaxParams - n) = n
      BY <1>1, <1>4
    <2> QED
      BY <2>1 DEF U
  <1> QED
    BY <1>5

LEMMA Prepend ==
  ASSUME NEW S, NEW x \in S, NEW t \in Seq(S)
  PROVE  /\ <<x>> \in Seq(S) /\ Len(<<x>>) = 1 /\ <<x>>[1] = x
         /\ <<x>> \o t \in Seq(S) /\ Len(<<x>> \o t) = Len(t) + 1
         /\ (<<x>> \o t)[1] = x
         /\ \A i \in 1..Len(t) : (<<x>> \o t)[i + 1] = t[i]
  <1> DEFINE y == <<x>>
  <1>1. y \in Seq(S) /\ Len(y) = 1 /\ y[1] = x
    OBVIOUS
  <1> HIDE DEF y
  <1>2. /\ y \o t \in Seq(S) /\ Len(y \o t) = Len(y) + Len(t)
        /\ \A i \in 1..Len(y) : (y \o t)[i] = y[i]
        /\ \A i \in 1..Len(t) : (y \o t)[Len(y) + i] = t[i]
    BY <1>1, JoinShape
  <1>3. 1 \in 1..Len(y) /\ Len(y) + Len(t) = Len(t) + 1
        /\ \A i \in 1..Len(t) : Len(y) + i = i + 1
    BY <1>1
  <1>4. /\ Len(y \o t) = Len(t) + 1 /\ (y \o t)[1] = x
        /\ \A i \in 1..Len(t) : (y \o t)[i + 1] = t[i]
    BY <1>1, <1>2, <1>3
  <1> QED
    BY <1>1, <1>2, <1>4 DEF y

LEMMA ShapeMore ==
  ASSUME NEW S, NEW n \in 0..MaxParams, ~Enough(n), NEW w \in Seq(S), AWord(w),
         NEW more, Shape(more, n + 1, S)
  PROVE  Shape(<<w>> \o more, n, S)
  <1> DEFINE p == <<w>> \o more
  <1>1. more \in Seq(Seq(S)) /\ Len(more) <= MaxParams - (n + 1)
        /\ \A i \in 1..Len(more) - 1 : AWord(more[i])
    BY DEF Shape
  <1>2. /\ p \in Seq(Seq(S)) /\ Len(p) = Len(more) + 1 /\ p[1] = w
        /\ \A i \in 1..Len(more) : p[i + 1] = more[i]
    BY <1>1, Prepend
  <1> HIDE DEF p
  <1>3. Len(p) <= MaxParams - n
    BY <1>1, <1>2, ParserAssumption
  <1>4. ASSUME NEW i \in 1..Len(p) - 1 PROVE AWord(p[i])
    <2>1. CASE i = 1
      BY <1>2, <2>1
    <2>2. CASE i # 1
      <3>1. i - 1 \in 1..Len(more) /\ (i - 1) + 1 = i /\ i - 1 \in 1..Len(more) - 1
        BY <1>1, <1>2, <2>2
      <3> QED
        BY <1>1, <1>2, <3>1
    <2> QED
      BY <2>1, <2>2
  <1>5. Shape(p, n, S)
    BY <1>2, <1>3, <1>4 DEF Shape
  <1> QED
    BY <1>5 DEF p

LEMMA ReadShape ==
  ASSUME NEW S, NEW s \in Seq(S), NEW n \in 0..MaxParams
  PROVE  Shape(Read(s, n), n, S)
  <1> DEFINE T == {m \in 0..MaxParams : \A t \in Seq(S) : Shape(Read(t, m), m, S)}
  <1>1. ASSUME NEW m \in 0..MaxParams, ~Enough(m) => m + 1 \in T PROVE m \in T
    <2> SUFFICES ASSUME NEW t \in Seq(S) PROVE Shape(Read(t, m), m, S)
      OBVIOUS
    <2>1. CASE Spaces(t) \/ Enough(m)
      <3>1. Read(t, m) = <<>>
        BY <2>1, ReadNothing
      <3>2. 0 <= MaxParams - m
        BY ParserAssumption
      <3> QED
        BY <3>1, <3>2 DEF Shape
    <2>2. CASE ~Enough(m)
      <3>1. ASSUME NEW sp \in Seq(S), NEW u \in Seq(S), NEW x \in S,
                   Spaces(sp), IsColon(x), Around(t, sp, x, u)
            PROVE  Shape(Read(t, m), m, S)
        <4>1. Read(t, m) = <<u>>
          BY <2>2, <3>1, ReadText
        <4>2. <<u>> \in Seq(Seq(S)) /\ Len(<<u>>) = 1
          OBVIOUS
        <4>3. 1 <= MaxParams - m
          BY <2>2, ParserAssumption DEF Enough
        <4>4. \A i \in 1..Len(<<u>>) - 1 : FALSE
          BY <4>2
        <4> QED
          BY <4>1, <4>2, <4>3, <4>4 DEF Shape
      <3>2. ASSUME NEW sp \in Seq(S), NEW w \in Seq(S), NEW rest \in Seq(S),
                   Spaces(sp), AWord(w), Bounded(rest), Joined(t, sp, w, rest)
            PROVE  Shape(Read(t, m), m, S)
        <4>1. Read(t, m) = <<w>> \o Read(rest, m + 1)
          BY <2>2, <3>2, ReadWord
        <4>2. Shape(Read(rest, m + 1), m + 1, S)
          BY <1>1, <2>2
        <4>3. Shape(<<w>> \o Read(rest, m + 1), m, S)
          BY <2>2, <3>2, <4>2, ShapeMore
        <4> QED
          BY <4>1, <4>3
      <3> QED
        BY <2>1, <3>1, <3>2, LineForms
    <2> QED
      BY <2>1, <2>2
  <1>2. n \in T
    <2> HIDE DEF T
    <2> QED
      BY <1>1, Downwards
  <1> QED
    BY <1>2

-----------------------------------------------------------------------------
(* Upper case.                                                             *)
Upper(c) == IF c = "a" THEN "A" ELSE c

LEMMA Uppers == \A c : /\ Upper(Upper(c)) = Upper(c)
                       /\ IsSpace(Upper(c)) <=> IsSpace(c)
                       /\ IsColon(Upper(c)) <=> IsColon(c)
  BY DEF Upper, IsSpace, IsColon

LEMMA CharUpper == \A c \in Char : Upper(c) \in Char
  BY DEF Char, Fixed, Upper

LEMMA ToUpperIs ==
  ASSUME NEW s \in Seq(Char)
  PROVE  /\ ToUpper(s) \in Seq(Char) /\ Len(ToUpper(s)) = Len(s)
         /\ \A i \in 1..Len(s) : ToUpper(s)[i] = Upper(s[i])
  <1>1. DOMAIN s = 1..Len(s) /\ Len(s) \in Nat /\ \A i \in 1..Len(s) : s[i] \in Char
    OBVIOUS
  <1>2. ToUpper(s) = [i \in 1..Len(s) |-> Upper(s[i])]
    BY <1>1 DEF ToUpper, Upper
  <1> QED
    BY <1>1, <1>2, CharUpper

LEMMA ToUpperTwice ==
  ASSUME NEW s \in Seq(Char)
  PROVE  ToUpper(ToUpper(s)) = ToUpper(s)
  <1> DEFINE u == ToUpper(s)
             v == ToUpper(u)
  <1>1. /\ u \in Seq(Char) /\ Len(u) = Len(s)
        /\ \A i \in 1..Len(s) : u[i] = Upper(s[i])
    BY ToUpperIs
  <1> HIDE DEF u
  <1>2. /\ v \in Seq(Char) /\ Len(v) = Len(u)
        /\ \A i \in 1..Len(u) : v[i] = Upper(u[i])
    BY <1>1, ToUpperIs
  <1> HIDE DEF v
  <1>3. \A i \in 1..Len(u) : v[i] = u[i]
    BY <1>1, <1>2, Uppers
  <1>4. v = u
    BY <1>1, <1>2, <1>3, SeqEqual
  <1> QED
    BY <1>4 DEF u, v

LEMMA ToUpperConcat ==
  ASSUME NEW s \in Seq(Char), NEW t \in Seq(Char)
  PROVE  ToUpper(s \o t) = ToUpper(s) \o ToUpper(t)
  <1> DEFINE st == s \o t
             u  == ToUpper(s)
             v  == ToUpper(t)
             l  == ToUpper(st)
             r  == u \o v
  <1>1. /\ st \in Seq(Char) /\ Len(st) = Len(s) + Len(t)
        /\ \A i \in 1..Len(s) : st[i] = s[i]
        /\ \A i \in 1..Len(t) : st[Len(s) + i] = t[i]
    BY JoinShape
  <1> HIDE DEF st
  <1>2. /\ u \in Seq(Char) /\ Len(u) = Len(s)
        /\ \A i \in 1..Len(s) : u[i] = Upper(s[i])
    BY ToUpperIs
  <1>3. /\ v \in Seq(Char) /\ Len(v) = Len(t)
        /\ \A i \in 1..Len(t) : v[i] = Upper(t[i])
    BY ToUpperIs
  <1>4. /\ l \in Seq(Char) /\ Len(l) = Len(st)
        /\ \A i \in 1..Len(st) : l[i] = Upper(st[i])
    BY <1>1, ToUpperIs
  <1> HIDE DEF u, v, l
  <1>5. /\ r \in Seq(Char) /\ Len(r) = Len(u) + Len(v)
        /\ \A i \in 1..Len(u) : r[i] = u[i]
        /\ \A i \in 1..Len(v) : r[Len(u) + i] = v[i]
    <2>1. u \in Seq(Char) /\ v \in Seq(Char)
      BY <1>2, <1>3
    <2> QED
      BY <2>1, JoinShape
  <1> HIDE DEF r
  <1>6. Len(l) = Len(r) /\ Len(s) \in Nat /\ Len(t) \in Nat
    BY <1>1, <1>2, <1>3, <1>4, <1>5
  <1>7. ASSUME NEW i \in 1..Len(l) PROVE l[i] = r[i]
    <2>1. CASE i <= Len(s)
      <3>1. i \in 1..Len(s) /\ i \in 1..Len(u) /\ i \in 1..Len(st)
        BY <1>1, <1>2, <1>4, <1>6, <2>1
      <3> QED
        BY <1>1, <1>2, <1>4, <1>5, <3>1
    <2>2. CASE ~(i <= Len(s))
      <3>1. /\ i - Len(s) \in 1..Len(t) /\ i - Len(s) \in 1..Len(v)
            /\ i \in 1..Len(st) /\ Len(s) + (i - Len(s)) = i
            /\ Len(u) + (i - Len(s)) = i
        BY <1>1, <1>2, <1>3, <1>4, <1>6, <2>2
      <3>2. st[i] = t[i - Len(s)] /\ r[i] = v[i - Len(s)]
        BY <1>1, <1>5, <3>1
      <3> QED
        BY <1>3, <1>4, <3>1, <3>2
    <2> QED
      BY <2>1, <2>2
  <1>8. l = r
    BY <1>4, <1>5, <1>6, <1>7, SeqEqual
  <1> QED
    BY <1>8 DEF l, r, u, v, st

LEMMA ToUpperWord ==
  ASSUME NEW s \in Seq(Char), Bare(s)
  PROVE  ToUpper(s) \in Seq(Char) /\ Bare(ToUpper(s))
  <1>1. /\ ToUpper(s) \in Seq(Char) /\ Len(ToUpper(s)) = Len(s)
        /\ \A i \in 1..Len(s) : ToUpper(s)[i] = Upper(s[i])
    BY ToUpperIs
  <1>2. Len(s) # 0
    BY DEF Bare
  <1>3. ToUpper(s) # <<>>
    BY <1>1, <1>2
  <1> QED
    BY <1>1, <1>3, Uppers DEF Bare

-----------------------------------------------------------------------------
(* A line from its parts: a prefix and the spaces behind it or neither, a  *)
(* command, and a rest the parameters are read from.                       *)
Message(cmd, rest) == [command |-> ToUpper(cmd), params |-> Read(rest, 0)]

LEMMA BareWords ==
  ASSUME NEW w
  PROVE  AWord(w) <=> Bare(w) /\ ~IsColon(w[1])
  BY DEF AWord, Bare

StartsAt(line, lead) == CommandStart(line) = Len(lead) + 1

LEMMA CommandAt ==
  ASSUME NEW S, NEW lead \in Seq(S), NEW cmd \in Seq(S), NEW rest \in Seq(S),
         NEW line, Joined(line, lead, cmd, rest), Bare(cmd), Bounded(rest),
         StartsAt(line, lead)
  PROVE  Parse(line) = Message(cmd, rest)
  <1> DEFINE q == Len(lead) + 1
             r == Len(lead) + Len(cmd) + 1
  <1>1. /\ line \in Seq(S) /\ Len(line) = Len(lead) + Len(cmd) + Len(rest)
        /\ \A i \in 1..Len(lead) : line[i] = lead[i]
        /\ \A i \in 1..Len(cmd) : line[Len(lead) + i] = cmd[i]
        /\ \A i \in 1..Len(rest) : line[Len(lead) + Len(cmd) + i] = rest[i]
        /\ SubSeq(line, Len(lead) + 1, Len(lead) + Len(cmd)) = cmd
        /\ Behind(line, Len(lead) + Len(cmd)) = rest
    BY ThreeParts
  <1>2. /\ q \in 1..Len(line) /\ r \in q..Len(line) + 1 /\ r # q
        /\ r - 1 = Len(lead) + Len(cmd)
    BY <1>1 DEF Bare
  <1>3. \A i \in q..r - 1 : ~IsSpace(line[i])
    <2> SUFFICES ASSUME NEW i \in q..r - 1 PROVE ~IsSpace(line[i])
      OBVIOUS
    <2>1. i - Len(lead) \in 1..Len(cmd) /\ Len(lead) + (i - Len(lead)) = i
      BY <1>1, <1>2
    <2>2. line[i] = cmd[i - Len(lead)]
      BY <1>1, <2>1
    <2> QED
      BY <2>1, <2>2 DEF Bare
  <1>4. r <= Len(line) => IsSpace(line[r])
    <2> SUFFICES ASSUME r <= Len(line) PROVE IsSpace(line[r])
      OBVIOUS
    <2>1. 1 \in 1..Len(rest)
      BY <1>1
    <2>2. line[r] = rest[1]
      BY <1>1, <2>1
    <2> QED
      BY <2>1, <2>2 DEF Bounded
  <1>5. SubSeq(line, q, r - 1) = cmd /\ Behind(line, r - 1) = rest
    BY <1>1, <1>2
  <1>6. CommandStart(line) = q
    BY DEF StartsAt
  <1> HIDE DEF q, r
  <1>7. SpaceFrom(line, q) = r
    <2>1. line \in Seq(S) /\ q \in 1..Len(line) + 1
      BY <1>1, <1>2
    <2> QED
      BY <1>2, <1>3, <1>4, <2>1, SpaceAt
  <1>8. Params(line, r) = Read(rest, 0)
    <2>1. line \in Seq(S) /\ r \in 1..Len(line) + 1 /\ 0 \in 0..MaxParams
      BY <1>1, <1>2, ParserAssumption
    <2>2. Given(line)[0][r] = Read(Behind(line, r - 1), 0)
      BY <2>1, ReadBehind
    <2>3. Params(line, r) = Given(line)[0][r]
      BY GivenIs
    <2> QED
      BY <1>5, <2>2, <2>3
  <1> QED
    BY <1>2, <1>5, <1>6, <1>7, <1>8 DEF Parse, Message

(* A line without a prefix.                                                *)
LEMMA ParsePlain ==
  ASSUME NEW S, NEW cmd \in Seq(S), NEW rest \in Seq(S), AWord(cmd), Bounded(rest)
  PROVE  Parse(cmd \o rest) = Message(cmd, rest)
  <1> DEFINE line == cmd \o rest
  <1>1. /\ Len(cmd) \in Nat /\ Len(cmd) # 0 /\ 1 \in 1..Len(cmd)
        /\ <<>> \in Seq(S) /\ Len(<<>>) = 0 /\ <<>> \o cmd = cmd
    BY DEF AWord
  <1>2. line[1] = cmd[1]
    BY <1>1, JoinShape
  <1>3. Joined(line, <<>>, cmd, rest)
    BY <1>1 DEF Joined
  <1> HIDE DEF line
  <1>4. ~IsColon(line[1])
    BY <1>2 DEF AWord
  <1>5. CommandStart(line) = 1
    BY <1>4 DEF CommandStart, IsColon
  <1>6. CommandStart(line) = Len(<<>>) + 1
    BY <1>1, <1>5
  <1>7. <<>> \in Seq(S) /\ Bare(cmd)
    BY <1>1, BareWords
  <1>8. Parse(line) = Message(cmd, rest)
    BY <1>3, <1>6, <1>7, CommandAt DEF StartsAt
  <1> QED
    BY <1>8 DEF line

(* A line with a prefix: pre, spaces.                                      *)
LEMMA ParsePrefixed ==
  ASSUME NEW S, NEW pre \in Seq(S), NEW sp \in Seq(S), NEW cmd \in Seq(S),
         NEW rest \in Seq(S), Bare(pre), IsColon(pre[1]), Spaces(sp), sp # <<>>,
         Bare(cmd), Bounded(rest), NEW line, Joined(line, pre \o sp, cmd, rest)
  PROVE  Parse(line) = Message(cmd, rest)
  <1> DEFINE lead == pre \o sp
             p == Len(pre) + 1
             q == Len(lead) + 1
  <1>1. /\ lead \in Seq(S) /\ Len(lead) = Len(pre) + Len(sp)
        /\ \A i \in 1..Len(pre) : lead[i] = pre[i]
        /\ \A i \in 1..Len(sp) : lead[Len(pre) + i] = sp[i]
    BY JoinShape
  <1>2. Joined(line, lead, cmd, rest)
    OBVIOUS
  <1> HIDE DEF lead
  <1>3. /\ line \in Seq(S) /\ Len(line) = Len(lead) + Len(cmd) + Len(rest)
        /\ \A i \in 1..Len(lead) : line[i] = lead[i]
        /\ \A i \in 1..Len(cmd) : line[Len(lead) + i] = cmd[i]
    <2>1. lead \in Seq(S)
      BY <1>1
    <2>2. /\ line \in Seq(S) /\ Len(line) = Len(lead) + Len(cmd) + Len(rest)
          /\ \A i \in 1..Len(lead) : line[i] = lead[i]
          /\ \A i \in 1..Len(cmd) : line[Len(lead) + i] = cmd[i]
          /\ \A i \in 1..Len(rest) : line[Len(lead) + Len(cmd) + i] = rest[i]
          /\ SubSeq(line, Len(lead) + 1, Len(lead) + Len(cmd)) = cmd
          /\ Behind(line, Len(lead) + Len(cmd)) = rest
      BY <1>2, <2>1, ThreeParts
    <2> QED
      BY <2>2
  <1>4. Len(pre) \in Nat \ {0} /\ Len(sp) \in Nat \ {0} /\ Len(cmd) \in Nat \ {0}
        /\ Len(rest) \in Nat
    BY DEF Bare
  <1>5. /\ 1 \in 1..Len(line) + 1 /\ p \in 1..Len(line) + 1 /\ q \in p..Len(line) + 1
        /\ 1 \in 1..Len(pre) /\ 1 \in 1..Len(lead) /\ 1 \in 1..Len(sp) /\ 1 \in 1..Len(cmd)
        /\ p \in 1..Len(lead)
    BY <1>1, <1>3, <1>4
  <1>6. \A i \in 1..p - 1 : ~IsSpace(line[i])
    BY <1>1, <1>3, <1>4 DEF Bare
  <1>7. IsSpace(line[p])
    BY <1>1, <1>3, <1>5 DEF Spaces
  <1>8. \A i \in p..q - 1 : IsSpace(line[i])
    <2> SUFFICES ASSUME NEW i \in p..q - 1 PROVE IsSpace(line[i])
      OBVIOUS
    <2>1. /\ i - Len(pre) \in 1..Len(sp) /\ Len(pre) + (i - Len(pre)) = i
          /\ i \in 1..Len(lead)
      BY <1>1, <1>4
    <2>2. line[i] = lead[i] /\ lead[i] = sp[i - Len(pre)]
      BY <1>1, <1>3, <2>1
    <2> QED
      BY <2>1, <2>2 DEF Spaces
  <1>9. ~IsSpace(line[q])
    BY <1>3, <1>5 DEF Bare
  <1>10. IsColon(line[1]) /\ line # <<>>
    <2>1. line[1] = pre[1]
      BY <1>1, <1>3, <1>5
    <2>2. Len(line) # 0
      BY <1>1, <1>3, <1>4
    <2> QED
      BY <2>1, <2>2
  <1> HIDE DEF p, q
  <1>11. SpaceFrom(line, 1) = p
    <2>1. line \in Seq(S) /\ 1 \in 1..Len(line) + 1 /\ p \in 1..Len(line) + 1
      BY <1>3, <1>5
    <2> QED
      BY <1>6, <1>7, <2>1, SpaceAt
  <1>12. WordFrom(line, p) = q
    <2>1. line \in Seq(S) /\ p \in 1..Len(line) + 1
      BY <1>3, <1>5
    <2> QED
      BY <1>5, <1>8, <1>9, <2>1, WordAt
  <1>13. CommandStart(line) = Len(lead) + 1
    BY <1>10, <1>11, <1>12 DEF CommandStart, IsColon, q
  <1> QED
    BY <1>1, <1>2, <1>13, CommandAt DEF StartsAt

(* What a line that parses is made of.                                     *)
LEMMA ParseParts ==
  ASSUME NEW S, NEW line \in Seq(S), Parse(line) # NoMessage
  PROVE  \E cmd, rest \in Seq(S) :
           /\ Bare(cmd) /\ Bounded(rest) /\ Parse(line) = Message(cmd, rest)
           /\ ~IsColon(line[1]) => line = cmd \o rest
  <1> DEFINE q == CommandStart(line)
             r == SpaceFrom(line, q)
             cmd == SubSeq(line, q, r - 1)
             rest == Behind(line, r - 1)
  <1>1. q \in 1..Len(line) + 1
    <2>1. 1 \in 1..Len(line) + 1
      OBVIOUS
    <2>2. SpaceFrom(line, 1) \in 1..Len(line) + 1
      BY <2>1, SpaceIs
    <2>3. WordFrom(line, SpaceFrom(line, 1)) \in SpaceFrom(line, 1)..Len(line) + 1
      BY <2>2, WordIs
    <2>4. WordFrom(line, SpaceFrom(line, 1)) \in 1..Len(line) + 1
      BY <2>2, <2>3
    <2> QED
      BY <2>1, <2>4 DEF CommandStart
  <1>2. /\ r \in q..Len(line) + 1
        /\ \A i \in q..r - 1 : ~IsSpace(line[i])
        /\ r <= Len(line) => IsSpace(line[r])
    BY <1>1, SpaceIs
  <1>3. ~IsColon(line[1]) => q = 1
    BY DEF CommandStart, IsColon
  <1>4. r # q /\ Parse(line) = [command |-> ToUpper(cmd), params |-> Params(line, r)]
    BY DEF Parse
  <1> HIDE DEF q, r
  <1>5. /\ q \in 1..Len(line) + 1 /\ r - 1 \in 0..Len(line) /\ q <= r - 1
        /\ r \in 1..Len(line) + 1 /\ (r - 1) - q + 1 \in Nat \ {0}
        /\ Len(line) \in Nat /\ (r - 1) + 1 = r
    BY <1>1, <1>2, <1>4
  <1>6. /\ cmd \in Seq(S) /\ Len(cmd) = (r - 1) - q + 1
        /\ \A i \in 1..(r - 1) - q + 1 : cmd[i] = line[q + i - 1]
    BY <1>5, Piece
  <1>7. /\ rest \in Seq(S) /\ Len(rest) = Len(line) - (r - 1)
        /\ \A i \in 1..Len(rest) : rest[i] = line[(r - 1) + i]
    BY <1>5, BehindShape
  <1>8. q = 1 => line = cmd \o rest
    <2>1. r - 1 \in 0..Len(line)
      BY <1>5
    <2>2. line = SubSeq(line, 1, r - 1) \o rest
      BY <2>1, SplitBehind
    <2> QED
      BY <2>2
  <1> HIDE DEF cmd
  <1>9. Bare(cmd)
    <2>1. cmd # <<>>
      BY <1>5, <1>6
    <2>2. ASSUME NEW i \in 1..Len(cmd) PROVE ~IsSpace(cmd[i])
      <3>1. q + i - 1 \in q..r - 1 /\ cmd[i] = line[q + i - 1]
        BY <1>5, <1>6
      <3> QED
        BY <1>2, <3>1
    <2> QED
      BY <2>1, <2>2 DEF Bare
  <1>10. Params(line, r) = Read(rest, 0)
    <2>1. r \in 1..Len(line) + 1 /\ 0 \in 0..MaxParams
      BY <1>5, ParserAssumption
    <2>2. Given(line)[0][r] = Read(Behind(line, r - 1), 0)
      BY <2>1, ReadBehind
    <2>3. Params(line, r) = Given(line)[0][r]
      BY GivenIs
    <2> QED
      BY <2>2, <2>3
  <1> HIDE DEF rest
  <1>11. Bounded(rest)
    <2>1. CASE r <= Len(line)
      <3>1. 1 \in 1..Len(rest)
        BY <1>5, <1>7, <2>1
      <3>2. rest[1] = line[r]
        BY <1>5, <1>7, <3>1
      <3> QED
        BY <1>2, <2>1, <3>2 DEF Bounded
    <2>2. CASE ~(r <= Len(line))
      <3>1. Len(rest) = 0
        <4>1. Len(rest) = Len(line) - (r - 1)
          BY <1>7
        <4>2. r = Len(line) + 1 /\ Len(line) \in Nat
          BY <1>5, <2>2
        <4> QED
          BY <4>1, <4>2
      <3>2. rest = <<>>
        BY <1>7, <3>1
      <3> QED
        BY <3>2 DEF Bounded
    <2> QED
      BY <2>1, <2>2
  <1>12. Parse(line) = Message(cmd, rest)
    BY <1>4, <1>10 DEF Message
  <1>13. ~IsColon(line[1]) => line = cmd \o rest
    BY <1>3, <1>8
  <1> QED
    BY <1>6, <1>7, <1>9, <1>11, <1>12, <1>13

-----------------------------------------------------------------------------
(* What a word and a text of a reply are to the parser.                    *)
Blank == <<" ">>

LEMMA CharsAre ==
  /\ " " \in Char /\ ":" \in Char /\ "\r" \in Char /\ "\n" \in Char
  /\ IsSpace(" ") /\ IsColon(":")
  BY DEF Char, Fixed, IsSpace, IsColon

LEMMA BlankIs ==
  /\ Blank \in Seq(Char) /\ Len(Blank) = 1 /\ Spaces(Blank) /\ IsSpace(Blank[1])
  /\ Blank # <<>>
  <1> DEFINE b == " "
  <1>1. b \in Char /\ IsSpace(b)
    BY CharsAre
  <1>2. Blank = <<b>>
    BY DEF Blank
  <1> HIDE DEF b
  <1>3. Blank \in Seq(Char) /\ Len(Blank) = 1 /\ Blank[1] = b
    BY <1>1, <1>2
  <1> QED
    BY <1>1, <1>3 DEF Spaces

LEMMA Two ==
  ASSUME NEW S, NEW x \in S, NEW y \in S
  PROVE  <<x, y>> = <<x>> \o <<y>>
  <1> DEFINE t == <<y>>
             u == <<x, y>>
  <1>1. t \in Seq(S) /\ Len(t) = 1 /\ t[1] = y
    OBVIOUS
  <1>2. u \in Seq(S) /\ Len(u) = 2 /\ u[1] = x /\ u[2] = y
    OBVIOUS
  <1> HIDE DEF t, u
  <1>3. /\ <<x>> \o t \in Seq(S) /\ Len(<<x>> \o t) = Len(t) + 1
        /\ (<<x>> \o t)[1] = x
        /\ \A i \in 1..Len(t) : (<<x>> \o t)[i + 1] = t[i]
    BY <1>1, Prepend
  <1>4. (<<x>> \o t)[2] = y
    <2>1. 1 \in 1..Len(t) /\ 1 + 1 = 2
      BY <1>1
    <2> QED
      BY <1>1, <1>3, <2>1
  <1>5. \A i \in 1..Len(u) : u[i] = (<<x>> \o t)[i]
    <2>1. \A i \in 1..Len(u) : i = 1 \/ i = 2
      BY <1>2
    <2>2. u[1] = (<<x>> \o t)[1] /\ u[2] = (<<x>> \o t)[2]
      BY <1>2, <1>3, <1>4
    <2> QED
      BY <2>1, <2>2
  <1>6. u = <<x>> \o t
    BY <1>1, <1>2, <1>3, <1>5, SeqEqual
  <1> QED
    BY <1>6 DEF t, u

LEMMA FewOf ==
  ASSUME NEW S, NEW s \in Seq(S)
  PROVE  /\ Len(s) = 0 => s = <<>>
         /\ Len(s) = 1 => s = <<s[1]>> /\ s[1] \in S
         /\ Len(s) = 0 \/ Len(s) = 1 \/ Len(s) > 1
  <1>1. Len(s) \in Nat
    OBVIOUS
  <1>2. Len(s) = 0 => s = <<>>
    OBVIOUS
  <1>3. ASSUME Len(s) = 1 PROVE s = <<s[1]>> /\ s[1] \in S
    <2>1. s[1] \in S
      BY <1>3
    <2> DEFINE x == s[1]
               t == <<x>>
    <2>2. t \in Seq(S) /\ Len(t) = 1 /\ t[1] = x
      BY <2>1
    <2> HIDE DEF t
    <2>3. s = t
      BY <1>3, <2>2, SeqEqual
    <2> QED
      BY <2>1, <2>3 DEF t
  <1>4. Len(s) = 0 \/ Len(s) = 1 \/ Len(s) > 1
    <2> DEFINE n == Len(s)
    <2> HIDE DEF n
    <2>1. n \in Nat => n = 0 \/ n = 1 \/ n > 1
      OBVIOUS
    <2> QED
      BY <1>1, <2>1 DEF n
  <1> QED
    BY <1>2, <1>3, <1>4

LEMMA WordForm ==
  ASSUME NEW w \in Seq(Char)
  PROVE  /\ Word(w) = Blank \o w /\ Word(w) \in Seq(Char)
         /\ Len(Word(w)) = Len(w) + 1 /\ IsSpace(Word(w)[1])
  <1>1. Word(w) = Blank \o w
    BY DEF Word, Blank
  <1>2. /\ Blank \o w \in Seq(Char) /\ Len(Blank \o w) = Len(Blank) + Len(w)
        /\ \A i \in 1..Len(Blank) : (Blank \o w)[i] = Blank[i]
    BY BlankIs, JoinShape
  <1>3. Len(w) \in Nat
    OBVIOUS
  <1> QED
    BY <1>1, <1>2, <1>3, BlankIs

LEMMA TextForm ==
  ASSUME NEW t \in Seq(Char)
  PROVE  /\ Around(Text(t), Blank, ":", t) /\ Text(t) \in Seq(Char)
         /\ IsSpace(Text(t)[1])
  <1>1. <<" ", ":">> = Blank \o <<":">>
    BY CharsAre, Two DEF Blank
  <1>2. Around(Text(t), Blank, ":", t)
    BY <1>1 DEF Around, Text
  <1> DEFINE c == ":"
             x == Text(t)
  <1>3. c \in Char /\ Around(x, Blank, c, t)
    BY <1>2, CharsAre
  <1> HIDE DEF c, x
  <1>4. x \in Seq(Char) /\ \A i \in 1..Len(Blank) : x[i] = Blank[i]
    BY <1>3, BlankIs, AroundShape
  <1>5. x \in Seq(Char) /\ IsSpace(x[1])
    BY <1>4, BlankIs
  <1> QED
    BY <1>2, <1>5 DEF x

LEMMA WordThen ==
  ASSUME NEW w \in Seq(Char), NEW rest \in Seq(Char)
  PROVE  /\ Word(w) \o rest \in Seq(Char) /\ Bounded(Word(w) \o rest)
         /\ Joined(Word(w) \o rest, Blank, w, rest)
  <1> DEFINE x == Word(w)
  <1>1. x \in Seq(Char) /\ Len(x) = Len(w) + 1 /\ IsSpace(x[1]) /\ x = Blank \o w
    BY WordForm
  <1> HIDE DEF x
  <1>2. 1 \in 1..Len(x)
    BY <1>1
  <1>3. x \o rest \in Seq(Char) /\ (x \o rest)[1] = x[1]
    BY <1>1, <1>2, JoinShape
  <1>4. Bounded(x \o rest)
    BY <1>1, <1>3 DEF Bounded
  <1> QED
    BY <1>1, <1>3, <1>4 DEF Joined, x

LEMMA ReadAWord ==
  ASSUME NEW w \in Seq(Char), NEW rest \in Seq(Char), AWord(w), Bounded(rest),
         NEW n \in 0..MaxParams, ~Enough(n)
  PROVE  Read(Word(w) \o rest, n) = <<w>> \o Read(rest, n + 1)
  <1> DEFINE s == Word(w) \o rest
  <1>1. Joined(s, Blank, w, rest)
    BY WordThen
  <1> HIDE DEF s
  <1>2. Read(s, n) = <<w>> \o Read(rest, n + 1)
    BY <1>1, BlankIs, ReadWord
  <1> QED
    BY <1>2 DEF s

LEMMA ReadAText ==
  ASSUME NEW t \in Seq(Char), NEW n \in 0..MaxParams, ~Enough(n)
  PROVE  Read(Text(t), n) = <<t>>
  <1> DEFINE c == ":"
             s == Text(t)
  <1>1. Around(s, Blank, c, t) /\ c \in Char /\ IsColon(c)
    BY TextForm, CharsAre
  <1> HIDE DEF c, s
  <1>2. Read(s, n) = <<t>>
    BY <1>1, BlankIs, ReadText
  <1> QED
    BY <1>2 DEF s

-----------------------------------------------------------------------------
(* Parameters written with single spaces and a colon read as they were.    *)
AsWritten(p, k) == IF k = Len(p) THEN Text(p[k]) ELSE Word(p[k])
Written(p) == [k \in DOMAIN p |-> AsWritten(p, k)]

LEMMA BeforeIs ==
  ASSUME NEW p
  PROVE  Before(p) = FlattenSeq(Written(p))
  BY DEF Before, Written, AsWritten, Text, Word

LEMMA WrittenIs ==
  ASSUME NEW p \in Seq(Seq(Char))
  PROVE  /\ Written(p) \in Seq(Seq(Char)) /\ Len(Written(p)) = Len(p)
         /\ \A k \in 1..Len(p) : Written(p)[k] = AsWritten(p, k)
  <1>1. DOMAIN p = 1..Len(p) /\ Len(p) \in Nat /\ \A k \in 1..Len(p) : p[k] \in Seq(Char)
    OBVIOUS
  <1>2. \A k \in 1..Len(p) : AsWritten(p, k) \in Seq(Char)
    BY <1>1, TextForm, WordForm DEF AsWritten
  <1>3. Written(p) = [k \in 1..Len(p) |-> AsWritten(p, k)]
    BY <1>1 DEF Written
  <1> QED
    BY <1>1, <1>2, <1>3

LEMMA BeforeFew ==
  /\ Before(<<>>) = <<>>
  /\ \A t \in Seq(Char) : Before(<<t>>) = Text(t)
  <1>1. Before(<<>>) = <<>>
    <2>1. Written(<<>>) = <<>>
      BY DEF Written
    <2> QED
      BY <2>1, BeforeIs, FlattenNone
  <1>2. ASSUME NEW t \in Seq(Char) PROVE Before(<<t>>) = Text(t)
    <2> DEFINE p == <<t>>
               x == Written(p)
               u == Text(t)
    <2>1. p \in Seq(Seq(Char)) /\ Len(p) = 1 /\ p[1] = t
      OBVIOUS
    <2> HIDE DEF p
    <2>2. x \in Seq(Seq(Char)) /\ Len(x) = 1 /\ x[1] = u
      BY <2>1, WrittenIs DEF AsWritten
    <2>3. u \in Seq(Char)
      BY TextForm
    <2> HIDE DEF x, u
    <2>4. x = <<u>>
      BY <2>2
    <2>5. x = Append(<<>>, u)
      BY <2>4
    <2>6. FlattenSeq(x) = <<>> \o u
      <3>1. <<>> \in Seq(Seq(Char))
        OBVIOUS
      <3>2. FlattenSeq(Append(<<>>, u)) = FlattenSeq(<<>>) \o u
        BY <2>3, <3>1, FlattenAppend
      <3> QED
        BY <2>5, <3>2, FlattenNone
    <2>7. FlattenSeq(x) = u
      BY <2>3, <2>6
    <2> QED
      BY <2>7, BeforeIs DEF x, u, p
  <1> QED
    BY <1>1, <1>2

LEMMA FlattenFirst ==
  ASSUME NEW S, NEW x \in Seq(S), NEW t \in Seq(Seq(S))
  PROVE  FlattenSeq(<<x>> \o t) = x \o FlattenSeq(t)
  <1> DEFINE y == <<x>>
  <1>1. y \in Seq(Seq(S)) /\ y = Append(<<>>, x)
    OBVIOUS
  <1>2. FlattenSeq(y) = x
    <2>1. FlattenSeq(Append(<<>>, x)) = FlattenSeq(<<>>) \o x
      BY FlattenAppend, EmptySeq
    <2>2. <<>> \o x = x
      OBVIOUS
    <2> QED
      BY <1>1, <2>1, <2>2, FlattenNone
  <1> HIDE DEF y
  <1>3. FlattenSeq(y \o t) = FlattenSeq(y) \o FlattenSeq(t)
    BY <1>1, FlattenConcat
  <1> QED
    BY <1>2, <1>3 DEF y

LEMMA BeforeMore ==
  ASSUME NEW p \in Seq(Seq(Char)), Len(p) > 1
  PROVE  Before(p) = Word(p[1]) \o Before(Behind(p, 1))
  <1> DEFINE u == Word(p[1])
             b == Behind(p, 1)
             x == Written(p)
             y == Written(b)
  <1>1. /\ b \in Seq(Seq(Char)) /\ Len(b) = Len(p) - 1
        /\ \A i \in 1..Len(b) : b[i] = p[1 + i]
    <2>1. 1 \in 0..Len(p)
      OBVIOUS
    <2> QED
      BY <2>1, PieceOfEnd
  <1>2. u \in Seq(Char)
    <2>1. p[1] \in Seq(Char)
      OBVIOUS
    <2> QED
      BY <2>1, WordForm
  <1>3. /\ x \in Seq(Seq(Char)) /\ Len(x) = Len(p)
        /\ \A k \in 1..Len(p) : x[k] = AsWritten(p, k)
    BY WrittenIs
  <1> HIDE DEF b
  <1>4. /\ y \in Seq(Seq(Char)) /\ Len(y) = Len(b)
        /\ \A k \in 1..Len(b) : y[k] = AsWritten(b, k)
    BY <1>1, WrittenIs
  <1>5. x[1] = u
    <2>1. 1 \in 1..Len(p) /\ 1 # Len(p)
      <3> DEFINE n == Len(p)
      <3>1. n \in Nat /\ n > 1
        OBVIOUS
      <3> HIDE DEF n
      <3>2. 1 \in 1..n /\ 1 # n
        BY <3>1
      <3> QED
        BY <3>2 DEF n
    <2>2. x[1] = AsWritten(p, 1)
      BY <1>3, <2>1
    <2> QED
      BY <2>1, <2>2 DEF AsWritten
  <1> HIDE DEF x, y, u
  <1>6. /\ <<u>> \o y \in Seq(Seq(Char)) /\ Len(<<u>> \o y) = Len(y) + 1
        /\ (<<u>> \o y)[1] = u
        /\ \A i \in 1..Len(y) : (<<u>> \o y)[i + 1] = y[i]
    BY <1>2, <1>4, Prepend
  <1>7. Len(x) = Len(<<u>> \o y)
    BY <1>1, <1>3, <1>4, <1>6
  <1>8. ASSUME NEW k \in 1..Len(x) PROVE x[k] = (<<u>> \o y)[k]
    <2>1. CASE k = 1
      BY <1>5, <1>6, <2>1
    <2>2. CASE k # 1
      <3>1. /\ k - 1 \in 1..Len(y) /\ k - 1 \in 1..Len(b) /\ (k - 1) + 1 = k
            /\ 1 + (k - 1) = k /\ k \in 1..Len(p) /\ (k - 1 = Len(b) <=> k = Len(p))
        <4>1. Len(b) = Len(p) - 1 /\ Len(x) = Len(p) /\ Len(y) = Len(b)
              /\ Len(p) \in Nat /\ k \in 1..Len(x)
          BY <1>1, <1>3, <1>4
        <4> QED
          BY <2>2, <4>1
      <3>2. b[k - 1] = p[k] /\ (<<u>> \o y)[k] = y[k - 1]
        BY <1>1, <1>6, <3>1
      <3>3. AsWritten(p, k) = AsWritten(b, k - 1)
        BY <3>1, <3>2 DEF AsWritten
      <3> QED
        BY <1>3, <1>4, <3>1, <3>2, <3>3
    <2> QED
      BY <2>1, <2>2
  <1>9. x = <<u>> \o y
    BY <1>3, <1>6, <1>7, <1>8, SeqEqual
  <1>10. FlattenSeq(<<u>> \o y) = u \o FlattenSeq(y)
    BY <1>2, <1>4, FlattenFirst
  <1> QED
    BY <1>9, <1>10, BeforeIs DEF u, x, y, b

LEMMA BeforeBounded ==
  ASSUME NEW p \in Seq(Seq(Char))
  PROVE  Before(p) \in Seq(Char) /\ Bounded(Before(p))
  <1>1. ASSUME NEW q \in Seq(Seq(Char)) PROVE Before(q) \in Seq(Char)
    BY BeforeIs, WrittenIs, FlattenAppend
  <1>2. CASE Len(p) = 0
    <2>1. Before(p) = <<>>
      BY <1>2, FewOf, BeforeFew
    <2> QED
      BY <1>1, <2>1 DEF Bounded
  <1>3. CASE Len(p) = 1
    <2>1. p = <<p[1]>> /\ p[1] \in Seq(Char)
      BY <1>3, FewOf
    <2>2. Before(p) = Text(p[1])
      BY <2>1, BeforeFew
    <2> QED
      BY <2>1, <2>2, TextForm DEF Bounded
  <1>4. CASE Len(p) > 1
    <2>1. p[1] \in Seq(Char) /\ 1 \in 0..Len(p)
      BY <1>4
    <2>2. Behind(p, 1) \in Seq(Seq(Char))
      BY <2>1, PieceOfEnd
    <2>3. Before(p) = Word(p[1]) \o Before(Behind(p, 1))
      BY <1>4, BeforeMore
    <2> QED
      BY <1>1, <2>1, <2>2, <2>3, WordThen
  <1> QED
    BY <1>2, <1>3, <1>4, FewOf

LEMMA ShapeRest ==
  ASSUME NEW S, NEW n \in 0..MaxParams, NEW p, Shape(p, n, S), Len(p) > 0
  PROVE  /\ ~Enough(n) /\ p[1] \in Seq(S)
         /\ Len(p) > 1 => AWord(p[1])
         /\ p = <<p[1]>> \o Behind(p, 1)
         /\ Behind(p, 1) \in Seq(Seq(S))
         /\ Shape(Behind(p, 1), n + 1, S)
  <1> DEFINE b == Behind(p, 1)
             x == p[1]
  <1>1. p \in Seq(Seq(S)) /\ Len(p) <= MaxParams - n /\ Len(p) \in Nat /\ MaxParams \in Nat
        /\ \A i \in 1..Len(p) - 1 : AWord(p[i])
    BY ParserAssumption DEF Shape
  <1>2. ~Enough(n) /\ x \in Seq(S)
    BY <1>1 DEF Enough
  <1>3. Len(p) > 1 => AWord(x)
    BY <1>1
  <1>4. /\ b \in Seq(Seq(S)) /\ Len(b) = Len(p) - 1
        /\ \A i \in 1..Len(b) : b[i] = p[1 + i]
    <2>1. 1 \in 0..Len(p)
      BY <1>1
    <2> QED
      BY <1>1, <2>1, PieceOfEnd
  <1> HIDE DEF b, x
  <1>5. /\ <<x>> \o b \in Seq(Seq(S)) /\ Len(<<x>> \o b) = Len(b) + 1
        /\ (<<x>> \o b)[1] = x
        /\ \A i \in 1..Len(b) : (<<x>> \o b)[i + 1] = b[i]
    BY <1>2, <1>4, Prepend
  <1>6. ASSUME NEW k \in 1..Len(p) PROVE p[k] = (<<x>> \o b)[k]
    <2>1. CASE k = 1
      BY <1>5, <2>1 DEF x
    <2>2. CASE k # 1
      <3>1. k - 1 \in 1..Len(b) /\ (k - 1) + 1 = k /\ 1 + (k - 1) = k
        BY <1>1, <1>4, <2>2
      <3> QED
        BY <1>4, <1>5, <3>1
    <2> QED
      BY <2>1, <2>2
  <1>7. p = <<x>> \o b
    <2>1. Len(p) = Len(<<x>> \o b)
      BY <1>1, <1>4, <1>5
    <2> QED
      BY <1>1, <1>5, <1>6, <2>1, SeqEqual
  <1>8. Shape(b, n + 1, S)
    <2>1. Len(b) <= MaxParams - (n + 1)
      BY <1>1, <1>4
    <2>2. ASSUME NEW i \in 1..Len(b) - 1 PROVE AWord(b[i])
      <3>1. 1 + i \in 1..Len(p) - 1 /\ i \in 1..Len(b)
        BY <1>1, <1>4
      <3> QED
        BY <1>1, <1>4, <3>1
    <2> QED
      BY <1>4, <2>1, <2>2 DEF Shape
  <1> QED
    BY <1>2, <1>3, <1>4, <1>7, <1>8 DEF b, x

LEMMA ReadBefore ==
  ASSUME NEW n \in 0..MaxParams, NEW p, Shape(p, n, Char)
  PROVE  Read(Before(p), n) = p
  <1> DEFINE T == {m \in 0..MaxParams : \A t \in Seq(Seq(Char)) :
                     Shape(t, m, Char) => Read(Before(t), m) = t}
  <1>1. ASSUME NEW m \in 0..MaxParams, ~Enough(m) => m + 1 \in T PROVE m \in T
    <2> SUFFICES ASSUME NEW t \in Seq(Seq(Char)), Shape(t, m, Char)
                 PROVE  Read(Before(t), m) = t
      OBVIOUS
    <2>1. CASE Len(t) = 0
      <3>1. t = <<>>
        BY <2>1
      <3>2. Before(t) = <<>> /\ <<>> \in Seq(Char) /\ Spaces(<<>>)
        BY <3>1, BeforeFew DEF Spaces
      <3> QED
        BY <3>1, <3>2, ReadNothing
    <2>2. CASE Len(t) = 1
      <3>1. t = <<t[1]>> /\ t[1] \in Seq(Char)
        BY <2>2, FewOf
      <3>2. Before(t) = Text(t[1])
        BY <3>1, BeforeFew
      <3>3. ~Enough(m)
        BY <2>2, ShapeRest
      <3> QED
        BY <3>1, <3>2, <3>3, ReadAText
    <2>3. CASE Len(t) > 1
      <3> DEFINE x == t[1]
                 b == Behind(t, 1)
      <3>1. /\ ~Enough(m) /\ x \in Seq(Char) /\ AWord(x) /\ t = <<x>> \o b
            /\ b \in Seq(Seq(Char)) /\ Shape(b, m + 1, Char)
        BY <2>3, ShapeRest
      <3>2. Before(t) = Word(x) \o Before(b)
        BY <2>3, BeforeMore
      <3> HIDE DEF x, b
      <3>3. Read(Before(b), m + 1) = b
        BY <1>1, <3>1
      <3>4. Before(b) \in Seq(Char) /\ Bounded(Before(b))
        BY <3>1, BeforeBounded
      <3>5. Read(Word(x) \o Before(b), m) = <<x>> \o Read(Before(b), m + 1)
        BY <3>1, <3>4, ReadAWord
      <3> QED
        BY <3>1, <3>2, <3>3, <3>5
    <2> QED
      BY <2>1, <2>2, <2>3, FewOf
  <1>2. n \in T
    <2> HIDE DEF T
    <2> QED
      BY <1>1, Downwards
  <1>3. p \in Seq(Seq(Char))
    BY DEF Shape
  <1> QED
    BY <1>2, <1>3

-----------------------------------------------------------------------------
(* A message sent again in the form of a server parses to the same message.*)
LEMMA RenderParses ==
  ASSUME NEW cmd \in Seq(Char), Bare(cmd), NEW p, Shape(p, 0, Char)
  PROVE  Parse(Render([command |-> cmd, params |-> p]))
           = [command |-> ToUpper(cmd), params |-> p]
  <1> DEFINE c    == ":"
             pre  == <<c>>
             rest == Before(p)
             line == Render([command |-> cmd, params |-> p])
  <1>1. line = (<<c, " ">> \o cmd) \o rest
    BY DEF Render
  <1>2. c \in Char /\ IsColon(c) /\ ~IsSpace(c)
    BY CharsAre, Colons
  <1>3. <<c, " ">> = pre \o Blank
    <2>1. <<c, " ">> = <<c>> \o <<" ">>
      BY <1>2, CharsAre, Two
    <2> QED
      BY <2>1 DEF Blank
  <1> HIDE DEF c, line, rest
  <1>4. Joined(line, pre \o Blank, cmd, rest)
    BY <1>1, <1>3 DEF Joined
  <1>5. pre \in Seq(Char) /\ Len(pre) = 1 /\ pre[1] = c /\ pre # <<>>
    BY <1>2
  <1> HIDE DEF pre
  <1>6. Bare(pre) /\ IsColon(pre[1])
    BY <1>2, <1>5 DEF Bare
  <1>7. p \in Seq(Seq(Char))
    BY DEF Shape
  <1>8. rest \in Seq(Char) /\ Bounded(rest)
    BY <1>7, BeforeBounded DEF rest
  <1>9. Parse(line) = Message(cmd, rest)
    BY <1>4, <1>5, <1>6, <1>8, BlankIs, ParsePrefixed
  <1>10. Read(rest, 0) = p
    <2>1. 0 \in 0..MaxParams
      BY ParserAssumption
    <2> QED
      BY <2>1, ReadBefore DEF rest
  <1> QED
    BY <1>9, <1>10 DEF Message, line

(* What a dispatched message is made of.                                   *)
LEMMA DispatchedIs ==
  ASSUME InputInv, NEW k \in DOMAIN dispatched
  PROVE  \E cmd, rest \in Seq(Char) :
           Bare(cmd) /\ Bounded(rest) /\ dispatched[k] = Message(cmd, rest)
  <1>1. dispatched[k] \in Messages
    BY DEF InputInv
  <1>2. PICK line \in Seq(Char) : /\ dispatched[k] = Parse(line)
                                  /\ Parse(line).command # <<>>
    BY <1>1 DEF Messages
  <1>3. Parse(line) # NoMessage
    BY <1>2 DEF NoMessage
  <1> QED
    BY <1>2, <1>3, ParseParts

LEMMA InputReparses == InputInv => Reparses
  <1> SUFFICES ASSUME InputInv, NEW k \in DOMAIN dispatched
               PROVE  Parse(Render(dispatched[k])) = dispatched[k]
    BY DEF Reparses
  <1>1. PICK cmd \in Seq(Char), rest \in Seq(Char) :
          Bare(cmd) /\ Bounded(rest) /\ dispatched[k] = Message(cmd, rest)
    BY DispatchedIs
  <1> DEFINE u == ToUpper(cmd)
             p == Read(rest, 0)
  <1>2. u \in Seq(Char) /\ Bare(u) /\ ToUpper(u) = u
    BY <1>1, ToUpperWord, ToUpperTwice
  <1>3. Shape(p, 0, Char)
    <2>1. 0 \in 0..MaxParams
      BY ParserAssumption
    <2> QED
      BY <2>1, ReadShape
  <1>4. dispatched[k] = [command |-> u, params |-> p]
    BY <1>1 DEF Message
  <1> HIDE DEF u, p
  <1>5. Parse(Render([command |-> u, params |-> p]))
          = [command |-> ToUpper(u), params |-> p]
    BY <1>2, <1>3, RenderParses
  <1> QED
    BY <1>2, <1>4, <1>5

(* What a message says does not depend on how its line was written: the    *)
(* parser reads back what it read when a message is written with a prefix, *)
(* single spaces and a colon before the last parameter (Parser::parse).    *)
THEOREM ParsedTwice == Spec => []Reparses
  BY InputInvariant, InputReparses, PTL

-----------------------------------------------------------------------------
(* Induction over the sequences of a set's elements.                       *)
LEMMA SeqInduction ==
  ASSUME NEW S, NEW T, <<>> \in T,
         \A u \in Seq(S) : \A x \in S : u \in T => u \o <<x>> \in T
  PROVE  Seq(S) \subseteq T
  <1> SUFFICES ASSUME NEW s \in Seq(S) PROVE s \in T
    OBVIOUS
  <1> DEFINE U == {n \in Nat : n <= Len(s) => SubSeq(s, 1, n) \in T}
  <1>1. SubSeq(s, 1, 0) = <<>> /\ SubSeq(s, 1, Len(s)) = s
    OBVIOUS
  <1>2. 0 \in U
    BY <1>1
  <1>3. ASSUME NEW n \in Nat, n \in U PROVE n + 1 \in U
    <2> SUFFICES ASSUME n + 1 <= Len(s) PROVE SubSeq(s, 1, n + 1) \in T
      OBVIOUS
    <2>1. /\ SubSeq(s, 1, n) \in Seq(S) /\ s[n + 1] \in S
          /\ SubSeq(s, 1, n + 1) = SubSeq(s, 1, n) \o <<s[n + 1]>>
      BY Longer
    <2>2. n <= Len(s)
      OBVIOUS
    <2>3. SubSeq(s, 1, n) \in T
      BY <1>3, <2>2
    <2> QED
      BY <2>1, <2>3
  <1> HIDE DEF U
  <1>4. Nat \subseteq U
    BY <1>2, <1>3, SetInduction
  <1>5. Len(s) \in U /\ Len(s) <= Len(s)
    BY <1>4
  <1> QED
    BY <1>1, <1>5 DEF U

-----------------------------------------------------------------------------
(* Nothing but spaces and colons is dropped.                               *)
Mark(c) == IsSpace(c) \/ IsColon(c)
Core(c) == IF Mark(c) THEN <<>> ELSE <<Upper(c)>>

LEMMA EssenceConcat ==
  ASSUME NEW s \in Seq(Char), NEW t \in Seq(Char)
  PROVE  /\ Essence(s) \in Seq(Char)
         /\ Essence(s \o t) = Essence(s) \o Essence(t)
  <1> DEFINE chars == {" ", ":"}
             u == Without(s, chars)
             v == Without(t, chars)
  <1>1. u \in Seq(Char) /\ v \in Seq(Char) /\ Without(s \o t, chars) = u \o v
    <2> HIDE DEF chars
    <2>1. u \in Seq(Char)
      BY WithoutType
    <2>2. v \in Seq(Char)
      BY WithoutType
    <2>3. Without(s \o t, chars) = u \o v
      BY WithoutConcat
    <2> QED
      BY <2>1, <2>2, <2>3
  <1>2. Essence(s) = ToUpper(u) /\ Essence(t) = ToUpper(v)
        /\ Essence(s \o t) = ToUpper(u \o v)
    BY <1>1 DEF Essence
  <1> HIDE DEF u, v
  <1>3. ToUpper(u \o v) = ToUpper(u) \o ToUpper(v) /\ ToUpper(u) \in Seq(Char)
    BY <1>1, ToUpperConcat, ToUpperIs
  <1> QED
    BY <1>2, <1>3

LEMMA EssenceOne ==
  ASSUME NEW c \in Char
  PROVE  Essence(<<c>>) = Core(c) /\ Essence(<<>>) = <<>>
  <1> DEFINE chars == {" ", ":"}
  <1>1. c \in chars <=> Mark(c)
    BY DEF Mark, IsSpace, IsColon
  <1> HIDE DEF chars
  <1>2. Without(<<c>>, chars) = Kept(c, chars) /\ Without(<<>>, chars) = <<>>
    BY WithoutOne
  <1>3. ToUpper(<<>>) = <<>>
    <2>1. Len(<<>>) = 0 /\ <<>> \in Seq(Char)
      OBVIOUS
    <2>2. ToUpper(<<>>) \in Seq(Char) /\ Len(ToUpper(<<>>)) = 0
      BY <2>1, ToUpperIs
    <2> QED
      BY <2>2, FewOf
  <1>4. ToUpper(<<c>>) = <<Upper(c)>>
    <2> DEFINE x == <<c>>
               u == ToUpper(x)
    <2>1. x \in Seq(Char) /\ Len(x) = 1 /\ x[1] = c
      OBVIOUS
    <2> HIDE DEF x
    <2>2. u \in Seq(Char) /\ Len(u) = 1 /\ u[1] = Upper(c)
      BY <2>1, ToUpperIs
    <2> HIDE DEF u
    <2>3. u = <<u[1]>>
      BY <2>2, FewOf
    <2>4. u = <<Upper(c)>>
      BY <2>2, <2>3
    <2> QED
      BY <2>4 DEF u, x
  <1>5. Essence(<<c>>) = ToUpper(Kept(c, chars)) /\ Essence(<<>>) = <<>>
    BY <1>2, <1>3 DEF Essence, chars
  <1> QED
    BY <1>1, <1>3, <1>4, <1>5 DEF Kept, Core

LEMMA EssenceMore ==
  ASSUME NEW u \in Seq(Char), NEW c \in Char
  PROVE  Essence(u \o <<c>>) = Essence(u) \o Core(c)
  <1> DEFINE x == <<c>>
  <1>1. x \in Seq(Char) /\ Essence(x) = Core(c)
    BY EssenceOne
  <1> HIDE DEF x
  <1>2. Essence(u \o x) = Essence(u) \o Essence(x)
    BY <1>1, EssenceConcat
  <1> QED
    BY <1>1, <1>2 DEF x

LEMMA EssenceSpaces ==
  ASSUME NEW s \in Seq(Char), Spaces(s)
  PROVE  Essence(s) = <<>>
  <1> DEFINE T == {u \in Seq(Char) : Spaces(u) => Essence(u) = <<>>}
  <1>1. <<>> \in T
    <2>1. Essence(<<>>) = <<>>
      BY EssenceOne, CharsAre
    <2> QED
      BY <2>1
  <1>2. ASSUME NEW u \in Seq(Char), NEW x \in Char, u \in T
        PROVE  u \o <<x>> \in T
    <2> DEFINE y == <<x>>
    <2>1. y \in Seq(Char) /\ Len(y) = 1 /\ y[1] = x
      OBVIOUS
    <2> HIDE DEF y
    <2>2. /\ u \o y \in Seq(Char) /\ Len(u \o y) = Len(u) + Len(y)
          /\ \A i \in 1..Len(u) : (u \o y)[i] = u[i]
          /\ \A i \in 1..Len(y) : (u \o y)[Len(u) + i] = y[i]
      <3>1. y \in Seq(Char)
        BY <2>1
      <3> HIDE DEF T
      <3> QED
        BY <3>1, JoinShape
    <2>3. ASSUME Spaces(u \o y) PROVE Essence(u \o y) = <<>>
      <3>1. Len(u) \in Nat /\ 1 \in 1..Len(y) /\ Len(u \o y) = Len(u) + 1
        BY <2>1, <2>2
      <3>2. Spaces(u)
        <4> SUFFICES ASSUME NEW i \in 1..Len(u) PROVE IsSpace(u[i])
          BY DEF Spaces
        <4>1. i \in 1..Len(u \o y)
          BY <3>1
        <4> QED
          BY <2>2, <2>3, <4>1 DEF Spaces
      <3>3. IsSpace(x)
        <4>1. Len(u) + 1 \in 1..Len(u \o y)
          BY <3>1
        <4>2. (u \o y)[Len(u) + 1] = x
          BY <2>1, <2>2, <3>1
        <4> QED
          BY <2>3, <4>1, <4>2 DEF Spaces
      <3>4. Essence(u \o y) = Essence(u) \o Core(x)
        BY EssenceMore DEF y
      <3>5. Core(x) = <<>> /\ Essence(u) = <<>>
        BY <1>2, <3>2, <3>3 DEF Core, Mark
      <3> QED
        BY <3>4, <3>5
    <2> QED
      BY <2>2, <2>3 DEF y
  <1> HIDE DEF T
  <1>3. Seq(Char) \subseteq T
    BY <1>1, <1>2, SeqInduction
  <1> QED
    BY <1>3 DEF T

LEMMA EssenceUpper ==
  ASSUME NEW s \in Seq(Char)
  PROVE  Essence(ToUpper(s)) = Essence(s)
  <1> DEFINE T == {u \in Seq(Char) : Essence(ToUpper(u)) = Essence(u)}
  <1>1. ToUpper(<<>>) = <<>>
    <2>1. Len(<<>>) = 0 /\ <<>> \in Seq(Char)
      OBVIOUS
    <2>2. ToUpper(<<>>) \in Seq(Char) /\ Len(ToUpper(<<>>)) = 0
      BY <2>1, ToUpperIs
    <2> QED
      BY <2>2, FewOf
  <1>2. ASSUME NEW u \in Seq(Char), NEW x \in Char, u \in T
        PROVE  u \o <<x>> \in T
    <2> DEFINE y == <<x>>
               v == ToUpper(u)
               z == ToUpper(y)
               X == Upper(x)
    <2>1. y \in Seq(Char) /\ Len(y) = 1 /\ y[1] = x
      OBVIOUS
    <2> HIDE DEF y
    <2>2. v \in Seq(Char)
      BY ToUpperIs
    <2>3. z \in Seq(Char) /\ Len(z) = 1 /\ z[1] = X /\ X \in Char
      BY <2>1, ToUpperIs, CharUpper
    <2>4. ToUpper(u \o y) = v \o z /\ u \o y \in Seq(Char)
      BY <2>1, ToUpperConcat, JoinShape
    <2>5. Essence(v) = Essence(u)
      BY <1>2
    <2> HIDE DEF v, z
    <2>6. z = <<X>>
      BY <2>3, FewOf
    <2>7. Core(X) = Core(x)
      BY Uppers DEF Core, Mark
    <2> HIDE DEF X
    <2>8. Essence(v \o z) = Essence(v) \o Core(X)
      BY <2>2, <2>3, <2>6, EssenceMore
    <2>9. Essence(u \o y) = Essence(u) \o Core(x)
      BY EssenceMore DEF y
    <2>10. Essence(ToUpper(u \o y)) = Essence(u \o y)
      BY <2>4, <2>5, <2>7, <2>8, <2>9
    <2> QED
      BY <2>4, <2>10 DEF y
  <1>3. <<>> \in T
    BY <1>1
  <1> HIDE DEF T
  <1>4. Seq(Char) \subseteq T
    BY <1>2, <1>3, SeqInduction
  <1> QED
    BY <1>4 DEF T

(* What the parameters p, read from s when n were read before, keep of s.  *)
Begins(a, b) == \E c \in Seq(Char) : b = a \o c
Keeps(p, n, s) ==
  /\ Begins(Essence(FlattenSeq(p)), Essence(s))
  /\ Len(p) < MaxParams - n => Essence(FlattenSeq(p)) = Essence(s)

LEMMA BeginsBehind ==
  ASSUME NEW a \in Seq(Char), NEW b \in Seq(Char), NEW e, Begins(b, e)
  PROVE  Begins(a \o b, a \o e)
  <1>1. PICK c \in Seq(Char) : e = b \o c
    BY DEF Begins
  <1>2. (a \o b) \o c = a \o (b \o c)
    BY ConcatAssociative
  <1> QED
    BY <1>1, <1>2 DEF Begins

LEMMA KeepsText ==
  ASSUME NEW sp \in Seq(Char), NEW x \in Char, NEW t \in Seq(Char), NEW s,
         Around(s, sp, x, t), Spaces(sp), IsColon(x), NEW n
  PROVE  Keeps(<<t>>, n, s)
  <1> DEFINE y == <<x>>
             u == sp \o y
  <1>1. Essence(u) = Essence(sp) \o Core(x)
    BY EssenceMore
  <1>2. Essence(sp) = <<>> /\ Core(x) = <<>>
    BY EssenceSpaces DEF Core, Mark
  <1>3. Essence(u) = <<>>
    BY <1>1, <1>2
  <1>4. y \in Seq(Char)
    OBVIOUS
  <1> HIDE DEF y
  <1>5. u \in Seq(Char) /\ s = u \o t
    BY <1>4, JoinShape DEF Around, y
  <1> HIDE DEF u
  <1>6. Essence(s) = Essence(u) \o Essence(t) /\ Essence(t) \in Seq(Char)
    BY <1>5, EssenceConcat
  <1>7. Essence(s) = Essence(t)
    BY <1>3, <1>6
  <1>8. FlattenSeq(<<t>>) = t
    <2>1. FlattenSeq(Append(<<>>, t)) = FlattenSeq(<<>>) \o t
      BY FlattenAppend, EmptySeq
    <2>2. Append(<<>>, t) = <<t>> /\ <<>> \o t = t
      OBVIOUS
    <2> QED
      BY <2>1, <2>2, FlattenNone
  <1>9. Essence(t) = Essence(t) \o <<>> /\ <<>> \in Seq(Char)
    BY <1>6
  <1> QED
    BY <1>7, <1>8, <1>9 DEF Keeps, Begins

LEMMA KeepsWord ==
  ASSUME NEW sp \in Seq(Char), NEW w \in Seq(Char), NEW rest \in Seq(Char), NEW s,
         Joined(s, sp, w, rest), Spaces(sp), NEW n \in 0..MaxParams,
         NEW q \in Seq(Seq(Char)), Keeps(q, n + 1, rest)
  PROVE  Keeps(<<w>> \o q, n, s)
  <1> DEFINE u == sp \o w
             a == Essence(w)
             b == Essence(FlattenSeq(q))
             e == Essence(rest)
             p == <<w>> \o q
  <1>1. u \in Seq(Char) /\ s = u \o rest
    BY JoinShape DEF Joined
  <1>2. Essence(u) = Essence(sp) \o a /\ Essence(sp) = <<>> /\ a \in Seq(Char)
    BY EssenceConcat, EssenceSpaces
  <1>3. Essence(u) = a
    BY <1>2
  <1> HIDE DEF u
  <1>4. Essence(s) = a \o e /\ e \in Seq(Char)
    BY <1>1, <1>3, EssenceConcat
  <1>5. FlattenSeq(q) \in Seq(Char) /\ FlattenSeq(p) = w \o FlattenSeq(q)
    BY FlattenAppend, FlattenFirst
  <1>6. Essence(FlattenSeq(p)) = a \o b /\ b \in Seq(Char)
    BY <1>5, EssenceConcat
  <1>7. p \in Seq(Seq(Char)) /\ Len(p) = Len(q) + 1
    BY Prepend
  <1>8. Len(p) < MaxParams - n => Len(q) < MaxParams - (n + 1)
    <2>1. Len(q) \in Nat /\ MaxParams \in Nat
      BY ParserAssumption
    <2> QED
      BY <1>7, <2>1
  <1>9. Begins(b, e) /\ (Len(q) < MaxParams - (n + 1) => b = e)
    BY DEF Keeps
  <1> HIDE DEF a, b, e, p
  <1>10. Begins(a \o b, a \o e)
    BY <1>2, <1>6, <1>9, BeginsBehind
  <1>11. Keeps(p, n, s)
    BY <1>4, <1>6, <1>8, <1>9, <1>10 DEF Keeps
  <1> QED
    BY <1>11 DEF p

LEMMA ReadKeeps ==
  ASSUME NEW s \in Seq(Char), NEW n \in 0..MaxParams
  PROVE  Keeps(Read(s, n), n, s)
  <1> DEFINE T == {m \in 0..MaxParams : \A t \in Seq(Char) : Keeps(Read(t, m), m, t)}
  <1>1. ASSUME NEW m \in 0..MaxParams, ~Enough(m) => m + 1 \in T PROVE m \in T
    <2> SUFFICES ASSUME NEW t \in Seq(Char) PROVE Keeps(Read(t, m), m, t)
      OBVIOUS
    <2>1. CASE Spaces(t) \/ Enough(m)
      <3>1. Read(t, m) = <<>> /\ FlattenSeq(<<>>) = <<>>
        BY <2>1, ReadNothing, FlattenNone
      <3>2. Essence(<<>>) = <<>>
        BY EssenceOne, CharsAre
      <3>3. Essence(t) \in Seq(Char)
        BY EssenceConcat
      <3>4. Essence(t) = <<>> \o Essence(t)
        BY <3>3
      <3>5. ASSUME 0 < MaxParams - m PROVE <<>> = Essence(t)
        <4>1. ~Enough(m)
          BY <3>5, ParserAssumption DEF Enough
        <4> QED
          BY <2>1, <4>1, EssenceSpaces
      <3>6. Len(<<>>) = 0
        OBVIOUS
      <3> QED
        BY <3>1, <3>2, <3>3, <3>4, <3>5, <3>6 DEF Keeps, Begins
    <2>2. CASE ~Enough(m)
      <3>1. ASSUME NEW sp \in Seq(Char), NEW u \in Seq(Char), NEW x \in Char,
                   Spaces(sp), IsColon(x), Around(t, sp, x, u)
            PROVE  Keeps(Read(t, m), m, t)
        <4>1. Read(t, m) = <<u>>
          BY <2>2, <3>1, ReadText
        <4>2. Keeps(<<u>>, m, t)
          BY <3>1, KeepsText
        <4> QED
          BY <4>1, <4>2
      <3>2. ASSUME NEW sp \in Seq(Char), NEW w \in Seq(Char), NEW rest \in Seq(Char),
                   Spaces(sp), AWord(w), Bounded(rest), Joined(t, sp, w, rest)
            PROVE  Keeps(Read(t, m), m, t)
        <4> DEFINE q == Read(rest, m + 1)
        <4>1. Read(t, m) = <<w>> \o q
          BY <2>2, <3>2, ReadWord
        <4>2. m + 1 \in 0..MaxParams /\ Keeps(q, m + 1, rest)
          BY <1>1, <2>2
        <4>3. q \in Seq(Seq(Char))
          BY <4>2, ReadShape DEF Shape
        <4> HIDE DEF q
        <4>4. Keeps(<<w>> \o q, m, t)
          BY <3>2, <4>2, <4>3, KeepsWord
        <4> QED
          BY <4>1, <4>4
      <3> QED
        BY <2>1, <3>1, <3>2, LineForms
    <2> QED
      BY <2>1, <2>2
  <1>2. n \in T
    <2> HIDE DEF T
    <2> QED
      BY <1>1, Downwards
  <1> QED
    BY <1>2

LEMMA BeginsIsPrefix ==
  ASSUME NEW a \in Seq(Char), NEW b \in Seq(Char), Begins(a, b)
  PROVE  IsPrefix(a, b)
  <1>1. PICK c \in Seq(Char) : b = a \o c
    BY DEF Begins
  <1>2. SubSeq(b, 1, Len(a)) = a
    BY <1>1, Halves
  <1>3. SubSeq(a, 1, Len(a)) = a
    BY SubSeqFull
  <1>4. Len(a) <= Len(b)
    BY <1>1
  <1> QED
    BY <1>2, <1>3, <1>4 DEF IsPrefix

LEMMA LineKeeps ==
  ASSUME NEW line \in Seq(Char), Parse(line) # NoMessage, ~IsColon(line[1])
  PROVE  LET m    == Parse(line)
             kept == Essence(m.command \o FlattenSeq(m.params))
             all  == Essence(line)
         IN  /\ IsPrefix(kept, all)
             /\ Len(m.params) < MaxParams => kept = all
  <1>1. PICK cmd \in Seq(Char), rest \in Seq(Char) :
          Parse(line) = Message(cmd, rest) /\ line = cmd \o rest
    BY ParseParts
  <1> DEFINE q    == Read(rest, 0)
             u    == ToUpper(cmd)
             f    == FlattenSeq(q)
             a    == Essence(cmd)
             b    == Essence(f)
             e    == Essence(rest)
             kept == Essence(u \o f)
             all  == Essence(line)
  <1>2. 0 \in 0..MaxParams /\ MaxParams - 0 = MaxParams
    BY ParserAssumption
  <1>3. Keeps(q, 0, rest)
    BY <1>2, ReadKeeps
  <1>4. q \in Seq(Seq(Char))
    BY <1>2, ReadShape DEF Shape
  <1>5. u \in Seq(Char) /\ Essence(u) = a
    BY ToUpperIs, EssenceUpper
  <1> HIDE DEF q, u
  <1>6. f \in Seq(Char)
    BY <1>4, FlattenAppend
  <1>7. Begins(b, e) /\ (Len(q) < MaxParams => b = e)
    BY <1>2, <1>3 DEF Keeps
  <1> HIDE DEF f
  <1>8. kept = a \o b /\ a \in Seq(Char) /\ b \in Seq(Char)
    BY <1>5, <1>6, EssenceConcat
  <1>9. all = a \o e /\ e \in Seq(Char)
    BY <1>1, EssenceConcat
  <1> HIDE DEF a, b, e, kept, all
  <1>10. kept \in Seq(Char) /\ all \in Seq(Char)
    BY <1>8, <1>9
  <1>11. Begins(kept, all)
    BY <1>7, <1>8, <1>9, BeginsBehind
  <1>12. IsPrefix(kept, all)
    BY <1>10, <1>11, BeginsIsPrefix
  <1>13. Len(q) < MaxParams => kept = all
    BY <1>7, <1>8, <1>9
  <1>14. Parse(line).command = u /\ Parse(line).params = q
    BY <1>1 DEF Message, u, q
  <1> QED
    BY <1>12, <1>13, <1>14 DEF kept, all, f

LEMMA InputKeeps == InputInv => NothingLost
  <1> SUFFICES ASSUME InputInv, NEW k \in DOMAIN lines,
                      Parse(lines[k]) # NoMessage /\ lines[k][1] # ":"
               PROVE  LET m    == Parse(lines[k])
                          kept == Essence(m.command \o FlattenSeq(m.params))
                          all  == Essence(lines[k])
                      IN  /\ IsPrefix(kept, all)
                          /\ Len(m.params) < MaxParams => kept = all
    BY Zenon DEF NothingLost
  <1>1. lines[k] \in Seq(Char)
    BY DEF InputInv
  <1>2. ~IsColon(lines[k][1])
    BY DEF IsColon
  <1> QED
    BY <1>1, <1>2, LineKeeps

(* The parser drops nothing but a prefix, spaces and colons, and whatever  *)
(* follows the last parameter it has room for (Parser::parse).             *)
THEOREM ParsedWhole == Spec => []NothingLost
  BY InputInvariant, InputKeeps, PTL

-----------------------------------------------------------------------------
(* How a receiver reads a reply: the line end goes, then the prefix, the   *)
(* command, and a rest it reads the parameters from.                       *)
LEMMA ConcatThree ==
  ASSUME NEW l \in Seq(Char), NEW a \in Seq(Char), NEW b \in Seq(Char)
  PROVE  (l \o a) \o b = l \o (a \o b) /\ a \o b \in Seq(Char)
  BY ConcatAssociative

Cat(s, t) == s \o t

LEMMA CatThree ==
  ASSUME NEW l \in Seq(Char), NEW a \in Seq(Char), NEW b \in Seq(Char)
  PROVE  Cat(Cat(l, a), b) = Cat(l, Cat(a, b)) /\ Cat(l, a) \in Seq(Char)
  BY ConcatThree DEF Cat

LEMMA CatFour ==
  ASSUME NEW l \in Seq(Char), NEW a \in Seq(Char), NEW b \in Seq(Char),
         NEW d \in Seq(Char)
  PROVE  Cat(Cat(Cat(l, a), b), d) = Cat(l, Cat(a, Cat(b, d)))
  BY CatThree

LEMMA FrontOfMore ==
  ASSUME NEW s \in Seq(Char), NEW x \in Char
  PROVE  /\ s \o <<x>> \in Seq(Char) /\ s \o <<x>> # <<>>
         /\ Front(s \o <<x>>) = s /\ Last(s \o <<x>>) = x
  <1> DEFINE y == <<x>>
             u == s \o y
  <1>1. y \in Seq(Char) /\ Len(y) = 1 /\ y[1] = x
    OBVIOUS
  <1> HIDE DEF y
  <1>2. /\ u \in Seq(Char) /\ Len(u) = Len(s) + Len(y)
        /\ \A i \in 1..Len(y) : u[Len(s) + i] = y[i]
    BY <1>1, JoinShape
  <1>3. SubSeq(u, 1, Len(s)) = s
    BY <1>1, Halves
  <1> HIDE DEF u
  <1>4. Len(u) = Len(s) + 1 /\ Len(s) \in Nat /\ 1 \in 1..Len(y)
    BY <1>1, <1>2
  <1>5. Len(u) - 1 = Len(s) /\ Len(u) # 0 /\ u[Len(u)] = x
    BY <1>1, <1>2, <1>4
  <1>6. u # <<>>
    BY <1>5
  <1>7. Front(u) = s /\ Last(u) = x
    BY <1>3, <1>5 DEF Front, Last
  <1> QED
    BY <1>2, <1>6, <1>7 DEF u, y

LEMMA LineEndGoes ==
  ASSUME NEW s \in Seq(Char)
  PROVE  WithoutCR(Front(s \o EndOfLine)) = s
  <1> DEFINE r == "\r"
             n == "\n"
             u == s \o <<r>>
  <1>1. r \in Char /\ n \in Char
    BY CharsAre
  <1>2. EndOfLine = <<r>> \o <<n>>
    BY <1>1, Two DEF EndOfLine
  <1> HIDE DEF n
  <1>3. WithoutCR(u) = IF u # <<>> /\ Last(u) = r THEN Front(u) ELSE u
    BY DEF WithoutCR
  <1> HIDE DEF r
  <1>4. <<r>> \in Seq(Char) /\ <<n>> \in Seq(Char)
    BY <1>1
  <1>5. s \o (<<r>> \o <<n>>) = u \o <<n>>
    BY <1>4, ConcatThree
  <1>6. u \in Seq(Char) /\ u # <<>> /\ Front(u) = s /\ Last(u) = r
    BY <1>1, FrontOfMore
  <1> HIDE DEF u
  <1>7. Front(u \o <<n>>) = u
    BY <1>1, <1>6, FrontOfMore
  <1> QED
    BY <1>2, <1>3, <1>5, <1>6, <1>7

(* A fixed word of a reply.                                                *)
Fix(c) == c \in Char /\ ~IsSpace(c) /\ ~IsColon(c) /\ Upper(c) = c

LEMMA FixedWords ==
  /\ \A c \in {"PONG", "JOIN", "PRIVMSG", "KICK", "INVITE", "TOPIC", "MODE", "004",
               "353", "421", "*", "!", "unknown", "@ircServ", "ircServ", "text"} : Fix(c)
  /\ "a" \in Char /\ ~IsSpace("a") /\ ~IsColon("a")
  BY DEF Fix, Char, Fixed, IsSpace, IsColon, Upper

LEMMA OneWord ==
  ASSUME NEW c \in Char
  PROVE  /\ <<c>> \in Seq(Char) /\ Len(<<c>>) = 1 /\ <<c>>[1] = c /\ <<c>> # <<>>
         /\ ~IsSpace(c) => Bare(<<c>>)
         /\ ~IsSpace(c) /\ ~IsColon(c) => AWord(<<c>>)
         /\ Upper(c) = c => ToUpper(<<c>>) = <<c>>
  <1> DEFINE x == <<c>>
  <1>1. x \in Seq(Char) /\ Len(x) = 1 /\ x[1] = c /\ x # <<>>
    OBVIOUS
  <1> HIDE DEF x
  <1>2. ~IsSpace(c) => Bare(x)
    BY <1>1 DEF Bare
  <1>3. ~IsSpace(c) /\ ~IsColon(c) => AWord(x)
    BY <1>1, <1>2, BareWords
  <1>4. Upper(c) = c => ToUpper(x) = x
    <2> SUFFICES ASSUME Upper(c) = c PROVE ToUpper(x) = x
      OBVIOUS
    <2>1. /\ ToUpper(x) \in Seq(Char) /\ Len(ToUpper(x)) = Len(x)
          /\ \A i \in 1..Len(x) : ToUpper(x)[i] = Upper(x[i])
      BY <1>1, ToUpperIs
    <2>2. \A i \in 1..Len(x) : ToUpper(x)[i] = x[i]
      BY <1>1, <2>1
    <2> QED
      BY <1>1, <2>1, <2>2, SeqEqual
  <1> QED
    BY <1>1, <1>2, <1>3, <1>4 DEF x

LEMMA HeardIs ==
  ASSUME NEW pre \in Seq(Char), Bare(pre), IsColon(pre[1]), NEW c, Fix(c),
         NEW rest \in Seq(Char), Bounded(rest)
  PROVE  Heard(((pre \o Word(<<c>>)) \o rest) \o EndOfLine)
           = [command |-> <<c>>, params |-> Read(rest, 0)]
  <1> DEFINE cmd  == <<c>>
             line == (pre \o Word(cmd)) \o rest
  <1>1. cmd \in Seq(Char) /\ Bare(cmd) /\ ToUpper(cmd) = cmd
    BY OneWord DEF Fix
  <1> HIDE DEF cmd
  <1>2. pre \o Word(cmd) = (pre \o Blank) \o cmd
    <2>1. Word(cmd) = Blank \o cmd
      BY <1>1, WordForm
    <2>2. (pre \o Blank) \o cmd = pre \o (Blank \o cmd)
      BY <1>1, BlankIs, ConcatThree
    <2> QED
      BY <2>1, <2>2
  <1>3. Joined(line, pre \o Blank, cmd, rest)
    BY <1>2 DEF Joined
  <1>4. line \in Seq(Char)
    <2>1. Word(cmd) \in Seq(Char)
      BY <1>1, WordForm
    <2>2. pre \o Word(cmd) \in Seq(Char)
      BY <2>1, ConcatThree
    <2> QED
      BY <2>2, ConcatThree
  <1> HIDE DEF line
  <1>5. Parse(line) = Message(cmd, rest)
    BY <1>1, <1>3, BlankIs, ParsePrefixed
  <1>6. WithoutCR(Front(line \o EndOfLine)) = line
    BY <1>4, LineEndGoes
  <1> QED
    BY <1>1, <1>5, <1>6 DEF Heard, Message, line, cmd

LEMMA BareConcat ==
  ASSUME NEW s \in Seq(Char), NEW t \in Seq(Char), Bare(s), Bare(t)
  PROVE  s \o t \in Seq(Char) /\ Bare(s \o t) /\ (s \o t)[1] = s[1]
  <1> DEFINE u == s \o t
  <1>1. /\ u \in Seq(Char) /\ Len(u) = Len(s) + Len(t)
        /\ \A i \in 1..Len(s) : u[i] = s[i]
        /\ \A i \in 1..Len(t) : u[Len(s) + i] = t[i]
    BY JoinShape
  <1> HIDE DEF u
  <1>2. Len(s) \in Nat \ {0} /\ Len(t) \in Nat
    BY DEF Bare
  <1>3. ASSUME NEW i \in 1..Len(u) PROVE ~IsSpace(u[i])
    <2>1. CASE i <= Len(s)
      <3>1. i \in 1..Len(s)
        BY <1>2, <2>1
      <3> QED
        BY <1>1, <3>1 DEF Bare
    <2>2. CASE ~(i <= Len(s))
      <3>1. i - Len(s) \in 1..Len(t) /\ Len(s) + (i - Len(s)) = i
        BY <1>1, <1>2, <2>2
      <3>2. u[i] = t[i - Len(s)]
        BY <1>1, <3>1
      <3> QED
        BY <3>1, <3>2 DEF Bare
    <2> QED
      BY <2>1, <2>2
  <1>4. u # <<>> /\ u[1] = s[1]
    <2>1. Len(u) # 0 /\ 1 \in 1..Len(s)
      BY <1>1, <1>2
    <2> QED
      BY <1>1, <2>1
  <1> QED
    BY <1>1, <1>3, <1>4 DEF Bare, u

LEMMA PrefixIs ==
  ASSUME NEW from, from.nick \in Seq(Char), from.user \in Seq(Char),
         Bare(from.nick) \/ from.nick = <<>>, Bare(from.user) \/ from.user = <<>>
  PROVE  Prefix(from) \in Seq(Char) /\ Bare(Prefix(from)) /\ IsColon(Prefix(from)[1])
  <1> DEFINE c == <<":">>
             n == Default(from.nick, "*")
             x == <<"!">>
             u == Default(from.user, "unknown")
             h == <<"@ircServ">>
  <1>1. /\ c \in Seq(Char) /\ Bare(c) /\ IsColon(c[1]) /\ x \in Seq(Char) /\ Bare(x)
        /\ h \in Seq(Char) /\ Bare(h)
    BY CharsAre, Colons, FixedWords, OneWord DEF Fix
  <1>2. n \in Seq(Char) /\ Bare(n)
    BY FixedWords, OneWord DEF Fix, Default
  <1>3. u \in Seq(Char) /\ Bare(u)
    BY FixedWords, OneWord DEF Fix, Default
  <1>4. Prefix(from) = (((c \o n) \o x) \o u) \o h
    BY DEF Prefix
  <1> HIDE DEF c, n, x, u, h
  <1> DEFINE p == c \o n
             q == p \o x
             r == q \o u
             s == r \o h
  <1>5. p \in Seq(Char) /\ Bare(p) /\ p[1] = c[1]
    BY <1>1, <1>2, BareConcat
  <1> HIDE DEF p
  <1>6. q \in Seq(Char) /\ Bare(q) /\ q[1] = p[1]
    BY <1>1, <1>5, BareConcat
  <1> HIDE DEF q
  <1>7. r \in Seq(Char) /\ Bare(r) /\ r[1] = q[1]
    BY <1>3, <1>6, BareConcat
  <1> HIDE DEF r
  <1>8. s \in Seq(Char) /\ Bare(s) /\ s[1] = r[1]
    BY <1>1, <1>7, BareConcat
  <1> QED
    BY <1>1, <1>4, <1>5, <1>6, <1>7, <1>8 DEF s, r, q, p

(* How a relayed command is heard, from what stands behind the command.    *)
LEMMA RelayedIs ==
  ASSUME NEW from, from.nick \in Seq(Char), from.user \in Seq(Char),
         Bare(from.nick) \/ from.nick = <<>>, Bare(from.user) \/ from.user = <<>>,
         NEW c, Fix(c), NEW rest \in Seq(Char), Bounded(rest)
  PROVE  /\ Line(from, c) \in Seq(Char)
         /\ Heard((Line(from, c) \o rest) \o EndOfLine)
              = [command |-> <<c>>, params |-> Read(rest, 0)]
  <1>1. Prefix(from) \in Seq(Char) /\ Bare(Prefix(from)) /\ IsColon(Prefix(from)[1])
    BY PrefixIs
  <1>2. Line(from, c) = Prefix(from) \o Word(<<c>>)
    BY DEF Line
  <1>3. Word(<<c>>) \in Seq(Char)
    BY OneWord, WordForm DEF Fix
  <1>4. Prefix(from) \o Word(<<c>>) \in Seq(Char)
    BY <1>1, <1>3, ConcatThree
  <1> QED
    BY <1>1, <1>2, <1>4, HeardIs

-----------------------------------------------------------------------------
(* One, two and three parameters of a reply.                               *)
LEMMA Room ==
  ASSUME NEW n \in Nat, n < MaxParams
  PROVE  n \in 0..MaxParams /\ ~Enough(n)
  BY ParserAssumption DEF Enough

LEMMA ReadOneWord ==
  ASSUME NEW w \in Seq(Char), AWord(w), NEW n \in Nat, n < MaxParams
  PROVE  Read(Word(w), n) = <<w>>
  <1>1. n \in 0..MaxParams /\ ~Enough(n) /\ n + 1 \in 0..MaxParams
    BY Room, ParserAssumption
  <1>2. <<>> \in Seq(Char) /\ Spaces(<<>>) /\ Bounded(<<>>)
    BY DEF Spaces, Bounded
  <1>3. Read(Word(w) \o <<>>, n) = <<w>> \o Read(<<>>, n + 1)
    BY <1>1, <1>2, ReadAWord
  <1>4. Read(<<>>, n + 1) = <<>>
    BY <1>1, <1>2, ReadNothing
  <1>5. Word(w) \o <<>> = Word(w)
    <2>1. Word(w) \in Seq(Char)
      BY WordForm
    <2> QED
      BY <2>1, ConcatEmptySeq
  <1>6. <<w>> \o <<>> = <<w>>
    OBVIOUS
  <1> QED
    BY <1>3, <1>4, <1>5, <1>6

LEMMA ReadMoreWords ==
  ASSUME NEW w \in Seq(Char), AWord(w), NEW rest \in Seq(Char), Bounded(rest),
         NEW n \in Nat, n < MaxParams
  PROVE  Read(Word(w) \o rest, n) = <<w>> \o Read(rest, n + 1)
  BY Room, ReadAWord

LEMMA ReadWordText ==
  ASSUME NEW w \in Seq(Char), AWord(w), NEW t \in Seq(Char),
         NEW n \in Nat, n + 1 < MaxParams
  PROVE  Read(Word(w) \o Text(t), n) = <<w, t>>
  <1>1. n < MaxParams /\ n + 1 \in Nat
    BY ParserAssumption
  <1>2. Text(t) \in Seq(Char) /\ Bounded(Text(t))
    BY TextForm DEF Bounded
  <1>3. Read(Word(w) \o Text(t), n) = <<w>> \o Read(Text(t), n + 1)
    BY <1>1, <1>2, ReadMoreWords
  <1>4. Read(Text(t), n + 1) = <<t>>
    BY <1>1, Room, ReadAText
  <1> QED
    BY <1>3, <1>4, Two

LEMMA ReadTwoWords ==
  ASSUME NEW v \in Seq(Char), AWord(v), NEW w \in Seq(Char), AWord(w),
         NEW n \in Nat, n + 1 < MaxParams
  PROVE  Read(Word(v) \o Word(w), n) = <<v, w>>
  <1>1. n < MaxParams /\ n + 1 \in Nat
    BY ParserAssumption
  <1>2. Word(w) \in Seq(Char) /\ Bounded(Word(w))
    BY WordForm DEF Bounded
  <1>3. Read(Word(v) \o Word(w), n) = <<v>> \o Read(Word(w), n + 1)
    BY <1>1, <1>2, ReadMoreWords
  <1>4. Read(Word(w), n + 1) = <<w>>
    BY <1>1, ReadOneWord
  <1> QED
    BY <1>3, <1>4, Two

LEMMA Three ==
  ASSUME NEW S, NEW x \in S, NEW y \in S, NEW z \in S
  PROVE  <<x>> \o <<y, z>> = <<x, y, z>>
  <1> DEFINE t == <<y, z>>
             u == <<x, y, z>>
             v == <<x>> \o t
  <1>1. t \in Seq(S) /\ Len(t) = 2 /\ t[1] = y /\ t[2] = z
    OBVIOUS
  <1>2. u \in Seq(S) /\ Len(u) = 3 /\ u[1] = x /\ u[2] = y /\ u[3] = z
    OBVIOUS
  <1> HIDE DEF t, u
  <1>3. /\ v \in Seq(S) /\ Len(v) = Len(t) + 1 /\ v[1] = x
        /\ \A i \in 1..Len(t) : v[i + 1] = t[i]
    <2>1. t \in Seq(S)
      BY <1>1
    <2> QED
      BY <2>1, Prepend
  <1> HIDE DEF v
  <1>4. v[2] = y /\ v[3] = z
    <2>1. 1 \in 1..Len(t) /\ 2 \in 1..Len(t) /\ 1 + 1 = 2 /\ 2 + 1 = 3
      BY <1>1
    <2>2. v[1 + 1] = t[1] /\ v[2 + 1] = t[2]
      BY <1>3, <2>1
    <2> QED
      BY <1>1, <2>1, <2>2
  <1>5. \A i \in 1..Len(u) : u[i] = v[i]
    <2>1. \A i \in 1..Len(u) : i = 1 \/ i = 2 \/ i = 3
      BY <1>2
    <2>2. u[1] = v[1] /\ u[2] = v[2] /\ u[3] = v[3]
      BY <1>2, <1>3, <1>4
    <2> QED
      BY <2>1, <2>2
  <1>6. Len(u) = Len(v)
    BY <1>1, <1>2, <1>3
  <1>7. u = v
    BY <1>2, <1>3, <1>5, <1>6, SeqEqual
  <1> QED
    BY <1>7 DEF t, u, v

(* What a client may put between two spaces.                               *)
LEMMA ChannelWord ==
  ASSUME NEW p \in Seq(Char), ValidChannelName(p)
  PROVE  AWord(p)
  <1>1. Len(p) \in Nat /\ Len(p) > 1 /\ p[1] = "#"
        /\ \A k \in 2..Len(p) : p[k] \notin NoName
    BY DEF ValidChannelName
  <1>2. ~IsSpace(p[1]) /\ ~IsColon(p[1])
    BY <1>1 DEF IsSpace, IsColon
  <1>3. \A c : c \notin NoName => ~IsSpace(c)
    BY DEF NoName, IsSpace
  <1>4. \A k \in 2..Len(p) : ~IsSpace(p[k])
    BY <1>1, <1>3
  <1>5. \A k \in 1..Len(p) : k = 1 \/ k \in 2..Len(p)
    BY <1>1
  <1>6. p # <<>>
    BY <1>1
  <1> QED
    BY <1>2, <1>4, <1>5, <1>6 DEF AWord

LEMMA NickWord ==
  ASSUME NEW p \in Seq(Char), ValidNick(p)
  PROVE  AWord(p)
  <1>1. /\ p # <<>> /\ p[1] \in Letters \cup Special
        /\ Range(p) \subseteq Letters \cup Special \cup Digits \cup {"-"}
    BY DEF ValidNick
  <1>2. ~IsColon(p[1])
    BY <1>1 DEF Letters, Special, IsColon
  <1>3. \A c \in Letters \cup Special \cup Digits \cup {"-"} : ~IsSpace(c)
    BY DEF Letters, Special, Digits, IsSpace
  <1>4. \A k \in 1..Len(p) : p[k] \in Range(p)
    BY DEF Range
  <1> QED
    BY <1>1, <1>2, <1>3, <1>4 DEF AWord

(* The relayed commands, by what the parameters must be like.              *)
Named(from) == /\ from.nick \in Seq(Char) /\ from.user \in Seq(Char)
               /\ Bare(from.nick) \/ from.nick = <<>>
               /\ Bare(from.user) \/ from.user = <<>>

LEMMA SaysIs ==
  ASSUME NEW from, Named(from), NEW c, Fix(c), NEW rest \in Seq(Char), Bounded(rest)
  PROVE  /\ Line(from, c) \in Seq(Char)
         /\ Says((Line(from, c) \o rest) \o EndOfLine, c, Read(rest, 0))
  BY RelayedIs DEF Named, Says

LEMMA WordBounded ==
  ASSUME NEW w \in Seq(Char), NEW t \in Seq(Char)
  PROVE  /\ Word(w) \in Seq(Char) /\ Bounded(Word(w))
         /\ Text(t) \in Seq(Char) /\ Bounded(Text(t))
         /\ Word(w) \o t \in Seq(Char) /\ Bounded(Word(w) \o t)
  BY WordForm, TextForm, WordThen DEF Bounded

LEMMA SaysJoin ==
  ASSUME NEW from, Named(from), NEW w \in Seq(Char), AWord(w)
  PROVE  Says(Join(from, w), "JOIN", <<w>>)
  <1>1. 0 < MaxParams
    BY ParserAssumption
  <1>2. Read(Word(w), 0) = <<w>>
    BY <1>1, ReadOneWord
  <1>3. Says((Line(from, "JOIN") \o Word(w)) \o EndOfLine, "JOIN", Read(Word(w), 0))
    BY WordBounded, FixedWords, SaysIs
  <1> QED
    BY <1>2, <1>3 DEF Join

LEMMA SaysTwo ==
  ASSUME NEW from, Named(from), NEW c, Fix(c), NEW w \in Seq(Char), AWord(w),
         NEW t \in Seq(Char)
  PROVE  /\ Says(((Line(from, c) \o Word(w)) \o Text(t)) \o EndOfLine, c, <<w, t>>)
         /\ AWord(t) =>
              Says(((Line(from, c) \o Word(w)) \o Word(t)) \o EndOfLine, c, <<w, t>>)
  <1> DEFINE l == Line(from, c)
             a == Word(w)
             b == Text(t)
             d == Word(t)
  <1>1. l \in Seq(Char)
    BY WordBounded, SaysIs
  <1>2. /\ a \in Seq(Char) /\ b \in Seq(Char) /\ d \in Seq(Char)
        /\ Bounded(a \o b) /\ Bounded(a \o d)
    BY WordBounded
  <1>3. 0 + 1 < MaxParams
    BY ParserAssumption, RelayAssumption
  <1>4. Read(a \o b, 0) = <<w, t>> /\ (AWord(t) => Read(a \o d, 0) = <<w, t>>)
    BY <1>3, ReadWordText, ReadTwoWords
  <1> HIDE DEF a, b, d
  <1>5. a \o b \in Seq(Char) /\ a \o d \in Seq(Char)
    BY <1>2, ConcatThree
  <1>6. /\ Says((l \o (a \o b)) \o EndOfLine, c, Read(a \o b, 0))
        /\ Says((l \o (a \o d)) \o EndOfLine, c, Read(a \o d, 0))
    BY <1>2, <1>5, SaysIs
  <1> HIDE DEF l
  <1>7. (l \o a) \o b = l \o (a \o b) /\ (l \o a) \o d = l \o (a \o d)
    <2>1. l \in Seq(Char) /\ a \in Seq(Char) /\ b \in Seq(Char) /\ d \in Seq(Char)
      BY <1>1, <1>2
    <2>2. Cat(Cat(l, a), b) = Cat(l, Cat(a, b))
      BY <2>1, CatThree
    <2>3. Cat(Cat(l, a), d) = Cat(l, Cat(a, d))
      BY <2>1, CatThree
    <2> QED
      BY <2>2, <2>3 DEF Cat
  <1> QED
    BY <1>4, <1>6, <1>7 DEF l, a, b, d

LEMMA SaysThree ==
  ASSUME NEW from, Named(from), NEW c, Fix(c), NEW a \in Seq(Char), NEW b \in Seq(Char),
         NEW d \in Seq(Char), a \o (b \o d) \in Seq(Char), Bounded(a \o (b \o d))
  PROVE  Says((((Line(from, c) \o a) \o b) \o d) \o EndOfLine, c, Read(a \o (b \o d), 0))
  <1> DEFINE l == Line(from, c)
  <1>1. Says((l \o (a \o (b \o d))) \o EndOfLine, c, Read(a \o (b \o d), 0))
    BY SaysIs
  <1>2. l \in Seq(Char)
    BY SaysIs
  <1> HIDE DEF l
  <1>3. Cat(Cat(Cat(l, a), b), d) = Cat(l, Cat(a, Cat(b, d)))
    BY <1>2, CatFour
  <1>4. Says(Cat(Cat(Cat(l, a), b), d) \o EndOfLine, c, Read(a \o (b \o d), 0))
    BY <1>1, <1>3 DEF Cat
  <1> QED
    BY <1>4 DEF Cat, l

LEMMA SaysKick ==
  ASSUME NEW from, Named(from), NEW u \in Seq(Char), AWord(u), NEW v \in Seq(Char),
         AWord(v), NEW t \in Seq(Char), 3 <= MaxParams
  PROVE  Says((((Line(from, "KICK") \o Word(u)) \o Word(v)) \o Text(t)) \o EndOfLine,
              "KICK", <<u, v, t>>)
  <1> DEFINE c == "KICK"
             l == Line(from, c)
             a == Word(u)
             b == Word(v)
             d == Text(t)
             r == b \o d
  <1>1. Fix(c)
    BY FixedWords
  <1> HIDE DEF c
  <1>2. l \in Seq(Char)
    BY <1>1, WordBounded, SaysIs
  <1>3. /\ a \in Seq(Char) /\ b \in Seq(Char) /\ d \in Seq(Char)
        /\ r \in Seq(Char) /\ Bounded(r)
    BY WordBounded
  <1>4. a \o r \in Seq(Char) /\ Bounded(a \o r)
    <2>1. r \in Seq(Char)
      BY <1>3
    <2> HIDE DEF r
    <2> QED
      BY <2>1, WordBounded
  <1>5. 0 < MaxParams /\ (0 + 1) + 1 < MaxParams /\ 0 + 1 \in Nat
    BY ParserAssumption
  <1>6. Read(r, 0 + 1) = <<v, t>>
    BY <1>5, ReadWordText
  <1>7. Read(a \o r, 0) = <<u, v, t>>
    <2> HIDE DEF r
    <2>1. Read(a \o r, 0) = <<u>> \o Read(r, 0 + 1)
      BY <1>3, <1>5, ReadMoreWords
    <2> QED
      BY <1>6, <2>1, Three
  <1> HIDE DEF a, b, d
  <1>8. a \o (b \o d) \in Seq(Char) /\ Bounded(a \o (b \o d))
    BY <1>4 DEF r
  <1>9. Says((((l \o a) \o b) \o d) \o EndOfLine, c, Read(a \o (b \o d), 0))
    BY <1>1, <1>3, <1>8, SaysThree
  <1> QED
    BY <1>7, <1>9 DEF l, a, b, d, r, c

-----------------------------------------------------------------------------
(* What the handlers relay of a dispatched message.                        *)
LEMMA DispatchedParams ==
  ASSUME InputInv, NEW k \in DOMAIN dispatched
  PROVE  /\ dispatched[k].params \in Seq(Seq(Char))
         /\ Len(dispatched[k].params) <= MaxParams
  <1>1. PICK cmd \in Seq(Char), rest \in Seq(Char) : dispatched[k] = Message(cmd, rest)
    BY DispatchedIs
  <1>2. 0 \in 0..MaxParams /\ MaxParams - 0 = MaxParams
    BY ParserAssumption
  <1>3. Shape(Read(rest, 0), 0, Char)
    BY <1>2, ReadShape
  <1>4. dispatched[k].params = Read(rest, 0)
    BY <1>1 DEF Message
  <1> QED
    BY <1>2, <1>3, <1>4 DEF Shape

LEMMA SenderNamed ==
  ASSUME NEW user \in Seq(Char), Bare(user)
  PROVE  Named(Sender(user))
  <1>1. <<"a">> \in Seq(Char) /\ Bare(<<"a">>)
    BY FixedWords, OneWord
  <1>2. Sender(user).nick = <<"a">> /\ Sender(user).user = user
    BY DEF Sender
  <1> QED
    BY <1>1, <1>2 DEF Named

LEMMA SaysPong ==
  ASSUME NEW p \in Seq(Seq(Char)), Len(p) >= 1
  PROVE  Says(Pong(p), "PONG", <<<<"ircServ">>, p[1]>>)
  <1> DEFINE pong == "PONG"
             serv == "ircServ"
             c == <<pong>>
             s == <<serv>>
             w == Word(s)
             x == p[1]
             t == Text(x)
             r == w \o t
  <1>1. Fix(pong) /\ Fix(serv) /\ x \in Seq(Char) /\ p # <<>>
    BY FixedWords
  <1>2. Pong(p) = ((c \o w) \o t) \o EndOfLine
    BY <1>1 DEF Pong
  <1> HIDE DEF pong, serv
  <1>3. /\ c \in Seq(Char) /\ AWord(c) /\ ToUpper(c) = c
        /\ s \in Seq(Char) /\ AWord(s)
    BY <1>1, OneWord DEF Fix
  <1> HIDE DEF c, s, x
  <1>4. w \in Seq(Char) /\ t \in Seq(Char) /\ r \in Seq(Char) /\ Bounded(r)
    BY <1>1, <1>3, WordBounded
  <1>5. Read(r, 0) = <<s, x>>
    <2>1. 0 + 1 < MaxParams
      BY ParserAssumption, RelayAssumption
    <2> QED
      BY <1>1, <1>3, <2>1, ReadWordText
  <1>6. (c \o w) \o t = c \o r
    <2>1. c \in Seq(Char) /\ w \in Seq(Char) /\ t \in Seq(Char)
      BY <1>3, <1>4
    <2> HIDE DEF w, t
    <2> QED
      BY <2>1, ConcatThree
  <1> HIDE DEF r, w, t
  <1>7. Parse(c \o r) = Message(c, r)
    BY <1>3, <1>4, ParsePlain
  <1>8. WithoutCR(Front((c \o r) \o EndOfLine)) = c \o r
    <2>1. c \o r \in Seq(Char)
      BY <1>3, <1>4, ConcatThree
    <2> QED
      BY <2>1, LineEndGoes
  <1>9. Heard(Pong(p)) = [command |-> c, params |-> <<s, x>>]
    BY <1>2, <1>3, <1>5, <1>6, <1>7, <1>8 DEF Heard, Message
  <1> QED
    BY <1>9 DEF Says, c, s, x, pong, serv

LEMMA TargetIs ==
  ASSUME NEW nick, nick # <<>>
  PROVE  TargetName([Sender(<<"a">>) EXCEPT !.nick = nick]) = nick
  BY DEF TargetName, Sender, Default

LEMMA InputRelayed == InputInv => RelayFaithful
  <1> SUFFICES ASSUME InputInv, NEW k \in DOMAIN dispatched
               PROVE  LET p       == dispatched[k].params
                          from    == Sender(<<"a">>)
                          has(n)  == Len(p) >= n
                          channel == has(1) /\ ValidChannelName(p[1])
                      IN  /\ has(1) => Says(Pong(p), "PONG", <<<<"ircServ">>, p[1]>>)
                          /\ channel => Says(Join(from, p[1]), "JOIN", <<p[1]>>)
                          /\ channel /\ has(2) =>
                               Says(Topic(from, p[1], p[2]), "TOPIC", <<p[1], p[2]>>)
                          /\ has(2) /\ p[2] # <<>> /\ (channel \/ ValidNick(p[1])) =>
                               Says(PrivMsg(from, p[1], p[2]), "PRIVMSG", <<p[1], p[2]>>)
                          /\ has(2) /\ ValidNick(p[1]) /\ ValidChannelName(p[2]) =>
                               Says(Invite(from, [from EXCEPT !.nick = p[1]], p[2]), "INVITE",
                                    <<p[1], p[2]>>)
                          /\ has(3) /\ channel /\ ValidNick(p[2]) /\ p[3] # <<>> =>
                               Says(Kick(from, [from EXCEPT !.nick = p[2]], p[1], p[3]), "KICK",
                                    <<p[1], p[2], p[3]>>)
    BY Zenon DEF RelayFaithful
  <1> DEFINE p    == dispatched[k].params
             from == Sender(<<"a">>)
  <1>1. p \in Seq(Seq(Char)) /\ Len(p) \in Nat /\ Len(p) <= MaxParams
    BY DispatchedParams
  <1>2. Named(from)
    BY FixedWords, OneWord, SenderNamed
  <1> HIDE DEF p, from
  <1>3. /\ Len(p) >= 1 => p[1] \in Seq(Char)
        /\ Len(p) >= 2 => p[1] \in Seq(Char) /\ p[2] \in Seq(Char)
        /\ Len(p) >= 3 => /\ p[1] \in Seq(Char) /\ p[2] \in Seq(Char)
                          /\ p[3] \in Seq(Char) /\ 3 <= MaxParams
    BY <1>1, ParserAssumption
  <1>4. ASSUME Len(p) >= 1 PROVE Says(Pong(p), "PONG", <<<<"ircServ">>, p[1]>>)
    BY <1>1, <1>4, SaysPong
  <1>5. ASSUME Len(p) >= 1, ValidChannelName(p[1])
        PROVE  Says(Join(from, p[1]), "JOIN", <<p[1]>>)
    BY <1>2, <1>3, <1>5, ChannelWord, SaysJoin
  <1>6. ASSUME Len(p) >= 2, ValidChannelName(p[1])
        PROVE  Says(Topic(from, p[1], p[2]), "TOPIC", <<p[1], p[2]>>)
    <2>1. Fix("TOPIC") /\ AWord(p[1])
      BY <1>3, <1>6, FixedWords, ChannelWord
    <2> QED
      BY <1>2, <1>3, <1>6, <2>1, SaysTwo DEF Topic
  <1>7. ASSUME Len(p) >= 2, p[2] # <<>>, ValidChannelName(p[1]) \/ ValidNick(p[1])
        PROVE  Says(PrivMsg(from, p[1], p[2]), "PRIVMSG", <<p[1], p[2]>>)
    <2>1. Fix("PRIVMSG") /\ AWord(p[1])
      BY <1>3, <1>7, FixedWords, ChannelWord, NickWord
    <2>2. TextIfAny(p[2]) = Text(p[2])
      BY <1>7 DEF TextIfAny
    <2> QED
      BY <1>2, <1>3, <1>7, <2>1, <2>2, SaysTwo DEF PrivMsg
  <1>8. ASSUME Len(p) >= 2, ValidNick(p[1]), ValidChannelName(p[2])
        PROVE  Says(Invite(from, [from EXCEPT !.nick = p[1]], p[2]), "INVITE",
                    <<p[1], p[2]>>)
    <2>1. Fix("INVITE") /\ AWord(p[1]) /\ AWord(p[2])
      BY <1>3, <1>8, FixedWords, ChannelWord, NickWord
    <2>2. TargetName([from EXCEPT !.nick = p[1]]) = p[1]
      BY <2>1, TargetIs DEF AWord, from
    <2> QED
      BY <1>2, <1>3, <1>8, <2>1, <2>2, SaysTwo DEF Invite
  <1>9. ASSUME Len(p) >= 3, ValidChannelName(p[1]), ValidNick(p[2]), p[3] # <<>>
        PROVE  Says(Kick(from, [from EXCEPT !.nick = p[2]], p[1], p[3]), "KICK",
                    <<p[1], p[2], p[3]>>)
    <2>1. AWord(p[1]) /\ AWord(p[2])
      BY <1>3, <1>9, ChannelWord, NickWord
    <2>2. TargetName([from EXCEPT !.nick = p[2]]) = p[2]
      BY <2>1, TargetIs DEF AWord, from
    <2>3. TextIfAny(p[3]) = Text(p[3])
      BY <1>9 DEF TextIfAny
    <2> QED
      BY <1>2, <1>3, <1>9, <2>1, <2>2, <2>3, SaysKick DEF Kick
  <1> QED
    <2>1. Len(p) >= 2 => Len(p) >= 1
      BY <1>1
    <2>2. Len(p) >= 3 => Len(p) >= 1
      BY <1>1
    <2> QED
      BY <1>4, <1>5, <1>6, <1>7, <1>8, <1>9, <2>1, <2>2, Zenon DEF p, from

(* The others receive a command as the client sent it, whatever text it    *)
(* ends in, and a client gets the token of its PING back (the builders of  *)
(* ReplyBuilder.cpp against Parser::parse).                                *)
THEOREM RelayedAsSent == Spec => []RelayFaithful
  BY InputInvariant, InputRelayed, PTL

-----------------------------------------------------------------------------
(* The key of a channel.                                                   *)
LEMMA NotAWord ==
  ASSUME NEW t \in Seq(Char), ~AWord(t), NEW n \in 0..MaxParams
  PROVE  Read(Word(t), n) # <<t>>
  <1> DEFINE s == Word(t)
  <1>1. s \in Seq(Char) /\ Len(s) = Len(t) + 1 /\ IsSpace(s[1])
    BY WordForm
  <1> HIDE DEF s
  <1>2. <<t>> # <<>>
    OBVIOUS
  <1>3. CASE Spaces(s) \/ Enough(n)
    <2>1. Read(s, n) = <<>>
      BY <1>1, <1>3, ReadNothing
    <2> QED
      BY <1>2, <2>1 DEF s
  <1>4. CASE ~Enough(n)
    <2>1. ASSUME NEW sp \in Seq(Char), NEW u \in Seq(Char), NEW x \in Char,
                 Spaces(sp), IsColon(x), Around(s, sp, x, u)
          PROVE  Read(s, n) # <<t>>
      <3>1. Read(s, n) = <<u>>
        BY <1>4, <2>1, ReadText
      <3>2. /\ Len(s) = Len(sp) + 1 + Len(u)
            /\ s[Len(sp) + 1] = x
        BY <2>1, AroundShape
      <3>3. Len(sp) \in Nat /\ Len(u) \in Nat /\ Len(t) \in Nat
        OBVIOUS
      <3>4. Len(sp) # 0
        BY <1>1, <2>1, <3>2, Colons
      <3>5. Len(u) # Len(t)
        BY <1>1, <3>2, <3>3, <3>4
      <3> QED
        BY <3>1, <3>5
    <2>2. ASSUME NEW sp \in Seq(Char), NEW w \in Seq(Char), NEW rest \in Seq(Char),
                 Spaces(sp), AWord(w), Bounded(rest), Joined(s, sp, w, rest)
          PROVE  Read(s, n) # <<t>>
      <3> DEFINE q == Read(rest, n + 1)
      <3>1. Read(s, n) = <<w>> \o q
        BY <1>4, <2>2, ReadWord
      <3>2. q \in Seq(Seq(Char))
        <4>1. n + 1 \in 0..MaxParams
          BY <1>4, ParserAssumption DEF Enough
        <4> QED
          BY <4>1, ReadShape DEF Shape
      <3> HIDE DEF q
      <3>3. (<<w>> \o q)[1] = w
        BY <3>2, Prepend
      <3>4. <<t>>[1] = t /\ w # t
        BY <2>2
      <3> QED
        BY <3>1, <3>3, <3>4
    <2> QED
      BY <1>1, <1>3, <2>1, <2>2, LineForms DEF s
  <1> QED
    BY <1>3, <1>4

LEMMA InputKeys == InputInv => KeyAnnounced
  <1> SUFFICES ASSUME InputInv, NEW k \in DOMAIN dispatched,
                      Len(dispatched[k].params) = 3,
                      IsWord(dispatched[k].params[1]),
                      IsWord(dispatched[k].params[2]),
                      dispatched[k].params[3] # <<>>
               PROVE  LET p == dispatched[k].params
                      IN  IsWord(p[3]) <=>
                            Says(Mode(Sender(p[1]), p[1], p[2] \o Word(p[3])), "MODE", p)
    BY Zenon DEF KeyAnnounced
  <1> DEFINE p    == dispatched[k].params
             x    == p[1]
             y    == p[2]
             z    == p[3]
             from == Sender(x)
             l    == Line(from, "MODE")
             a    == Word(x)
             b    == Word(y)
             c    == Word(z)
             r    == b \o c
             q    == a \o r
  <1>1. p \in Seq(Seq(Char)) /\ Len(p) = 3 /\ 3 <= MaxParams
    BY DispatchedParams
  <1>2. x \in Seq(Char) /\ y \in Seq(Char) /\ z \in Seq(Char)
    BY <1>1
  <1>3. AWord(x) /\ AWord(y) /\ (IsWord(z) <=> AWord(z))
    BY <1>2, WordsAre
  <1> HIDE DEF p
  <1>4. p = <<x, y, z>>
    BY <1>1
  <1> HIDE DEF x, y, z
  <1>5. Named(from)
    BY <1>2, <1>3, BareWords, SenderNamed
  <1> HIDE DEF from
  <1>6. a \in Seq(Char) /\ b \in Seq(Char) /\ c \in Seq(Char) /\ Bounded(c)
    BY <1>2, WordBounded
  <1>7. r \in Seq(Char) /\ Bounded(r)
    BY <1>2, <1>6, WordBounded
  <1>8. q \in Seq(Char) /\ Bounded(q)
    <2> HIDE DEF r
    <2> QED
      BY <1>2, <1>7, WordBounded
  <1>9. Word(y \o c) = r
    <2>1. Word(y \o c) = Blank \o (y \o c) /\ b = Blank \o y
      BY <1>2, <1>6, ConcatThree, WordForm
    <2> HIDE DEF c
    <2>2. Blank \in Seq(Char) /\ y \in Seq(Char) /\ c \in Seq(Char)
      BY <1>2, <1>6, BlankIs
    <2>3. (Blank \o y) \o c = Blank \o (y \o c)
      BY <2>2, ConcatThree
    <2> QED
      BY <2>1, <2>3
  <1>10. 0 < MaxParams /\ 0 + 1 < MaxParams /\ 0 + 1 \in Nat /\ (0 + 1) + 1 \in Nat
         /\ (0 + 1) + 1 < MaxParams /\ (0 + 1) + 1 \in 0..MaxParams
    BY <1>1, ParserAssumption
  <1>11. Read(q, 0) = <<x>> \o (<<y>> \o Read(c, (0 + 1) + 1))
    <2>1. Read(r, 0 + 1) = <<y>> \o Read(c, (0 + 1) + 1)
      <3> HIDE DEF c
      <3> QED
        BY <1>2, <1>3, <1>6, <1>10, ReadMoreWords
    <2>2. Read(q, 0) = <<x>> \o Read(r, 0 + 1)
      <3> HIDE DEF r
      <3> QED
        BY <1>2, <1>3, <1>7, <1>10, ReadMoreWords
    <2> QED
      BY <2>1, <2>2
  <1>12. Says((l \o q) \o EndOfLine, "MODE", Read(q, 0)) /\ l \in Seq(Char)
    BY <1>5, <1>8, FixedWords, SaysIs
  <1>13. Mode(from, x, y \o c) = (l \o q) \o EndOfLine
    <2>1. Mode(from, x, y \o c) = ((l \o a) \o r) \o EndOfLine
      BY <1>9 DEF Mode
    <2> HIDE DEF l, a, r
    <2>2. l \in Seq(Char) /\ a \in Seq(Char) /\ r \in Seq(Char)
      BY <1>6, <1>7, <1>12
    <2>3. (l \o a) \o r = l \o (a \o r)
      BY <2>2, ConcatThree
    <2> QED
      BY <2>1, <2>3
  <1> DEFINE R == Read(c, (0 + 1) + 1)
  <1>14. R \in Seq(Seq(Char))
    BY <1>6, <1>10, ReadShape DEF Shape
  <1>15. R = <<z>> <=> AWord(z)
    BY <1>2, <1>10, ReadOneWord, NotAWord
  <1> HIDE DEF R
  <1>16. <<x>> \o (<<y>> \o R) = <<x, y, z>> <=> R = <<z>>
    <2>1. <<x>> \o (<<y>> \o <<z>>) = <<x, y, z>>
      BY <1>2, Two, Three
    <2>2. ASSUME <<x>> \o (<<y>> \o R) = <<x, y, z>> PROVE R = <<z>>
      <3> DEFINE u == <<y>> \o R
                 v == <<x, y, z>>
      <3>1. /\ u \in Seq(Seq(Char)) /\ Len(u) = Len(R) + 1
            /\ \A i \in 1..Len(R) : u[i + 1] = R[i]
        BY <1>2, <1>14, Prepend
      <3> HIDE DEF u
      <3>2. /\ Len(<<x>> \o u) = Len(u) + 1
            /\ \A i \in 1..Len(u) : (<<x>> \o u)[i + 1] = u[i]
        BY <1>2, <3>1, Prepend
      <3>3. <<x>> \o u = v
        BY <2>2 DEF u
      <3>4. Len(v) = 3 /\ v[3] = z
        OBVIOUS
      <3> HIDE DEF v
      <3>5. Len(u) = 2 /\ Len(R) = 1 /\ 1 \in 1..Len(R) /\ 2 \in 1..Len(u)
            /\ 1 + 1 = 2 /\ 2 + 1 = 3
        <4> DEFINE i == Len(R)
                   j == Len(u)
        <4>1. i \in Nat /\ j \in Nat /\ j = i + 1
          BY <1>14, <3>1
        <4>2. j + 1 = 3
          BY <3>2, <3>3, <3>4
        <4> HIDE DEF i, j
        <4>3. j = 2 /\ i = 1 /\ 1 \in 1..i /\ 2 \in 1..j /\ 1 + 1 = 2 /\ 2 + 1 = 3
          BY <4>1, <4>2
        <4> QED
          BY <4>3 DEF i, j
      <3>6. v[2 + 1] = u[2] /\ u[1 + 1] = R[1]
        BY <3>1, <3>2, <3>3, <3>5
      <3>7. R[1] = z
        BY <3>4, <3>5, <3>6
      <3> QED
        BY <1>14, <3>5, <3>7, FewOf
    <2> QED
      BY <2>1, <2>2
  <1>17. Read(q, 0) = p <=> AWord(z)
    BY <1>4, <1>11, <1>15, <1>16 DEF R
  <1>18. Says(Mode(from, x, y \o c), "MODE", p) <=> Read(q, 0) = p
    BY <1>12, <1>13 DEF Says
  <1> QED
    BY <1>3, <1>17, <1>18 DEF p, x, y, z, from, c

(* A key is announced as it was set exactly if it is one word (handleMode  *)
(* appends it to the modes, ReplyBuilder::mode sends it).                  *)
THEOREM KeysAnnounced == Spec => []KeyAnnounced
  BY InputInvariant, InputKeys, PTL

-----------------------------------------------------------------------------
(* Numeric replies.                                                        *)
LEMMA NumericHeard ==
  ASSUME NEW nick \in Seq(Char), AWord(nick) \/ nick = <<>>,
         NEW num \in {"004", "353", "421"},
         NEW quote \in Seq(Char)
  PROVE  LET heard == Heard(Numeric(nick, num, quote))
         IN  /\ heard.command = <<num>>
             /\ heard.params # <<>> /\ heard.params[1] = Default(nick, "*")
  <1> DEFINE pre  == <<":", "ircServ">>
             c    == Word(<<num>>)
             w    == Default(nick, "*")
             a    == Word(w)
             b    == IF quote = <<>> THEN <<>> ELSE Word(quote)
             m    == NumericMessage(num)
             d    == IF m = <<>> THEN <<>> ELSE Word(m)
             r    == b \o d
             q    == a \o r
  <1>1. /\ Fix(num) /\ ":" \in Char /\ "ircServ" \in Char /\ " " \in Char
        /\ "text" \in Char
    BY CharsAre, FixedWords DEF Fix
  <1>2. /\ pre \in Seq(Char) /\ Bare(pre) /\ IsColon(pre[1])
    <2>1. pre = <<":">> \o <<"ircServ">>
      BY <1>1, Two
    <2>2. /\ <<":">> \in Seq(Char) /\ Bare(<<":">>) /\ IsColon(<<":">>[1])
          /\ <<"ircServ">> \in Seq(Char) /\ Bare(<<"ircServ">>)
      BY CharsAre, Colons, FixedWords, OneWord DEF Fix
    <2> DEFINE e == <<":">>
               f == <<"ircServ">>
    <2> HIDE DEF e, f
    <2>3. e \o f \in Seq(Char) /\ Bare(e \o f) /\ (e \o f)[1] = e[1]
      BY <2>2, BareConcat DEF e, f
    <2> QED
      BY <2>1, <2>2, <2>3 DEF e, f
  <1>3. Numeric(nick, num, quote) = ((((pre \o c) \o a) \o b) \o d) \o EndOfLine
    <2>1. num \in NoText \cup AllText
      BY DEF NoText, AllText
    <2> QED
      BY <2>1 DEF Numeric
  <1>4. w \in Seq(Char) /\ AWord(w)
    BY FixedWords, OneWord DEF Fix, Default
  <1>5. m \in Seq(Char)
    <2>1. /\ \A x1, x2, x3 \in Char : <<x1, x2, x3>> \in Seq(Char)
          /\ \A x1, x2, x3, x4 \in Char : <<x1, x2, x3, x4>> \in Seq(Char)
      OBVIOUS
    <2>2. num \in Char
      BY <1>1 DEF Fix
    <2>3. /\ <<":", num, " ", "text">> \in Seq(Char)
          /\ <<"ircServ", " ", "text">> \in Seq(Char)
      BY <1>1, <2>1, <2>2
    <2> DEFINE full == <<":", num, " ", "text">>
               bare == <<"ircServ", " ", "text">>
    <2>4. m = <<>> \/ m = bare \/ m = full
      BY DEF NumericMessage
    <2>5. full \in Seq(Char) /\ bare \in Seq(Char)
      BY <2>3
    <2>6. <<>> \in Seq(Char)
      OBVIOUS
    <2> HIDE DEF full, bare, m
    <2> QED
      BY <2>4, <2>5, <2>6
  <1> HIDE DEF w, m, pre
  <1>6. c \in Seq(Char) /\ a \in Seq(Char)
    BY <1>1, <1>4, OneWord, WordBounded DEF Fix
  <1>7. b \in Seq(Char) /\ Bounded(b) /\ d \in Seq(Char) /\ Bounded(d)
    BY <1>5, WordBounded DEF Bounded
  <1>8. r \in Seq(Char) /\ Bounded(r)
    <2>1. CASE quote = <<>>
      <3>1. b = <<>>
        BY <2>1
      <3>2. r = d
        <4>1. d \in Seq(Char)
          BY <1>7
        <4> HIDE DEF b, d
        <4>2. <<>> \o d = d
          BY <4>1, ConcatEmptySeq
        <4> QED
          BY <3>1, <4>2
      <3> QED
        BY <1>7, <3>2
    <2>2. CASE quote # <<>>
      <3>1. b = Word(quote)
        BY <2>2
      <3> HIDE DEF d
      <3> QED
        BY <1>7, <3>1, WordBounded
    <2> QED
      BY <2>1, <2>2
  <1> HIDE DEF b, d
  <1>9. q \in Seq(Char) /\ Bounded(q)
    <2> HIDE DEF r
    <2> QED
      BY <1>4, <1>8, WordBounded
  <1>10. (((pre \o c) \o a) \o b) \o d = (pre \o c) \o q
    <2> HIDE DEF c, a
    <2> DEFINE l == pre \o c
    <2>1. l \in Seq(Char)
      BY <1>2, <1>6, ConcatThree
    <2> HIDE DEF l
    <2> DEFINE e == l \o a
    <2>2. e \in Seq(Char)
      BY <1>6, <2>1, ConcatThree
    <2>3. e \o r = l \o (a \o r)
      <3> HIDE DEF r
      <3> QED
        BY <1>6, <1>8, <2>1, ConcatThree
    <2> HIDE DEF e
    <2>4. (e \o b) \o d = e \o (b \o d)
      BY <1>7, <2>2, ConcatThree
    <2> QED
      BY <2>3, <2>4 DEF e, l
  <1>11. Heard(((pre \o c) \o q) \o EndOfLine)
           = [command |-> <<num>>, params |-> Read(q, 0)]
    <2> HIDE DEF q
    <2> QED
      BY <1>1, <1>2, <1>9, HeardIs
  <1>12. Read(q, 0) # <<>> /\ Read(q, 0)[1] = w
    <2>1. 0 < MaxParams /\ 0 + 1 \in 0..MaxParams
      BY ParserAssumption
    <2> HIDE DEF r
    <2>2. Read(q, 0) = <<w>> \o Read(r, 0 + 1)
      BY <1>4, <1>8, <2>1, ReadMoreWords
    <2> DEFINE R == Read(r, 0 + 1)
    <2>3. R \in Seq(Seq(Char))
      BY <1>8, <2>1, ReadShape DEF Shape
    <2> HIDE DEF R
    <2>4. Len(<<w>> \o R) = Len(R) + 1 /\ (<<w>> \o R)[1] = w /\ Len(R) \in Nat
      BY <1>4, <2>3, Prepend
    <2>5. <<w>> \o R # <<>>
      BY <2>4
    <2> QED
      BY <2>2, <2>4, <2>5 DEF R
  <1> HIDE DEF c, a, q
  <1> QED
    BY <1>3, <1>10, <1>11, <1>12 DEF w

LEMMA InputNumerics == InputInv => NumericsAddressed
  <1> SUFFICES ASSUME InputInv, NEW k \in DOMAIN dispatched,
                      NEW num \in {"004", "353", "421"},
                      NEW nick \in {<<>>, <<"a">>}
               PROVE  LET m     == dispatched[k]
                          quote == IF m.params = <<>> THEN <<>> ELSE m.params[1]
                          heard == Heard(Numeric(nick, num, quote))
                      IN  /\ heard.command = <<num>>
                          /\ heard.params # <<>> /\ heard.params[1] = Default(nick, "*")
    BY Zenon DEF NumericsAddressed
  <1> DEFINE p == dispatched[k].params
  <1>1. p \in Seq(Seq(Char))
    BY DispatchedParams
  <1> HIDE DEF p
  <1>2. (IF p = <<>> THEN <<>> ELSE p[1]) \in Seq(Char)
    <2>1. p # <<>> => p[1] \in Seq(Char)
      BY <1>1
    <2>2. <<>> \in Seq(Char)
      OBVIOUS
    <2> QED
      BY <2>1, <2>2
  <1>3. nick \in Seq(Char) /\ (AWord(nick) \/ nick = <<>>)
    <2>1. <<"a">> \in Seq(Char) /\ AWord(<<"a">>)
      BY FixedWords, OneWord
    <2> DEFINE a == <<"a">>
    <2>2. nick = <<>> \/ nick = a
      OBVIOUS
    <2>3. <<>> \in Seq(Char) /\ a \in Seq(Char) /\ AWord(a)
      BY <2>1
    <2> HIDE DEF a
    <2> QED
      BY <2>2, <2>3
  <1> QED
    BY <1>2, <1>3, NumericHeard DEF p

(* A client reads its own name, or the * of a client that has none yet, as *)
(* the first parameter of every numeric (ReplyBuilder::numeric).           *)
THEOREM NumericsReachTheirClient == Spec => []NumericsAddressed
  BY InputInvariant, InputNumerics, PTL
=============================================================================
