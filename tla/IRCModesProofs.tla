--------------------------- MODULE IRCModesProofs ---------------------------
(***************************************************************************)
(* Proof that the announcement of a MODE line can be replayed.  The reader *)
(* goes through the announcement from its start, and the line appends to   *)
(* it at its end.  So the invariant is about the whole reading, given as a *)
(* function from the positions of the announcement to what the reader has  *)
(* by then: it grows at its end when a change is announced, and a new      *)
(* parameter lengthens what every earlier reader has left.                 *)
(***************************************************************************)
EXTENDS ModeAnnouncements, IRCCoreProofs, WellFoundedInduction

(* The empty word.                                                         *)
Blank == ""

(* What a line announces: signs and the five modes.                        *)
Letters == {"i", "t", "k", "l", "o"}
Said == Letters \cup {"+", "-"}

IsReader(r) ==
  /\ r = [ch |-> r.ch, on |-> r.on, left |-> r.left]
  /\ r.on \in BOOLEAN /\ r.left \in Seq(Param)

(* f is what the reader r has read after each of the modes m.              *)
Reading(m, r, f) ==
  /\ f = [n \in 0..Len(m) |-> IF n = 0 THEN r ELSE Read(m[n], f[n - 1])]
  /\ \A n \in 0..Len(m) : IsReader(f[n])

(* No mode of m had to take the empty word for a parameter that is not     *)
(* there.                                                                  *)
Fed(m, f) ==
  \A n \in 1..Len(m) : TakesParam(m[n], f[n - 1].on) => f[n - 1].left # <<>>

(* A reader has read that s was the last sign ("" when there was none).    *)
SignRead(on, s) == (s = "+" => on = TRUE) /\ (s = "-" => on = FALSE)

(* The reading ends with the channel as it is, under the sign of the last  *)
(* change.  Only an announced empty key leaves a reader without parameter, *)
(* and then the line has no parameters any more.                           *)
Faithful(f) ==
  LET r == f[Len(job.finalModes)]
  IN  /\ r.ch = ModeChannel /\ r.left = <<>>
      /\ SignRead(r.on, job.lastSign)
      /\ Fed(job.finalModes, f) \/ job.params = <<>>

LineInv ==
  InLine =>
    /\ job.finalModes \in Seq(Said)
    /\ \A i \in 1 .. Len(job.params) - 1 : job.params[i] # Blank
    /\ \E f : Reading(job.finalModes, Reader, f) /\ Faithful(f)

-----------------------------------------------------------------------------
(* Induction over the natural numbers, for a set.                          *)
LEMMA SetInduction ==
  ASSUME NEW S, 0 \in S, \A n \in Nat : n \in S => n + 1 \in S
  PROVE  Nat \subseteq S
  <1> DEFINE T == Nat \ S
  <1> SUFFICES ASSUME T # {} PROVE FALSE
    OBVIOUS
  <1>1. PICK x \in T : \A y \in T : ~ (<<y, x>> \in OpToRel(<, Nat))
    <2> HIDE DEF T
    <2>1. T \subseteq Nat
      BY DEF T
    <2> QED
      BY <2>1, NatLessThanWellFounded, WFMin
  <1>2. x # 0 /\ x - 1 \in Nat /\ x - 1 < x
    OBVIOUS
  <1>3. <<x - 1, x>> \in OpToRel(<, Nat)
    BY <1>2 DEF OpToRel
  <1>4. x - 1 \in S
    BY <1>1, <1>2, <1>3
  <1> QED
    BY <1>2, <1>4

(* There is only one reading: it is the one that Replayed takes its result *)
(* from.                                                                   *)
LEMMA OneReading ==
  ASSUME job.finalModes \in Seq(Said), NEW f,
         Reading(job.finalModes, Reader, f)
  PROVE  Replayed = f[Len(job.finalModes)]
  <1> DEFINE N    == Len(job.finalModes)
             D(g) == g = [n \in 0..N |->
                            IF n = 0 THEN Reader ELSE Read(job.finalModes[n], g[n - 1])]
             h    == CHOOSE g : D(g)
             S    == {n \in Nat : n <= N => h[n] = f[n]}
  <1>1. N \in Nat
    OBVIOUS
  <1>2. D(f)
    BY DEF Reading
  <1>3. D(h)
    <2> HIDE DEF D
    <2> QED
      BY <1>2
  <1>4. Replayed = h[N]
    BY DEF Replayed
  <1> HIDE DEF h
  <1>5. 0 \in S
    BY <1>1, <1>2, <1>3
  <1>6. ASSUME NEW n \in Nat, n \in S PROVE n + 1 \in S
    BY <1>1, <1>2, <1>3, <1>6
  <1> HIDE DEF S
  <1>7. Nat \subseteq S
    BY <1>5, <1>6, SetInduction
  <1> QED
    BY <1>1, <1>4, <1>7 DEF S

-----------------------------------------------------------------------------
(* One more parameter at the end of what a reader has left.                *)
Long(r, p) == [ch |-> r.ch, on |-> r.on, left |-> Append(r.left, p)]

(* The head and the tail of a sequence do not see what is appended to it.  *)
LEMMA AppendedList ==
  ASSUME NEW S, NEW s \in Seq(S), NEW p \in S
  PROVE  /\ Append(s, p) \in Seq(S) /\ Append(s, p) # <<>>
         /\ s # <<>> => /\ Head(Append(s, p)) = Head(s)
                        /\ TailOf(Append(s, p)) = Append(TailOf(s), p)
  <1>1. Append(s, p) \in Seq(S) /\ Append(s, p) # <<>>
    BY NotEmptied
  <1>2. ASSUME s # <<>>
        PROVE  /\ Head(Append(s, p)) = Head(s)
               /\ Tail(Append(s, p)) = Append(Tail(s), p)
    BY <1>2
  <1> QED
    BY <1>1, <1>2 DEF TailOf

(* A list of one parameter.                                                *)
LEMMA OneParameter ==
  ASSUME NEW p \in Param
  PROVE  /\ <<p>> \in Seq(Param) /\ <<p>> # <<>>
         /\ TailOf(<<p>>) = <<>> /\ Head(<<p>>) = p
         /\ Append(<<>>, p) = <<p>>
  BY DEF TailOf

(* Reading leaves a reader.                                                *)
LEMMA ReadType ==
  ASSUME NEW c, NEW r, IsReader(r)
  PROVE  /\ IsReader(Read(c, r))
         /\ c \in {"+", "-"} => Read(c, r) = [ch |-> r.ch, on |-> (c = "+"),
                                              left |-> r.left]
  <1>1. r = [ch |-> r.ch, on |-> r.on, left |-> r.left]
        /\ r.on \in BOOLEAN /\ r.left \in Seq(Param)
    BY DEF IsReader
  <1>2. TailOf(r.left) \in Seq(Param)
    BY <1>1, ListTails
  <1>3. CASE c \in {"+", "-"}
    <2>1. Read(c, r) = [r EXCEPT !.on = (c = "+")]
      BY <1>3 DEF Read
    <2> DEFINE b == (c = "+")
    <2>2. b \in BOOLEAN /\ Read(c, r) = [r EXCEPT !.on = b]
      BY <2>1
    <2> HIDE DEF b
    <2>3. Read(c, r) = [ch |-> r.ch, on |-> b, left |-> r.left]
      BY <1>1, <2>2
    <2>4. IsReader(Read(c, r))
      BY <1>1, <2>2, <2>3 DEF IsReader
    <2> QED
      BY <2>3, <2>4 DEF b
  <1>4. CASE c \notin {"+", "-"}
    <2> DEFINE x == Applied(r, c)
               y == IF TakesParam(c, r.on) THEN TailOf(r.left) ELSE r.left
    <2>1. Read(c, r) = [ch |-> x, on |-> r.on, left |-> y]
      BY <1>4 DEF Read
    <2>2. y \in Seq(Param)
      BY <1>1, <1>2
    <2> HIDE DEF x, y
    <2> QED
      BY <1>1, <1>4, <2>1, <2>2 DEF IsReader
  <1> QED
    BY <1>3, <1>4

(* A parameter at the end makes no difference to a mode that has the       *)
(* parameter it takes.                                                     *)
LEMMA ReadLonger ==
  ASSUME NEW c \in Said, NEW r, IsReader(r), NEW p \in Param,
         TakesParam(c, r.on) => r.left # <<>>
  PROVE  IsReader(Long(r, p)) /\ Read(c, Long(r, p)) = Long(Read(c, r), p)
  <1> DEFINE q == Long(r, p)
  <1>1. r = [ch |-> r.ch, on |-> r.on, left |-> r.left]
        /\ r.on \in BOOLEAN /\ r.left \in Seq(Param)
    BY DEF IsReader
  <1>2. Append(r.left, p) \in Seq(Param)
    BY <1>1, AppendedList
  <1>3. /\ q = [ch |-> r.ch, on |-> r.on, left |-> Append(r.left, p)]
        /\ q.ch = r.ch /\ q.on = r.on /\ q.left = Append(r.left, p)
    BY DEF Long
  <1>4. IsReader(q)
    BY <1>1, <1>2, <1>3 DEF IsReader
  <1> HIDE DEF q
  <1>5. CASE c \in {"+", "-"}
    <2>1. /\ Read(c, r) = [ch |-> r.ch, on |-> (c = "+"), left |-> r.left]
          /\ Read(c, q) = [ch |-> q.ch, on |-> (c = "+"), left |-> q.left]
      BY <1>4, <1>5, ReadType
    <2>2. Long(Read(c, r), p) = [ch |-> r.ch, on |-> (c = "+"),
                                 left |-> Append(r.left, p)]
      BY <2>1 DEF Long
    <2>3. Read(c, q) = Long(Read(c, r), p)
      BY <1>3, <2>1, <2>2
    <2> QED
      BY <1>4, <2>3 DEF q
  <1>6. CASE c \notin {"+", "-"}
    <2>1. ASSUME TakesParam(c, r.on)
          PROVE  Given(q) = Given(r) /\ TailOf(q.left) = Append(TailOf(r.left), p)
      BY <1>1, <1>3, <2>1, AppendedList DEF Given
    <2>2. Applied(q, c) = Applied(r, c)
      <3>1. c \in {"i", "t", "k", "l", "o"}
        BY <1>6 DEF Said, Letters
      <3>2. CASE c \in {"i", "t"}
        BY <1>3, <3>2 DEF Applied
      <3>3. CASE c = "k"
        BY <1>1, <1>3, <2>1, <3>3 DEF Applied, TakesParam
      <3>4. CASE c = "l"
        BY <1>1, <1>3, <2>1, <3>4 DEF Applied, TakesParam
      <3>5. CASE c = "o"
        BY <1>3, <2>1, <3>5 DEF Applied, TakesParam
      <3> QED
        BY <3>1, <3>2, <3>3, <3>4, <3>5
    <2> DEFINE x == Applied(r, c)
               y == IF TakesParam(c, r.on) THEN TailOf(r.left) ELSE r.left
               z == IF TakesParam(c, q.on) THEN TailOf(q.left) ELSE q.left
    <2>3. /\ Read(c, r) = [ch |-> x, on |-> r.on, left |-> y]
          /\ Read(c, q) = [ch |-> x, on |-> q.on, left |-> z]
      BY <1>6, <2>2 DEF Read
    <2>4. z = Append(y, p)
      BY <1>3, <2>1
    <2> HIDE DEF x, y, z
    <2>5. Long(Read(c, r), p) = [ch |-> x, on |-> r.on, left |-> Append(y, p)]
      BY <2>3 DEF Long
    <2> QED
      BY <1>3, <1>4, <2>3, <2>4, <2>5 DEF q
  <1> QED
    BY <1>5, <1>6
(* The reading of a longer announcement.                                   *)
LEMMA ReadingAppended ==
  ASSUME NEW m \in Seq(Said), NEW r, NEW f, Reading(m, r, f), NEW c \in Said
  PROVE  \E g : /\ Reading(Append(m, c), r, g)
                /\ g[Len(Append(m, c))] = Read(c, f[Len(m)])
                /\ Fed(m, f) /\ (TakesParam(c, f[Len(m)].on) => f[Len(m)].left # <<>>)
                     => Fed(Append(m, c), g)
  <1> DEFINE M == Append(m, c)
             N == Len(m)
             g == [n \in 0..N + 1 |-> IF n = N + 1 THEN Read(c, f[N]) ELSE f[n]]
  <1>1. /\ N \in Nat /\ Len(M) = N + 1 /\ M[N + 1] = c
        /\ \A n \in 1..N : M[n] = m[n]
    OBVIOUS
  <1>2. /\ \A n \in 0..N : IsReader(f[n])
        /\ f[0] = r
        /\ \A n \in 1..N : f[n] = Read(m[n], f[n - 1])
    <2>1. f = [n \in 0..N |-> IF n = 0 THEN r ELSE Read(m[n], f[n - 1])]
      BY DEF Reading
    <2>2. \A n \in 0..N : f[n] = IF n = 0 THEN r ELSE Read(m[n], f[n - 1])
      BY <2>1
    <2> QED
      BY <1>1, <2>2 DEF Reading
  <1>3. IsReader(Read(c, f[N]))
    BY <1>1, <1>2, ReadType
  <1> HIDE DEF M, N
  <1>4. /\ g[N + 1] = Read(c, f[N])
        /\ \A n \in 0..N : g[n] = f[n]
    BY <1>1
  <1>5. \A n \in 0..N + 1 : g[n] = IF n = 0 THEN r ELSE Read(M[n], g[n - 1])
    <2> SUFFICES ASSUME NEW n \in 0..N + 1
                 PROVE  g[n] = IF n = 0 THEN r ELSE Read(M[n], g[n - 1])
      OBVIOUS
    <2> HIDE DEF g
    <2>1. CASE n = 0
      BY <1>1, <1>2, <1>4, <2>1
    <2>2. CASE n \in 1..N
      BY <1>1, <1>2, <1>4, <2>2
    <2>3. CASE n = N + 1
      BY <1>1, <1>2, <1>4, <2>3
    <2> QED
      BY <1>1, <2>1, <2>2, <2>3
  <1>6. g = [n \in 0..N + 1 |-> IF n = 0 THEN r ELSE Read(M[n], g[n - 1])]
    <2> DEFINE h == [n \in 0..N + 1 |-> IF n = 0 THEN r ELSE Read(M[n], g[n - 1])]
    <2>1. DOMAIN g = 0..N + 1 /\ g = [n \in DOMAIN g |-> g[n]]
      OBVIOUS
    <2> HIDE DEF g
    <2>2. h = [n \in 0..N + 1 |-> g[n]]
      BY <1>5
    <2> QED
      BY <2>1, <2>2
  <1> HIDE DEF g
  <1>7. \A n \in 0..N + 1 : IsReader(g[n])
    BY <1>1, <1>2, <1>3, <1>4
  <1>8. Reading(M, r, g)
    BY <1>1, <1>6, <1>7 DEF Reading
  <1>9. ASSUME Fed(m, f), TakesParam(c, f[N].on) => f[N].left # <<>>
        PROVE  Fed(M, g)
    <2> SUFFICES ASSUME NEW n \in 1..N + 1
                 PROVE  TakesParam(M[n], g[n - 1].on) => g[n - 1].left # <<>>
      BY <1>1 DEF Fed
    <2>1. CASE n \in 1..N
      <3>1. n - 1 \in 0..N /\ M[n] = m[n] /\ g[n - 1] = f[n - 1]
        BY <1>1, <1>4, <2>1
      <3> QED
        BY <1>9, <2>1, <3>1 DEF Fed, N
    <2>2. CASE n = N + 1
      BY <1>1, <1>4, <1>9, <2>2
    <2> QED
      BY <1>1, <2>1, <2>2
  <1> QED
    BY <1>1, <1>4, <1>8, <1>9 DEF M, N

(* The same reading by a reader with one more parameter.                   *)
LEMMA ReadingLonger ==
  ASSUME NEW m \in Seq(Said), NEW r, NEW f, Reading(m, r, f), Fed(m, f),
         NEW p \in Param
  PROVE  \E g : /\ Reading(m, Long(r, p), g) /\ Fed(m, g)
                /\ g[Len(m)] = Long(f[Len(m)], p)
  <1> DEFINE N == Len(m)
             g == [n \in 0..N |-> Long(f[n], p)]
  <1>1. N \in Nat /\ \A n \in 1..N : m[n] \in Said
    OBVIOUS
  <1>2. /\ \A n \in 0..N : IsReader(f[n])
        /\ f[0] = r
        /\ \A n \in 1..N : f[n] = Read(m[n], f[n - 1])
    <2>1. f = [n \in 0..N |-> IF n = 0 THEN r ELSE Read(m[n], f[n - 1])]
      BY DEF Reading
    <2>2. \A n \in 0..N : f[n] = IF n = 0 THEN r ELSE Read(m[n], f[n - 1])
      BY <2>1
    <2> QED
      BY <1>1, <2>2 DEF Reading
  <1>3. \A n \in 1..N : TakesParam(m[n], f[n - 1].on) => f[n - 1].left # <<>>
    BY DEF Fed
  <1> HIDE DEF N
  <1>4. \A n \in 0..N : g[n] = Long(f[n], p)
    OBVIOUS
  <1>5. ASSUME NEW n \in 1..N
        PROVE  /\ IsReader(g[n - 1]) /\ Read(m[n], g[n - 1]) = g[n]
               /\ g[n - 1].left # <<>>
    <2> HIDE DEF g
    <2>1. n - 1 \in 0..N /\ n \in 0..N
      BY <1>1
    <2>2. IsReader(f[n - 1]) /\ f[n] = Read(m[n], f[n - 1]) /\ m[n] \in Said
      BY <1>1, <1>2, <2>1
    <2>3. TakesParam(m[n], f[n - 1].on) => f[n - 1].left # <<>>
      BY <1>3
    <2>4. /\ IsReader(Long(f[n - 1], p))
          /\ Read(m[n], Long(f[n - 1], p)) = Long(Read(m[n], f[n - 1]), p)
      BY <2>2, <2>3, ReadLonger
    <2>5. g[n - 1] = Long(f[n - 1], p) /\ g[n] = Long(f[n], p)
      BY <1>4, <2>1
    <2>6. f[n - 1].left \in Seq(Param) /\ g[n - 1].left = Append(f[n - 1].left, p)
      BY <2>2, <2>5 DEF Long, IsReader
    <2>7. g[n - 1].left # <<>>
      <3>1. Append(f[n - 1].left, p) # <<>>
        BY <2>6, AppendedList, Zenon
      <3> QED
        BY <2>6, <3>1
    <2> QED
      BY <2>2, <2>4, <2>5, <2>7
  <1>6. ASSUME NEW n \in 0..N PROVE IsReader(g[n])
    <2>1. IsReader(f[n]) /\ g[n] = Long(f[n], p)
      BY <1>2, <1>4
    <2>2. Append(f[n].left, p) \in Seq(Param)
      BY <2>1, AppendedList DEF IsReader
    <2> QED
      BY <2>1, <2>2 DEF IsReader, Long
  <1>7. \A n \in 0..N : g[n] = IF n = 0 THEN Long(r, p) ELSE Read(m[n], g[n - 1])
    <2> HIDE DEF g
    <2> SUFFICES ASSUME NEW n \in 0..N
                 PROVE  g[n] = IF n = 0 THEN Long(r, p) ELSE Read(m[n], g[n - 1])
      OBVIOUS
    <2>1. n = 0 \/ n \in 1..N
      BY <1>1
    <2> QED
      BY <1>2, <1>4, <1>5, <2>1
  <1>8. g = [n \in 0..N |-> IF n = 0 THEN Long(r, p) ELSE Read(m[n], g[n - 1])]
    <2> DEFINE h == [n \in 0..N |->
                       IF n = 0 THEN Long(r, p) ELSE Read(m[n], g[n - 1])]
    <2>1. DOMAIN g = 0..N /\ g = [n \in DOMAIN g |-> g[n]]
      OBVIOUS
    <2> HIDE DEF g
    <2>2. h = [n \in 0..N |-> g[n]]
      BY <1>7
    <2> QED
      BY <2>1, <2>2
  <1> HIDE DEF g
  <1>9. Reading(m, Long(r, p), g)
    BY <1>6, <1>8 DEF Reading, N
  <1>10. Fed(m, g)
    BY <1>5 DEF Fed, N
  <1> QED
    BY <1>1, <1>4, <1>9, <1>10 DEF N
-----------------------------------------------------------------------------
(* The announcement m, last sign s, with one more change c.                *)
Extended(m, s, on, c) ==
  LET sign == IF on THEN "+" ELSE "-"
  IN  IF sign = s THEN Append(m, c) ELSE m \o <<sign, c>>

(* What the change c does to a channel, with parameter p ("" for none).    *)
Done(ch, c, on, p) ==
  Applied([ch |-> ch, on |-> on, left |-> IF p = Blank THEN <<>> ELSE <<p>>], c)

(* g is the reading of the longer announcement: what the reader r, with the*)
(* parameter, has understood in f of m, and then the change c.             *)
ReadOn(m, f, s, on, c, p, r, g) ==
  LET M == Extended(m, s, on, c)
  IN  /\ Reading(M, IF p = Blank THEN r ELSE Long(r, p), g)
      /\ g[Len(M)] = [ch |-> Done(f[Len(m)].ch, c, on, p), on |-> on, left |-> <<>>]
      /\ Fed(m, f) /\ (TakesParam(c, on) => p # Blank) => Fed(M, g)

(* A reader of the announcement that has understood all of it understands  *)
(* the change that is announced next.                                      *)
LEMMA ChangeRead ==
  ASSUME NEW m \in Seq(Said), NEW r, NEW f, Reading(m, r, f),
         f[Len(m)].left = <<>>,
         NEW s, SignRead(f[Len(m)].on, s),
         NEW on \in BOOLEAN, NEW c \in Letters,
         NEW p \in Param, p # Blank => Fed(m, f) /\ TakesParam(c, on)
  PROVE  /\ Extended(m, s, on, c) \in Seq(Said)
         /\ \E g : ReadOn(m, f, s, on, c, p, r, g)
  <1> DEFINE r1   == IF p = Blank THEN r ELSE Long(r, p)
             sign == IF on THEN "+" ELSE "-"
             ch   == f[Len(m)].ch
             left == IF p = Blank THEN <<>> ELSE <<p>>
  <1>1. IsReader(f[Len(m)])
    <2>1. Len(m) \in 0..Len(m)
      OBVIOUS
    <2> QED
      BY <2>1 DEF Reading
  <1>2. PICK f1 : /\ Reading(m, r1, f1)
                  /\ f1[Len(m)] = [ch |-> ch, on |-> f[Len(m)].on, left |-> left]
                  /\ Fed(m, f) => Fed(m, f1)
    <2>1. CASE p = Blank
      <3>1. f[Len(m)] = [ch |-> ch, on |-> f[Len(m)].on, left |-> left]
        BY <1>1, <2>1 DEF IsReader
      <3> QED
        BY <2>1, <3>1
    <2>2. CASE p # Blank
      <3>1. PICK g : /\ Reading(m, Long(r, p), g) /\ Fed(m, g)
                     /\ g[Len(m)] = Long(f[Len(m)], p)
        BY <2>2, ReadingLonger
      <3>2. Append(<<>>, p) = <<p>>
        BY OneParameter
      <3>3. g[Len(m)] = [ch |-> ch, on |-> f[Len(m)].on, left |-> left]
        BY <2>2, <3>1, <3>2 DEF Long
      <3> QED
        BY <2>2, <3>1, <3>3
    <2> QED
      BY <2>1, <2>2
  <1>3. left \in Seq(Param) /\ TailOf(left) = <<>> /\ (p # Blank => left # <<>>)
    BY OneParameter DEF TailOf
  <1>4. sign \in Said /\ c \in Said
    BY DEF Said
  <1>5. Done(ch, c, on, p) = Applied([ch |-> ch, on |-> on, left |-> left], c)
    BY DEF Done
  <1> HIDE DEF r1, ch, left
  <1>6. \E m1 \in Seq(Said) : \E f2 :
          /\ Append(m1, c) = Extended(m, s, on, c)
          /\ Reading(m1, r1, f2)
          /\ f2[Len(m1)] = [ch |-> ch, on |-> on, left |-> left]
          /\ Fed(m, f) => Fed(m1, f2)
    <2>1. CASE sign = s
      <3>1. f[Len(m)].on = on
        BY <2>1 DEF SignRead
      <3>2. Append(m, c) = Extended(m, s, on, c)
        BY <2>1 DEF Extended
      <3> QED
        BY <1>2, <3>1, <3>2
    <2>2. CASE sign # s
      <3>1. PICK g : /\ Reading(Append(m, sign), r1, g)
                     /\ g[Len(Append(m, sign))] = Read(sign, f1[Len(m)])
                     /\ Fed(m, f1) /\ (TakesParam(sign, f1[Len(m)].on)
                                         => f1[Len(m)].left # <<>>)
                          => Fed(Append(m, sign), g)
        BY <1>2, <1>4, ReadingAppended
      <3>2. IsReader(f1[Len(m)])
        BY <1>2 DEF Reading
      <3>3. Read(sign, f1[Len(m)]) = [ch |-> ch, on |-> (sign = "+"), left |-> left]
        BY <1>2, <3>2, ReadType
      <3>4. (sign = "+") = on
        OBVIOUS
      <3>5. ~TakesParam(sign, f1[Len(m)].on)
        BY DEF TakesParam
      <3>6. Append(Append(m, sign), c) = Extended(m, s, on, c)
        <4>1. Extended(m, s, on, c) = m \o <<sign, c>>
          BY <2>2 DEF Extended
        <4> HIDE DEF sign
        <4>2. Append(Append(m, sign), c) = m \o <<sign, c>>
          BY <1>4
        <4> QED
          BY <4>1, <4>2
      <3>7. Append(m, sign) \in Seq(Said)
        BY <1>4
      <3> HIDE DEF sign
      <3> QED
        BY <1>2, <3>1, <3>3, <3>4, <3>5, <3>6, <3>7
    <2> QED
      BY <2>1, <2>2
  <1>7. PICK m1 \in Seq(Said) : \E f2 :
          /\ Append(m1, c) = Extended(m, s, on, c)
          /\ Reading(m1, r1, f2)
          /\ f2[Len(m1)] = [ch |-> ch, on |-> on, left |-> left]
          /\ Fed(m, f) => Fed(m1, f2)
    BY <1>6
  <1>8. PICK f2 :
          /\ Append(m1, c) = Extended(m, s, on, c)
          /\ Reading(m1, r1, f2)
          /\ f2[Len(m1)] = [ch |-> ch, on |-> on, left |-> left]
          /\ Fed(m, f) => Fed(m1, f2)
    BY <1>7
  <1> DEFINE M == Extended(m, s, on, c)
             q == [ch |-> ch, on |-> on, left |-> left]
  <1> HIDE DEF M, q
  <1>9. M = Append(m1, c) /\ f2[Len(m1)] = q
    BY <1>8 DEF M, q
  <1>10. PICK g : /\ Reading(Append(m1, c), r1, g)
                  /\ g[Len(Append(m1, c))] = Read(c, f2[Len(m1)])
                  /\ Fed(m1, f2) /\ (TakesParam(c, f2[Len(m1)].on)
                                       => f2[Len(m1)].left # <<>>)
                       => Fed(Append(m1, c), g)
    <2>1. m1 \in Seq(Said) /\ c \in Said /\ Reading(m1, r1, f2)
      BY <1>4, <1>7, <1>8
    <2> QED
      BY <2>1, ReadingAppended
  <1>11. Reading(M, r1, g) /\ g[Len(M)] = Read(c, q)
    BY <1>9, <1>10
  <1>12. M \in Seq(Said)
    BY <1>4, <1>9
  <1>13. Read(c, q) = [ch |-> Applied(q, c), on |-> on, left |-> <<>>]
    <2>1. c \notin {"+", "-"}
      BY DEF Letters
    <2>2. Read(c, q) = [ch |-> Applied(q, c), on |-> q.on,
                        left |-> IF TakesParam(c, q.on) THEN TailOf(q.left) ELSE q.left]
      BY <2>1 DEF Read
    <2>3. ~TakesParam(c, on) => left = <<>>
      BY DEF left
    <2> QED
      BY <1>3, <2>2, <2>3 DEF q
  <1>14. Fed(m, f) /\ (TakesParam(c, on) => p # Blank) => Fed(M, g)
    <2>1. q.on = on /\ q.left = left
      BY DEF q
    <2>2. Fed(m1, f2) /\ (TakesParam(c, on) => left # <<>>) => Fed(M, g)
      BY <1>9, <1>10, <2>1
    <2> QED
      BY <1>3, <1>8, <2>2
  <1>15. g[Len(M)] = [ch |-> Done(ch, c, on, p), on |-> on, left |-> <<>>]
    BY <1>5, <1>11, <1>13 DEF q
  <1> QED
    BY <1>11, <1>12, <1>14, <1>15 DEF M, r1, ch, ReadOn
-----------------------------------------------------------------------------
(* Steps.  A turn of a MODE line changes no nickname, so what has been read*)
(* stays read.                                                             *)
LEMMA SameReading ==
  ASSUME UNCHANGED clientsByNick, NEW m, NEW r, NEW f, Reading(m, r, f)
  PROVE  Reading(m, r, f)'
  <1>1. \A c, q : Applied(q, c)' = Applied(q, c)
    BY DEF Applied, FindNick
  <1>2. \A c, q : Read(c, q)' = Read(c, q)
    BY <1>1 DEF Read
  <1> QED
    BY <1>2 DEF Reading

(* Only the last parameter of what is left is ever empty.                  *)
LEMMA ParametersLeft ==
  ASSUME NEW s \in Seq(Param), \A i \in 1 .. Len(s) - 1 : s[i] # Blank
  PROVE  /\ \A i \in 1 .. Len(TailOf(s)) - 1 : TailOf(s)[i] # Blank
         /\ s # <<>> /\ Head(s) = Blank => TailOf(s) = <<>>
  <1>1. CASE s = <<>>
    BY <1>1 DEF TailOf
  <1>2. CASE s # <<>>
    <2>1. /\ TailOf(s) = Tail(s) /\ Len(Tail(s)) = Len(s) - 1 /\ Len(s) \in Nat \ {0}
          /\ \A i \in 1 .. Len(s) - 1 : Tail(s)[i] = s[i + 1]
          /\ Head(s) = s[1]
      BY <1>2 DEF TailOf
    <2>2. Tail(s) \in Seq(Param)
      BY <1>2
    <2>3. Head(s) = Blank => Len(Tail(s)) = 0
      BY <2>1
    <2>4. Head(s) = Blank => Tail(s) = <<>>
      BY <2>2, <2>3
    <2>5. \A i \in 1 .. Len(Tail(s)) - 1 : Tail(s)[i] # Blank
      BY <2>1
    <2> QED
      BY <2>1, <2>4, <2>5
  <1> QED
    BY <1>1, <1>2

(* What every turn keeps.                                                  *)
SameLine ==
  /\ UNCHANGED <<clientsByNick, before>>
  /\ InLine /\ InLine' /\ job'.chan = job.chan
  /\ job'.params = job.params \/ job'.params = TailOf(job.params)

(* A turn that changes and announces nothing.                              *)
LEMMA QuietKeeps ==
  ASSUME Base, LineInv, SameLine, channels' = channels,
         job'.finalModes = job.finalModes, job'.finalParams = job.finalParams,
         job'.lastSign = job.lastSign
  PROVE  LineInv'
  <1>1. /\ job.finalModes \in Seq(Said)
        /\ \A i \in 1 .. Len(job.params) - 1 : job.params[i] # Blank
        /\ \E f : Reading(job.finalModes, Reader, f) /\ Faithful(f)
    BY DEF LineInv, SameLine
  <1>2. job.params \in Seq(Param)
    BY JobFields DEF Base, TypeOK
  <1>3. /\ \A i \in 1 .. Len(job'.params) - 1 : job'.params[i] # Blank
        /\ job.params = <<>> => job'.params = <<>>
    BY <1>1, <1>2, ParametersLeft DEF SameLine, TailOf
  <1>4. PICK f : Reading(job.finalModes, Reader, f) /\ Faithful(f)
    BY <1>1
  <1>5. Reader' = Reader /\ ModeChannel' = ModeChannel
    BY DEF Reader, ModeChannel, SameLine
  <1>6. Reading(job.finalModes, Reader, f)'
    <2> DEFINE m == job.finalModes
               r == Reader
    <2>1. PICK m1, r1 : m1 = m /\ r1 = r
      OBVIOUS
    <2>2. Reading(m1, r1, f)'
      BY <1>4, <2>1, SameReading DEF SameLine
    <2> QED
      BY <1>5, <2>1, <2>2
  <1>7. Faithful(f)'
    BY <1>3, <1>4, <1>5 DEF Faithful
  <1> QED
    BY <1>1, <1>3, <1>6, <1>7 DEF LineInv
(* What a turn that changes the channel does to the announcement.          *)
LEMMA ChangeFields ==
  ASSUME Base, InLine, job.todo # <<>>, NEW c, c = Current, NEW p \in Param,
         NEW ch, NEW popped \in BOOLEAN, Change(ch, popped, p)
  PROVE  /\ job'.finalModes = Extended(job.finalModes, job.lastSign, job.adding, c)
         /\ job'.finalParams = IF p = Blank THEN job.finalParams
                               ELSE Append(job.finalParams, p)
         /\ job'.lastSign = IF job.adding THEN "+" ELSE "-"
         /\ job'.params = IF popped THEN TailOf(job.params) ELSE job.params
         /\ job'.cmd = job.cmd /\ job'.chan = job.chan
         /\ channels'[job.chan] = ch
  <1> DEFINE sign == IF job.adding THEN "+" ELSE "-"
             fm   == IF sign = job.lastSign THEN Append(job.finalModes, Current)
                     ELSE job.finalModes \o <<sign, Current>>
             fp   == IF p = "" THEN job.finalParams ELSE Append(job.finalParams, p)
             x    == IF popped THEN TailOf(job.params) ELSE job.params
             y    == Tail(job.todo)
  <1>1. job \in Job
    BY DEF Base, TypeOK
  <1>2. Announced(p) = [job EXCEPT !.finalModes = fm, !.finalParams = fp,
                                   !.lastSign = sign]
    BY DEF Announced
  <1>3. fm = Extended(job.finalModes, job.lastSign, job.adding, c)
    BY DEF Extended
  <1>4. fp = IF p = Blank THEN job.finalParams ELSE Append(job.finalParams, p)
    BY DEF Blank
  <1> HIDE DEF fm, fp
  <1>5. /\ Announced(p).finalModes = fm /\ Announced(p).finalParams = fp
        /\ Announced(p).lastSign = sign /\ Announced(p).params = job.params
        /\ Announced(p).cmd = job.cmd /\ Announced(p).chan = job.chan
        /\ Announced(p).todo = job.todo
    BY <1>1, <1>2 DEF Job
  <1>6. job' = [Announced(p) EXCEPT !.todo = y, !.params = x]
    BY <1>5 DEF Change, ModeTurn
  <1> HIDE DEF x, y, sign
  <1>7. /\ job'.finalModes = fm /\ job'.finalParams = fp /\ job'.lastSign = sign
        /\ job'.params = x /\ job'.cmd = job.cmd /\ job'.chan = job.chan
    BY <1>1, <1>2, <1>6 DEF Job
  <1>8. channels'[job.chan] = ch
    BY ModeLive DEF Change, Base, TypeOK, InLine
  <1> QED
    BY <1>3, <1>4, <1>7, <1>8 DEF x, sign

(* A turn that changes the channel announces what it has done.             *)
LEMMA ChangeKeeps ==
  ASSUME Base, LineInv, InLine, job.todo # <<>>, UNCHANGED <<clientsByNick, before>>,
         NEW c \in Letters, c = Current, NEW p \in Param,
         NEW ch, NEW popped \in BOOLEAN, Change(ch, popped, p),
         ch = Done(ModeChannel, c, job.adding, p),
         p # Blank => TakesParam(c, job.adding) /\ job.params # <<>>,
         p = Blank /\ TakesParam(c, job.adding) => job'.params = <<>>
  PROVE  LineInv'
  <1>1. /\ job'.finalModes = Extended(job.finalModes, job.lastSign, job.adding, c)
        /\ job'.finalParams = IF p = Blank THEN job.finalParams
                              ELSE Append(job.finalParams, p)
        /\ job'.lastSign = IF job.adding THEN "+" ELSE "-"
        /\ job'.params = IF popped THEN TailOf(job.params) ELSE job.params
        /\ job'.cmd = job.cmd /\ job'.chan = job.chan
        /\ channels'[job.chan] = ch
    BY ChangeFields
  <1>2. /\ job.finalModes \in Seq(Said)
        /\ \A i \in 1 .. Len(job.params) - 1 : job.params[i] # Blank
        /\ \E f : Reading(job.finalModes, Reader, f) /\ Faithful(f)
    BY DEF LineInv
  <1>3. PICK f : Reading(job.finalModes, Reader, f) /\ Faithful(f)
    BY <1>2
  <1>4. /\ job.params \in Seq(Param) /\ job.adding \in BOOLEAN
    BY JobFields DEF Base, TypeOK
  <1>5. PICK m \in Seq(Said), on \in BOOLEAN : m = job.finalModes /\ on = job.adding
    BY <1>2, <1>4
  <1>6. PICK s, r : s = job.lastSign /\ r = Reader /\ m = job.finalModes /\ on = job.adding
    BY <1>5
  <1> DEFINE M == Extended(m, s, on, c)
             R == IF p = Blank THEN r ELSE Long(r, p)
  <1>7. /\ Reading(m, r, f)
        /\ f[Len(m)].ch = ModeChannel /\ f[Len(m)].left = <<>>
        /\ SignRead(f[Len(m)].on, s) /\ (Fed(m, f) \/ job.params = <<>>)
    BY <1>2, <1>3, <1>4, <1>6 DEF Faithful
  <1>8. p # Blank => Fed(m, f) /\ TakesParam(c, on)
    BY <1>6, <1>7
  <1>9. M \in Seq(Said) /\ \E g : ReadOn(m, f, s, on, c, p, r, g)
    <2>1. /\ m \in Seq(Said) /\ on \in BOOLEAN
          /\ Reading(m, r, f) /\ f[Len(m)].left = <<>> /\ SignRead(f[Len(m)].on, s)
      BY <1>5, <1>7
    <2> QED
      BY <1>8, <2>1, ChangeRead, Zenon
  <1>10. PICK g : ReadOn(m, f, s, on, c, p, r, g)
    BY <1>9
  <1>11. /\ Reading(M, R, g)
         /\ g[Len(M)] = [ch |-> Done(f[Len(m)].ch, c, on, p), on |-> on, left |-> <<>>]
         /\ Fed(m, f) /\ (TakesParam(c, on) => p # Blank) => Fed(M, g)
    BY <1>10 DEF ReadOn
  <1> HIDE DEF M, R
  <1>12. PICK M1, R1 : M1 = M /\ R1 = R
    OBVIOUS
  <1>13. Reading(M1, R1, g)'
    BY <1>11, <1>12, SameReading
  <1>14. job'.finalModes = M1 /\ Reader' = R1 /\ ModeChannel' = ch
    BY <1>1, <1>6, <1>12 DEF M, R, Long, Reader, ModeChannel
  <1>15. Reading(job.finalModes, Reader, g)'
    BY <1>13, <1>14
  <1>16. /\ \A i \in 1 .. Len(job'.params) - 1 : job'.params[i] # Blank
         /\ job.params = <<>> => job'.params = <<>>
    BY <1>1, <1>2, <1>4, ParametersLeft DEF TailOf
  <1>17. Fed(M, g) \/ job'.params = <<>>
    BY <1>6, <1>7, <1>11, <1>16
  <1>18. g[Len(M)].ch = ch /\ g[Len(M)].left = <<>> /\ g[Len(M)].on = on
    BY <1>6, <1>7, <1>11
  <1>19. SignRead(on, job'.lastSign)
    BY <1>1, <1>6 DEF SignRead
  <1>20. Faithful(g)'
    BY <1>12, <1>14, <1>17, <1>18, <1>19 DEF Faithful
  <1>21. job'.finalModes \in Seq(Said)
    BY <1>9, <1>12, <1>14
  <1> QED
    BY <1>15, <1>16, <1>20, <1>21 DEF LineInv
-----------------------------------------------------------------------------
(* Every turn of the line, and its start.                                  *)

LEMMA IgnoreKeeps ==
  ASSUME Base, LineInv, InLine, UNCHANGED <<clientsByNick, before>>,
         NEW popped \in BOOLEAN, NEW r,
         Ignore(popped) \/ Complain(popped, r)
  PROVE  LineInv'
  <1> DEFINE x == IF popped THEN TailOf(job.params) ELSE job.params
             y == Tail(job.todo)
  <1>1. job \in Job
    BY DEF Base, TypeOK
  <1>2. job' = [job EXCEPT !.todo = y, !.params = x] /\ channels' = channels
    BY DEF Ignore, Complain, ModeTurn, state
  <1> HIDE DEF x, y
  <1>3. /\ job'.finalModes = job.finalModes /\ job'.finalParams = job.finalParams
        /\ job'.lastSign = job.lastSign /\ job'.chan = job.chan
        /\ job'.cmd = job.cmd /\ job'.params = x
    BY <1>1, <1>2 DEF Job
  <1>4. SameLine
    BY <1>3 DEF SameLine, InLine, x
  <1> QED
    BY <1>2, <1>3, <1>4, QuietKeeps

(* The first parameter, when there is one: it is a parameter, and when it  *)
(* is empty no other follows.                                              *)
LEMMA FirstParameter ==
  ASSUME Base, LineInv, InLine, HasParam
  PROVE  /\ Head(job.params) \in Param /\ job.params # <<>>
         /\ Head(job.params) = Blank => TailOf(job.params) = <<>>
  <1>1. job.params \in Seq(Param)
    BY JobFields DEF Base, TypeOK
  <1>2. \A i \in 1 .. Len(job.params) - 1 : job.params[i] # Blank
    BY DEF LineInv
  <1> QED
    BY <1>1, <1>2, ListTails, ParametersLeft DEF HasParam

LEMMA SignKeeps ==
  ASSUME Base, LineInv, InLine, UNCHANGED <<clientsByNick, before>>, ModeSign
  PROVE  LineInv'
  <1> DEFINE b == (Current = "+")
             y == Tail(job.todo)
  <1>1. job \in Job
    BY DEF Base, TypeOK
  <1>2. job' = [job EXCEPT !.todo = y, !.adding = b] /\ channels' = channels
    BY DEF ModeSign, state
  <1> HIDE DEF b, y
  <1>3. /\ job'.finalModes = job.finalModes /\ job'.finalParams = job.finalParams
        /\ job'.lastSign = job.lastSign /\ job'.chan = job.chan
        /\ job'.cmd = job.cmd /\ job'.params = job.params
    BY <1>1, <1>2 DEF Job
  <1>4. SameLine
    BY <1>3 DEF SameLine, InLine
  <1> QED
    BY <1>2, <1>3, <1>4, QuietKeeps

LEMMA FlagKeeps ==
  ASSUME Base, LineInv, InLine, UNCHANGED <<clientsByNick, before>>, ModeFlag
  PROVE  LineInv'
  <1>1. PICK c \in {"i", "t"} : c = Current
    BY DEF ModeFlag, InMode
  <1>2. c \in Letters
    BY DEF Letters
  <1>3. PICK ch : ch = SetFlag(ModeChannel, c, job.adding)
    OBVIOUS
  <1>4. job.todo # <<>>
    BY DEF ModeFlag, InMode, InLoop
  <1>5. ASSUME Change(ch, FALSE, "") PROVE LineInv'
    <2>1. ch = Done(ModeChannel, c, job.adding, Blank)
      BY <1>3 DEF Done, Applied
    <2>2. ~TakesParam(c, job.adding) /\ Blank \in Param
      BY DEF TakesParam, Blank, Param
    <2>3. Change(ch, FALSE, Blank)
      BY <1>5 DEF Blank
    <2> QED
      BY <1>1, <1>2, <1>4, <2>1, <2>2, <2>3, ChangeKeeps
  <1>6. CASE Ignore(FALSE)
    BY <1>6, IgnoreKeeps
  <1> QED
    BY <1>1, <1>3, <1>5, <1>6 DEF ModeFlag

LEMMA KeyKeeps ==
  ASSUME Base, LineInv, InLine, UNCHANGED <<clientsByNick, before>>, ModeKey
  PROVE  LineInv'
  <1>1. Current = "k" /\ job.todo # <<>>
    BY DEF ModeKey, InMode, InLoop
  <1>2. PICK c \in Letters : c = "k"
    BY DEF Letters
  <1>3. ASSUME job.adding, HasParam,
               Change(SetProtected(ModeChannel, Head(job.params)), TRUE,
                      Head(job.params))
        PROVE  LineInv'
    <2>1. PICK p, ch : p = Head(job.params) /\ ch = SetProtected(ModeChannel, p)
      OBVIOUS
    <2>2. p \in Param /\ job.params # <<>> /\ (p = Blank => TailOf(job.params) = <<>>)
      BY <1>3, <2>1, FirstParameter
    <2>3. ch = Done(ModeChannel, c, job.adding, p)
      BY <1>2, <1>3, <2>1, <2>2, OneParameter DEF Done, Applied, Given, Blank
    <2>4. Change(ch, TRUE, p)
      BY <1>3, <2>1
    <2>5. job'.params = TailOf(job.params)
      BY <1>1, <2>2, <2>4, ChangeFields
    <2>6. TakesParam(c, job.adding)
      BY <1>2, <1>3 DEF TakesParam
    <2> QED
      BY <1>1, <1>2, <2>2, <2>3, <2>4, <2>5, <2>6, ChangeKeeps
  <1>4. ASSUME ~job.adding, Change(UnsetProtected(ModeChannel), TRUE, "")
        PROVE  LineInv'
    <2>1. PICK ch : ch = UnsetProtected(ModeChannel)
      OBVIOUS
    <2>2. ch = Done(ModeChannel, c, job.adding, Blank)
      BY <1>2, <1>4, <2>1 DEF Done, Applied
    <2>3. ~TakesParam(c, job.adding) /\ Blank \in Param
      BY <1>2, <1>4 DEF TakesParam, Blank, Param
    <2>4. Change(ch, TRUE, Blank)
      BY <1>4, <2>1 DEF Blank
    <2> QED
      BY <1>1, <1>2, <2>2, <2>3, <2>4, ChangeKeeps
  <1>5. CASE Ignore(FALSE)
    BY <1>5, IgnoreKeeps
  <1> QED
    BY <1>3, <1>4, <1>5 DEF ModeKey
LEMMA LimitKeeps ==
  ASSUME Base, LineInv, InLine, UNCHANGED <<clientsByNick, before>>, ModeLimit
  PROVE  LineInv'
  <1>1. Current = "l" /\ job.todo # <<>>
    BY DEF ModeLimit, InMode, InLoop
  <1>2. PICK c \in Letters : c = "l"
    BY DEF Letters
  <1>3. ASSUME job.adding, HasParam,
               Change(SetLimit(ModeChannel, Atoi[Head(job.params)]), TRUE,
                      Head(job.params))
        PROVE  LineInv'
    <2>1. PICK p, ch : p = Head(job.params) /\ ch = SetLimit(ModeChannel, Atoi[p])
      OBVIOUS
    <2>2. p \in Param /\ job.params # <<>> /\ (p = Blank => TailOf(job.params) = <<>>)
      BY <1>3, <2>1, FirstParameter
    <2>3. ch = Done(ModeChannel, c, job.adding, p)
      BY <1>2, <1>3, <2>1, <2>2, OneParameter DEF Done, Applied, Given, Blank
    <2>4. Change(ch, TRUE, p)
      BY <1>3, <2>1
    <2>5. job'.params = TailOf(job.params)
      BY <1>1, <2>2, <2>4, ChangeFields
    <2>6. TakesParam(c, job.adding)
      BY <1>2, <1>3 DEF TakesParam
    <2> QED
      BY <1>1, <1>2, <2>2, <2>3, <2>4, <2>5, <2>6, ChangeKeeps
  <1>4. ASSUME ~job.adding, Change(UnsetLimit(ModeChannel), FALSE, "")
        PROVE  LineInv'
    <2>1. PICK ch : ch = UnsetLimit(ModeChannel)
      OBVIOUS
    <2>2. ch = Done(ModeChannel, c, job.adding, Blank)
      BY <1>2, <1>4, <2>1 DEF Done, Applied
    <2>3. ~TakesParam(c, job.adding) /\ Blank \in Param
      BY <1>2, <1>4 DEF TakesParam, Blank, Param
    <2>4. Change(ch, FALSE, Blank)
      BY <1>4, <2>1 DEF Blank
    <2> QED
      BY <1>1, <1>2, <2>2, <2>3, <2>4, ChangeKeeps
  <1>5. CASE Ignore(TRUE) \/ Ignore(FALSE)
    BY <1>5, IgnoreKeeps
  <1> QED
    BY <1>3, <1>4, <1>5 DEF ModeLimit

LEMMA OperatorKeeps ==
  ASSUME Base, LineInv, InLine, UNCHANGED <<clientsByNick, before>>, ModeOperator
  PROVE  LineInv'
  <1>1. Current = "o" /\ job.todo # <<>>
    BY DEF ModeOperator, InMode, InLoop
  <1>2. PICK c \in Letters : c = "o"
    BY DEF Letters
  <1>3. PICK p, t, ch : /\ p = Head(job.params) /\ t = FindNick(p)
                        /\ ch = SetRank(ModeChannel, t, job.adding)
    OBVIOUS
  <1>4. ASSUME HasParam, Rankable(ModeChannel, t), Change(ch, TRUE, p)
        PROVE  LineInv'
    <2>1. p \in Param /\ job.params # <<>>
      BY <1>3, <1>4, FirstParameter
    <2>2. p # Blank
      BY <1>3, <1>4, NamesAssumption DEF Rankable, FindNick, Blank
    <2>3. TakesParam(c, job.adding)
      BY <1>2 DEF TakesParam
    <2>4. ch = Done(ModeChannel, c, job.adding, p)
      BY <1>2, <1>3, <2>1, <2>2, OneParameter DEF Done, Applied, Given
    <2> QED
      BY <1>1, <1>2, <1>4, <2>1, <2>2, <2>3, <2>4, ChangeKeeps
  <1>5. CASE Ignore(TRUE) \/ Ignore(FALSE)
    BY <1>5, IgnoreKeeps
  <1>6. CASE Complain(TRUE, "401") \/ Complain(TRUE, "441")
    BY <1>6, IgnoreKeeps
  <1> QED
    BY <1>3, <1>4, <1>5, <1>6 DEF ModeOperator

(* The announcement of a line that begins is empty, and reading nothing    *)
(* gives the channel as it is.                                             *)
LEMMA LineStarts ==
  ASSUME Base, NEW f \in Fd, Request(f), LineNext, InLine'
  PROVE  LineInv'
  <1>1. PICK c \in Chan, p \in ModeParams : \E m :
          /\ ModeReply(clientsByFd[f], c, m) = Accepted
          /\ Start("MODE", f, c, m, p)
    BY ModeStarts DEF InLine
  <1>2. PICK m : Start("MODE", f, c, m, p)
    BY <1>1
  <1>3. job' = [cmd |-> "MODE", fd |-> f, chan |-> c, todo |-> m,
                params |-> p, adding |-> TRUE,
                finalModes |-> <<>>, finalParams |-> <<>>, lastSign |-> ""]
    BY <1>2, StartsCmd
  <1>4. channels' = channels
    BY <1>2 DEF Start, state
  <1>5. job = NoJob
    BY DEF Request, NotRegistered, HandlePing, HandleInvalid, HandleCap,
           HandleJoin, HandleKick, HandleInvite, HandleTopic, HandleMode,
           HandlePrivMsg, MayUse, Receives
  <1>6. before' = channels[c]
    BY <1>3, <1>5, NoJobFacts DEF LineNext, InLine
  <1>7. PICK r : r = [ch |-> channels[c], on |-> TRUE, left |-> <<>>]
    OBVIOUS
  <1>8. PICK g : g = [n \in 0..0 |-> r]
    OBVIOUS
  <1>9. Reader' = r /\ ModeChannel' = channels[c]
    BY <1>3, <1>4, <1>6, <1>7 DEF Reader, ModeChannel
  <1>10. IsReader(r)
    <2>1. <<>> \in Seq(Param)
      OBVIOUS
    <2> QED
      BY <1>7, <2>1 DEF IsReader
  <1>11. PICK e : e = <<>> /\ Len(e) = 0
    OBVIOUS
  <1>12. job'.finalModes = e /\ Len(e) = 0 /\ job'.params = p
    BY <1>3, <1>11
  <1>13. Reading(job.finalModes, Reader, g)'
    <2>1. \A n \in 0..0 : r = IF n = 0 THEN r ELSE Read(e[n], g[n - 1])
      OBVIOUS
    <2>2. [n \in 0..0 |-> IF n = 0 THEN r ELSE Read(e[n], g[n - 1])] = [n \in 0..0 |-> r]
      BY <2>1
    <2>3. \A n \in 0..0 : IsReader(g[n])
      BY <1>8, <1>10
    <2>4. Reading(e, r, g)
      BY <1>8, <1>12, <2>2, <2>3 DEF Reading
    <2>5. UNCHANGED clientsByNick
      BY <1>2 DEF Start, state
    <2>6. Reading(e, r, g)'
      BY <2>4, <2>5, SameReading
    <2> QED
      BY <1>9, <1>12, <2>6
  <1>14. Fed(e, g)
    BY <1>12 DEF Fed
  <1>15. g[0] = r /\ r.ch = channels[c] /\ r.left = <<>>
    BY <1>7, <1>8
  <1>16. SignRead(r.on, job'.lastSign)
    BY <1>3, <1>7 DEF SignRead
  <1>17. Faithful(g)'
    <2>1. Fed(job'.finalModes, g) /\ g[Len(job'.finalModes)] = r
      BY <1>12, <1>14, <1>15
    <2> QED
      BY <1>9, <1>15, <1>16, <2>1 DEF Faithful
  <1>18. e \in Seq(Said)
    BY <1>11
  <1>19. \A i \in 1 .. Len(p) - 1 : p[i] # Blank
    BY EmptyLastAssumption DEF Blank
  <1> QED
    BY <1>12, <1>13, <1>17, <1>18, <1>19 DEF LineInv

LEMMA LineInvNext ==
  ASSUME Base, LineInv, LineNext
  PROVE  LineInv'
  <1>1. CASE ~InLine'
    BY <1>1 DEF LineInv
  <1>2. CASE InLine'
    <2>1. Next
      BY DEF LineNext
    <2>2. ASSUME NEW f \in Fd,
                 (\E a \in Addr : AddNewClient(f, a)) \/ RemoveClient(f) \/ Stores(f)
          PROVE  FALSE
      BY <1>2, <2>2, NoJobFacts
         DEF AddNewClient, RemoveClient, Stores, Receives, InLine
    <2>3. CASE UNCHANGED <<state, job>>
      <3>1. InLine /\ before' = before
        BY <1>2, <2>3 DEF LineNext, InLine
      <3>2. SameLine
        BY <1>2, <2>3, <3>1 DEF SameLine, state
      <3> QED
        BY <2>3, <3>2, QuietKeeps DEF state
    <2>4. ASSUME NEW f \in Fd, Request(f) PROVE LineInv'
      BY <1>2, <2>4, LineStarts
    <2>5. CASE Turn /\ ~InLine
      <3>1. NextTurn
        BY <1>2, <2>5, NoJobFacts DEF Turn, JoinStep, KickStep, PrivMsgStep,
           ModeSign, ModeFlag, ModeKey, ModeLimit, ModeOperator,
           ModeUnknown, ModeEnd, InMode, InLoop, InLine
      <3>2. job \in Job
        BY DEF Base, TypeOK
      <3>3. job' = NoJob \/ job'.cmd = job.cmd
        BY <3>1, <3>2 DEF NextTurn, Job
      <3> QED
        BY <1>2, <2>5, <3>3, NoJobFacts DEF InLine
    <2>6. CASE Turn /\ InLine
      <3>1. UNCHANGED <<clientsByNick, before>>
        BY <1>2, <2>6, TurnKeepsTables DEF tables, LineNext, InLine
      <3>2. ~JoinStep /\ ~KickStep /\ ~PrivMsgStep
        BY <2>6 DEF JoinStep, KickStep, PrivMsgStep, InLoop, InLine
      <3>3. ~ModeEnd
        BY <1>2, NoJobFacts DEF ModeEnd, InLine
      <3>4. CASE ModeUnknown
        <4>1. Complain(FALSE, "472")
          BY <3>4 DEF ModeUnknown
        <4> QED
          BY <2>6, <3>1, <4>1, IgnoreKeeps
      <3> QED
        BY <2>6, <3>1, <3>2, <3>3, <3>4, SignKeeps, FlagKeeps, KeyKeeps, LimitKeeps,
           OperatorKeeps DEF Turn
    <2> QED
      BY <2>1, <2>2, <2>3, <2>4, <2>5, <2>6, StepKinds DEF Base
  <1> QED
    BY <1>1, <1>2

(* Whoever knows a channel as it was before a MODE line and reads the      *)
(* announcement has the channel as it is, at every turn of the line and    *)
(* whatever the line skipped, refused or repeated (ModeCommand's           *)
(* finalModes and finalParams).                                            *)
THEOREM AnnouncementsReplay == LineSpec => []AnnouncementReplays
  <1> DEFINE Inv == Base /\ LineInv
  <1>1. LineInit => Inv
    BY BaseInit, NoJobFacts DEF LineInit, LineInv, InLine, Init
  <1>2. Inv /\ [LineNext]_<<vars, before>> => Inv'
    <2> SUFFICES ASSUME Inv, [LineNext]_<<vars, before>> PROVE Inv'
      OBVIOUS
    <2>1. CASE LineNext
      BY <2>1, BaseNext, LineInvNext DEF LineNext
    <2>2. CASE UNCHANGED <<vars, before>>
      <3>1. CASE ~InLine
        BY <2>2, <3>1, BaseStutters DEF LineInv, InLine, vars
      <3>2. CASE InLine
        <4>1. SameLine
          BY <2>2, <3>2 DEF SameLine, InLine, vars
        <4> QED
          BY <2>2, <4>1, BaseStutters, QuietKeeps DEF vars
      <3> QED
        BY <3>1, <3>2
    <2> QED
      BY <2>1, <2>2
  <1>3. Inv => AnnouncementReplays
    <2> SUFFICES ASSUME LineInv, InLine
                 PROVE  Replayed.ch = ModeChannel /\ Replayed.left = <<>>
      BY DEF AnnouncementReplays
    <2>1. PICK f : Reading(job.finalModes, Reader, f) /\ Faithful(f)
      BY DEF LineInv
    <2>2. Replayed = f[Len(job.finalModes)]
      BY <2>1, OneReading DEF LineInv
    <2> QED
      BY <2>1, <2>2 DEF Faithful
  <1> QED
    BY <1>1, <1>2, <1>3, PTL DEF LineSpec
=============================================================================
