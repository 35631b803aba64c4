-------------------------- MODULE BagSource_proofs --------------------------
(***************************************************************************)
(* The player and the data source made of it, for every recording.         *)
(*                                                                         *)
(* The player: chunks that are sorted pieces of the recording, one behind  *)
(* the other, are the sorted recording when they do not overlap in time.   *)
(* So what is at a place does not depend on the chunk that is in memory,   *)
(* nor on whether messages() has been called, and the player follows the   *)
(* time line; a message is due when it comes, and after every move the     *)
(* next one is due at once.                                                *)
(*                                                                         *)
(* The source implements FrameSource for every set of messages that are    *)
(* frames.  What it plays is one sequence, the chunks up to one that       *)
(* cannot be read or the sorted recording, and the play head is a place of *)
(* it; the frames before that place are those that were given.             *)
(***************************************************************************)
EXTENDS BagSource, Dcap_proofs

------------------------------------------------------------------------------
(* The player *)

LEMMA MessagesStamped == Stamped(Message)
<1>1. \A t \in Stamps : t \in Int
  BY PlayerAssumption
<1>2. SUFFICES ASSUME NEW m \in Message
               PROVE  m.stamp \in Int
  BY DEF Stamped
<1>3. m.stamp \in Stamps
  BY DEF Message
<1>4. QED
  BY <1>1, <1>3

------------------------------------------------------------------------------
(* Recordings cut into chunks *)

\* The chunks are sorted pieces of the recording, one behind the other.
Tiles(s, pieces, starts) ==
  /\ pieces \in Seq(Seq(Message) \ {<<>>})
  /\ starts \in [1..Len(pieces) -> Nat]
  /\ IF pieces = <<>> THEN s = <<>>
     ELSE /\ starts[1] = 0
          /\ starts[Len(pieces)] + Len(pieces[Len(pieces)]) = Len(s)
  /\ \A c \in 1..Len(pieces) - 1 : starts[c + 1] = starts[c] + Len(pieces[c])
  /\ \A c \in 1..Len(pieces) :
       /\ starts[c] + Len(pieces[c]) <= Len(s)
       /\ pieces[c] = StableSort(SubSeq(s, starts[c] + 1,
                                           starts[c] + Len(pieces[c])))

\* Where a chunk of the given size begins and ends.
BeginOf(c, size) == (c - 1) * size
EndOf(c, size, n) == IF c * size < n THEN c * size ELSE n

LEMMA CutBounds ==
  ASSUME NEW n \in Nat, NEW size \in Nat \ {0},
         NEW k, k = (n + size - 1) \div size
  PROVE  /\ k \in Nat /\ (k = 0 <=> n = 0)
         /\ k > 0 => EndOf(k, size, n) = n
         /\ \A c \in 1..k : /\ BeginOf(c, size) \in Nat
                            /\ EndOf(c, size, n) \in Nat
                            /\ BeginOf(c, size) < EndOf(c, size, n)
                            /\ EndOf(c, size, n) <= n
         /\ \A c \in 1..k - 1 : BeginOf(c + 1, size) = EndOf(c, size, n)
<1>1. /\ k \in Nat
      /\ size * k <= n + size - 1 /\ n + size - 1 < size * k + size
  BY DivisionBounds
<1>2. k * size = size * k /\ k * size \in Nat
  BY <1>1, Z3
<1>3. n <= k * size /\ k * size <= n + size - 1
  BY <1>1, <1>2
<1>4. k = 0 <=> n = 0
  <2>1. k = 0 => k * size = 0
    BY Z3
  <2>2. k > 0 => k * size >= size
    BY <1>1, Z3
  <2>3. QED
    BY <1>1, <1>3, <2>1, <2>2
<1>5. ASSUME NEW c \in 1..k
      PROVE  /\ BeginOf(c, size) \in Nat
             /\ c * size \in Nat
             /\ c * size = BeginOf(c, size) + size
             /\ BeginOf(c, size) < n
  <2>1. (c - 1) * size + size <= k * size /\ (c - 1) * size \in Nat
        /\ c * size = (c - 1) * size + size
    BY <1>1, Z3
  <2>2. (c - 1) * size < n
    BY <1>3, <2>1, Z3
  <2>3. QED
    BY <2>1, <2>2, Z3 DEF BeginOf
<1>6. \A c \in 1..k - 1 : BeginOf(c + 1, size) = c * size /\ c * size < n
  <2>1. ASSUME NEW c \in 1..k - 1
        PROVE  BeginOf(c + 1, size) = c * size /\ c * size < n
    <3>1. c + 1 \in 1..k /\ c + 1 - 1 = c
      BY <1>1
    <3>2. QED
      BY <1>5, <3>1 DEF BeginOf
  <2>2. QED
    BY <2>1
<1>7. k > 0 => EndOf(k, size, n) = n
  BY <1>2, <1>3 DEF EndOf
<1>8. \A c \in 1..k : /\ EndOf(c, size, n) \in Nat
                      /\ BeginOf(c, size) < EndOf(c, size, n)
                      /\ EndOf(c, size, n) <= n
  BY <1>5 DEF EndOf
<1>9. \A c \in 1..k - 1 : BeginOf(c + 1, size) = EndOf(c, size, n)
  BY <1>6 DEF EndOf
<1>10. QED
  BY <1>1, <1>4, <1>5, <1>7, <1>8, <1>9

LEMMA PieceCount ==
  ASSUME NEW s \in Seq(Message), NEW size \in Nat \ {0}
  PROVE  /\ Len(Pieces(s, size)) = (Len(s) + size - 1) \div size
         /\ Len(Pieces(s, size)) \in Nat /\ Len(s) \in Nat
<1>1. Len(s) \in Nat
  OBVIOUS
<1>2. (Len(s) + size - 1) \div size \in Nat
  BY <1>1, CutBounds
<1>3. QED
  BY <1>1, <1>2 DEF Pieces

LEMMA PieceBounds ==
  ASSUME NEW s \in Seq(Message), NEW size \in Nat \ {0},
         NEW n, n = Len(s), NEW k, k = Len(Pieces(s, size))
  PROVE  /\ k = 0 <=> n = 0
         /\ k > 0 => EndOf(k, size, n) = n
         /\ \A c \in 1..k : /\ BeginOf(c, size) \in Nat
                            /\ EndOf(c, size, n) \in Nat
                            /\ BeginOf(c, size) < EndOf(c, size, n)
                            /\ EndOf(c, size, n) <= n
         /\ \A c \in 1..k - 1 : BeginOf(c + 1, size) = EndOf(c, size, n)
<1>1. k = (n + size - 1) \div size /\ n \in Nat
  BY PieceCount
<1>2. QED
  BY <1>1, CutBounds, ZenonT(30)

LEMMA PieceShape ==
  ASSUME NEW s \in Seq(Message), NEW size \in Nat \ {0},
         NEW c \in 1..Len(Pieces(s, size))
  PROVE  LET b == BeginOf(c, size)
             e == EndOf(c, size, Len(s))
         IN  /\ Pieces(s, size)[c] = StableSort(SubSeq(s, b + 1, e))
             /\ SubSeq(s, b + 1, e) \in Seq(Message)
             /\ Pieces(s, size)[c] \in Seq(Message)
             /\ Len(Pieces(s, size)[c]) = e - b
<1> DEFINE n == Len(s)
           k == (n + size - 1) \div size
           b == BeginOf(c, size)
           e == EndOf(c, size, n)
           piece == SubSeq(s, b + 1, e)
<1>1. n \in Nat /\ k \in Nat
  <2>1. n \in Nat
    OBVIOUS
  <2>2. QED
    BY <2>1, CutBounds
<1>2. Len(Pieces(s, size)) = k /\ c \in 1..k
  BY <1>1 DEF Pieces
<1>3. Pieces(s, size)[c] = StableSort(piece)
  BY <1>2 DEF Pieces, BeginOf, EndOf
<1>4. b \in Nat /\ e \in Nat /\ b < e /\ e <= n
  BY <1>1, <1>2, CutBounds
<1> HIDE DEF b, e, n
<1>5. piece \in Seq(Message) /\ Len(piece) = e - b
  BY <1>4 DEF n
<1>6. StableSort(piece) \in Seq(Message) /\ Len(StableSort(piece)) = e - b
  BY <1>5, MessagesStamped, StableSortRearranges
<1>7. QED
  BY <1>3, <1>5, <1>6 DEF b, e, n

LEMMA StartsAreBegins ==
  ASSUME NEW s \in Seq(Message), NEW size \in Nat \ {0}
  PROVE  StartsOf(Pieces(s, size)) =
           [c \in 1..Len(Pieces(s, size)) |-> BeginOf(c, size)]
<1> DEFINE pieces == Pieces(s, size)
           Step(f) == [c \in 1..Len(pieces) |->
                         IF c = 1 THEN 0 ELSE f[c - 1] + Len(pieces[c - 1])]
           begins == [c \in 1..Len(pieces) |-> BeginOf(c, size)]
<1>1. Len(pieces) = (Len(s) + size - 1) \div size /\ Len(pieces) \in Nat
  BY PieceCount
<1>2. ASSUME NEW c \in 2..Len(pieces)
      PROVE  BeginOf(c, size) = BeginOf(c - 1, size) + Len(pieces[c - 1])
  <2>1. c - 1 \in 1..Len(pieces) - 1 /\ c - 1 + 1 = c /\ c - 1 \in 1..Len(pieces)
    BY <1>1
  <2>2. BeginOf(c, size) = EndOf(c - 1, size, Len(s))
    BY <2>1, PieceBounds
  <2>3. Len(pieces[c - 1]) = EndOf(c - 1, size, Len(s)) - BeginOf(c - 1, size)
    BY <2>1, PieceShape
  <2>4. BeginOf(c - 1, size) \in Nat /\ EndOf(c - 1, size, Len(s)) \in Nat
    BY <2>1, PieceBounds
  <2>5. QED
    BY <2>2, <2>3, <2>4
<1>3. BeginOf(1, size) = 0
  BY DEF BeginOf
<1> HIDE DEF pieces
<1>4. begins = Step(begins)
  BY <1>1, <1>2, <1>3
<1>5. ASSUME NEW f, f = Step(f)
      PROVE  f = begins
  <2> DEFINE Wrong == {c \in 1..Len(pieces) : f[c] # begins[c]}
  <2>1. \A c \in 1..Len(pieces) :
          f[c] = IF c = 1 THEN 0 ELSE f[c - 1] + Len(pieces[c - 1])
    BY <1>5
  <2>2. \A c \in 1..Len(pieces) :
          begins[c] = IF c = 1 THEN 0 ELSE begins[c - 1] + Len(pieces[c - 1])
    BY <1>4
  <2>3. SUFFICES ASSUME Wrong # {}
                 PROVE  FALSE
    BY <1>5
  <2>4. PICK c \in Wrong : \A d \in Wrong : c <= d
    <3>1. Wrong \subseteq Nat
      BY <1>1
    <3> HIDE DEF Wrong
    <3>2. QED
      BY <2>3, <3>1, Least
  <2>5. c \in 1..Len(pieces) /\ c # 1
    BY <1>1, <2>1, <2>2, <2>4
  <2>6. c - 1 \in 1..Len(pieces) /\ c - 1 \notin Wrong
    <3>1. c - 1 \in 1..Len(pieces) /\ ~(c <= c - 1)
      BY <1>1, <2>5
    <3>2. QED
      BY <2>4, <3>1
  <2>7. f[c - 1] = begins[c - 1]
    BY <2>6
  <2>8. f[c] = begins[c]
    BY <2>1, <2>2, <2>5, <2>7
  <2>9. QED
    BY <2>4, <2>8
<1>6. StartsOf(pieces) = CHOOSE f : f = Step(f)
  BY DEF StartsOf
<1>7. StartsOf(pieces) = Step(StartsOf(pieces))
  BY <1>4, <1>6
<1>8. StartsOf(pieces) = begins
  BY <1>5, <1>7
<1>9. QED
  BY <1>8 DEF pieces

LEMMA PiecesTile ==
  ASSUME NEW s \in Seq(Message), NEW size \in Nat \ {0}
  PROVE  Tiles(s, Pieces(s, size), StartsOf(Pieces(s, size)))
<1> DEFINE pieces == Pieces(s, size)
           k == Len(pieces)
           n == Len(s)
           b(c) == BeginOf(c, size)
           e(c) == EndOf(c, size, n)
<1>1. k = (n + size - 1) \div size /\ k \in Nat /\ n \in Nat
  BY PieceCount
<1>2. \A c \in 1..k : /\ pieces[c] = StableSort(SubSeq(s, b(c) + 1, e(c)))
                      /\ pieces[c] \in Seq(Message)
                      /\ Len(pieces[c]) = e(c) - b(c)
  BY PieceShape
<1>3. /\ k = 0 <=> n = 0
      /\ k > 0 => e(k) = n
      /\ \A c \in 1..k : b(c) \in Nat /\ e(c) \in Nat /\ b(c) < e(c) /\ e(c) <= n
      /\ \A c \in 1..k - 1 : b(c + 1) = e(c)
  <2>1. k = Len(Pieces(s, size)) /\ n = Len(s)
    OBVIOUS
  <2> HIDE DEF k, n, pieces
  <2>2. QED
    BY <2>1, PieceBounds
<1>4. b(1) = 0
  BY DEF BeginOf
<1>5. StartsOf(pieces) = [c \in 1..k |-> b(c)]
  BY StartsAreBegins
<1>6. pieces = [c \in 1..k |-> pieces[c]]
  BY <1>1 DEF Pieces
<1> HIDE DEF pieces, b, e
<1>7. \A c \in 1..k : /\ pieces[c] \in Seq(Message) \ {<<>>}
                      /\ b(c) + Len(pieces[c]) = e(c)
  BY <1>2, <1>3
<1>8. pieces \in Seq(Seq(Message) \ {<<>>})
  BY <1>1, <1>6, <1>7
<1>9. pieces = <<>> => s = <<>>
  BY <1>1, <1>3
<1>10. pieces # <<>> => k > 0 /\ 1 \in 1..k /\ k \in 1..k
  BY <1>1, <1>8
<1>11. QED
  BY <1>1, <1>2, <1>3, <1>4, <1>5, <1>7, <1>8, <1>9, <1>10, SMTT(30) DEF Tiles, pieces

LEMMA TileFacts ==
  ASSUME NEW s \in Seq(Message), NEW pieces, NEW starts,
         Tiles(s, pieces, starts)
  PROVE  /\ Len(s) \in Nat /\ Len(pieces) \in Nat /\ Len(starts) = Len(pieces)
         /\ Len(s) = 0 <=> Len(pieces) = 0
         /\ Len(pieces) > 0 =>
              /\ starts[1] = 0
              /\ starts[Len(pieces)] + Len(pieces[Len(pieces)]) = Len(s)
         /\ \A c \in 1..Len(pieces) :
              /\ starts[c] \in Nat /\ Len(pieces[c]) \in Nat
              /\ Len(pieces[c]) > 0
              /\ starts[c] + Len(pieces[c]) <= Len(s)
              /\ pieces[c] \in Seq(Message)
         /\ \A c \in 1..Len(pieces) - 1 :
              starts[c + 1] = starts[c] + Len(pieces[c])
<1>1. /\ pieces \in Seq(Seq(Message) \ {<<>>})
      /\ starts \in [1..Len(pieces) -> Nat]
  BY DEF Tiles
<1>2. Len(pieces) \in Nat /\ Len(s) \in Nat
  BY <1>1
<1>3. Len(starts) = Len(pieces)
  BY <1>1, <1>2
<1>4. \A c \in 1..Len(pieces) :
        /\ starts[c] \in Nat /\ pieces[c] \in Seq(Message)
        /\ pieces[c] # <<>>
  BY <1>1, SMTT(30)
<1>5. \A c \in 1..Len(pieces) : Len(pieces[c]) \in Nat /\ Len(pieces[c]) > 0
  BY <1>4
<1>6. \A c \in 1..Len(pieces) - 1 :
        starts[c + 1] = starts[c] + Len(pieces[c])
  BY DEF Tiles
<1>7. \A c \in 1..Len(pieces) : starts[c] + Len(pieces[c]) <= Len(s)
  BY DEF Tiles
<1>8. Len(pieces) > 0 =>
        /\ starts[1] = 0
        /\ starts[Len(pieces)] + Len(pieces[Len(pieces)]) = Len(s)
  BY <1>1 DEF Tiles
<1>9. Len(pieces) = 0 => Len(s) = 0
  BY <1>1 DEF Tiles
<1>10. Len(pieces) > 0 => Len(s) > 0
  <2>1. SUFFICES ASSUME Len(pieces) > 0
                 PROVE  Len(s) > 0
    OBVIOUS
  <2>2. Len(pieces) \in 1..Len(pieces)
    BY <1>2, <2>1
  <2>3. /\ starts[Len(pieces)] \in Nat /\ Len(pieces[Len(pieces)]) \in Nat
        /\ Len(pieces[Len(pieces)]) > 0
    BY <1>4, <1>5, <2>2
  <2>4. QED
    BY <1>2, <1>8, <2>1, <2>3
<1>11. Len(s) = 0 <=> Len(pieces) = 0
  BY <1>2, <1>9, <1>10
<1>12. QED
  BY <1>2, <1>3, <1>4, <1>5, <1>6, <1>7, <1>8, <1>11

LEMMA TilesApart ==
  ASSUME NEW s \in Seq(Message), NEW pieces, NEW starts,
         Tiles(s, pieces, starts),
         NEW c \in 1..Len(pieces), NEW d \in 1..Len(pieces), c < d
  PROVE  starts[c] + Len(pieces[c]) <= starts[d]
<1> DEFINE Bad == {x \in 1..Len(pieces) :
                     c < x /\ ~(starts[c] + Len(pieces[c]) <= starts[x])}
<1>1. /\ Len(pieces) \in Nat
      /\ \A x \in 1..Len(pieces) : starts[x] \in Nat /\ Len(pieces[x]) \in Nat
      /\ \A x \in 1..Len(pieces) - 1 :
           starts[x + 1] = starts[x] + Len(pieces[x])
  BY TileFacts
<1>2. SUFFICES ASSUME Bad # {}
               PROVE  FALSE
  OBVIOUS
<1>3. PICK x \in Bad : \A y \in Bad : x <= y
  <2>1. Bad \subseteq Nat
    BY <1>1
  <2> HIDE DEF Bad
  <2>2. QED
    BY <1>2, <2>1, Least
<1>4. x - 1 \in 1..Len(pieces) - 1 /\ x - 1 + 1 = x /\ x - 1 \in 1..Len(pieces)
  BY <1>1, <1>3
<1>5. starts[x] = starts[x - 1] + Len(pieces[x - 1])
  BY <1>1, <1>4
<1>6. CASE x - 1 = c
  BY <1>1, <1>3, <1>5, <1>6
<1>7. CASE c < x - 1
  <2>1. starts[c] + Len(pieces[c]) <= starts[x - 1]
    BY <1>1, <1>3, <1>4, <1>7
  <2>2. /\ starts[c] \in Nat /\ Len(pieces[c]) \in Nat
        /\ starts[x - 1] \in Nat /\ Len(pieces[x - 1]) \in Nat
    BY <1>1, <1>4
  <2>3. starts[c] + Len(pieces[c]) <= starts[x]
    BY <1>5, <2>1, <2>2
  <2>4. QED
    BY <1>3, <2>3
<1>8. QED
  BY <1>1, <1>3, <1>6, <1>7

\* The chunk a place is in; the place behind the last message counts to the
\* last chunk.
PieceOf(starts, p) == Cardinality({c \in 1..Len(starts) : starts[c] <= p})

LEMMA PieceOfPlace ==
  ASSUME NEW s \in Seq(Message), NEW pieces, NEW starts,
         Tiles(s, pieces, starts), Len(pieces) > 0, NEW p \in 0..Len(s)
  PROVE  LET c == PieceOf(starts, p)
         IN  /\ c \in 1..Len(pieces)
             /\ starts[c] <= p
             /\ p < Len(s) => p < starts[c] + Len(pieces[c])
             /\ p = Len(s) => p = starts[c] + Len(pieces[c])
<1> DEFINE k == Len(pieces)
           T == {c \in 1..Len(starts) : starts[c] <= p}
           c == PieceOf(starts, p)
<1>1. /\ k \in Nat /\ k > 0 /\ Len(starts) = k /\ Len(s) \in Nat
      /\ \A x \in 1..k : /\ starts[x] \in Nat /\ Len(pieces[x]) \in Nat
                         /\ Len(pieces[x]) > 0
      /\ starts[1] = 0 /\ starts[k] + Len(pieces[k]) = Len(s)
      /\ \A x \in 1..k - 1 : starts[x + 1] = starts[x] + Len(pieces[x])
      /\ \A x \in 1..k : starts[x] + Len(pieces[x]) <= Len(s)
  BY TileFacts
<1>2. \A x \in T : \A y \in 1..k : y <= x => y \in T
  <2>1. SUFFICES ASSUME NEW x \in T, NEW y \in 1..k, y < x
                 PROVE  y \in T
    BY <1>1
  <2>2. starts[y] + Len(pieces[y]) <= starts[x]
    BY <1>1, <2>1, TilesApart
  <2>3. QED
    BY <1>1, <2>1, <2>2
<1>3. c \in 0..k /\ T = 1..c
  <2>1. T \in SUBSET (1..k)
    BY <1>1
  <2> HIDE DEF T
  <2>2. c = Cardinality(T)
    BY DEF T, PieceOf
  <2>3. QED
    BY <1>1, <1>2, <2>1, <2>2, PrefixSet
<1>4. 1 \in T
  BY <1>1
<1> HIDE DEF c, k
<1>5. c \in 1..k /\ c \in T
  BY <1>3, <1>4
<1>6. c < k => c + 1 \notin T /\ c + 1 \in 1..k /\ c \in 1..k - 1
  <2>1. c + 1 \notin 1..c
    BY <1>1, <1>3
  <2> HIDE DEF T
  <2>2. QED
    BY <1>1, <1>3, <1>5, <2>1
<1>7. starts[c] <= p
  BY <1>5
<1>8. c < k => p < starts[c] + Len(pieces[c])
  <2>1. SUFFICES ASSUME c < k
                 PROVE  p < starts[c] + Len(pieces[c])
    OBVIOUS
  <2>2. starts[c + 1] \in Nat /\ ~(starts[c + 1] <= p)
    BY <1>1, <1>6, <2>1
  <2>3. starts[c + 1] = starts[c] + Len(pieces[c])
    BY <1>1, <1>6, <2>1
  <2>4. QED
    BY <2>2, <2>3
<1>9. QED
  BY <1>1, <1>5, <1>7, <1>8 DEF c, k

\* The chunks one behind the other.
Joined(n, pieces, starts) ==
  [p \in 1..n |-> pieces[PieceOf(starts, p - 1)]
                        [p - starts[PieceOf(starts, p - 1)]]]

\* What a chunk was before it was sorted.
Raw(s, pieces, starts, c) ==
  SubSeq(s, starts[c] + 1, starts[c] + Len(pieces[c]))

LEMMA RawType ==
  ASSUME NEW s \in Seq(Message), NEW pieces, NEW starts,
         Tiles(s, pieces, starts), NEW c \in 1..Len(pieces)
  PROVE  LET raw == Raw(s, pieces, starts, c)
         IN  /\ raw \in Seq(Message) /\ Len(raw) = Len(pieces[c])
             /\ pieces[c] = StableSort(raw)
             /\ pieces[c] \in Seq(Message)
             /\ starts[c] \in Nat /\ Len(pieces[c]) \in Nat \ {0}
             /\ starts[c] + Len(pieces[c]) <= Len(s)
             /\ \A i \in 1..Len(pieces[c]) :
                  /\ raw[i] = s[starts[c] + i]
                  /\ Place(raw, i) \in 1..Len(pieces[c])
                  /\ pieces[c][i] = s[starts[c] + Place(raw, i)]
<1> DEFINE raw == Raw(s, pieces, starts, c)
           len == Len(pieces[c])
<1>1. pieces[c] = StableSort(raw)
  BY DEF Tiles, Raw
<1>2. /\ len \in Nat \ {0} /\ Len(s) \in Nat /\ pieces[c] \in Seq(Message)
      /\ starts[c] \in Nat /\ starts[c] + len <= Len(s)
  BY TileFacts
<1>3. raw \in Seq(Message) /\ Len(raw) = len
  <2> HIDE DEF len
  <2>1. SubSeq(s, starts[c] + 1, starts[c] + len) \in Seq(Message)
    BY <1>2
  <2>2. Len(SubSeq(s, starts[c] + 1, starts[c] + len)) = len
    <3>1. \A a \in Nat : a + len <= Len(s) =>
            Len(SubSeq(s, a + 1, a + len)) = (a + len) - (a + 1) + 1
      BY <1>2, SMTT(30)
    <3>2. \A a \in Nat : (a + len) - (a + 1) + 1 = len
      BY <1>2
    <3>3. QED
      BY <1>2, <3>1, <3>2
  <2>3. QED
    BY <2>1, <2>2 DEF Raw, len
<1>4. \A i \in 1..len : raw[i] = s[starts[c] + i]
  BY <1>1, <1>2 DEF Raw
<1> HIDE DEF raw, len
<1>5. ASSUME NEW i \in 1..len
      PROVE  /\ Place(raw, i) \in 1..len
             /\ pieces[c][i] = s[starts[c] + Place(raw, i)]
  <2>1. Place(raw, i) \in 1..len
    BY <1>3, MessagesStamped, PlaceOfRank
  <2>2. pieces[c][i] = raw[Place(raw, i)]
    BY <1>1, <1>3 DEF StableSort
  <2>3. QED
    BY <1>4, <2>1, <2>2
<1>6. QED
  BY <1>1, <1>2, <1>3, <1>4, <1>5 DEF raw, len

\* Place p of the joined chunks is in a chunk, at a place of it.
LEMMA JoinedAt ==
  ASSUME NEW s \in Seq(Message), NEW pieces, NEW starts,
         Tiles(s, pieces, starts), NEW p \in 1..Len(s)
  PROVE  LET c == PieceOf(starts, p - 1)
         IN  /\ c \in 1..Len(pieces) /\ p - starts[c] \in 1..Len(pieces[c])
             /\ starts[c] \in Nat
             /\ Joined(Len(s), pieces, starts)[p] = pieces[c][p - starts[c]]
             /\ Joined(Len(s), pieces, starts)[p] \in Message
<1> DEFINE c == PieceOf(starts, p - 1)
<1>1. Len(pieces) > 0 /\ p - 1 \in 0..Len(s) /\ p - 1 < Len(s)
  BY TileFacts
<1>2. /\ c \in 1..Len(pieces) /\ starts[c] <= p - 1
      /\ p - 1 < starts[c] + Len(pieces[c])
  BY <1>1, PieceOfPlace
<1>3. Joined(Len(s), pieces, starts)[p] = pieces[c][p - starts[c]]
  BY DEF Joined
<1> HIDE DEF c
<1>4. /\ starts[c] \in Nat /\ Len(pieces[c]) \in Nat
      /\ pieces[c] \in Seq(Message)
  BY <1>2, RawType
<1>5. p - starts[c] \in 1..Len(pieces[c])
  BY <1>2, <1>4
<1>6. pieces[c][p - starts[c]] \in Message
  BY <1>4, <1>5
<1>7. QED
  BY <1>2, <1>3, <1>4, <1>5, <1>6 DEF c

LEMMA JoinedType ==
  ASSUME NEW s \in Seq(Message), NEW pieces, NEW starts,
         Tiles(s, pieces, starts)
  PROVE  /\ Joined(Len(s), pieces, starts) \in Seq(Message)
         /\ Len(Joined(Len(s), pieces, starts)) = Len(s)
<1> DEFINE joined == Joined(Len(s), pieces, starts)
<1>1. Len(s) \in Nat
  OBVIOUS
<1>2. \A p \in 1..Len(s) : joined[p] \in Message
  BY JoinedAt
<1>3. joined = [p \in 1..Len(s) |-> joined[p]]
  BY DEF Joined
<1> HIDE DEF joined
<1>4. joined \in [1..Len(s) -> Message]
  BY <1>2, <1>3
<1>5. joined \in Seq(Message) /\ Len(joined) = Len(s)
  BY <1>1, <1>4
<1>6. QED
  BY <1>5 DEF joined

LEMMA PieceSorted ==
  ASSUME NEW s \in Seq(Message), NEW pieces, NEW starts,
         Tiles(s, pieces, starts), NEW c \in 1..Len(pieces)
  PROVE  /\ SortedByStamp(pieces[c])
         /\ StableSort(pieces[c]) = pieces[c]
         /\ \A i \in 1..Len(pieces[c]) :
              /\ pieces[c][i].stamp \in Int
              /\ pieces[c][1].stamp <= pieces[c][i].stamp
              /\ pieces[c][i].stamp <= pieces[c][Len(pieces[c])].stamp
<1>1. /\ pieces[c] \in Seq(Message) /\ Len(pieces[c]) \in Nat \ {0}
      /\ Raw(s, pieces, starts, c) \in Seq(Message)
      /\ pieces[c] = StableSort(Raw(s, pieces, starts, c))
  BY RawType
<1>2. SortedByStamp(pieces[c])
  BY <1>1, MessagesStamped, StableSortSorts
<1>3. StableSort(pieces[c]) = pieces[c]
  BY <1>1, <1>2, MessagesStamped, SortOfSorted
<1>4. \A i \in 1..Len(pieces[c]) : pieces[c][i].stamp \in Int
  BY <1>1, MessagesStamped DEF Stamped
<1>5. QED
  BY <1>1, <1>2, <1>3, <1>4 DEF SortedByStamp

\* Chunks that do not overlap in time are in order, however far apart.
LEMMA ChunksApart ==
  ASSUME NEW s \in Seq(Message), NEW pieces, NEW starts,
         Tiles(s, pieces, starts), ChunksInOrder(IndexOf(pieces)),
         NEW c \in 1..Len(pieces), NEW d \in 1..Len(pieces), c < d
  PROVE  pieces[c][Len(pieces[c])].stamp <= pieces[d][1].stamp
<1> DEFINE first(x) == pieces[x][1].stamp
           final(x) == pieces[x][Len(pieces[x])].stamp
           Bad == {x \in 1..Len(pieces) : c < x /\ ~(final(c) <= first(x))}
<1>1. /\ Len(pieces) \in Nat
      /\ \A x \in 1..Len(pieces) :
           Len(pieces[x]) \in 1..Len(pieces[x]) /\ 1 \in 1..Len(pieces[x])
  BY TileFacts
<1>2. \A x \in 1..Len(pieces) :
        first(x) \in Int /\ final(x) \in Int /\ first(x) <= final(x)
  BY <1>1, PieceSorted
<1>3. \A x \in 1..Len(pieces) - 1 : final(x) <= first(x + 1)
  <2>1. Len(IndexOf(pieces)) = Len(pieces)
    BY <1>1 DEF IndexOf
  <2>2. \A x \in 1..Len(pieces) :
          /\ IndexOf(pieces)[x].start_stamp = first(x)
          /\ IndexOf(pieces)[x].end_stamp = final(x)
    BY DEF IndexOf
  <2>3. ASSUME NEW x \in 1..Len(pieces) - 1
        PROVE  final(x) <= first(x + 1)
    <3>1. x \in 1..Len(pieces) /\ x + 1 \in 1..Len(pieces)
      BY <1>1
    <3>2. IndexOf(pieces)[x].end_stamp <= IndexOf(pieces)[x + 1].start_stamp
      BY <2>1 DEF ChunksInOrder
    <3>3. QED
      BY <2>2, <3>1, <3>2
  <2>4. QED
    BY <2>3
<1> HIDE DEF first, final
<1>4. SUFFICES ASSUME Bad # {}
               PROVE  FALSE
  BY DEF first, final
<1>5. PICK x \in Bad : \A y \in Bad : x <= y
  <2>1. Bad \subseteq Nat
    BY <1>1
  <2> HIDE DEF Bad
  <2>2. QED
    BY <1>4, <2>1, Least
<1>6. x - 1 \in 1..Len(pieces) - 1 /\ x - 1 + 1 = x /\ x - 1 \in 1..Len(pieces)
  BY <1>1, <1>5
<1>7. final(x - 1) <= first(x)
  BY <1>3, <1>6
<1>8. CASE x - 1 = c
  BY <1>5, <1>7, <1>8
<1>9. CASE c < x - 1
  <2>1. final(c) <= first(x - 1)
    BY <1>1, <1>5, <1>6, <1>9
  <2>2. final(c) <= first(x)
    BY <1>2, <1>5, <1>6, <1>7, <2>1
  <2>3. QED
    BY <1>5, <2>2
<1>10. QED
  BY <1>1, <1>5, <1>8, <1>9

\* Where a message of a chunk was in the recording.
Origin(s, pieces, starts, c, i) ==
  starts[c] + Place(Raw(s, pieces, starts, c), i)

LEMMA OriginType ==
  ASSUME NEW s \in Seq(Message), NEW pieces, NEW starts,
         Tiles(s, pieces, starts),
         NEW c \in 1..Len(pieces), NEW i \in 1..Len(pieces[c])
  PROVE  /\ Origin(s, pieces, starts, c, i) \in 1..Len(s)
         /\ Origin(s, pieces, starts, c, i) > starts[c]
         /\ Origin(s, pieces, starts, c, i) <= starts[c] + Len(pieces[c])
         /\ pieces[c][i] = s[Origin(s, pieces, starts, c, i)]
<1> DEFINE place == Place(Raw(s, pieces, starts, c), i)
<1>1. /\ starts[c] \in Nat /\ Len(pieces[c]) \in Nat
      /\ starts[c] + Len(pieces[c]) <= Len(s) /\ Len(s) \in Nat
      /\ place \in 1..Len(pieces[c])
      /\ pieces[c][i] = s[starts[c] + place]
  BY RawType, TileFacts
<1> HIDE DEF place
<1>2. /\ starts[c] + place \in 1..Len(s) /\ starts[c] + place > starts[c]
      /\ starts[c] + place <= starts[c] + Len(pieces[c])
  BY <1>1, SMTT(30)
<1>3. QED
  BY <1>1, <1>2 DEF Origin, place

LEMMA PairInOrder ==
  ASSUME NEW s \in Seq(Message), NEW pieces, NEW starts,
         Tiles(s, pieces, starts), ChunksInOrder(IndexOf(pieces)),
         NEW c \in 1..Len(pieces), NEW i \in 1..Len(pieces[c]),
         NEW d \in 1..Len(pieces), NEW j \in 1..Len(pieces[d]),
         starts[c] + i < starts[d] + j
  PROVE  \/ pieces[c][i].stamp < pieces[d][j].stamp
         \/ /\ pieces[c][i].stamp = pieces[d][j].stamp
            /\ Origin(s, pieces, starts, c, i) < Origin(s, pieces, starts, d, j)
<1>1. /\ Len(pieces) \in Nat
      /\ starts[c] \in Nat /\ Len(pieces[c]) \in Nat
      /\ starts[d] \in Nat /\ Len(pieces[d]) \in Nat
  BY TileFacts
<1>2. CASE c = d
  <2> DEFINE raw == Raw(s, pieces, starts, c)
  <2>1. i < j
    BY <1>1, <1>2
  <2>2. /\ raw \in Seq(Message) /\ Len(raw) = Len(pieces[c])
        /\ pieces[c] = StableSort(raw)
        /\ SortedByStamp(pieces[c])
        /\ pieces[c][i].stamp \in Int /\ pieces[c][j].stamp \in Int
    BY <1>2, RawType, PieceSorted
  <2> HIDE DEF raw
  <2>3. pieces[c][i].stamp <= pieces[c][j].stamp
    BY <1>2, <2>1, <2>2 DEF SortedByStamp
  <2>4. ASSUME pieces[c][i].stamp = pieces[c][j].stamp
        PROVE  Place(raw, i) < Place(raw, j)
    <3>1. /\ i \in 1..Len(raw) /\ j \in 1..Len(raw)
          /\ StableSort(raw)[i].stamp = StableSort(raw)[j].stamp
      BY <1>2, <2>2, <2>4
    <3>2. QED
      BY <2>1, <2>2, <3>1, MessagesStamped, StableSortIsStable
  <2>5. Place(raw, i) \in Int /\ Place(raw, j) \in Int
    BY <1>2, RawType DEF raw
  <2>6. pieces[c][i].stamp = pieces[c][j].stamp =>
          starts[c] + Place(raw, i) < starts[c] + Place(raw, j)
    <3>1. \A a \in Nat : \A x, y \in Int : x < y => a + x < a + y
      OBVIOUS
    <3>2. QED
      BY <1>1, <2>4, <2>5, <3>1
  <2>7. QED
    BY <1>2, <2>2, <2>3, <2>6 DEF Origin, raw
<1>3. CASE c < d
  <2>1. starts[c] + Len(pieces[c]) <= starts[d]
    BY <1>3, TilesApart
  <2>2. Origin(s, pieces, starts, c, i) < Origin(s, pieces, starts, d, j)
    <3>1. /\ Origin(s, pieces, starts, c, i) \in Int
          /\ Origin(s, pieces, starts, d, j) \in Int
          /\ Origin(s, pieces, starts, c, i) <= starts[c] + Len(pieces[c])
          /\ starts[d] < Origin(s, pieces, starts, d, j)
      BY OriginType
    <3>2. QED
      BY <1>1, <2>1, <3>1, SMTT(30)
  <2>3. pieces[c][Len(pieces[c])].stamp <= pieces[d][1].stamp
    BY <1>3, ChunksApart
  <2>4. /\ pieces[c][i].stamp <= pieces[c][Len(pieces[c])].stamp
        /\ pieces[c][i].stamp \in Int /\ pieces[d][j].stamp \in Int
        /\ pieces[d][1].stamp <= pieces[d][j].stamp
    BY PieceSorted
  <2>5. /\ pieces[c][Len(pieces[c])].stamp \in Int
        /\ pieces[d][1].stamp \in Int
    <3>1. 1 \in 1..Len(pieces[d]) /\ Len(pieces[c]) \in 1..Len(pieces[c])
      BY <1>1
    <3>2. QED
      BY <3>1, PieceSorted
  <2>6. pieces[c][i].stamp <= pieces[d][j].stamp
    BY <2>3, <2>4, <2>5, SMTT(30)
  <2>7. QED
    BY <2>2, <2>4, <2>6
<1>4. CASE d < c
  <2>1. starts[d] + Len(pieces[d]) <= starts[c]
    BY <1>4, TilesApart
  <2>2. QED
    BY <1>1, <2>1
<1>5. QED
  BY <1>1, <1>2, <1>3, <1>4

\* Chunks of the writer that do not overlap in time are, one behind the other,
\* the stable sort of the recording (flush_chunk, and what the chunk-by-chunk
\* playback of play.rs relies on).
THEOREM JoinedIsSorted ==
  ASSUME NEW s \in Seq(Message), NEW pieces, NEW starts,
         Tiles(s, pieces, starts), ChunksInOrder(IndexOf(pieces))
  PROVE  StableSort(s) = Joined(Len(s), pieces, starts)
<1> DEFINE n == Len(s)
           t == Joined(n, pieces, starts)
           chunk(p) == PieceOf(starts, p - 1)
           from(p) == Origin(s, pieces, starts, chunk(p), p - starts[chunk(p)])
           at == [p \in 1..n |-> from(p)]
<1>1. t \in Seq(Message) /\ Len(t) = n /\ n \in Nat
  BY JoinedType
<1>2. ASSUME NEW p \in 1..n
      PROVE  from(p) \in 1..n /\ t[p] = s[from(p)]
  <2> DEFINE c == chunk(p)
             i == p - starts[c]
  <2>1. /\ c \in 1..Len(pieces) /\ i \in 1..Len(pieces[c])
        /\ t[p] = pieces[c][i]
    BY JoinedAt
  <2>2. from(p) = Origin(s, pieces, starts, c, i)
    OBVIOUS
  <2> HIDE DEF c, i, t, from
  <2>3. QED
    BY <2>1, <2>2, OriginType
<1>3. ASSUME NEW p \in 1..n, NEW q \in 1..n, p < q
      PROVE  \/ t[p].stamp < t[q].stamp
             \/ t[p].stamp = t[q].stamp /\ from(p) < from(q)
  <2> DEFINE c == chunk(p)
             i == p - starts[c]
             d == chunk(q)
             j == q - starts[d]
  <2>1. /\ c \in 1..Len(pieces) /\ i \in 1..Len(pieces[c])
        /\ t[p] = pieces[c][i] /\ starts[c] \in Nat
    BY JoinedAt
  <2>2. /\ d \in 1..Len(pieces) /\ j \in 1..Len(pieces[d])
        /\ t[q] = pieces[d][j] /\ starts[d] \in Nat
    BY JoinedAt
  <2>3. starts[c] + i < starts[d] + j
    <3>1. ASSUME NEW x \in Nat
          PROVE  x + (p - x) = p /\ x + (q - x) = q
      BY <1>1
    <3>2. starts[c] + (p - starts[c]) = p /\ starts[d] + (q - starts[d]) = q
      BY <2>1, <2>2, <3>1
    <3>3. QED
      BY <1>3, <3>2
  <2>4. /\ from(p) = Origin(s, pieces, starts, c, i)
        /\ from(q) = Origin(s, pieces, starts, d, j)
    OBVIOUS
  <2> HIDE DEF c, i, d, j, t, from
  <2>5. \/ pieces[c][i].stamp < pieces[d][j].stamp
        \/ /\ pieces[c][i].stamp = pieces[d][j].stamp
           /\ Origin(s, pieces, starts, c, i) < Origin(s, pieces, starts, d, j)
    BY <2>1, <2>2, <2>3, PairInOrder
  <2>6. QED
    BY <2>1, <2>2, <2>4, <2>5
<1> HIDE DEF t, from
<1>4. /\ at \in [1..n -> 1..n]
      /\ \A p \in 1..n : at[p] = from(p)
  BY <1>2
<1>5. /\ \A p \in 1..n : t[p] = s[at[p]]
      /\ \A p, q \in 1..n :
           p < q => \/ t[p].stamp < t[q].stamp
                    \/ t[p].stamp = t[q].stamp /\ at[p] < at[q]
  BY <1>2, <1>3, <1>4
<1>6. SortsStably(s, t, at)
  BY <1>1, <1>4, <1>5 DEF SortsStably
<1> HIDE DEF at
<1>7. QED
  BY <1>1, <1>6, MessagesStamped, StableSortIsUnique DEF t

LEMMA JoinPrefix ==
  ASSUME NEW S, NEW t \in Seq(S), NEW u \in Seq(S), NEW b \in Nat,
         b + Len(u) <= Len(t), \A i \in 1..Len(u) : t[b + i] = u[i]
  PROVE  SubSeq(t, 1, b) \o u = SubSeq(t, 1, b + Len(u))
<1> DEFINE v == SubSeq(t, 1, b)
           w == SubSeq(t, 1, b + Len(u))
<1>1. Len(u) \in Nat /\ Len(t) \in Nat
  OBVIOUS
<1>2. v \in Seq(S) /\ Len(v) = b /\ \A i \in 1..b : v[i] = t[i]
  BY <1>1
<1>3. w \in Seq(S) /\ Len(w) = b + Len(u) /\ \A i \in 1..b + Len(u) : w[i] = t[i]
  BY <1>1
<1> HIDE DEF v, w
<1>4. /\ v \o u \in Seq(S) /\ Len(v \o u) = Len(v) + Len(u)
      /\ \A i \in 1..Len(v) + Len(u) :
           (v \o u)[i] = IF i <= Len(v) THEN v[i] ELSE u[i - Len(v)]
  BY <1>2, ConcatProperties
<1>5. \A i \in 1..b + Len(u) : (v \o u)[i] = w[i]
  <2>1. SUFFICES ASSUME NEW i \in 1..b + Len(u)
                 PROVE  (v \o u)[i] = w[i]
    OBVIOUS
  <2>2. (v \o u)[i] = IF i <= b THEN v[i] ELSE u[i - b]
    BY <1>2, <1>4
  <2>3. CASE i <= b
    <3>1. i \in 1..b
      BY <2>3
    <3>2. QED
      BY <1>2, <1>3, <2>2, <2>3, <3>1
  <2>4. CASE ~(i <= b)
    <3>1. i - b \in 1..Len(u) /\ b + (i - b) = i
      BY <1>1, <2>4
    <3>2. t[b + (i - b)] = u[i - b]
      BY <3>1
    <3>3. QED
      BY <1>3, <2>2, <2>4, <3>1, <3>2
  <2>5. QED
    BY <2>3, <2>4
<1>6. v \o u = w
  <2>1. Len(v \o u) = Len(w) /\ Len(v \o u) = b + Len(u)
    BY <1>2, <1>3, <1>4
  <2>2. QED
    BY <1>3, <1>4, <1>5, <2>1, SeqEqual
<1>7. QED
  BY <1>6 DEF v, w

\* Message i of chunk c is there.
LEMMA JoinedOf ==
  ASSUME NEW s \in Seq(Message), NEW pieces, NEW starts,
         Tiles(s, pieces, starts),
         NEW c \in 1..Len(pieces), NEW i \in 1..Len(pieces[c])
  PROVE  /\ starts[c] + i \in 1..Len(s)
         /\ PieceOf(starts, (starts[c] + i) - 1) = c
         /\ Joined(Len(s), pieces, starts)[starts[c] + i] = pieces[c][i]
<1> DEFINE p == starts[c] + i
           d == PieceOf(starts, p - 1)
<1>1. /\ Len(s) \in Nat /\ starts[c] \in Nat /\ Len(pieces[c]) \in Nat
      /\ starts[c] + Len(pieces[c]) <= Len(s) /\ Len(pieces) \in Nat
  BY TileFacts
<1>2. p \in 1..Len(s) /\ p - starts[c] = i
  BY <1>1
<1>3. /\ d \in 1..Len(pieces) /\ p - starts[d] \in 1..Len(pieces[d])
      /\ starts[d] \in Nat
      /\ Joined(Len(s), pieces, starts)[p] = pieces[d][p - starts[d]]
  BY <1>2, JoinedAt, SMTT(30)
<1> HIDE DEF d
<1>4. Len(pieces[d]) \in Nat
  BY <1>3, TileFacts
<1>5. starts[c] < p /\ p <= starts[c] + Len(pieces[c])
  BY <1>1
<1>6. starts[d] < p /\ p <= starts[d] + Len(pieces[d])
  BY <1>1, <1>3, <1>4, SMTT(30)
<1> HIDE DEF p
<1>7. ~(c < d)
  <2>1. c < d => starts[c] + Len(pieces[c]) <= starts[d]
    BY <1>3, TilesApart
  <2>2. p \in Nat
    BY <1>2
  <2>3. QED
    BY <1>1, <1>3, <1>5, <1>6, <2>1, <2>2, SMTT(30)
<1>8. ~(d < c)
  <2>1. d < c => starts[d] + Len(pieces[d]) <= starts[c]
    BY <1>3, TilesApart
  <2>2. p \in Nat
    BY <1>2
  <2>3. QED
    BY <1>1, <1>3, <1>4, <1>5, <1>6, <2>1, <2>2
<1>9. d = c
  BY <1>1, <1>3, <1>7, <1>8
<1>10. PieceOf(starts, p - 1) = c
  BY <1>9 DEF d
<1>11. Joined(Len(s), pieces, starts)[p] = pieces[c][i]
  BY <1>2, <1>3, <1>9
<1>12. PieceOf(starts, (starts[c] + i) - 1) = c
  BY <1>10 DEF p
<1>13. QED
  BY <1>2, <1>11, <1>12 DEF p

------------------------------------------------------------------------------
(* messages() *)

\* What there is after chunk c, from what there is before it, when some chunks
\* are left out.
UptoStep(f, c, out) ==
  IF c = 0 THEN <<>> ELSE IF c \in out THEN f[c - 1] ELSE f[c - 1] \o disk[c]

Upto(f, out) ==
  /\ f \in [0..Len(disk) -> Seq(Message)]
  /\ \A c \in 0..Len(disk) : f[c] = UptoStep(f, c, out)

LEMMA UptoExists ==
  ASSUME Len(disk) \in Nat, \A c \in 1..Len(disk) : disk[c] \in Seq(Message),
         NEW out
  PROVE  \E f : Upto(f, out)
<1> DEFINE n == Len(disk)
           step == [c \in 1..n |-> [u \in Seq(Message) |->
                      IF c \in out THEN u ELSE u \o disk[c]]]
<1>1. step \in [1..n -> [Seq(Message) -> Seq(Message)]]
  OBVIOUS
<1>2. n \in Nat /\ <<>> \in Seq(Message)
  OBVIOUS
<1>3. PICK f : /\ f \in [0..n -> Seq(Message)] /\ f[0] = <<>>
               /\ \A c \in 1..n : f[c] = step[c][f[c - 1]]
  <2> HIDE DEF step, n
  <2>1. \E f : Stepwise(f, n, Seq(Message), <<>>, step)
    BY <1>1, <1>2, StepsExist
  <2>2. QED
    BY <2>1 DEF Stepwise
<1>4. ASSUME NEW c \in 0..n
      PROVE  f[c] = UptoStep(f, c, out)
  <2>1. CASE c = 0
    BY <1>3, <2>1 DEF UptoStep
  <2>2. CASE c # 0
    <3>1. c \in 1..n /\ c - 1 \in 0..n
      BY <1>2, <2>2
    <3>2. f[c - 1] \in Seq(Message) /\ f[c] = step[c][f[c - 1]]
      BY <1>3, <3>1
    <3>3. QED
      BY <2>2, <3>1, <3>2 DEF UptoStep
  <2>3. QED
    BY <2>1, <2>2
<1>5. QED
  BY <1>3, <1>4 DEF Upto

\* There is only one such function.
LEMMA UptoIs ==
  ASSUME Len(disk) \in Nat, NEW out, NEW f, Upto(f, out), NEW g,
         \A c \in 0..Len(disk) : g[c] = UptoStep(g, c, out)
  PROVE  \A c \in 0..Len(disk) : g[c] = f[c]
<1>1. 0 \in 0..Len(disk) /\ \A c \in 1..Len(disk) : c \in 0..Len(disk) /\ c # 0
  OBVIOUS
<1>2. g[0] = f[0]
  BY <1>1 DEF Upto, UptoStep
<1>3. \A c \in 1..Len(disk) : g[c - 1] = f[c - 1] => g[c] = f[c]
  BY <1>1 DEF Upto, UptoStep
<1>4. Agree(g, f, Len(disk))
  BY <1>2, <1>3 DEF Agree
<1>5. QED
  BY <1>4, StepByStep

LEMMA ReadableIs ==
  ASSUME Len(disk) \in Nat, \A c \in 1..Len(disk) : disk[c] \in Seq(Message)
  PROVE  \E f : Upto(f, damaged) /\ Readable = f[Len(disk)]
<1> DEFINE Step(f) == [c \in 0..Len(disk) |->
                         IF c = 0 THEN <<>>
                         ELSE IF c \in damaged THEN f[c - 1]
                         ELSE f[c - 1] \o disk[c]]
           upto == CHOOSE f : f = Step(f)
<1>1. PICK f : Upto(f, damaged)
  BY UptoExists
<1>2. f = Step(f)
  <2>1. f = [c \in 0..Len(disk) |-> f[c]]
    BY <1>1 DEF Upto
  <2>2. QED
    BY <1>1, <2>1 DEF Upto, UptoStep
<1>3. upto = Step(upto)
  BY <1>2
<1>4. Readable = upto[Len(disk)]
  BY DEF Readable
<1> HIDE DEF upto
<1>5. \A c \in 0..Len(disk) : upto[c] = UptoStep(upto, c, damaged)
  BY <1>3 DEF UptoStep
<1>6. \A c \in 0..Len(disk) : upto[c] = f[c]
  BY <1>1, <1>5, UptoIs
<1>7. QED
  BY <1>1, <1>4, <1>6

LEMMA ReadableType ==
  ASSUME Len(disk) \in Nat, \A c \in 1..Len(disk) : disk[c] \in Seq(Message)
  PROVE  Readable \in Seq(Message)
<1>1. Len(disk) \in 0..Len(disk)
  OBVIOUS
<1>2. QED
  BY <1>1, ReadableIs DEF Upto

\* How many messages are in the first chunks.
EndAt(starts, c) == IF c = 0 THEN 0 ELSE starts[c] + Len(disk[c])

\* The first chunks are the first part of all of them.
LEMMA UptoIsPrefix ==
  ASSUME NEW s \in Seq(Message), NEW starts, Tiles(s, disk, starts),
         NEW f, Upto(f, {}), NEW m \in 0..Len(disk)
  PROVE  /\ EndAt(starts, m) \in 0..Len(s)
         /\ m = Len(disk) => EndAt(starts, m) = Len(s)
         /\ f[m] = SubSeq(Joined(Len(s), disk, starts), 1, EndAt(starts, m))
<1> DEFINE joined == Joined(Len(s), disk, starts)
           k == Len(disk)
           end(c) == EndAt(starts, c)
<1>1. /\ Len(s) \in Nat /\ k \in Nat
      /\ Len(s) = 0 <=> k = 0
      /\ k > 0 => starts[1] = 0 /\ starts[k] + Len(disk[k]) = Len(s)
      /\ \A c \in 1..k : /\ starts[c] \in Nat /\ Len(disk[c]) \in Nat
                         /\ starts[c] + Len(disk[c]) <= Len(s)
                         /\ disk[c] \in Seq(Message)
      /\ \A c \in 1..k - 1 : starts[c + 1] = starts[c] + Len(disk[c])
  BY TileFacts
<1>2. joined \in Seq(Message) /\ Len(joined) = Len(s)
  BY JoinedType
<1>3. \A c \in 0..k : end(c) \in Nat /\ end(c) <= Len(s)
  BY <1>1 DEF EndAt
<1>4. \A c \in 1..k : end(c - 1) = starts[c] /\ end(c) = starts[c] + Len(disk[c])
  <2>1. SUFFICES ASSUME NEW c \in 1..k
                 PROVE  end(c - 1) = starts[c]
    BY <1>1 DEF EndAt
  <2>2. CASE c = 1
    BY <1>1, <2>2 DEF EndAt
  <2>3. CASE c # 1
    <3>1. c - 1 \in 1..k - 1 /\ c - 1 + 1 = c /\ c - 1 # 0
      BY <1>1, <2>3
    <3>2. QED
      BY <1>1, <3>1 DEF EndAt
  <2>4. QED
    BY <2>2, <2>3
<1>5. \A c \in 1..k : \A i \in 1..Len(disk[c]) : joined[starts[c] + i] = disk[c][i]
  BY JoinedOf
<1> HIDE DEF joined
<1>6. \A c \in 0..k : f[c] = UptoStep(f, c, {})
  BY DEF Upto
<1> HIDE DEF end, k
<1>7. \A c \in 0..k : f[c] = SubSeq(joined, 1, end(c))
  <2> DEFINE Bad == {c \in 0..k : f[c] # SubSeq(joined, 1, end(c))}
  <2>1. SUFFICES ASSUME Bad # {}
                 PROVE  FALSE
    OBVIOUS
  <2>2. PICK c \in Bad : \A d \in Bad : c <= d
    <3>1. Bad \subseteq Nat
      OBVIOUS
    <3> HIDE DEF Bad
    <3>2. QED
      BY <2>1, <3>1, Least
  <2>3. c # 0
    <3>1. 0 \in 0..k
      BY <1>1
    <3>2. f[0] = <<>>
      BY <1>6, <3>1 DEF UptoStep
    <3>3. SubSeq(joined, 1, end(0)) = <<>>
      BY <1>2 DEF end, EndAt
    <3>4. QED
      BY <2>2, <3>2, <3>3
  <2>4. c \in 1..k /\ c - 1 \in 0..k /\ ~(c <= c - 1)
    BY <1>1, <2>2, <2>3
  <2>5. f[c - 1] = SubSeq(joined, 1, end(c - 1))
    BY <2>2, <2>4
  <2>6. f[c] = SubSeq(joined, 1, starts[c]) \o disk[c]
    BY <1>4, <1>6, <2>3, <2>4, <2>5 DEF UptoStep
  <2>7. SubSeq(joined, 1, starts[c]) \o disk[c]
          = SubSeq(joined, 1, starts[c] + Len(disk[c]))
    <3> DEFINE b == starts[c]
               len == Len(disk[c])
    <3>1. /\ b \in Nat /\ len \in Nat /\ b + len <= Len(joined)
          /\ disk[c] \in Seq(Message)
      BY <1>1, <1>2, <2>4 DEF k
    <3>2. \A i \in 1..len : joined[b + i] = disk[c][i]
      BY <1>5, <2>4
    <3>3. QED
      BY <1>2, <3>1, <3>2, JoinPrefix
  <2>8. QED
    BY <1>4, <2>2, <2>4, <2>6, <2>7
<1>8. end(k) = Len(s)
  BY <1>1 DEF end, k, EndAt
<1>9. QED
  BY <1>3, <1>7, <1>8 DEF joined, end, k

\* When every chunk can be read, messages() reads all of it.
LEMMA ReadableIsJoined ==
  ASSUME NEW s \in Seq(Message), NEW starts, Tiles(s, disk, starts),
         damaged = {}
  PROVE  Readable = Joined(Len(s), disk, starts)
<1> DEFINE joined == Joined(Len(s), disk, starts)
<1>1. /\ Len(disk) \in Nat
      /\ \A c \in 1..Len(disk) : disk[c] \in Seq(Message)
  BY TileFacts
<1>2. PICK f : Upto(f, {}) /\ Readable = f[Len(disk)]
  BY <1>1, ReadableIs
<1>3. Len(disk) \in 0..Len(disk)
  BY <1>1
<1>4. Readable = SubSeq(joined, 1, Len(s))
  BY <1>2, <1>3, UptoIsPrefix
<1>5. joined \in Seq(Message) /\ Len(joined) = Len(s)
  BY JoinedType
<1> HIDE DEF joined
<1>6. SubSeq(joined, 1, Len(joined)) = joined
  BY <1>5
<1>7. QED
  BY <1>4, <1>5, <1>6 DEF joined

------------------------------------------------------------------------------
(* The inductive invariant *)

\* The recording does not change: chunks on the disk that are sorted pieces of
\* it, and an index of them, or none.
RecordingInv ==
  /\ tape \in Seq(Message) /\ total = Len(tape)
  /\ Tiles(tape, disk, StartsOf(disk))
  /\ InOrder => ChunksInOrder(IndexOf(disk))
  /\ \/ chunks = <<>> /\ chunk_starts = <<>>
     \/ chunks = IndexOf(disk) /\ chunk_starts = StartsOf(disk)
  /\ damaged \subseteq 1..Len(chunks)

\* What is in memory is a copy of what is on the disk.
MemoryInv ==
  /\ IF chunks = <<>> THEN all = StableSort(tape)
     ELSE all = None \/ all = StableSort(Readable)
  /\ loaded = None \/ \E c \in 1..Len(chunks) :
                        c \notin damaged /\ loaded = [chunk |-> c, msgs |-> disk[c]]

\* The message at place p, whatever chunk is in memory.
Heard(p) ==
  IF Streaming
  THEN IF p < total /\ Containing(p) \notin damaged
       THEN Joined(total, disk, chunk_starts)[p + 1] ELSE None
  ELSE IF p < Len(all) THEN all[p + 1] ELSE None

HeardStamp(p, default) == IF Heard(p) = None THEN default ELSE Heard(p).stamp

\* The clock is set, first_ts with start.
ClockInv ==
  /\ rate \in OpenRates \cup Rates /\ loop_ \in Loops
  /\ pos \in 0..total
  /\ \/ elapsed = None /\ first_ts = None
     \/ elapsed \in 0..MaxElapsed /\ first_ts \in Nat
  /\ answer \in {"none", "moved", "ready", "wait", "end"}
  /\ last \in Message \cup {None}

\* A message was due when it came.
ReadyInv ==
  answer = "ready" =>
    /\ elapsed # None /\ last \in Message
    /\ rate[1] > 0 => Due(last.stamp - first_ts, rate) <= elapsed

\* A move has put the anchor on the message at the head or behind it.
MovedInv ==
  answer = "moved" =>
    /\ elapsed # None
    /\ InOrder /\ ~HolesClosed => HeardStamp(pos, 0) <= first_ts

Inv == RecordingInv /\ MemoryInv /\ ClockInv /\ ReadyInv /\ MovedInv

\* An index that is there is the index of the chunks on the disk.
LEMMA IndexFacts ==
  ASSUME RecordingInv, chunks # <<>>
  PROVE  /\ Tiles(tape, disk, chunk_starts)
         /\ Len(chunks) = Len(disk) /\ Len(chunks) \in Nat /\ Len(chunks) > 0
         /\ chunks = IndexOf(disk) /\ total > 0
         /\ \A c \in 1..Len(chunks) :
              /\ chunks[c].start_stamp = disk[c][1].stamp
              /\ chunks[c].end_stamp = disk[c][Len(disk[c])].stamp
<1>1. /\ tape \in Seq(Message) /\ total = Len(tape)
      /\ Tiles(tape, disk, chunk_starts) /\ chunks = IndexOf(disk)
  BY DEF RecordingInv
<1>2. /\ Len(disk) \in Nat /\ Len(tape) \in Nat
      /\ Len(tape) = 0 <=> Len(disk) = 0
  BY <1>1, TileFacts
<1>3. Len(chunks) = Len(disk)
  BY <1>1, <1>2 DEF IndexOf
<1>4. Len(disk) # 0
  <2>1. Len(disk) = 0 => IndexOf(disk) = <<>>
    BY DEF IndexOf
  <2>2. QED
    BY <1>1, <2>1
<1>5. \A c \in 1..Len(disk) :
        /\ chunks[c].start_stamp = disk[c][1].stamp
        /\ chunks[c].end_stamp = disk[c][Len(disk[c])].stamp
  BY <1>1 DEF IndexOf
<1>6. QED
  BY <1>1, <1>2, <1>3, <1>4, <1>5

LEMMA DiskFacts ==
  ASSUME RecordingInv
  PROVE  /\ tape \in Seq(Message) /\ total = Len(tape) /\ total \in Nat
         /\ Len(disk) \in Nat
         /\ \A c \in 1..Len(disk) : disk[c] \in Seq(Message)
         /\ StableSort(tape) \in Seq(Message) /\ Len(StableSort(tape)) = total
         /\ Readable \in Seq(Message)
         /\ StableSort(Readable) \in Seq(Message)
<1>1. /\ tape \in Seq(Message) /\ total = Len(tape)
      /\ Tiles(tape, disk, StartsOf(disk))
  BY DEF RecordingInv
<1>2. /\ Len(disk) \in Nat /\ Len(tape) \in Nat
      /\ \A c \in 1..Len(disk) : disk[c] \in Seq(Message)
  BY <1>1, TileFacts
<1>3. StableSort(tape) \in Seq(Message) /\ Len(StableSort(tape)) = Len(tape)
  BY <1>1, MessagesStamped, StableSortRearranges
<1>4. Readable \in Seq(Message)
  BY <1>2, ReadableType
<1>5. StableSort(Readable) \in Seq(Message)
  BY <1>4, MessagesStamped, StableSortRearranges
<1>6. QED
  BY <1>1, <1>2, <1>3, <1>4, <1>5

\* ensure_loaded(c) has the messages of chunk c, or fails.
LEMMA EnsureLoadedIs ==
  ASSUME RecordingInv, MemoryInv, NEW c \in 1..Len(chunks)
  PROVE  /\ c \in damaged => EnsureLoaded(c) = None
         /\ c \notin damaged =>
              /\ EnsureLoaded(c) # None
              /\ EnsureLoaded(c) = [chunk |-> c, msgs |-> disk[c]]
<1>1. chunks # <<>>
  BY DEF RecordingInv
<1>2. /\ tape \in Seq(Message) /\ Tiles(tape, disk, chunk_starts)
      /\ Len(chunks) = Len(disk)
  BY <1>1, IndexFacts DEF RecordingInv
<1>3. StableSort(disk[c]) = disk[c]
  BY <1>2, PieceSorted
<1>4. [chunk |-> c, msgs |-> disk[c]] # None
  BY <1>2, DiskFacts, PlayerAssumption
<1>5. loaded # None => \E d \in 1..Len(chunks) :
                         d \notin damaged /\ loaded = [chunk |-> d, msgs |-> disk[d]]
  BY DEF MemoryInv
<1>6. loaded # None /\ loaded.chunk = c =>
        c \notin damaged /\ loaded = [chunk |-> c, msgs |-> disk[c]]
  BY <1>5
<1>7. QED
  BY <1>3, <1>4, <1>6 DEF EnsureLoaded

\* The chunk that is looked up, for every place of the play head.
LEMMA ContainingIs ==
  ASSUME RecordingInv, chunks # <<>>, NEW p \in 0..total
  PROVE  /\ Containing(p) = PieceOf(chunk_starts, p)
         /\ Containing(p) \in 1..Len(chunks)
         /\ chunk_starts[Containing(p)] \in Nat
         /\ chunk_starts[Containing(p)] <= p
         /\ Len(disk[Containing(p)]) \in Nat
         /\ p < total <=> p - chunk_starts[Containing(p)] < Len(disk[Containing(p)])
<1>1. /\ tape \in Seq(Message) /\ Tiles(tape, disk, chunk_starts)
      /\ Len(chunks) = Len(disk) /\ Len(disk) > 0 /\ total = Len(tape)
  BY IndexFacts DEF RecordingInv
<1>2. Len(chunk_starts) = Len(chunks)
  BY <1>1, TileFacts
<1>3. Containing(p) = PieceOf(chunk_starts, p)
  BY <1>2 DEF Containing, PieceOf
<1> DEFINE c == Containing(p)
<1>4. /\ c \in 1..Len(disk) /\ chunk_starts[c] <= p
      /\ p < Len(tape) => p < chunk_starts[c] + Len(disk[c])
      /\ p = Len(tape) => p = chunk_starts[c] + Len(disk[c])
  BY <1>1, <1>3, PieceOfPlace
<1> HIDE DEF c
<1>5. chunk_starts[c] \in Nat /\ Len(disk[c]) \in Nat /\ Len(tape) \in Nat
  BY <1>1, <1>4, TileFacts
<1>6. p < total <=> p - chunk_starts[c] < Len(disk[c])
  BY <1>1, <1>4, <1>5
<1>7. QED
  BY <1>1, <1>3, <1>4, <1>5, <1>6 DEF c

\* message_at reads the same message whatever chunk is in memory.
LEMMA MessageAtIs ==
  ASSUME RecordingInv, MemoryInv, NEW p \in 0..total
  PROVE  /\ MessageAt(p) = Heard(p)
         /\ MessageAt(p) \in Message \cup {None}
<1>1. CASE Streaming
  <2>1. chunks # <<>>
    BY <1>1 DEF Streaming
  <2> DEFINE c == Containing(p)
             i == p - chunk_starts[c]
  <2>2. /\ c \in 1..Len(chunks) /\ c = PieceOf(chunk_starts, p)
        /\ chunk_starts[c] \in Nat /\ chunk_starts[c] <= p
        /\ Len(disk[c]) \in Nat /\ p < total <=> i < Len(disk[c])
    BY <2>1, ContainingIs
  <2>3. /\ tape \in Seq(Message) /\ Tiles(tape, disk, chunk_starts)
        /\ total = Len(tape) /\ total \in Nat /\ Len(chunks) = Len(disk)
        /\ disk[c] \in Seq(Message)
    BY <2>1, <2>2, IndexFacts, DiskFacts
  <2>4. MessageAt(p) = IF c \in damaged
                       THEN IF i < Len(<<>>) THEN <<>>[i + 1] ELSE None
                       ELSE IF i < Len(disk[c]) THEN disk[c][i + 1] ELSE None
    <3> HIDE DEF c
    <3>1. CASE c \in damaged
      <4>1. EnsureLoaded(c) = None
        BY <2>2, <3>1, EnsureLoadedIs
      <4>2. QED
        BY <1>1, <3>1, <4>1 DEF MessageAt, c
    <3>2. CASE c \notin damaged
      <4>1. EnsureLoaded(c) # None /\ EnsureLoaded(c).msgs = disk[c]
        BY <2>2, <3>2, EnsureLoadedIs
      <4>2. QED
        BY <1>1, <3>2, <4>1 DEF MessageAt, c
    <3>3. QED
      BY <3>1, <3>2
  <2>5. i \in Nat
    BY <2>2
  <2>6. i < Len(disk[c]) =>
          /\ i + 1 \in 1..Len(disk[c]) /\ chunk_starts[c] + (i + 1) = p + 1
    BY <2>2
  <2>7. i < Len(disk[c]) => Joined(total, disk, chunk_starts)[p + 1] = disk[c][i + 1]
    <3> HIDE DEF i, c
    <3>1. ASSUME i < Len(disk[c])
          PROVE  Joined(total, disk, chunk_starts)[chunk_starts[c] + (i + 1)]
                   = disk[c][i + 1]
      BY <2>2, <2>3, <2>6, <3>1, JoinedOf, SMTT(30)
    <3>2. QED
      BY <2>6, <3>1
  <2>8. i < Len(disk[c]) => disk[c][i + 1] \in Message
    BY <2>3, <2>6
  <2> HIDE DEF i, c
  <2>9. Len(<<>>) = 0
    OBVIOUS
  <2>10. ~(i < Len(<<>>))
    BY <2>5, <2>9
  <2>11. Heard(p) = IF p < total /\ c \notin damaged
                    THEN Joined(total, disk, chunk_starts)[p + 1] ELSE None
    BY <1>1 DEF Heard, c
  <2>12. QED
    BY <2>2, <2>4, <2>7, <2>8, <2>10, <2>11
<1>2. CASE ~Streaming
  <2>1. MessageAt(p) = IF p < Len(all) THEN all[p + 1] ELSE None
    BY <1>2 DEF MessageAt
  <2>2. all \in Seq(Message)
    BY <1>2, DiskFacts DEF Streaming, MemoryInv
  <2>3. p < Len(all) => all[p + 1] \in Message
    BY <2>2, DiskFacts
  <2>4. QED
    BY <1>2, <2>1, <2>3 DEF Heard
<1>3. QED
  BY <1>1, <1>2

\* Looking at a message leaves a chunk in memory that is on the disk.
LEMMA LoadedForIs ==
  ASSUME RecordingInv, MemoryInv, NEW p \in 0..total
  PROVE  LoadedFor(p) = None \/ \E c \in 1..Len(chunks) :
           c \notin damaged /\ LoadedFor(p) = [chunk |-> c, msgs |-> disk[c]]
<1>1. CASE Streaming /\ EnsureLoaded(Containing(p)) # None
  <2>1. chunks # <<>>
    BY <1>1 DEF Streaming
  <2>2. Containing(p) \in 1..Len(chunks)
    BY <2>1, ContainingIs
  <2>3. Containing(p) \notin damaged
    BY <1>1, <2>2, EnsureLoadedIs
  <2>4. QED
    BY <1>1, <2>2, <2>3, EnsureLoadedIs DEF LoadedFor
<1>2. CASE ~(Streaming /\ EnsureLoaded(Containing(p)) # None)
  BY <1>2 DEF LoadedFor, MemoryInv
<1>3. QED
  BY <1>1, <1>2

------------------------------------------------------------------------------
(* The play head *)

LEMMA DueType ==
  ASSUME NEW r \in OpenRates \cup Rates, NEW delta \in Int, r[1] # 0
  PROVE  Due(delta, r) \in Nat
<1>1. r[1] \in Nat /\ r[2] \in Nat
  BY PlayerAssumption
<1> DEFINE a == 2 * delta * r[2] + r[1]
           b == 2 * r[1]
<1>2. CASE delta <= 0
  BY <1>2 DEF Due
<1>3. CASE delta > 0
  <2>1. a \in Int /\ a >= 0 /\ b \in Nat \ {0}
    BY <1>1, <1>3, Z3
  <2> HIDE DEF a, b
  <2>2. a \div b \in Nat
    BY <2>1, DivisionBounds
  <2>3. Due(delta, r) = a \div b
    BY <1>3 DEF Due, a, b
  <2>4. QED
    BY <2>2, <2>3
<1>4. QED
  BY <1>2, <1>3

LEMMA StampAtIs ==
  ASSUME RecordingInv, MemoryInv, NEW p \in 0..total, NEW default \in Nat
  PROVE  StampAt(p, default) \in Nat /\ StampAt(p, default) = HeardStamp(p, default)
<1>1. MessageAt(p) = Heard(p) /\ MessageAt(p) \in Message \cup {None}
  BY MessageAtIs
<1>2. MessageAt(p) # None => MessageAt(p).stamp \in Nat
  BY <1>1, PlayerAssumption DEF Message
<1>3. QED
  BY <1>1, <1>2 DEF StampAt, HeardStamp

\* Before the end, the play head is on a message.
LEMMA HeadFacts ==
  ASSUME RecordingInv, MemoryInv, ClockInv, ~AtEnd
  PROVE  /\ Head0 \in 0..total /\ Head0 < total
         /\ Head0 = IF loop_ /\ pos = total THEN 0 ELSE pos
         /\ ElapsedNow \in 0..MaxElapsed /\ FirstTs \in Nat
         /\ StampAt(Head0, 0) \in Nat /\ DueIn \in Nat
<1>1. total \in Nat /\ total # 0 /\ pos \in 0..total /\ (pos >= total => loop_)
  BY DiskFacts DEF AtEnd, ClockInv
<1>2. /\ Head0 \in 0..total /\ Head0 < total
      /\ Head0 = IF loop_ /\ pos = total THEN 0 ELSE pos
  BY <1>1 DEF Head0, Wraps
<1>3. StampAt(Head0, 0) \in Nat
  BY <1>2, StampAtIs
<1>4. 0 \in 0..MaxElapsed
  BY PlayerAssumption
<1>5. ElapsedNow \in 0..MaxElapsed /\ FirstTs \in Nat
  BY <1>3, <1>4 DEF ElapsedNow, FirstTs, Anchors, ClockInv
<1>6. DueIn \in Nat
  <2>1. StampAt(Head0, 0) - FirstTs \in Int
    BY <1>3, <1>5
  <2>2. rate[1] # 0 => Due(StampAt(Head0, 0) - FirstTs, rate) \in Nat
    BY <2>1, DueType DEF ClockInv
  <2>3. QED
    BY <2>2 DEF DueIn
<1>7. QED
  BY <1>2, <1>3, <1>5, <1>6

\* The indexed and the materialised recording have the same first and last
\* stamp as far as they can be read.
LEMMA EndStamps ==
  ASSUME RecordingInv, MemoryInv
  PROVE  FirstStamp \in Nat /\ LastStamp \in Nat
<1>1. \A m \in Message : m.stamp \in Nat
  BY PlayerAssumption DEF Message
<1>2. CASE Streaming
  <2> DEFINE k == Len(chunks)
  <2>1. chunks # <<>> /\ k \in Nat /\ k > 0 /\ k = Len(disk)
    BY <1>2, IndexFacts DEF Streaming
  <2>2. /\ chunks[1].start_stamp = disk[1][1].stamp
        /\ chunks[k].end_stamp = disk[k][Len(disk[k])].stamp
    BY <2>1, IndexFacts
  <2>3. \A c \in 1..k : /\ disk[c] \in Seq(Message)
                        /\ Len(disk[c]) \in Nat /\ Len(disk[c]) > 0
    BY <2>1, IndexFacts, TileFacts DEF RecordingInv
  <2> HIDE DEF k
  <2>4. disk[1][1] \in Message /\ disk[k][Len(disk[k])] \in Message
    <3>1. 1 \in 1..k /\ k \in 1..k
      BY <2>1
    <3>2. QED
      BY <2>3, <3>1
  <2>5. QED
    BY <1>1, <1>2, <2>2, <2>4 DEF FirstStamp, LastStamp, k
<1>3. CASE ~Streaming
  <2>1. all \in Seq(Message)
    BY <1>3, DiskFacts DEF Streaming, MemoryInv
  <2>2. all # <<>> => all[1] \in Message /\ all[Len(all)] \in Message
    BY <2>1
  <2>3. QED
    BY <1>1, <1>3, <2>2 DEF FirstStamp, LastStamp
<1>4. QED
  BY <1>2, <1>3

LEMMA RatioTargetType ==
  ASSUME RecordingInv, MemoryInv, NEW q \in Ratios
  PROVE  RatioTarget(q) \in Nat
<1> DEFINE span == IF LastStamp < FirstStamp THEN 0 ELSE LastStamp - FirstStamp
<1>1. FirstStamp \in Nat /\ LastStamp \in Nat
  BY EndStamps
<1>2. span \in Nat
  BY <1>1
<1>3. q[1] \in Nat /\ q[2] \in Nat \ {0}
  BY PlayerAssumption
<1>4. RatioTarget(q) = FirstStamp + (span * q[1]) \div q[2]
  BY DEF RatioTarget
<1> HIDE DEF span
<1>5. span * q[1] \in Int /\ span * q[1] >= 0
  BY <1>2, <1>3, Z3
<1>6. (span * q[1]) \div q[2] \in Nat
  BY <1>3, <1>5, DivisionBounds
<1>7. QED
  BY <1>1, <1>4, <1>6

\* What the binary search over the chunk index and the one in the chunk it
\* finds come to.
LEMMA StreamedOrdinals ==
  ASSUME RecordingInv, MemoryInv, Streaming,
         NEW t \in Nat, NEW ord \in Ordinals(t)
  PROVE  \/ chunks[Len(chunks)].end_stamp < t /\ ord = total
         \/ /\ ~(chunks[Len(chunks)].end_stamp < t)
            /\ \E n \in 0..Len(chunks) - 1 :
                 /\ n > 0 => chunks[n].end_stamp < t
                 /\ ~(chunks[n + 1].end_stamp < t)
                 /\ \/ n + 1 \in damaged /\ ord = total
                    \/ /\ n + 1 \notin damaged
                       /\ \E k \in PartitionPoints(disk[n + 1],
                                                   LAMBDA m : m.stamp < t) :
                            ord = chunk_starts[n + 1] + k
<1>1. chunks # <<>> /\ Len(chunks) \in Nat /\ Len(chunks) > 0
  BY IndexFacts DEF Streaming
<1>2. CASE chunks[Len(chunks)].end_stamp < t
  BY <1>2 DEF Ordinals
<1>3. CASE ~(chunks[Len(chunks)].end_stamp < t)
  <2> DEFINE At(n) == IF n < Len(chunks) THEN n + 1 ELSE Len(chunks)
             In(n) == IF EnsureLoaded(At(n)) = None THEN {total}
                      ELSE {chunk_starts[At(n)] + k :
                              k \in PartitionPoints(EnsureLoaded(At(n)).msgs,
                                                    LAMBDA m : m.stamp < t)}
  <2>1. Ordinals(t) =
          UNION {In(n) : n \in PartitionPoints(chunks, LAMBDA c : c.end_stamp < t)}
    BY <1>3 DEF Ordinals
  <2> HIDE DEF In
  <2>2. PICK n \in PartitionPoints(chunks, LAMBDA c : c.end_stamp < t) :
               ord \in In(n)
    BY <2>1
  <2>3. /\ n \in 0..Len(chunks)
        /\ n > 0 => chunks[n].end_stamp < t
        /\ n < Len(chunks) => ~(chunks[n + 1].end_stamp < t)
    BY <2>2 DEF PartitionPoints
  <2>4. n \in 0..Len(chunks) - 1 /\ At(n) = n + 1 /\ n + 1 \in 1..Len(chunks)
    BY <1>1, <1>3, <2>3
  <2>5. CASE n + 1 \in damaged
    <3>1. EnsureLoaded(n + 1) = None
      BY <2>4, <2>5, EnsureLoadedIs
    <3>2. ord = total
      BY <2>2, <2>4, <3>1 DEF In
    <3>3. QED
      BY <1>3, <2>3, <2>4, <2>5, <3>2
  <2>6. CASE n + 1 \notin damaged
    <3>1. EnsureLoaded(n + 1) # None /\ EnsureLoaded(n + 1).msgs = disk[n + 1]
      BY <2>4, <2>6, EnsureLoadedIs
    <3>2. \E k \in PartitionPoints(disk[n + 1], LAMBDA m : m.stamp < t) :
            ord = chunk_starts[n + 1] + k
      BY <2>2, <2>4, <3>1 DEF In, PartitionPoints
    <3>3. QED
      BY <1>3, <2>3, <2>4, <2>6, <3>2
  <2>7. QED
    BY <2>5, <2>6
<1>4. QED
  BY <1>2, <1>3

LEMMA OrdinalsType ==
  ASSUME RecordingInv, MemoryInv, NEW t \in Nat, NEW ord \in Ordinals(t)
  PROVE  ord \in Nat
<1>1. total \in Nat
  BY DiskFacts
<1>2. CASE Streaming
  <2>1. CASE ord = total
    BY <1>1, <2>1
  <2>2. CASE ord # total
    <3>1. PICK n \in 0..Len(chunks) - 1 :
                 \E k \in PartitionPoints(disk[n + 1], LAMBDA m : m.stamp < t) :
                   ord = chunk_starts[n + 1] + k
      BY <1>2, <2>2, StreamedOrdinals, ZenonT(30)
    <3>2. PICK k \in PartitionPoints(disk[n + 1], LAMBDA m : m.stamp < t) :
                 ord = chunk_starts[n + 1] + k
      BY <3>1
    <3>3. k \in Nat
      BY <3>2 DEF PartitionPoints
    <3>4. chunk_starts[n + 1] \in Nat
      <4>1. /\ chunks # <<>> /\ Len(chunks) \in Nat /\ Len(chunks) = Len(disk)
            /\ tape \in Seq(Message) /\ Tiles(tape, disk, chunk_starts)
        BY <1>2, IndexFacts DEF Streaming, RecordingInv
      <4>2. n + 1 \in 1..Len(disk)
        BY <4>1
      <4>3. QED
        BY <4>1, <4>2, TileFacts
    <3>5. QED
      BY <3>2, <3>3, <3>4
  <2>3. QED
    BY <2>1, <2>2
<1>3. CASE ~Streaming
  BY <1>3 DEF Ordinals, PartitionPoints
<1>4. QED
  BY <1>2, <1>3

------------------------------------------------------------------------------
(* The invariant is inductive *)

LEMMA InitInv == Init => Inv
<1> SUFFICES ASSUME Init
             PROVE  Inv
  OBVIOUS
<1>1. tape \in Seq(Message)
  <2>1. PICK n \in 0..MaxMessages, s \in [1..MaxMessages -> Stamps] :
               tape = [i \in 1..n |-> [id |-> i, stamp |-> s[i]]]
    BY DEF Init, Tapes
  <2>2. MaxMessages \in Nat
    BY PlayerAssumption
  <2>3. \A i \in 1..n : [id |-> i, stamp |-> s[i]] \in Message
    BY <2>2 DEF Message
  <2>4. QED
    BY <2>1, <2>2, <2>3
<1>2. PICK size \in ChunkSizes, indexed \in Indexed :
        /\ disk = Pieces(tape, size)
        /\ InOrder => ChunksInOrder(IndexOf(disk))
        /\ chunks = IF indexed THEN IndexOf(disk) ELSE <<>>
        /\ chunk_starts = IF indexed THEN StartsOf(disk) ELSE <<>>
  BY DEF Init
<1>3. Tiles(tape, disk, StartsOf(disk))
  <2>1. size \in Nat \ {0}
    BY PlayerAssumption
  <2>2. QED
    BY <1>1, <1>2, <2>1, PiecesTile
<1>4. damaged \subseteq 1..Len(chunks) /\ total = Len(tape)
  BY DEF Init
<1>5. RecordingInv
  BY <1>1, <1>2, <1>3, <1>4 DEF RecordingInv
<1>6. MemoryInv
  BY DEF Init, MemoryInv
<1>7. ClockInv
  BY <1>1, <1>4 DEF Init, ClockInv
<1>8. ReadyInv /\ MovedInv
  BY DEF Init, ReadyInv, MovedInv
<1>9. QED
  BY <1>5, <1>6, <1>7, <1>8 DEF Inv

\* What the steps of a player come to.
LEMMA StepKinds ==
  ASSUME Inv, [Next]_vars
  PROVE  \/ End \/ Fails \/ NotYet \/ Tick \/ SeekToStart \/ Messages
         \/ UNCHANGED vars
         \/ \E e \in 0..MaxElapsed : Returned(e)
         \/ \E t \in SeekTargets : Seek(t)
         \/ \E q \in Ratios : Seek(RatioTarget(q))
         \/ \E r \in Rates : SetRate(r)
<1>1. RecordingInv /\ MemoryInv /\ ClockInv
  BY DEF Inv
<1>2. ~AtEnd => ElapsedNow \in 0..MaxElapsed /\ DueIn \in Nat
  BY <1>1, HeadFacts
<1>3. \A e : Returned(e) => ~AtEnd
  BY DEF Returned
<1>4. Returned(ElapsedNow) => \E e \in 0..MaxElapsed : Returned(e)
  BY <1>2, <1>3
<1>5. Sleeps => \E e \in 0..MaxElapsed : Returned(e)
  <2>1. SUFFICES ASSUME NEW e \in DueIn..MaxElapsed, Returned(e)
                 PROVE  e \in 0..MaxElapsed
    BY DEF Sleeps
  <2>2. DueIn \in Nat
    BY <1>2, <1>3, <2>1
  <2>3. QED
    BY <2>2, PlayerAssumption
<1>6. QED
  BY <1>4, <1>5 DEF Next, Play, NextMessage, TryNext, SeekRatio

LEMMA RecordingStays ==
  ASSUME RecordingInv, UNCHANGED recording
  PROVE  RecordingInv' /\ Readable' = Readable /\ UNCHANGED total
  BY DEF RecordingInv, Readable, recording

\* A step that only looks at a message.
LEMMA MemoryStays ==
  ASSUME RecordingInv, MemoryInv, UNCHANGED recording, UNCHANGED all,
         loaded' = loaded \/ \E p \in 0..total : loaded' = LoadedFor(p)
  PROVE  /\ MemoryInv' /\ UNCHANGED HolesClosed
         /\ \A p, default : HeardStamp(p, default)' = HeardStamp(p, default)
<1>1. Readable' = Readable
  BY RecordingStays
<1>2. loaded' = None \/ \E c \in 1..Len(chunks) :
           c \notin damaged /\ loaded' = [chunk |-> c, msgs |-> disk[c]]
  BY LoadedForIs DEF MemoryInv
<1>3. MemoryInv'
  BY <1>1, <1>2 DEF MemoryInv, recording
<1>4. UNCHANGED HolesClosed
  BY DEF HolesClosed, recording
<1>5. \A p : Heard(p)' = Heard(p)
  BY DEF Heard, Streaming, Containing, Joined, recording
<1>6. QED
  BY <1>3, <1>4, <1>5 DEF HeardStamp

\* In order and whole, what messages() reads is the sorted recording.
LEMMA ReadableIsSorted ==
  ASSUME RecordingInv, InOrder, damaged = {}
  PROVE  StableSort(Readable) = StableSort(tape)
<1>1. /\ tape \in Seq(Message) /\ Tiles(tape, disk, StartsOf(disk))
      /\ ChunksInOrder(IndexOf(disk))
  BY DEF RecordingInv
<1>2. StableSort(tape) = Joined(Len(tape), disk, StartsOf(disk))
  BY <1>1, JoinedIsSorted
<1>3. Readable = StableSort(tape)
  BY <1>1, <1>2, ReadableIsJoined
<1>4. SortedByStamp(StableSort(tape)) /\ StableSort(tape) \in Seq(Message)
  BY <1>1, MessagesStamped, StableSortSorts, StableSortRearranges
<1>5. QED
  BY <1>3, <1>4, MessagesStamped, SortOfSorted

\* Materialised without a hole, it is all of it in order.
LEMMA MaterialisedIs ==
  ASSUME RecordingInv, MemoryInv, InOrder, ~HolesClosed, ~Streaming
  PROVE  all = StableSort(tape)
<1>1. CASE chunks = <<>>
  BY <1>1 DEF MemoryInv
<1>2. CASE chunks # <<>>
  <2>1. all # None /\ all = StableSort(Readable)
    BY <1>2 DEF Streaming, MemoryInv
  <2>2. damaged = {}
    BY <2>1 DEF HolesClosed
  <2>3. QED
    BY <2>1, <2>2, ReadableIsSorted
<1>3. QED
  BY <1>1, <1>2

\* What a player whose chunks are in order plays: the sorted recording.
LEMMA HeardIs ==
  ASSUME RecordingInv, MemoryInv, InOrder, ~HolesClosed, NEW p \in 0..total
  PROVE  Heard(p) =
           IF p < total /\ ~(Streaming /\ Containing(p) \in damaged)
           THEN StableSort(tape)[p + 1] ELSE None
<1>1. /\ tape \in Seq(Message) /\ Len(tape) = total
      /\ Len(StableSort(tape)) = total
  BY DiskFacts
<1>2. CASE Streaming
  <2>1. Tiles(tape, disk, chunk_starts) /\ ChunksInOrder(IndexOf(disk))
    BY <1>2, IndexFacts DEF Streaming, RecordingInv
  <2>2. StableSort(tape) = Joined(total, disk, chunk_starts)
    BY <1>1, <2>1, JoinedIsSorted
  <2>3. QED
    BY <1>2, <2>2 DEF Heard
<1>3. CASE ~Streaming
  <2>1. all = StableSort(tape)
    BY <1>3, MaterialisedIs
  <2>2. QED
    BY <1>1, <1>3, <2>1 DEF Heard
<1>4. QED
  BY <1>2, <1>3

\* The steps of next_message and try_next on a message that is there or not:
\* the head is on the message, the anchor is set, nothing else has moved.
LEMMA PollPreservesInv ==
  ASSUME Inv, Fails \/ NotYet
  PROVE  Inv'
<1>1. RecordingInv /\ MemoryInv /\ ClockInv /\ ~AtEnd
  BY DEF Inv, Fails, NotYet
<1>2. /\ Head0 \in 0..total /\ ElapsedNow \in 0..MaxElapsed /\ FirstTs \in Nat
  BY <1>1, HeadFacts
<1>3. /\ UNCHANGED <<recording, rate, loop_, all, last>>
      /\ loaded' = loaded \/ loaded' = LoadedFor(Head0)
      /\ pos' = Head0 /\ elapsed' = ElapsedNow /\ first_ts' = FirstTs
      /\ answer' \in {"end", "wait"}
  BY DEF Fails, NotYet
<1>4. RecordingInv' /\ MemoryInv' /\ UNCHANGED total
  BY <1>1, <1>2, <1>3, RecordingStays, MemoryStays
<1>5. ClockInv'
  BY <1>1, <1>2, <1>3, <1>4 DEF ClockInv
<1>6. ReadyInv' /\ MovedInv'
  BY <1>3 DEF ReadyInv, MovedInv
<1>7. QED
  BY <1>4, <1>5, <1>6 DEF Inv

LEMMA ReturnedPreservesInv ==
  ASSUME Inv, NEW e \in 0..MaxElapsed, Returned(e)
  PROVE  Inv'
<1>1. RecordingInv /\ MemoryInv /\ ClockInv /\ ~AtEnd
  BY DEF Inv, Returned
<1>2. /\ Head0 \in 0..total /\ Head0 < total /\ FirstTs \in Nat /\ total \in Nat
  BY <1>1, HeadFacts, DiskFacts
<1>3. /\ UNCHANGED <<recording, rate, loop_, all>>
      /\ loaded' = LoadedFor(Head0)
      /\ pos' = Head0 + 1 /\ elapsed' = e /\ first_ts' = FirstTs
      /\ answer' = "ready" /\ last' = MessageAt(Head0)
      /\ MessageAt(Head0) # None /\ DueIn <= e
  BY DEF Returned
<1>4. RecordingInv' /\ MemoryInv' /\ UNCHANGED total
  BY <1>1, <1>2, <1>3, RecordingStays, MemoryStays
<1>5. last' \in Message /\ last'.stamp = StampAt(Head0, 0)
  BY <1>1, <1>2, <1>3, MessageAtIs DEF StampAt
<1>6. ClockInv'
  <2>1. Head0 + 1 \in 0..total
    BY <1>2
  <2>2. QED
    BY <1>1, <1>2, <1>3, <1>4, <1>5, <2>1 DEF ClockInv
<1>7. ReadyInv'
  <2>1. e # None
    BY PlayerAssumption
  <2>2. rate[1] > 0 => Due(StampAt(Head0, 0) - FirstTs, rate) <= e
    <3>1. rate[1] > 0 => rate[1] # 0
      OBVIOUS
    <3>2. QED
      BY <1>3, <3>1 DEF DueIn
  <2>3. QED
    BY <1>3, <1>5, <2>1, <2>2 DEF ReadyInv
<1>8. MovedInv'
  BY <1>3 DEF MovedInv
<1>9. QED
  BY <1>4, <1>6, <1>7, <1>8 DEF Inv

\* A new anchor at place p makes the message there due.
LEMMA AnchorPreservesInv ==
  ASSUME Inv, NEW p \in 0..total, NEW default \in Nat, Anchor(p, default),
         pos' = p, rate' \in OpenRates \cup Rates,
         UNCHANGED <<recording, loop_, all, last>>
  PROVE  Inv'
<1>1. RecordingInv /\ MemoryInv /\ ClockInv
  BY DEF Inv
<1>2. /\ first_ts' = StampAt(p, default) /\ elapsed' = 0 /\ answer' = "moved"
      /\ loaded' = LoadedFor(p)
  BY DEF Anchor
<1>3. /\ RecordingInv' /\ MemoryInv' /\ UNCHANGED total
      /\ \A q, d : HeardStamp(q, d)' = HeardStamp(q, d)
  BY <1>1, <1>2, RecordingStays, MemoryStays
<1>4. /\ StampAt(p, default) \in Nat
      /\ StampAt(p, default) = HeardStamp(p, default)
      /\ StampAt(p, 0) = HeardStamp(p, 0)
  BY <1>1, StampAtIs
<1>5. 0 \in 0..MaxElapsed /\ 0 # None
  BY PlayerAssumption
<1>6. ClockInv'
  BY <1>1, <1>2, <1>3, <1>4, <1>5 DEF ClockInv
<1>7. ReadyInv'
  BY <1>2 DEF ReadyInv
<1>8. MovedInv'
  <2>1. HeardStamp(p, 0) <= HeardStamp(p, default)
    BY <1>4 DEF HeardStamp
  <2>2. HeardStamp(pos, 0)' = HeardStamp(p, 0)
    BY <1>3
  <2>3. QED
    BY <1>2, <1>4, <1>5, <2>1, <2>2 DEF MovedInv
<1>9. QED
  BY <1>3, <1>6, <1>7, <1>8 DEF Inv

LEMMA SeekPreservesInv ==
  ASSUME Inv, NEW t \in Nat, Seek(t)
  PROVE  Inv'
<1>1. RecordingInv /\ MemoryInv /\ ClockInv
  BY DEF Inv
<1>2. PICK ord \in Ordinals(t) :
        LET p == IF ord < total THEN ord ELSE total
        IN  /\ pos' = p /\ Anchor(p, t)
            /\ UNCHANGED <<recording, rate, loop_, all, last>>
  BY DEF Seek
<1> DEFINE p == IF ord < total THEN ord ELSE total
<1>3. p \in 0..total
  BY <1>1, OrdinalsType, DiskFacts
<1>4. rate' \in OpenRates \cup Rates
  BY <1>1, <1>2 DEF ClockInv
<1> HIDE DEF p
<1>5. /\ pos' = p /\ Anchor(p, t)
      /\ UNCHANGED <<recording, loop_, all, last>>
  BY <1>2 DEF p
<1>6. QED
  BY <1>3, <1>4, <1>5, AnchorPreservesInv

\* Nothing that messages() does changes what is at the head.
LEMMA MessagesPreservesInv ==
  ASSUME Inv, Messages
  PROVE  Inv'
<1>1. RecordingInv /\ MemoryInv /\ ClockInv
  BY DEF Inv
<1>2. /\ UNCHANGED <<recording, rate, loop_, pos, elapsed, first_ts, answer, last>>
      /\ all = None /\ all' = StableSort(Readable) /\ loaded' = None
  BY DEF Messages
<1>3. RecordingInv' /\ UNCHANGED total /\ Readable' = Readable
  BY <1>1, <1>2, RecordingStays
<1>4. chunks # <<>>
  BY <1>1, <1>2, DiskFacts, PlayerAssumption DEF MemoryInv
<1>5. MemoryInv'
  BY <1>2, <1>3, <1>4 DEF MemoryInv, recording
<1>6. ClockInv'
  BY <1>1, <1>2, <1>3 DEF ClockInv
<1>7. ReadyInv'
  BY <1>1, <1>2 DEF Inv, ReadyInv
<1>8. MovedInv'
  <2>1. SUFFICES ASSUME answer = "moved", InOrder, ~HolesClosed'
                 PROVE  HeardStamp(pos, 0)' <= first_ts
    BY <1>1, <1>2 DEF Inv, MovedInv
  <2>2. all' # None /\ damaged = {} /\ ~HolesClosed
    BY <1>1, <1>2, <2>1, DiskFacts, PlayerAssumption DEF HolesClosed, recording
  <2>3. HeardStamp(pos, 0) <= first_ts
    BY <2>1, <2>2 DEF Inv, MovedInv
  <2>4. pos \in 0..total /\ total \in Nat
    BY <1>1, DiskFacts DEF ClockInv
  <2>5. Heard(pos) = IF pos < total THEN StableSort(tape)[pos + 1] ELSE None
    BY <1>1, <2>1, <2>2, <2>4, HeardIs
  <2>6. all' = StableSort(tape) /\ Len(StableSort(tape)) = total
    BY <1>1, <1>2, <2>1, <2>2, ReadableIsSorted, DiskFacts
  <2>7. Heard(pos)' = Heard(pos)
    BY <1>2, <2>2, <2>5, <2>6 DEF Heard, Streaming
  <2>8. QED
    BY <2>3, <2>7 DEF HeardStamp
<1>9. QED
  BY <1>3, <1>5, <1>6, <1>7, <1>8 DEF Inv

LEMMA TickPreservesInv ==
  ASSUME Inv, Tick
  PROVE  Inv'
<1>1. RecordingInv /\ MemoryInv /\ ClockInv
  BY DEF Inv
<1>2. /\ elapsed # None /\ elapsed < MaxElapsed /\ elapsed' = elapsed + 1
      /\ UNCHANGED <<recording, rate, loop_, all, loaded, pos, first_ts, answer,
                     last>>
  BY DEF Tick
<1>3. /\ elapsed \in 0..MaxElapsed /\ first_ts \in Nat
      /\ elapsed' \in 0..MaxElapsed /\ elapsed' # None /\ elapsed <= elapsed'
  BY <1>1, <1>2, PlayerAssumption DEF ClockInv
<1>4. /\ RecordingInv' /\ MemoryInv' /\ UNCHANGED <<total, HolesClosed>>
      /\ \A q, d : HeardStamp(q, d)' = HeardStamp(q, d)
  BY <1>1, <1>2, RecordingStays, MemoryStays
<1>5. ClockInv'
  BY <1>1, <1>2, <1>3, <1>4 DEF ClockInv
<1>6. ReadyInv'
  <2>1. SUFFICES ASSUME answer = "ready", rate[1] > 0
                 PROVE  Due(last.stamp - first_ts, rate) <= elapsed'
    BY <1>2, <1>3 DEF Inv, ReadyInv
  <2>2. last \in Message /\ Due(last.stamp - first_ts, rate) <= elapsed
    BY <2>1 DEF Inv, ReadyInv
  <2>3. Due(last.stamp - first_ts, rate) \in Int
    <3>1. last.stamp - first_ts \in Int
      BY <1>3, <2>2, MessagesStamped DEF Stamped
    <3>2. rate[1] # 0
      BY <2>1
    <3>3. QED
      BY <1>1, <3>1, <3>2, DueType DEF ClockInv
  <2>4. QED
    BY <1>3, <2>2, <2>3
<1>7. MovedInv'
  BY <1>2, <1>3, <1>4 DEF Inv, MovedInv
<1>8. QED
  BY <1>4, <1>5, <1>6, <1>7 DEF Inv

LEMMA StepPreservesInv ==
  ASSUME Inv, [Next]_vars
  PROVE  Inv'
<1>1. RecordingInv /\ MemoryInv /\ ClockInv
  BY DEF Inv
<1>2. CASE Fails \/ NotYet
  BY <1>2, PollPreservesInv
<1>3. CASE \E e \in 0..MaxElapsed : Returned(e)
  BY <1>3, ReturnedPreservesInv
<1>4. CASE End
  <2>1. /\ UNCHANGED <<recording, rate, loop_, all, loaded, pos, elapsed,
                       first_ts, last>>
        /\ answer' = "end"
    BY <1>4 DEF End
  <2>2. RecordingInv' /\ MemoryInv' /\ UNCHANGED total
    BY <1>1, <2>1, RecordingStays, MemoryStays
  <2>3. ClockInv'
    BY <1>1, <2>1, <2>2 DEF ClockInv
  <2>4. QED
    BY <2>1, <2>2, <2>3 DEF Inv, ReadyInv, MovedInv
<1>5. CASE \E t \in SeekTargets : Seek(t)
  BY <1>5, SeekPreservesInv, PlayerAssumption
<1>6. CASE \E q \in Ratios : Seek(RatioTarget(q))
  BY <1>1, <1>6, RatioTargetType, SeekPreservesInv
<1>7. CASE \E r \in Rates : SetRate(r)
  <2>1. PICK r \in Rates : SetRate(r)
    BY <1>7
  <2> DEFINE default == IF first_ts = None THEN 0 ELSE first_ts
  <2>2. /\ Anchor(pos, default) /\ rate' = r
        /\ UNCHANGED <<recording, loop_, all, pos, last>>
    BY <2>1 DEF SetRate
  <2>3. pos \in 0..total /\ default \in Nat
    BY <1>1 DEF ClockInv
  <2> HIDE DEF default
  <2>4. QED
    BY <2>2, <2>3, AnchorPreservesInv
<1>8. CASE SeekToStart
  <2>1. /\ Anchor(0, 0) /\ pos' = 0
        /\ UNCHANGED <<recording, rate, loop_, all, last>>
    BY <1>8 DEF SeekToStart
  <2>2. 0 \in 0..total /\ rate' \in OpenRates \cup Rates
    BY <1>1, <2>1, DiskFacts DEF ClockInv
  <2>3. QED
    BY <2>1, <2>2, AnchorPreservesInv
<1>9. CASE Messages
  BY <1>9, MessagesPreservesInv
<1>10. CASE Tick
  BY <1>10, TickPreservesInv
<1>11. CASE UNCHANGED vars
  <2>1. UNCHANGED <<recording, rate, loop_, all, loaded, pos, elapsed, first_ts,
                    answer, last>>
    BY <1>11 DEF vars
  <2>2. /\ RecordingInv' /\ MemoryInv' /\ UNCHANGED <<total, HolesClosed>>
        /\ \A q, d : HeardStamp(q, d)' = HeardStamp(q, d)
    BY <1>1, <2>1, RecordingStays, MemoryStays
  <2>3. QED
    BY <2>1, <2>2 DEF Inv, ClockInv, ReadyInv, MovedInv
<1>12. QED
  BY <1>2, <1>3, <1>4, <1>5, <1>6, <1>7, <1>8, <1>9, <1>10, <1>11, StepKinds

\* In every state of the player: what is in memory is what the file has, the
\* place is within the recording, and the clock belongs to the place (every
\* handler of play.rs).
THEOREM Invariance == Spec => []Inv
<1>1. Inv /\ [Next]_vars => Inv'
  BY StepPreservesInv
<1>2. QED
  BY <1>1, InitInv, PTL DEF Spec

------------------------------------------------------------------------------
(* What follows from it *)

\* Every variable of the player keeps its type (all handlers of play.rs).
THEOREM PlayerTypes == Spec => []TypeOK
<1>1. Inv => TypeOK
  <2> SUFFICES ASSUME Inv
               PROVE  TypeOK
    OBVIOUS
  <2>1. RecordingInv /\ MemoryInv /\ ClockInv
    BY DEF Inv
  <2>2. (\A i \in 1..Len(tape) : tape[i] \in Message) /\ total = Len(tape)
    BY <2>1, DiskFacts
  <2>3. Len(chunk_starts) = Len(chunks)
    <3>1. CASE chunks = <<>>
      <4>1. chunk_starts = <<>>
        <5>1. chunks # IndexOf(disk) \/ disk = <<>>
          BY <2>1, <3>1, DiskFacts DEF IndexOf, RecordingInv, Tiles
        <5>2. disk = <<>> => StartsOf(disk) = <<>>
          <6>1. disk = <<>> => StartsOf(disk) \in [1..0 -> Nat]
            BY <2>1 DEF RecordingInv, Tiles
          <6>2. QED
            BY <6>1
        <5>3. QED
          BY <2>1, <5>1, <5>2 DEF RecordingInv
      <4>2. QED
        BY <3>1, <4>1
    <3>2. CASE chunks # <<>>
      BY <2>1, <3>2, IndexFacts, TileFacts DEF RecordingInv
    <3>3. QED
      BY <3>1, <3>2
  <2>4. damaged \subseteq 1..Len(chunks)
    BY <2>1 DEF RecordingInv
  <2>5. all = None \/ all \in Seq(Message)
    BY <2>1, DiskFacts DEF MemoryInv
  <2>6. loaded = None \/ loaded \in Loaded
    <3>1. ASSUME NEW c \in 1..Len(chunks)
          PROVE  [chunk |-> c, msgs |-> disk[c]] \in Loaded
      <4>1. chunks # <<>>
        OBVIOUS
      <4>2. c \in 1..Len(disk)
        BY <2>1, <4>1, IndexFacts
      <4>3. QED
        BY <2>1, <4>2, DiskFacts DEF Loaded
    <3>2. QED
      BY <2>1, <3>1 DEF MemoryInv
  <2>7. QED
    BY <2>1, <2>2, <2>3, <2>4, <2>5, <2>6 DEF TypeOK, ClockInv
<1>2. QED
  BY <1>1, Invariance, PTL

\* now() is not behind the message delivered last, up to the rounding of the
\* due time and of now() itself (due_for, now).
THEOREM NowIsNeverBehind == Spec => []NowKeepsUp
<1>1. Inv => NowKeepsUp
  <2> SUFFICES ASSUME Inv, answer = "ready", rate[1] > 0
               PROVE  2 * rate[2] * Now + rate[1] + rate[2] >= 2 * rate[2] * last.stamp
    BY DEF NowKeepsUp
  <2> DEFINE D == last.stamp - first_ts
             r == rate[1]
             d == rate[2]
             R == Rounded(elapsed * r, d)
  <2>1. /\ elapsed # None /\ elapsed \in Nat /\ first_ts \in Nat
        /\ last.stamp \in Int /\ Due(D, rate) <= elapsed
    BY PlayerAssumption, MessagesStamped DEF Inv, ReadyInv, ClockInv, Stamped
  <2>2. r \in Nat \ {0} /\ d \in Nat \ {0}
    BY PlayerAssumption DEF Inv, ClockInv
  <2>3. Now = first_ts + R
    BY <2>1, <2>2 DEF Now
  <2>4. R = (2 * (elapsed * r) + d) \div (2 * d)
    BY DEF Rounded
  <2>5. Due(D, rate) = IF D <= 0 THEN 0 ELSE (2 * D * d + r) \div (2 * r)
    BY DEF Due
  <2>6. D \in Int /\ last.stamp = first_ts + D
    BY <2>1
  <2> HIDE DEF D, r, d, R
  <2>7. R \in Nat /\ 2 * (elapsed * r) + d < (2 * d) * R + 2 * d
    <3> DEFINE x == 2 * (elapsed * r) + d
               y == 2 * d
    <3>1. x \in Int /\ x >= 0 /\ y \in Nat \ {0}
      BY <2>1, <2>2, Z3
    <3> HIDE DEF x, y
    <3>2. /\ x \div y \in Nat
          /\ x < y * (x \div y) + y
      BY <3>1, DivisionBounds
    <3>3. R = x \div y
      BY <2>4 DEF x, y
    <3>4. QED
      BY <3>2, <3>3 DEF x, y
  <2>8. D > 0 => 2 * D * d + r < (2 * r) * elapsed + 2 * r
    <3> DEFINE x == 2 * D * d + r
               y == 2 * r
    <3>1. SUFFICES ASSUME D > 0
                   PROVE  2 * D * d + r < (2 * r) * elapsed + 2 * r
      OBVIOUS
    <3>2. x \in Int /\ x >= 0 /\ y \in Nat \ {0}
      BY <2>2, <2>6, <3>1, Z3
    <3>3. Due(D, rate) = x \div y
      BY <2>5, <2>6, <3>1
    <3> HIDE DEF x, y
    <3>4. x \div y \in Nat /\ x < y * (x \div y) + y /\ x \div y <= elapsed
      BY <2>1, <3>2, <3>3, DivisionBounds
    <3>5. y * (x \div y) <= y * elapsed
      <4>1. ASSUME NEW a \in Nat, NEW b \in Nat, a <= b, NEW e \in Nat
            PROVE  e * a <= e * b
        BY <4>1, Z3
      <4>2. QED
        BY <2>1, <3>2, <3>4, <4>1
    <3>6. y * (x \div y) \in Int /\ y * elapsed \in Int
      BY <2>1, <3>2, <3>4
    <3>7. x < y * elapsed + y
      BY <3>2, <3>4, <3>5, <3>6
    <3>8. QED
      BY <3>7 DEF x, y
  <2>9. 2 * d * (first_ts + R) + r + d >= 2 * d * (first_ts + D)
    <3>1. 2 * d * R + r + d >= 2 * d * D
      <4>1. CASE D <= 0
        BY <2>2, <2>6, <2>7, <4>1, Z3
      <4>2. CASE D > 0
        BY <2>1, <2>2, <2>6, <2>7, <2>8, <4>2, Z3
      <4>3. QED
        BY <2>6, <4>1, <4>2
    <3>2. QED
      BY <2>1, <2>2, <2>6, <2>7, <3>1, Z3
  <2>10. QED
    BY <2>3, <2>6, <2>9 DEF r, d
<1>2. QED
  BY <1>1, Invariance, PTL

\* After a seek or a change of the rate, the message at the head is due
\* (seek, seek_ratio, seek_to_start, set_rate).
THEOREM NoWaitAfterMove == ASSUME InOrder PROVE Spec => []MovesAreImmediate
<1>1. Inv => MovesAreImmediate
  <2> SUFFICES ASSUME Inv, answer = "moved", ~AtEnd, ~Wraps, ~HolesClosed
               PROVE  DueIn <= elapsed
    BY DEF MovesAreImmediate
  <2>1. RecordingInv /\ MemoryInv /\ ClockInv
    BY DEF Inv
  <2>2. /\ elapsed # None /\ elapsed \in Nat /\ first_ts \in Nat
        /\ HeardStamp(pos, 0) <= first_ts
    BY PlayerAssumption DEF Inv, MovedInv, ClockInv
  <2>3. Head0 = pos /\ FirstTs = first_ts /\ pos \in 0..total
    BY <2>1, <2>2 DEF Head0, FirstTs, Anchors, ClockInv
  <2>4. StampAt(pos, 0) = HeardStamp(pos, 0) /\ StampAt(pos, 0) \in Nat
    BY <2>1, <2>3, StampAtIs
  <2>5. StampAt(Head0, 0) - FirstTs <= 0
    BY <2>2, <2>3, <2>4
  <2>6. DueIn = 0
    BY <2>5 DEF DueIn, Due
  <2>7. QED
    BY <2>2, <2>6
<1>2. QED
  BY <1>1, Invariance, PTL

------------------------------------------------------------------------------
(* The time line *)

\* In a sorted sequence, a place between an earlier message and one that is not
\* earlier divides the earlier ones from the others.
Divides(s, x, t) == \A i \in 1..Len(s) : s[i].stamp < t <=> i <= x

LEMMA BoundaryDivides ==
  ASSUME NEW S, Stamped(S), NEW s \in Seq(S), SortedByStamp(s), NEW t \in Int,
         NEW x \in 0..Len(s), x > 0 => s[x].stamp < t,
         x < Len(s) => ~(s[x + 1].stamp < t)
  PROVE  Divides(s, x, t)
<1>1. SUFFICES ASSUME NEW i \in 1..Len(s)
               PROVE  s[i].stamp < t <=> i <= x
  BY DEF Divides
<1>2. \A j \in 1..Len(s) : s[j].stamp \in Int
  BY DEF Stamped
<1>3. CASE i <= x
  <2>1. x \in 1..Len(s)
    BY <1>3
  <2>2. s[i].stamp <= s[x].stamp
    BY <1>3, <2>1 DEF SortedByStamp
  <2>3. QED
    BY <1>2, <1>3, <2>1, <2>2
<1>4. CASE ~(i <= x)
  <2>1. x + 1 \in 1..Len(s) /\ x + 1 <= i
    BY <1>4
  <2>2. s[x + 1].stamp <= s[i].stamp
    BY <2>1 DEF SortedByStamp
  <2>3. QED
    BY <1>2, <1>4, <2>1, <2>2
<1>5. QED
  BY <1>3, <1>4

\* The sorted recording, seen from one of its chunks.
LEMMA SortedFacts ==
  ASSUME RecordingInv, InOrder, chunks # <<>>, NEW c \in 1..Len(chunks)
  PROVE  /\ chunk_starts[c] \in Nat /\ Len(disk[c]) \in Nat /\ Len(disk[c]) > 0
         /\ chunk_starts[c] + Len(disk[c]) <= total
         /\ disk[c] \in Seq(Message) /\ SortedByStamp(disk[c])
         /\ \A i \in 1..Len(disk[c]) :
              StableSort(tape)[chunk_starts[c] + i] = disk[c][i]
         /\ c = 1 => chunk_starts[c] = 0
         /\ c > 1 => chunk_starts[c] = chunk_starts[c - 1] + Len(disk[c - 1])
         /\ c = Len(chunks) => chunk_starts[c] + Len(disk[c]) = total
<1>1. /\ tape \in Seq(Message) /\ total = Len(tape)
      /\ Tiles(tape, disk, chunk_starts) /\ ChunksInOrder(IndexOf(disk))
      /\ Len(chunks) = Len(disk) /\ Len(disk) \in Nat /\ Len(disk) > 0
  BY IndexFacts DEF RecordingInv
<1>2. /\ chunk_starts[c] \in Nat /\ Len(disk[c]) \in Nat /\ Len(disk[c]) > 0
      /\ chunk_starts[c] + Len(disk[c]) <= total
      /\ disk[c] \in Seq(Message)
      /\ chunk_starts[1] = 0
      /\ chunk_starts[Len(disk)] + Len(disk[Len(disk)]) = total
      /\ \A d \in 1..Len(disk) - 1 :
           chunk_starts[d + 1] = chunk_starts[d] + Len(disk[d])
  BY <1>1, TileFacts
<1>3. StableSort(tape) = Joined(total, disk, chunk_starts)
  BY <1>1, JoinedIsSorted
<1>4. \A i \in 1..Len(disk[c]) : StableSort(tape)[chunk_starts[c] + i] = disk[c][i]
  BY <1>1, <1>3, JoinedOf
<1>5. SortedByStamp(disk[c])
  <2>1. StableSort(disk[c]) = disk[c]
    BY <1>1, PieceSorted
  <2>2. SortedByStamp(StableSort(disk[c]))
    BY <1>2, MessagesStamped, StableSortSorts
  <2>3. QED
    BY <2>1, <2>2
<1>6. c > 1 => chunk_starts[c] = chunk_starts[c - 1] + Len(disk[c - 1])
  <2>1. c > 1 => c - 1 \in 1..Len(disk) - 1 /\ c - 1 + 1 = c
    BY <1>1
  <2>2. QED
    BY <1>2, <2>1
<1>7. QED
  BY <1>1, <1>2, <1>4, <1>5, <1>6

\* A seek finds the first message that is not earlier than the target, or the
\* chunk it is in cannot be read.
LEMMA OrdinalsAreEarlier ==
  ASSUME RecordingInv, MemoryInv, InOrder, ~HolesClosed,
         NEW t \in Nat, NEW ord \in Ordinals(t)
  PROVE  /\ ord \in 0..total
         /\ \/ Divides(StableSort(tape), ord, t)
            \/ damaged # {} /\ ord = total
<1> DEFINE K == StableSort(tape)
<1>1. /\ tape \in Seq(Message) /\ total \in Nat
      /\ K \in Seq(Message) /\ Len(K) = total
  BY DiskFacts
<1>2. SortedByStamp(K) /\ Stamped(Message)
  BY <1>1, MessagesStamped, StableSortSorts
<1> HIDE DEF K
<1>3. CASE ~Streaming
  <2>1. all = K
    BY <1>3, MaterialisedIs DEF K
  <2>2. ord \in PartitionPoints(K, LAMBDA m : m.stamp < t)
    BY <1>3, <2>1 DEF Ordinals
  <2>3. /\ ord \in 0..Len(K) /\ (ord > 0 => K[ord].stamp < t)
        /\ ord < Len(K) => ~(K[ord + 1].stamp < t)
    BY <2>2 DEF PartitionPoints
  <2>4. Divides(K, ord, t)
    BY <1>1, <1>2, <2>3, BoundaryDivides
  <2>5. QED
    BY <1>1, <2>3, <2>4 DEF K
<1>4. CASE Streaming
  <2> DEFINE k == Len(chunks)
  <2>1. /\ chunks # <<>> /\ k \in Nat /\ k > 0
        /\ \A c \in 1..k : chunks[c].end_stamp = disk[c][Len(disk[c])].stamp
    BY <1>4, IndexFacts DEF Streaming
  <2>2. CASE chunks[k].end_stamp < t
    <3>1. ord = total
      BY <1>4, <2>1, <2>2 DEF Ordinals
    <3>2. /\ chunk_starts[k] \in Nat /\ Len(disk[k]) \in Nat /\ Len(disk[k]) > 0
          /\ chunk_starts[k] + Len(disk[k]) = total
          /\ K[chunk_starts[k] + Len(disk[k])] = disk[k][Len(disk[k])]
      <4>1. k \in 1..Len(chunks) /\ chunks # <<>>
        BY <2>1
      <4>2. /\ chunk_starts[k] \in Nat /\ Len(disk[k]) \in Nat
            /\ Len(disk[k]) > 0 /\ chunk_starts[k] + Len(disk[k]) = total
            /\ \A i \in 1..Len(disk[k]) : K[chunk_starts[k] + i] = disk[k][i]
        BY <4>1, SortedFacts DEF K
      <4>3. Len(disk[k]) \in 1..Len(disk[k])
        BY <4>2
      <4>4. QED
        BY <4>2, <4>3
    <3>3. K[total].stamp < t
      BY <2>1, <2>2, <3>2
    <3>4. Divides(K, total, t)
      <4>1. total \in 0..Len(K) /\ ~(total < Len(K)) /\ t \in Int
        BY <1>1
      <4>2. QED
        BY <1>1, <1>2, <3>3, <4>1, BoundaryDivides, SMTT(30)
    <3>5. QED
      BY <1>1, <3>1, <3>4 DEF K
  <2>3. CASE ~(chunks[k].end_stamp < t)
    <3>1. PICK n \in 0..k - 1 :
            /\ n > 0 => chunks[n].end_stamp < t
            /\ ~(chunks[n + 1].end_stamp < t)
            /\ \/ n + 1 \in damaged /\ ord = total
               \/ \E i \in PartitionPoints(disk[n + 1], LAMBDA m : m.stamp < t) :
                    ord = chunk_starts[n + 1] + i
      BY <1>4, <2>3, StreamedOrdinals, ZenonT(30)
    <3>2. CASE n + 1 \in damaged /\ ord = total
      BY <1>1, <3>2
    <3>3. CASE ~(n + 1 \in damaged /\ ord = total)
      <4> DEFINE c == n + 1
      <4>1. PICK i \in PartitionPoints(disk[c], LAMBDA m : m.stamp < t) :
                   ord = chunk_starts[c] + i
        BY <3>1, <3>3
      <4>2. /\ i \in 0..Len(disk[c])
            /\ i > 0 => disk[c][i].stamp < t
            /\ i < Len(disk[c]) => ~(disk[c][i + 1].stamp < t)
        BY <4>1 DEF PartitionPoints
      <4>3. c \in 1..k /\ (c > 1 => c - 1 \in 1..k) /\ n = c - 1
        BY <2>1
      <4> HIDE DEF c
      <4>4. /\ chunk_starts[c] \in Nat /\ Len(disk[c]) \in Nat /\ Len(disk[c]) > 0
            /\ chunk_starts[c] + Len(disk[c]) <= total
            /\ \A j \in 1..Len(disk[c]) : K[chunk_starts[c] + j] = disk[c][j]
            /\ c = 1 => chunk_starts[c] = 0
            /\ c > 1 => chunk_starts[c] = chunk_starts[c - 1] + Len(disk[c - 1])
        BY <2>1, <4>3, SortedFacts DEF K
      <4>5. Len(disk[c]) \in 1..Len(disk[c])
        BY <4>4
      <4>6. i < Len(disk[c])
        <5>1. ~(disk[c][Len(disk[c])].stamp < t)
          BY <2>1, <3>1, <4>3 DEF c
        <5>2. QED
          BY <4>2, <4>4, <5>1
      <4>7. ord \in 0..total /\ ord < total
        BY <1>1, <4>1, <4>2, <4>4, <4>6, SMTT(30)
      <4>8. ~(K[ord + 1].stamp < t)
        <5>1. i + 1 \in 1..Len(disk[c]) /\ chunk_starts[c] + (i + 1) = ord + 1
          BY <4>1, <4>2, <4>4, <4>6
        <5>2. K[chunk_starts[c] + (i + 1)] = disk[c][i + 1]
          BY <4>4, <5>1
        <5>3. QED
          BY <4>2, <4>6, <5>1, <5>2
      <4>9. ord > 0 => K[ord].stamp < t
        <5>1. CASE i > 0
          <6>1. i \in 1..Len(disk[c])
            BY <4>2, <5>1
          <6>2. QED
            BY <4>1, <4>2, <4>4, <5>1, <6>1
        <5>2. CASE i = 0
          <6>1. ord = chunk_starts[c]
            BY <4>1, <4>4, <5>2
          <6>2. CASE c > 1
            <7>1. /\ chunk_starts[c - 1] \in Nat /\ Len(disk[c - 1]) \in Nat
                  /\ Len(disk[c - 1]) > 0
                  /\ \A j \in 1..Len(disk[c - 1]) :
                       K[chunk_starts[c - 1] + j] = disk[c - 1][j]
              BY <2>1, <4>3, <6>2, SortedFacts DEF K
            <7>2. Len(disk[c - 1]) \in 1..Len(disk[c - 1])
              BY <7>1
            <7>3. K[ord] = disk[c - 1][Len(disk[c - 1])]
              BY <4>4, <6>1, <6>2, <7>1, <7>2
            <7>4. chunks[c - 1].end_stamp < t
              BY <3>1, <4>3, <6>2
            <7>5. QED
              BY <2>1, <4>3, <6>2, <7>3, <7>4
          <6>3. CASE ~(c > 1)
            <7>1. c = 1
              BY <4>3, <6>3
            <7>2. QED
              BY <4>4, <6>1, <7>1
          <6>4. QED
            BY <6>2, <6>3
        <5>3. QED
          BY <4>2, <5>1, <5>2
      <4>10. Divides(K, ord, t)
        BY <1>1, <1>2, <4>7, <4>8, <4>9, BoundaryDivides
      <4>11. QED
        BY <4>7, <4>10 DEF K
    <3>4. QED
      BY <3>2, <3>3
  <2>4. QED
    BY <2>2, <2>3
<1>5. QED
  BY <1>3, <1>4

\* A ratio is the same time in both representations.
LEMMA RatioIsTime ==
  ASSUME RecordingInv, MemoryInv, InOrder, ~HolesClosed, NEW q \in Ratios
  PROVE  RatioTarget(q) = Timeline!TimeOf(q)
<1> DEFINE K == StableSort(tape)
<1>1. /\ tape \in Seq(Message) /\ total \in Nat
      /\ K \in Seq(Message) /\ Len(K) = total
  BY DiskFacts
<1>2. /\ q[1] \in Int /\ q[2] \in Nat \ {0}
      /\ \A m \in Message : m.stamp \in Int
  BY PlayerAssumption, MessagesStamped DEF Stamped
<1>3. SortedByStamp(K)
  BY <1>1, MessagesStamped, StableSortSorts
<1>4. Timeline!TimeOf(q) =
        IF K = <<>> THEN 0
        ELSE K[1].stamp + ((K[Len(K)].stamp - K[1].stamp) * q[1]) \div q[2]
  BY DEF Timeline!TimeOf
<1> HIDE DEF K
<1>5. CASE K = <<>>
  <2>1. total = 0
    BY <1>1, <1>5
  <2>2. chunks = <<>>
    BY <2>1, IndexFacts
  <2>3. ~Streaming /\ all = <<>>
    BY <1>5, <2>2 DEF Streaming, MemoryInv, K
  <2>4. FirstStamp = 0 /\ LastStamp = 0
    BY <2>3 DEF FirstStamp, LastStamp
  <2>5. 0 * q[1] = 0 /\ 0 \div q[2] = 0
    <3>1. 0 * q[1] = 0
      BY <1>2, Z3
    <3>2. \A b \in Nat \ {0} : 0 \div b = 0
      BY Z3
    <3>3. QED
      BY <1>2, <3>1, <3>2
  <2>6. RatioTarget(q) = 0
    BY <2>4, <2>5 DEF RatioTarget
  <2>7. QED
    BY <1>4, <1>5, <2>6
<1>6. CASE K # <<>>
  <2>1. 1 \in 1..Len(K) /\ Len(K) \in 1..Len(K)
    BY <1>1, <1>6
  <2>2. FirstStamp = K[1].stamp /\ LastStamp = K[Len(K)].stamp
    <3>1. CASE Streaming
      <4> DEFINE k == Len(chunks)
      <4>1. /\ chunks # <<>> /\ 1 \in 1..Len(chunks) /\ k \in 1..Len(chunks)
            /\ chunks[1].start_stamp = disk[1][1].stamp
            /\ chunks[k].end_stamp = disk[k][Len(disk[k])].stamp
        BY <3>1, IndexFacts DEF Streaming
      <4>2. /\ chunk_starts[1] = 0 /\ Len(disk[1]) \in Nat /\ Len(disk[1]) > 0
            /\ \A i \in 1..Len(disk[1]) : K[chunk_starts[1] + i] = disk[1][i]
        BY <4>1, SortedFacts DEF K
      <4>3. /\ chunk_starts[k] \in Nat
            /\ Len(disk[k]) \in Nat /\ Len(disk[k]) > 0
            /\ chunk_starts[k] + Len(disk[k]) = total
            /\ \A i \in 1..Len(disk[k]) : K[chunk_starts[k] + i] = disk[k][i]
        BY <4>1, SortedFacts DEF K
      <4> HIDE DEF k
      <4>4. K[1] = disk[1][1]
        <5>1. 1 \in 1..Len(disk[1]) /\ chunk_starts[1] + 1 = 1
          BY <4>2
        <5>2. K[chunk_starts[1] + 1] = disk[1][1]
          BY <4>2, <5>1
        <5>3. QED
          BY <5>1, <5>2
      <4>5. K[total] = disk[k][Len(disk[k])]
        <5>1. Len(disk[k]) \in 1..Len(disk[k])
          BY <4>3
        <5>2. QED
          BY <4>3, <5>1
      <4>6. QED
        BY <1>1, <3>1, <4>1, <4>4, <4>5 DEF FirstStamp, LastStamp, k
    <3>2. CASE ~Streaming
      <4>1. all = K
        BY <3>2, MaterialisedIs DEF K
      <4>2. QED
        BY <1>6, <3>2, <4>1 DEF FirstStamp, LastStamp
    <3>3. QED
      BY <3>1, <3>2
  <2>3. K[1].stamp <= K[Len(K)].stamp
    BY <1>3, <2>1 DEF SortedByStamp
  <2>4. K[1].stamp \in Int /\ K[Len(K)].stamp \in Int
    BY <1>1, <1>2, <2>1
  <2>5. (IF LastStamp < FirstStamp THEN 0 ELSE LastStamp - FirstStamp)
          = K[Len(K)].stamp - K[1].stamp
    BY <2>2, <2>3, <2>4
  <2>6. QED
    BY <1>4, <1>6, <2>2, <2>5 DEF RatioTarget
<1>7. QED
  BY <1>5, <1>6

LEMMA SeekImplements ==
  ASSUME Inv, InOrder, ~HolesClosed, NEW t \in Nat, Seek(t)
  PROVE  Timeline!SeekTo(t)
<1>1. RecordingInv /\ MemoryInv
  BY DEF Inv
<1>2. Len(StableSort(tape)) = total /\ total \in Nat
  BY <1>1, DiskFacts
<1>3. PICK ord \in Ordinals(t) :
        /\ pos' = IF ord < total THEN ord ELSE total
        /\ UNCHANGED last
  BY DEF Seek
<1>4. /\ ord \in 0..total
      /\ \/ Divides(StableSort(tape), ord, t)
         \/ damaged # {} /\ ord = total
  BY <1>1, OrdinalsAreEarlier
<1>5. pos' = ord
  BY <1>2, <1>3, <1>4
<1>6. QED
  BY <1>2, <1>3, <1>4, <1>5 DEF Timeline!SeekTo, Timeline!Earlier, Divides

LEMMA RatioImplements ==
  ASSUME Inv, InOrder, ~HolesClosed, NEW q \in Ratios, SeekRatio(q)
  PROVE  Timeline!SeekRatio(q)
<1>1. RecordingInv /\ MemoryInv
  BY DEF Inv
<1>2. RatioTarget(q) \in Nat /\ RatioTarget(q) = Timeline!TimeOf(q)
  BY <1>1, RatioTargetType, RatioIsTime
<1>3. Timeline!SeekTo(RatioTarget(q))
  BY <1>2, SeekImplements DEF SeekRatio
<1>4. QED
  BY <1>2, <1>3 DEF Timeline!SeekRatio

\* A message that is returned is the one at the head of the time line.
LEMMA ReturnedImplements ==
  ASSUME Inv, InOrder, ~HolesClosed, NEW e, Returned(e)
  PROVE  Timeline!Deliver
<1>1. RecordingInv /\ MemoryInv /\ ClockInv
  BY DEF Inv
<1>2. Len(StableSort(tape)) = total /\ total \in Nat
  BY <1>1, DiskFacts
<1>3. /\ ~AtEnd /\ MessageAt(Head0) # None
      /\ pos' = Head0 + 1 /\ last' = MessageAt(Head0)
  BY DEF Returned
<1>4. /\ Head0 \in 0..total /\ Head0 < total
      /\ Head0 = IF loop_ /\ pos = total THEN 0 ELSE pos
  BY <1>1, <1>3, HeadFacts
<1>5. MessageAt(Head0) = Heard(Head0)
  BY <1>1, <1>4, MessageAtIs
<1>6. last' = StableSort(tape)[Head0 + 1]
  BY <1>1, <1>3, <1>4, <1>5, HeardIs
<1>7. QED
  BY <1>2, <1>3, <1>4, <1>6 DEF Timeline!Deliver, Timeline!Wrapped

\* A call that finds no message to deliver at most goes round.
LEMMA WaitImplements ==
  ASSUME Inv, Fails \/ NotYet
  PROVE  Timeline!Rewind \/ Timeline!Stay
<1>1. RecordingInv /\ MemoryInv /\ ClockInv
  BY DEF Inv
<1>2. Len(StableSort(tape)) = total
  BY <1>1, DiskFacts
<1>3. ~AtEnd /\ pos' = Head0 /\ UNCHANGED last
  BY DEF Fails, NotYet
<1>4. Head0 = IF loop_ /\ pos = total THEN 0 ELSE pos
  BY <1>1, <1>3, HeadFacts
<1>5. QED
  BY <1>2, <1>3, <1>4
     DEF Timeline!Rewind, Timeline!Stay, Timeline!Wrapped

\* It finds none before the end only where one cannot be read.
LEMMA FailsInHole ==
  ASSUME Inv, InOrder, ~HolesClosed, Fails
  PROVE  damaged # {}
<1>1. RecordingInv /\ MemoryInv /\ ClockInv /\ ~AtEnd
  BY DEF Inv, Fails
<1>2. Head0 \in 0..total /\ Head0 < total
  BY <1>1, HeadFacts
<1>3. Heard(Head0) = None
  BY <1>1, <1>2, MessageAtIs DEF Fails
<1>4. StableSort(tape)[Head0 + 1] # None
  <2>1. /\ StableSort(tape) \in Seq(Message) /\ Len(StableSort(tape)) = total
        /\ total \in Nat
    BY <1>1, DiskFacts
  <2>2. StableSort(tape)[Head0 + 1] \in Message
    BY <1>2, <2>1
  <2>3. QED
    BY <2>2, PlayerAssumption
<1>5. QED
  BY <1>1, <1>2, <1>3, <1>4, HeardIs

LEMMA EndImplements ==
  ASSUME Inv, End
  PROVE  Timeline!Ended /\ Timeline!Stay
<1>1. /\ tape \in Seq(Message) /\ StableSort(tape) \in Seq(Message)
      /\ Len(StableSort(tape)) = total /\ total \in Nat /\ pos \in 0..total
  BY DiskFacts DEF Inv, ClockInv
<1>2. total = 0 \/ (pos >= total /\ ~loop_)
  BY DEF End, AtEnd
<1>3. UNCHANGED <<pos, last>>
  BY DEF End
<1>4. QED
  BY <1>1, <1>2, <1>3 DEF Timeline!Ended, Timeline!Stay

\* What each call does to the place and to the message delivered.
LEMMA CallsImplement ==
  ASSUME Inv, InOrder, ~HolesClosed
  PROVE  CallsAreObeyed
<1>1. ASSUME NEW e, Returned(e) PROVE Timeline!Deliver
  BY <1>1, ReturnedImplements
<1>2. End => Timeline!Ended /\ Timeline!Stay
  BY EndImplements
<1>3. Fails => damaged # {} /\ (Timeline!Rewind \/ Timeline!Stay)
  BY FailsInHole, WaitImplements
<1>4. NotYet => Timeline!Rewind \/ Timeline!Stay
  BY WaitImplements
<1>5. NextMessage => Timeline!Await
  BY <1>1, <1>2, <1>3 DEF NextMessage, Sleeps, Timeline!Await
<1>6. TryNext => Timeline!Ask
  BY <1>1, <1>2, <1>3, <1>4 DEF TryNext, Timeline!Ask
<1>7. ASSUME NEW t \in SeekTargets, Seek(t) PROVE Timeline!SeekTo(t)
  BY <1>7, PlayerAssumption, SeekImplements
<1>8. ASSUME NEW q \in Ratios, SeekRatio(q) PROVE Timeline!SeekRatio(q)
  BY <1>8, RatioImplements
<1>9. SeekToStart => Timeline!SeekToStart
  BY DEF SeekToStart, Timeline!SeekToStart
<1>10. (\E r \in Rates : SetRate(r)) \/ Messages \/ Tick => Timeline!Stay
  BY DEF SetRate, Messages, Tick, Timeline!Stay
<1>11. QED
  BY <1>5, <1>6, <1>7, <1>8, <1>9, <1>10 DEF CallsAreObeyed

\* A player whose chunks are in order plays the time line of the recording,
\* streamed or materialised, whatever chunk is in memory, and each of its calls
\* does there what it was asked for: a seek goes to its own target, a message
\* asked for is delivered unless it cannot be read; unless messages() has left
\* out chunks that cannot be read (every handler of play.rs).
THEOREM PlayerFollowsTimeline == ASSUME InOrder PROVE Spec => FollowsTimeline
<1>1. Init => Timeline!Init
  BY DEF Init, Timeline!Init
<1>2. Inv /\ [Next]_vars => [CallsAreObeyed \/ HolesClosed]_vars
  BY CallsImplement
<1>3. Inv /\ [Next]_vars =>
        [Timeline!Next \/ HolesClosed]_<<tape, damaged, loop_, pos, last>>
  <2> SUFFICES ASSUME Inv, Next, ~HolesClosed,
                      ~UNCHANGED <<tape, damaged, loop_, pos, last>>
               PROVE  Timeline!Next
    BY DEF vars, recording
  <2>1. CallsAreObeyed
    BY CallsImplement
  <2>2. UNCHANGED <<recording, loop_>>
    BY DEF Next, Play, NextMessage, TryNext, End, Fails, Sleeps, Returned,
           NotYet, Tick, Seek, SeekRatio, SetRate, SeekToStart, Messages
  <2>3. UNCHANGED <<StableSort(tape), damaged # {}, loop_>>
    BY <2>2 DEF recording
  <2>4. ~Timeline!Stay
    BY <2>2 DEF Timeline!Stay, recording
  <2>5. CASE NextMessage \/ TryNext
    <3>1. Timeline!Ask
      BY <2>1, <2>5 DEF CallsAreObeyed, Timeline!Await, Timeline!Ask
    <3>2. QED
      BY <2>3, <3>1 DEF Timeline!Next
  <2>6. ASSUME NEW t \in SeekTargets, Seek(t) PROVE Timeline!Next
    BY <2>1, <2>3, <2>6 DEF CallsAreObeyed, Timeline!Next
  <2>7. ASSUME NEW q \in Ratios, SeekRatio(q) PROVE Timeline!Next
    BY <2>1, <2>3, <2>7 DEF CallsAreObeyed, Timeline!Next
  <2>8. CASE SeekToStart
    BY <2>1, <2>3, <2>8 DEF CallsAreObeyed, Timeline!Next
  <2>9. CASE (\E r \in Rates : SetRate(r)) \/ Messages \/ Tick
    BY <2>1, <2>4, <2>9 DEF CallsAreObeyed
  <2>10. QED
    BY <2>5, <2>6, <2>7, <2>8, <2>9 DEF Next, Play
<1>4. QED
  BY <1>1, <1>2, <1>3, Invariance, PTL DEF Spec, FollowsTimeline

------------------------------------------------------------------------------
(* What is played *)

\* The chunks before the first that cannot be read.
LEMMA PlayedCut ==
  ASSUME RecordingInv, chunks # <<>>
  PROVE  \E m \in 0..Len(disk) :
           /\ Played = SubSeq(Joined(total, disk, chunk_starts), 1,
                              EndAt(chunk_starts, m))
           /\ \A c \in 1..m : c \notin damaged
           /\ m < Len(disk) => m + 1 \in damaged
<1> DEFINE n == Len(disk)
           T == {c \in 1..n : \A b \in 1..c : b \notin damaged}
           m == Cardinality(T)
           Step(f) == [c \in 0..n |-> IF c = 0 THEN <<>> ELSE f[c - 1] \o disk[c]]
           upto == CHOOSE f : f = Step(f)
<1>1. /\ tape \in Seq(Message) /\ Tiles(tape, disk, chunk_starts)
      /\ total = Len(tape) /\ n \in Nat
      /\ \A c \in 1..n : disk[c] \in Seq(Message)
  BY IndexFacts, DiskFacts
<1>2. m \in 0..n /\ T = 1..m
  <2>1. \A i \in T : \A j \in 1..n : j <= i => j \in T
    BY <1>1
  <2>2. T \in SUBSET (1..n)
    OBVIOUS
  <2> HIDE DEF T, n
  <2>3. QED
    BY <1>1, <2>1, <2>2, PrefixSet
<1>3. PICK f : Upto(f, {})
  BY <1>1, UptoExists
<1>4. f = Step(f)
  <2>1. f = [c \in 0..n |-> f[c]]
    BY <1>3 DEF Upto
  <2>2. QED
    BY <1>3, <2>1 DEF Upto, UptoStep
<1>5. upto = Step(upto)
  BY <1>4
<1>6. Played = upto[m]
  BY DEF Played
<1> HIDE DEF upto, m
<1>7. \A c \in 0..Len(disk) : upto[c] = UptoStep(upto, c, {})
  BY <1>5 DEF UptoStep
<1>8. \A c \in 0..Len(disk) : upto[c] = f[c]
  BY <1>1, <1>3, <1>7, UptoIs
<1>9. Played = SubSeq(Joined(total, disk, chunk_starts), 1,
                      EndAt(chunk_starts, m))
  BY <1>1, <1>2, <1>3, <1>6, <1>8, UptoIsPrefix
<1>10. \A c \in 1..m : c \notin damaged
  <2>1. SUFFICES ASSUME NEW c \in 1..m
                 PROVE  c \notin damaged
    OBVIOUS
  <2>2. c \in T
    BY <1>2
  <2>3. c \in 1..c
    BY <1>2
  <2>4. QED
    BY <2>2, <2>3
<1>11. ASSUME m < n
       PROVE  m + 1 \in damaged
  <2>1. m + 1 \in 1..n /\ m + 1 \notin T
    <3>1. m + 1 \in 1..n /\ m + 1 \notin 1..m
      BY <1>1, <1>2, <1>11
    <3> HIDE DEF T
    <3>2. QED
      BY <1>2, <3>1
  <2>2. PICK b \in 1..m + 1 : b \in damaged
    BY <2>1
  <2>3. b \notin 1..m
    BY <1>10, <2>2
  <2>4. b = m + 1
    BY <1>2, <2>3
  <2>5. QED
    BY <2>2, <2>4
<1>12. QED
  BY <1>2, <1>9, <1>10, <1>11

\* Up to the end of what is played every chunk can be read, and there is one
\* that cannot behind it, or nothing.
LEMMA PlayedIs ==
  ASSUME RecordingInv
  PROVE  /\ Played \in Seq(Message) /\ Len(Played) \in 0..total
         /\ damaged = {} <=> Len(Played) = total
         /\ chunks = <<>> => Played = StableSort(tape) /\ Len(Played) = total
         /\ chunks # <<>> =>
              /\ \A p \in 0..Len(Played) - 1 :
                   /\ Containing(p) \notin damaged
                   /\ Played[p + 1] = Joined(total, disk, chunk_starts)[p + 1]
              /\ Len(Played) < total => Containing(Len(Played)) \in damaged
<1>1. CASE chunks = <<>>
  <2>1. Played = StableSort(tape)
    BY <1>1 DEF Played
  <2>2. damaged = {}
    BY <1>1 DEF RecordingInv
  <2>3. QED
    BY <1>1, <2>1, <2>2, DiskFacts
<1>2. CASE chunks # <<>>
  <2> DEFINE joined == Joined(total, disk, chunk_starts)
             n == Len(disk)
  <2>1. /\ tape \in Seq(Message) /\ Tiles(tape, disk, chunk_starts)
        /\ total = Len(tape) /\ n \in Nat /\ total \in Nat
        /\ damaged \subseteq 1..n /\ Len(chunks) = n
    BY <1>2, IndexFacts, DiskFacts DEF RecordingInv
  <2>2. joined \in Seq(Message) /\ Len(joined) = total
    BY <2>1, JoinedType
  <2>3. PICK m \in 0..n :
               /\ Played = SubSeq(joined, 1, EndAt(chunk_starts, m))
               /\ \A c \in 1..m : c \notin damaged
               /\ m < n => m + 1 \in damaged
    BY <1>2, PlayedCut
  <2> DEFINE e == EndAt(chunk_starts, m)
  <2>4. e \in 0..total /\ (m = n => e = total)
    <3>1. PICK f : Upto(f, {})
      BY DiskFacts, UptoExists
    <3>2. QED
      BY <2>1, <3>1, UptoIsPrefix
  <2>5. /\ \A c \in 1..n : chunk_starts[c] \in Nat /\ Len(disk[c]) \in Nat \ {0}
        /\ n > 0 => chunk_starts[1] = 0
        /\ \A c \in 1..n - 1 :
             chunk_starts[c + 1] = chunk_starts[c] + Len(disk[c])
    BY <2>1, TileFacts
  <2>6. m > 0 => e = chunk_starts[m] + Len(disk[m])
    BY DEF EndAt
  <2>7. m = 0 => e = 0
    BY DEF EndAt
  <2> HIDE DEF joined, e, n
  <2>8. /\ Played \in Seq(Message) /\ Len(Played) = e
        /\ \A p \in 0..e - 1 : Played[p + 1] = joined[p + 1]
    BY <2>2, <2>3, <2>4 DEF e
  <2>9. damaged = {} => e = total
    BY <2>1, <2>3, <2>4
  <2>10. ASSUME NEW p \in 0..e - 1
         PROVE  Containing(p) \notin damaged
    <3> DEFINE c == Containing(p)
    <3>1. c \in 1..n /\ chunk_starts[c] <= p
      <4>1. p \in 0..total
        BY <2>1, <2>4
      <4>2. QED
        BY <1>2, <2>1, <4>1, ContainingIs
    <3> HIDE DEF c
    <3>2. m > 0
      BY <2>4, <2>7
    <3>3. ~(m < c)
      <4>1. SUFFICES ASSUME m < c
                     PROVE  FALSE
        OBVIOUS
      <4>2. m \in 1..n
        BY <2>3, <3>2
      <4>3. chunk_starts[m] + Len(disk[m]) <= chunk_starts[c]
        BY <2>1, <3>1, <4>1, <4>2, TilesApart DEF n
      <4>4. QED
        BY <2>4, <2>5, <2>6, <3>1, <3>2, <4>2, <4>3
    <3>4. c \in 1..m
      BY <2>1, <3>1, <3>3
    <3>5. QED
      BY <2>3, <3>4 DEF c
  <2>11. ASSUME m < n
         PROVE  e < total /\ chunk_starts[m + 1] = e /\ m + 1 \in 1..n
    <3>1. m + 1 \in 1..n
      BY <2>1, <2>3, <2>11
    <3>2. chunk_starts[m + 1] = e
      <4>1. CASE m = 0
        <5>1. m + 1 = 1 /\ n > 0
          BY <2>1, <3>1, <4>1
        <5>2. QED
          BY <2>5, <2>7, <4>1, <5>1
      <4>2. CASE m # 0
        <5>1. m \in 1..n - 1 /\ m > 0
          BY <2>1, <3>1, <4>2
        <5>2. QED
          BY <2>5, <2>6, <5>1
      <4>3. QED
        BY <4>1, <4>2
    <3>3. chunk_starts[m + 1] + Len(disk[m + 1]) <= total
      BY <2>1, <3>1, TileFacts DEF n
    <3>4. QED
      BY <2>1, <2>4, <2>5, <3>1, <3>2, <3>3
  <2>12. damaged # {} => e < total
    <3>1. SUFFICES ASSUME NEW b \in damaged
                   PROVE  e < total
      OBVIOUS
    <3>2. b \in 1..n /\ b \notin 1..m
      BY <2>1, <2>3
    <3>3. m < n
      BY <2>1, <2>3, <3>2
    <3>4. QED
      BY <2>11, <3>3
  <2>13. ASSUME e < total
         PROVE  Containing(e) \in damaged
    <3>1. m < n
      BY <2>1, <2>3, <2>4, <2>13
    <3>2. m + 1 \in 1..n /\ m + 1 \in damaged /\ chunk_starts[m + 1] = e
      BY <2>3, <2>11, <3>1
    <3>3. PieceOf(chunk_starts, (chunk_starts[m + 1] + 1) - 1) = m + 1
      <4>1. 1 \in 1..Len(disk[m + 1])
        BY <2>5, <3>2
      <4>2. QED
        BY <2>1, <3>2, <4>1, JoinedOf DEF n
    <3>4. (e + 1) - 1 = e
      BY <2>4
    <3>5. Containing(e) = m + 1
      BY <1>2, <2>4, <3>2, <3>3, <3>4, ContainingIs
    <3>6. QED
      BY <3>2, <3>5
  <2>14. damaged = {} <=> e = total
    BY <2>4, <2>9, <2>12
  <2>15. QED
    BY <1>2, <2>4, <2>8, <2>10, <2>13, <2>14 DEF joined
<1>3. QED
  BY <1>1, <1>2

------------------------------------------------------------------------------
(* The invariant *)

\* Nobody calls messages() of the player inside, the play head stays in what is
\* played, and an end that was said is the end.
SourceInv ==
  /\ Inv
  /\ chunks # <<>> => all = None
  /\ pos <= Len(Played)
  /\ turning \in {"no", "next", "try_next"}
  /\ taken \in Message \cup {None}
  /\ said = "end" =>
       /\ pos = Len(Played)
       /\ damaged # {} \/ ~loop_ \/ total = 0

\* What the player hears is what is played.
LEMMA HearsPlayed ==
  ASSUME SourceInv, NEW p \in 0..Len(Played), p < total
  PROVE  /\ MessageAt(p) = IF p < Len(Played) THEN Played[p + 1] ELSE None
         /\ p < Len(Played) => MessageAt(p) # None
<1>1. RecordingInv /\ MemoryInv /\ total \in Nat
  BY DiskFacts DEF SourceInv, Inv
<1>2. Played \in Seq(Message) /\ Len(Played) \in 0..total
  BY <1>1, PlayedIs
<1>3. MessageAt(p) = Heard(p)
  BY <1>1, <1>2, MessageAtIs
<1>4. p < Len(Played) => Played[p + 1] \in Message
  BY <1>2
<1>5. Heard(p) = IF p < Len(Played) THEN Played[p + 1] ELSE None
  <2>1. CASE chunks = <<>>
    <3>1. ~Streaming /\ all = Played
      BY <1>1, <2>1, PlayedIs DEF Streaming, MemoryInv
    <3>2. QED
      BY <3>1 DEF Heard
  <2>2. CASE chunks # <<>>
    <3>1. Streaming
      BY <2>2 DEF SourceInv, Streaming
    <3>2. CASE p < Len(Played)
      <4>1. p \in 0..Len(Played) - 1
        BY <1>2, <3>2
      <4>2. /\ Containing(p) \notin damaged
            /\ Played[p + 1] = Joined(total, disk, chunk_starts)[p + 1]
        BY <1>1, <2>2, <4>1, PlayedIs
      <4>3. QED
        BY <3>1, <3>2, <4>2 DEF Heard
    <3>3. CASE ~(p < Len(Played))
      <4>1. p = Len(Played)
        BY <1>2, <3>3
      <4>2. Containing(p) \in damaged
        BY <1>1, <2>2, <4>1, PlayedIs
      <4>3. QED
        BY <3>1, <3>3, <4>2 DEF Heard
    <3>4. QED
      BY <3>2, <3>3
  <2>3. QED
    BY <2>1, <2>2
<1>6. QED
  BY <1>3, <1>4, <1>5, PlayerAssumption

LEMMA InitSource == BagInit => SourceInv
<1> SUFFICES ASSUME BagInit
             PROVE  SourceInv
  OBVIOUS
<1>1. Inv
  BY InitInv DEF BagInit
<1>2. Len(Played) \in Nat
  BY <1>1, PlayedIs, DiskFacts DEF Inv
<1>3. chunks # <<>> => all = None
  BY DEF BagInit, Init
<1>4. pos <= Len(Played)
  BY <1>2 DEF BagInit, Init
<1>5. QED
  BY <1>1, <1>3, <1>4 DEF BagInit, SourceInv

\* The place the next message is looked for at.
HeadNow == IF loop_ /\ pos = total THEN 0 ELSE pos

\* The next message is a frame, or it is not, or it is not yet due.
Delivers ==
  /\ HeadNow < Len(Played)
  /\ pos' = HeadNow + 1 /\ answer' = "ready" /\ last' = Played[HeadNow + 1]
Waits == pos' = HeadNow /\ answer' = "wait"
SaysEnd ==
  /\ pos = Len(Played) /\ pos' = pos /\ answer' = "end"
  /\ damaged # {} \/ ~loop_ \/ total = 0

\* What asking the player comes to.
LEMMA AskOutcome ==
  ASSUME SourceInv, Asks
  PROVE  /\ Next
         /\ UNCHANGED <<recording, rate, loop_, all>>
         /\ said = "end" => SaysEnd
         /\ Delivers \/ Waits \/ SaysEnd
         /\ said # "end" /\ ~SaysEnd => HeadNow \in 0..Len(Played) /\ total > 0
<1>1. /\ Inv /\ RecordingInv /\ MemoryInv /\ ClockInv
      /\ total \in Nat /\ pos \in 0..total /\ total = Len(tape)
  BY DiskFacts DEF SourceInv, Inv, ClockInv
<1>2. Len(Played) \in 0..total /\ (damaged = {} <=> Len(Played) = total)
  BY <1>1, PlayedIs
<1>3. pos <= Len(Played)
  BY DEF SourceInv
<1>4. Next
  BY DEF Asks, Next, Play
<1>5. UNCHANGED <<recording, rate, loop_, all>>
  BY DEF Asks, NextMessage, TryNext, Sleeps, End, Fails, Returned, NotYet
<1>6. said = "end" =>
        /\ pos = Len(Played)
        /\ damaged # {} \/ ~loop_ \/ total = 0
  BY DEF SourceInv
<1>7. CASE AtEnd
  <2>1. End
    BY <1>7 DEF Asks, NextMessage, TryNext, Sleeps, Fails, Returned, NotYet
  <2>2. answer' = "end" /\ pos' = pos
    BY <2>1 DEF End
  <2>3. pos = total /\ Len(Played) = total
    BY <1>1, <1>2, <1>3, <1>7 DEF AtEnd
  <2>4. ~loop_ \/ total = 0
    BY <1>7 DEF AtEnd
  <2>5. SaysEnd
    BY <2>2, <2>3, <2>4 DEF SaysEnd
  <2>6. QED
    BY <1>4, <1>5, <2>5
<1>8. CASE ~AtEnd
  <2>1. Head0 = HeadNow /\ Head0 < total
    BY <1>1, <1>8, HeadFacts DEF HeadNow
  <2>2. total > 0
    BY <1>1, <1>8 DEF AtEnd
  <2>3. HeadNow \in 0..Len(Played)
    BY <1>1, <1>2, <1>3, <2>1 DEF HeadNow
  <2>4. /\ MessageAt(Head0) = IF HeadNow < Len(Played)
                              THEN Played[HeadNow + 1] ELSE None
        /\ HeadNow < Len(Played) => MessageAt(Head0) # None
    BY <2>1, <2>3, HearsPlayed
  <2>5. ~(HeadNow < Len(Played)) =>
          /\ pos = Len(Played) /\ HeadNow = pos
          /\ damaged # {}
    <3>1. SUFFICES ASSUME ~(HeadNow < Len(Played))
                   PROVE  pos = Len(Played) /\ HeadNow = pos /\ damaged # {}
      OBVIOUS
    <3>2. HeadNow = Len(Played) /\ Len(Played) < total
      BY <1>2, <2>1, <2>3, <3>1
    <3>3. damaged # {}
      BY <1>2, <3>2
    <3>4. HeadNow = pos
      BY <1>1, <1>3, <3>2 DEF HeadNow
    <3>5. QED
      BY <3>2, <3>3, <3>4
  <2>6. ~(HeadNow < Len(Played)) => Fails
    BY <1>8, <2>4 DEF Asks, NextMessage, TryNext, Sleeps, End, Returned, NotYet
  <2>7. ~(HeadNow < Len(Played)) => SaysEnd
    BY <2>1, <2>5, <2>6 DEF Fails, SaysEnd
  <2>8. HeadNow < Len(Played) =>
          NotYet \/ \E e : Returned(e)
    BY <1>8, <2>4 DEF Asks, NextMessage, TryNext, Sleeps, End, Fails
  <2>9. HeadNow < Len(Played) => Delivers \/ Waits
    BY <2>1, <2>4, <2>8 DEF NotYet, Returned, Delivers, Waits
  <2>10. said = "end" => ~(HeadNow < Len(Played))
    BY <1>1, <1>2, <1>6, <2>1, <2>2 DEF HeadNow
  <2>11. QED
    BY <1>4, <1>5, <2>2, <2>3, <2>7, <2>9, <2>10
<1>9. QED
  BY <1>7, <1>8

\* What a turn of next or try_next comes to.
GaveFrame ==
  /\ Delivers /\ Decodes(Played[HeadNow + 1])
  /\ turning' = "no" /\ said' = "ready" /\ taken' = Played[HeadNow + 1]
WentOn ==
  /\ Delivers /\ ~Decodes(Played[HeadNow + 1])
  /\ UNCHANGED <<turning, said, taken>>
SaidWait == Waits /\ turning' = "no" /\ said' = "wait" /\ UNCHANGED taken
SaidEnd == SaysEnd /\ turning' = "no" /\ said' = "end" /\ UNCHANGED taken

LEMMA TurnOutcome ==
  ASSUME SourceInv, Turn
  PROVE  /\ GaveFrame \/ WentOn \/ SaidWait \/ SaidEnd
         /\ UNCHANGED <<recording, loop_, all, decodes>>
         /\ said = "end" => SaidEnd
<1>1. /\ Delivers \/ Waits \/ SaysEnd
      /\ said = "end" => SaysEnd
      /\ UNCHANGED <<recording, loop_, all>>
  BY AskOutcome DEF Turn
<1>2. UNCHANGED decodes
  BY DEF Turn, GivesFrame, GoesOn, Returns
<1>3. CASE Delivers
  <2>1. answer' = "ready" /\ last' = Played[HeadNow + 1]
    BY <1>3 DEF Delivers
  <2>2. GivesFrame \/ GoesOn
    BY <2>1 DEF Turn
  <2>3. Decodes(last') <=> Decodes(Played[HeadNow + 1])
    BY <2>1 DEF Decodes
  <2>4. GaveFrame \/ WentOn
    BY <1>3, <2>1, <2>2, <2>3 DEF GivesFrame, GoesOn, GaveFrame, WentOn
  <2>5. ~SaysEnd
    BY <2>1 DEF SaysEnd
  <2>6. QED
    BY <1>1, <1>2, <2>4, <2>5
<1>4. CASE Waits \/ SaysEnd
  <2>1. answer' \in {"wait", "end"}
    BY <1>4 DEF Waits, SaysEnd
  <2>2. turning' = "no" /\ said' = answer' /\ UNCHANGED taken
    BY <2>1 DEF Turn, GivesFrame, GoesOn, Returns
  <2>3. QED
    BY <1>1, <1>2, <1>4, <2>2 DEF Waits, SaysEnd, SaidWait, SaidEnd
<1>5. QED
  BY <1>1, <1>3, <1>4

LEMMA SourceStays ==
  ASSUME SourceInv, UNCHANGED <<recording, decodes>>
  PROVE  /\ UNCHANGED <<Played, FramesIn(Played), total, chunks, damaged>>
         /\ Len(Played)' = Len(Played)
         /\ \A m : Decodes(m)' = Decodes(m)
<1>1. UNCHANGED <<tape, disk, damaged, chunks, total, decodes>>
  BY DEF recording
<1>2. UNCHANGED Played
  BY <1>1 DEF Played
<1>3. \A m : Decodes(m)' = Decodes(m)
  BY <1>1 DEF Decodes
<1>4. FramesIn(Played)' = FramesIn(Played)
  BY <1>1, <1>2 DEF FramesIn, Decodes
<1>5. QED
  BY <1>1, <1>2, <1>3, <1>4

LEMMA SourceStep ==
  ASSUME SourceInv, [BagNext]_bagVars
  PROVE  SourceInv'
<1>1. /\ Inv /\ Played \in Seq(Message) /\ Len(Played) \in 0..total
      /\ total \in Nat /\ pos \in 0..total
  BY PlayedIs, DiskFacts DEF SourceInv, Inv, ClockInv
<1>2. CASE Turn
  <2>1. /\ GaveFrame \/ WentOn \/ SaidWait \/ SaidEnd
        /\ UNCHANGED <<recording, loop_, all, decodes>>
        /\ said = "end" => SaidEnd
    BY <1>2, TurnOutcome
  <2>2. Inv'
    BY <1>1, <1>2, AskOutcome, StepPreservesInv DEF Turn
  <2>3. UNCHANGED <<Played, chunks, damaged, total>> /\ Len(Played)' = Len(Played)
    BY <2>1, SourceStays
  <2>4. said # "end" /\ ~SaysEnd => HeadNow \in 0..Len(Played)
    BY <1>2, AskOutcome DEF Turn
  <2>5. pos' <= Len(Played)
    BY <1>1, <2>1, <2>4 DEF GaveFrame, WentOn, SaidWait, SaidEnd, Delivers,
      Waits, SaysEnd, SourceInv
  <2>6. taken' \in Message \cup {None}
    BY <1>1, <2>1, <2>4 DEF GaveFrame, WentOn, SaidWait, SaidEnd, Delivers,
      SaysEnd, SourceInv
  <2>7. said' = "end" => SaidEnd
    BY <2>1 DEF GaveFrame, WentOn, SaidWait
  <2>8. /\ turning' \in {"no", "next", "try_next"}
        /\ chunks # <<>> => all' = None
    BY <2>1 DEF GaveFrame, WentOn, SaidWait, SaidEnd, SourceInv
  <2>9. said' = "end" => /\ pos' = Len(Played)
                         /\ damaged # {} \/ ~loop_ \/ total = 0
    BY <2>7 DEF SaidEnd, SaysEnd
  <2>10. UNCHANGED loop_
    BY <2>1
  <2>11. QED
    BY <2>2, <2>3, <2>5, <2>6, <2>8, <2>9, <2>10 DEF SourceInv
<1>3. CASE TimePasses
  <2>1. /\ UNCHANGED <<recording, loop_, all, pos, decodes, turning, said, taken>>
        /\ Next
    BY <1>3 DEF TimePasses, Tick, Next, Play
  <2>2. Inv'
    BY <1>1, <2>1, StepPreservesInv
  <2>3. UNCHANGED <<Played, chunks, damaged, total>> /\ Len(Played)' = Len(Played)
    BY <2>1, SourceStays
  <2>4. QED
    BY <2>1, <2>2, <2>3 DEF SourceInv
<1>4. CASE Call("next") \/ Call("try_next") \/ UNCHANGED bagVars
  <2>1. /\ UNCHANGED <<vars, decodes, said, taken>>
        /\ turning' \in {"no", "next", "try_next"}
    BY <1>4 DEF Call, bagVars, SourceInv
  <2>2. UNCHANGED <<recording, loop_, all, pos>>
    BY <2>1 DEF vars
  <2>3. Inv'
    BY <1>1, <2>1, StepPreservesInv
  <2>4. UNCHANGED <<Played, chunks, damaged, total>> /\ Len(Played)' = Len(Played)
    BY <2>1, <2>2, SourceStays
  <2>5. QED
    BY <2>1, <2>2, <2>3, <2>4 DEF SourceInv
<1>5. QED
  BY <1>2, <1>3, <1>4 DEF BagNext

\* The invariant of the source holds: it is what the calls of next and try_next
\* keep about the frames given so far.
THEOREM SourceInvariance == BagSpec => []SourceInv
<1>1. QED
  BY InitSource, SourceStep, PTL DEF BagSpec

------------------------------------------------------------------------------
(* The frames that are given *)

Given == Len(FramesIn(SubSeq(Played, 1, pos)))

\* The number of frames among the first messages.
LEMMA FramesUpTo ==
  ASSUME NEW s \in Seq(Message)
  PROVE  /\ FramesIn(s) \in Seq(Message)
         /\ FramesIn(SubSeq(s, 1, 0)) = <<>>
         /\ SubSeq(s, 1, Len(s)) = s
         /\ \A i \in 1..Len(s) :
              LET n == Len(FramesIn(SubSeq(s, 1, i - 1)))
              IN  IF Decodes(s[i])
                  THEN /\ n \in Nat /\ n < Len(FramesIn(s))
                       /\ FramesIn(s)[n + 1] = s[i]
                       /\ FramesIn(SubSeq(s, 1, i)) =
                            Append(FramesIn(SubSeq(s, 1, i - 1)), s[i])
                       /\ Len(FramesIn(SubSeq(s, 1, i))) = n + 1
                  ELSE FramesIn(SubSeq(s, 1, i)) = FramesIn(SubSeq(s, 1, i - 1))
<1> DEFINE D == {m \in Message : Decodes(m)}
<1>1. FramesIn(s) \in Seq(Message)
  BY OnlyType DEF FramesIn
<1>2. FramesIn(SubSeq(s, 1, 0)) = <<>>
  <2>1. SubSeq(s, 1, 0) = <<>>
    OBVIOUS
  <2>2. QED
    BY <2>1, OnlyOfNone DEF FramesIn
<1>3. SubSeq(s, 1, Len(s)) = s
  OBVIOUS
<1>4. \A t : FramesIn(t) = Only(t, D)
  BY DEF FramesIn
<1>5. ASSUME NEW i \in 1..Len(s)
      PROVE  Decodes(s[i]) <=> s[i] \in D
  <2>1. s[i] \in Message
    OBVIOUS
  <2>2. QED
    BY <2>1
<1> HIDE DEF D
<1>6. ASSUME NEW i \in 1..Len(s), Decodes(s[i])
      PROVE  LET n == Len(FramesIn(SubSeq(s, 1, i - 1)))
             IN  /\ n \in Nat /\ n < Len(FramesIn(s))
                 /\ FramesIn(s)[n + 1] = s[i]
                 /\ FramesIn(SubSeq(s, 1, i)) =
                      Append(FramesIn(SubSeq(s, 1, i - 1)), s[i])
                 /\ Len(FramesIn(SubSeq(s, 1, i))) = n + 1
  <2>1. s[i] \in D
    BY <1>5, <1>6
  <2>2. LET n == Len(Only(SubSeq(s, 1, i - 1), D))
        IN  /\ n \in Nat /\ n < Len(Only(s, D))
            /\ Only(s, D)[n + 1] = s[i]
            /\ Len(Only(SubSeq(s, 1, i), D)) = n + 1
    BY <2>1, OnlyHas
  <2>3. Only(SubSeq(s, 1, i), D) = Append(Only(SubSeq(s, 1, i - 1), D), s[i])
    BY <2>1, OnlyNext
  <2>4. /\ FramesIn(s) = Only(s, D)
        /\ FramesIn(SubSeq(s, 1, i)) = Only(SubSeq(s, 1, i), D)
        /\ FramesIn(SubSeq(s, 1, i - 1)) = Only(SubSeq(s, 1, i - 1), D)
    BY <1>4
  <2>5. QED
    BY <2>2, <2>3, <2>4
<1>7. ASSUME NEW i \in 1..Len(s), ~Decodes(s[i])
      PROVE  FramesIn(SubSeq(s, 1, i)) = FramesIn(SubSeq(s, 1, i - 1))
  BY <1>4, <1>5, <1>7, OnlyNext
<1>8. QED
  BY <1>1, <1>2, <1>3, <1>6, <1>7

\* The loop that makes a source turn starts at the end of what is played.
LEMMA WhereNext ==
  ASSUME SourceInv, HeadNow < Len(Played), Delivers \/ Waits
  PROVE  /\ HeadNow \in 0..Len(Played) - 1 /\ HeadNow + 1 \in 1..Len(Played)
         /\ \E i \in 1..Len(Played) : i = HeadNow + 1 /\ i - 1 = HeadNow
         /\ HeadNow = pos \/ (HeadNow = 0 /\ pos = Len(Played) /\ Source!Turns)
<1>1. /\ Played \in Seq(Message) /\ Len(Played) \in 0..total
      /\ damaged = {} <=> Len(Played) = total
      /\ total \in Nat /\ pos \in 0..total /\ pos <= Len(Played)
  BY PlayedIs, DiskFacts DEF SourceInv, Inv, ClockInv
<1>2. QED
  BY <1>1 DEF HeadNow, Source!Turns

sourceView == <<FramesIn(Played), damaged = {}, loop_, Given, taken, said = "end">>

LEMMA TurnImplements ==
  ASSUME SourceInv, Turn
  PROVE  [Source!Next]_sourceView
<1> DEFINE F == FramesIn(Played)
           G(p) == Len(FramesIn(SubSeq(Played, 1, p)))
<1>1. /\ Played \in Seq(Message) /\ Len(Played) \in 0..total
      /\ damaged = {} <=> Len(Played) = total
      /\ total \in Nat /\ pos \in 0..total /\ pos <= Len(Played)
      /\ total = Len(tape)
  BY PlayedIs, DiskFacts DEF SourceInv, Inv, ClockInv
<1>2. /\ GaveFrame \/ WentOn \/ SaidWait \/ SaidEnd
      /\ UNCHANGED <<recording, loop_, decodes>>
      /\ said = "end" => SaidEnd
  BY TurnOutcome
<1>3. UNCHANGED <<FramesIn(Played), damaged = {}, loop_>>
  BY <1>2, SourceStays
<1>4. Given' = G(pos')
  BY <1>2, SourceStays DEF Given, FramesIn
<1>5. Given = G(pos)
  BY DEF Given
<1>6. /\ F \in Seq(Message) /\ G(0) = 0 /\ G(Len(Played)) = Len(F)
      /\ \A i \in 1..Len(Played) :
           IF Decodes(Played[i])
           THEN /\ G(i - 1) \in Nat /\ G(i - 1) < Len(F)
                /\ F[G(i - 1) + 1] = Played[i] /\ G(i) = G(i - 1) + 1
           ELSE G(i) = G(i - 1)
  <2>1. Len(<<>>) = 0
    OBVIOUS
  <2>2. QED
    BY <1>1, <2>1, FramesUpTo
<1> HIDE DEF F, G
<1>7. CASE GaveFrame
  <2>1. /\ Delivers /\ HeadNow < Len(Played) /\ pos' = HeadNow + 1
        /\ Decodes(Played[HeadNow + 1])
        /\ taken' = Played[HeadNow + 1] /\ said' = "ready"
    BY <1>7 DEF GaveFrame, Delivers
  <2>2. said # "end"
    BY <1>2, <2>1 DEF SaidEnd
  <2>3. /\ \E i \in 1..Len(Played) : i = HeadNow + 1 /\ i - 1 = HeadNow
        /\ HeadNow = pos \/ (HeadNow = 0 /\ pos = Len(Played) /\ Source!Turns)
    BY <2>1, WhereNext
  <2>4. /\ G(HeadNow) \in Nat /\ G(HeadNow) < Len(F)
        /\ F[G(HeadNow) + 1] = taken' /\ Given' = G(HeadNow) + 1
    <3>1. PICK i \in 1..Len(Played) : i = HeadNow + 1 /\ i - 1 = HeadNow
      BY <2>3
    <3>2. Decodes(Played[i]) /\ taken' = Played[i] /\ Given' = G(i)
      BY <1>4, <2>1, <3>1
    <3>3. /\ G(i - 1) \in Nat /\ G(i - 1) < Len(F)
          /\ F[G(i - 1) + 1] = Played[i] /\ G(i) = G(i - 1) + 1
      BY <1>6, <3>2
    <3>4. QED
      BY <3>1, <3>2, <3>3
  <2>5. G(HeadNow) = IF Source!Turns /\ Given = Len(F) THEN 0 ELSE Given
    BY <1>5, <1>6, <2>3, <2>4
  <2>6. /\ ~(said = "end") /\ UNCHANGED (said = "end")
    BY <2>1, <2>2
  <2>7. Source!Give
    BY <2>4, <2>5, <2>6 DEF Source!Give, Given, F
  <2>8. QED
    BY <1>3, <2>7 DEF Source!Next
<1>8. ASSUME HeadNow # pos, Delivers \/ Waits, HeadNow < Len(Played),
             UNCHANGED taken, UNCHANGED (said = "end"), Given' = 0
      PROVE  [Source!Next]_sourceView
  <2>1. HeadNow = 0 /\ pos = Len(Played) /\ Source!Turns
    BY <1>8, WhereNext
  <2>2. Given = Len(F)
    BY <1>5, <1>6, <2>1
  <2>3. Source!Rewind
    BY <1>8, <2>1, <2>2 DEF Source!Rewind, Given, F
  <2>4. QED
    BY <1>3, <2>3 DEF Source!Next
<1>9. CASE WentOn
  <2>1. /\ Delivers /\ HeadNow < Len(Played) /\ pos' = HeadNow + 1
        /\ ~Decodes(Played[HeadNow + 1]) /\ UNCHANGED <<said, taken>>
    BY <1>9 DEF WentOn, Delivers
  <2>2. HeadNow = pos \/ HeadNow = 0
    BY <2>1, WhereNext
  <2>3. Given' = G(HeadNow)
    <3>1. PICK i \in 1..Len(Played) : i = HeadNow + 1 /\ i - 1 = HeadNow
      BY <2>1, WhereNext
    <3>2. ~Decodes(Played[i]) /\ Given' = G(i)
      BY <1>4, <2>1, <3>1
    <3>3. G(i) = G(i - 1)
      BY <1>6, <3>2
    <3>4. QED
      BY <3>1, <3>2, <3>3
  <2>4. CASE HeadNow = pos
    BY <1>3, <1>5, <2>1, <2>3, <2>4 DEF sourceView
  <2>5. CASE HeadNow # pos
    BY <1>6, <1>8, <2>1, <2>2, <2>3, <2>5
  <2>6. QED
    BY <2>4, <2>5
<1>10. CASE SaidWait
  <2>1. /\ Waits /\ pos' = HeadNow /\ said' = "wait" /\ UNCHANGED taken
    BY <1>10 DEF SaidWait, Waits
  <2>2. said # "end" /\ UNCHANGED (said = "end")
    BY <1>2, <2>1 DEF SaidEnd
  <2>3. CASE HeadNow = pos
    BY <1>3, <1>4, <1>5, <2>1, <2>2, <2>3 DEF sourceView
  <2>4. CASE HeadNow # pos
    <3>1. /\ HeadNow = 0 /\ pos = total /\ loop_ /\ total > 0
      BY <1>1, <2>4 DEF HeadNow
    <3>2. HeadNow < Len(Played)
      BY <1>1, <3>1
    <3>3. QED
      BY <1>4, <1>6, <1>8, <2>1, <2>2, <2>4, <3>1, <3>2
  <2>5. QED
    BY <2>3, <2>4
<1>11. CASE SaidEnd
  <2>1. /\ pos = Len(Played) /\ pos' = pos /\ said' = "end" /\ UNCHANGED taken
        /\ damaged # {} \/ ~loop_ \/ total = 0
    BY <1>11 DEF SaidEnd, SaysEnd
  <2>2. Given = Len(F) /\ Given' = Given
    BY <1>4, <1>5, <1>6, <2>1
  <2>3. Source!Turns => F = <<>>
    <3>1. SUFFICES ASSUME Source!Turns
                   PROVE  F = <<>>
      OBVIOUS
    <3>2. total = 0
      BY <2>1, <3>1 DEF Source!Turns
    <3>3. Len(F) = 0
      BY <1>1, <1>6, <3>2
    <3>4. QED
      BY <1>6, <3>3
  <2>4. (said = "end")' = TRUE
    BY <2>1
  <2>5. Source!End
    BY <2>1, <2>2, <2>3, <2>4 DEF Source!End, Given, F
  <2>6. QED
    BY <1>3, <2>5 DEF Source!Next
<1>12. QED
  BY <1>2, <1>7, <1>9, <1>10, <1>11

\* For every recording, whatever lies between the frames, whatever chunks cannot
\* be read, and in whatever order next and try_next are called, the source
\* gives the frames one after the other, none left out and none twice, and says
\* the end behind the last (BagDataSource::next, try_next over Player).
THEOREM SourceImplementsFrames == BagSpec => GivesEveryFrame
<1>1. BagInit => Source!Init
  <2> SUFFICES ASSUME BagInit
               PROVE  Source!Init
    OBVIOUS
  <2>1. Played \in Seq(Message)
    BY InitSource, PlayedIs DEF SourceInv, Inv
  <2>2. FramesIn(SubSeq(Played, 1, 0)) = <<>> /\ Len(<<>>) = 0
    BY <2>1, FramesUpTo
  <2>3. pos = 0 /\ taken = None /\ said # "end"
    BY DEF BagInit, Init
  <2>4. QED
    BY <2>2, <2>3 DEF Source!Init
<1>2. SourceInv /\ [BagNext]_bagVars => [Source!Next]_sourceView
  <2> SUFFICES ASSUME SourceInv, [BagNext]_bagVars
               PROVE  [Source!Next]_sourceView
    OBVIOUS
  <2>1. CASE Turn
    BY <2>1, TurnImplements
  <2>2. CASE \/ Call("next") \/ Call("try_next") \/ TimePasses
             \/ UNCHANGED bagVars
    <3>1. UNCHANGED <<recording, loop_, pos, decodes, said, taken>>
      BY <2>2 DEF Call, TimePasses, Tick, bagVars, vars
    <3>2. UNCHANGED <<FramesIn(Played), damaged, Played>>
      BY <3>1, SourceStays
    <3>3. Given' = Given
      BY <3>1, <3>2 DEF Given, FramesIn, Decodes
    <3>4. QED
      BY <3>1, <3>2, <3>3 DEF sourceView
  <2>3. QED
    BY <2>1, <2>2 DEF BagNext
<1>3. QED
  BY <1>1, <1>2, SourceInvariance, PTL
  DEF BagSpec, GivesEveryFrame, Source!Spec, sourceView, Given

------------------------------------------------------------------------------
(* The frames of the recording *)

\* Chunks one behind the other are the recording rearranged, whether or not
\* they overlap in time.
LEMMA JoinedRearranged ==
  ASSUME NEW s \in Seq(Message), NEW pieces, NEW starts,
         Tiles(s, pieces, starts)
  PROVE  \E at : Rearranged(s, Joined(Len(s), pieces, starts), at)
<1> DEFINE n == Len(s)
           t == Joined(n, pieces, starts)
           chunk(p) == PieceOf(starts, p - 1)
           from(p) == Origin(s, pieces, starts, chunk(p), p - starts[chunk(p)])
           at == [p \in 1..n |-> from(p)]
<1>1. t \in Seq(Message) /\ Len(t) = n /\ n \in Nat
  BY JoinedType
<1>2. ASSUME NEW p \in 1..n
      PROVE  from(p) \in 1..n /\ t[p] = s[from(p)]
  <2> DEFINE c == chunk(p)
             i == p - starts[c]
  <2>1. /\ c \in 1..Len(pieces) /\ i \in 1..Len(pieces[c])
        /\ t[p] = pieces[c][i]
    BY JoinedAt
  <2>2. from(p) = Origin(s, pieces, starts, c, i)
    OBVIOUS
  <2> HIDE DEF c, i, t, from
  <2>3. QED
    BY <2>1, <2>2, OriginType
<1>3. ASSUME NEW p \in 1..n, NEW q \in 1..n, p < q
      PROVE  from(p) < from(q) \/ t[p].stamp < t[q].stamp
  <2> DEFINE c == chunk(p)
             i == p - starts[c]
             d == chunk(q)
             j == q - starts[d]
  <2>1. /\ c \in 1..Len(pieces) /\ i \in 1..Len(pieces[c])
        /\ t[p] = pieces[c][i] /\ starts[c] \in Nat
    BY JoinedAt
  <2>2. /\ d \in 1..Len(pieces) /\ j \in 1..Len(pieces[d])
        /\ t[q] = pieces[d][j] /\ starts[d] \in Nat
    BY JoinedAt
  <2>3. /\ starts[c] + i = p /\ starts[d] + j = q
    <3>1. ASSUME NEW x \in Nat
          PROVE  x + (p - x) = p /\ x + (q - x) = q
      BY <1>1
    <3>2. QED
      BY <2>1, <2>2, <3>1
  <2>4. /\ from(p) = Origin(s, pieces, starts, c, i)
        /\ from(q) = Origin(s, pieces, starts, d, j)
    OBVIOUS
  <2> HIDE DEF c, i, d, j, t, from
  <2>5. Len(pieces) \in Nat /\ Len(pieces[c]) \in Nat /\ Len(pieces[d]) \in Nat
    BY <2>1, <2>2, TileFacts
  <2>6. CASE c = d
    <3> DEFINE raw == Raw(s, pieces, starts, c)
    <3>1. /\ raw \in Seq(Message) /\ Len(raw) = Len(pieces[c])
          /\ pieces[c] = StableSort(raw)
      BY <2>1, RawType
    <3>7. i \in 1..Len(raw) /\ j \in 1..Len(raw) /\ t[q] = pieces[c][j]
      BY <2>1, <2>2, <2>6, <3>1
    <3>8. Place(raw, i) \in 1..Len(raw) /\ Place(raw, j) \in 1..Len(raw)
      BY <2>1, <2>2, <2>6, RawType
    <3> HIDE DEF raw
    <3>2. i < j
      BY <1>3, <2>1, <2>2, <2>3, <2>5, <2>6
    <3>3. Rearranged(raw, pieces[c], [k \in 1..Len(raw) |-> Place(raw, k)])
      BY <3>1, MessagesStamped, SortRearranged
    <3>4. Place(raw, i) < Place(raw, j) \/ t[p].stamp < t[q].stamp
      <4> DEFINE place == [k \in 1..Len(raw) |-> Place(raw, k)]
      <4>1. place[i] < place[j] \/ pieces[c][i].stamp < pieces[c][j].stamp
        BY <3>2, <3>3, <3>7 DEF Rearranged
      <4>2. place[i] = Place(raw, i) /\ place[j] = Place(raw, j)
        BY <3>7
      <4> HIDE DEF place
      <4>3. t[p].stamp = pieces[c][i].stamp /\ t[q].stamp = pieces[c][j].stamp
        BY <2>1, <3>7
      <4>4. QED
        BY <4>1, <4>2, <4>3
    <3>5. /\ from(p) = starts[c] + Place(raw, i)
          /\ from(q) = starts[c] + Place(raw, j)
      BY <2>4, <2>6 DEF Origin, raw
    <3>6. QED
      BY <2>1, <3>1, <3>4, <3>5, <3>8
  <2>7. CASE c < d
    <3>1. starts[c] + Len(pieces[c]) <= starts[d]
      BY <2>1, <2>2, <2>7, TilesApart
    <3>2. /\ from(p) \in Int /\ from(q) \in Int
          /\ from(p) <= starts[c] + Len(pieces[c]) /\ starts[d] < from(q)
      BY <2>1, <2>2, <2>4, OriginType, SMTT(30)
    <3>3. QED
      BY <2>1, <2>2, <2>5, <3>1, <3>2, SMTT(30)
  <2>8. CASE d < c
    <3>1. starts[d] + Len(pieces[d]) <= starts[c]
      BY <2>1, <2>2, <2>8, TilesApart
    <3>2. QED
      BY <1>3, <2>1, <2>2, <2>3, <2>5, <3>1, SMTT(30)
  <2>9. QED
    BY <2>1, <2>2, <2>5, <2>6, <2>7, <2>8
<1>4. ASSUME NEW i \in 1..n
      PROVE  \E p \in 1..n : from(p) = i
  <2> DEFINE c == chunk(i)
             j == i - starts[c]
             raw == Raw(s, pieces, starts, c)
  <2>1. c \in 1..Len(pieces) /\ j \in 1..Len(pieces[c]) /\ starts[c] \in Nat
    BY JoinedAt
  <2>2. starts[c] + j = i
    <3>1. ASSUME NEW x \in Nat
          PROVE  x + (i - x) = i
      BY <1>1
    <3>2. QED
      BY <2>1, <3>1
  <2> HIDE DEF c, j
  <2>3. raw \in Seq(Message) /\ Len(raw) = Len(pieces[c])
    BY <2>1, RawType
  <2> HIDE DEF raw
  <2>4. PICK k \in 1..Len(pieces[c]) : Place(raw, k) = j
    <3>1. Rearranged(raw, StableSort(raw), [k \in 1..Len(raw) |-> Place(raw, k)])
      BY <2>3, MessagesStamped, SortRearranged
    <3>2. QED
      BY <2>1, <2>3, <3>1 DEF Rearranged
  <2> DEFINE p == starts[c] + k
  <2>5. p \in 1..n /\ PieceOf(starts, (starts[c] + k) - 1) = c
    BY <2>1, JoinedOf
  <2>6. p - starts[c] = k
    BY <2>1, <2>5
  <2>7. chunk(p) = c
    BY <2>5
  <2>8. from(p) = Origin(s, pieces, starts, c, k)
    BY <2>6, <2>7
  <2>9. Origin(s, pieces, starts, c, k) = i
    BY <2>2, <2>4 DEF Origin, raw
  <2>10. QED
    BY <2>5, <2>8, <2>9
<1> HIDE DEF t, from
<1>5. at \in [1..n -> 1..n] /\ \A p \in 1..n : at[p] = from(p)
  BY <1>2
<1> HIDE DEF at
<1>6. Rearranged(s, t, at)
  BY <1>1, <1>2, <1>3, <1>4, <1>5 DEF Rearranged
<1>7. QED
  BY <1>6 DEF t

\* Sensor frames that were recorded in the order of their times are played in
\* that order, whatever else was written late between them, so that chunks
\* overlap in time; all of them, or the first ones where a chunk cannot be read
\* (flush_chunk, Player, BagDataSource).
THEOREM PlayedFramesInOrder ==
  ASSUME RecordingInv, SortedByStamp(FramesIn(tape))
  PROVE  /\ Grown(FramesIn(Played), FramesIn(tape))
         /\ damaged = {} => FramesIn(Played) = FramesIn(tape)
         /\ FramesIn(tape) \in Seq(Message)
<1> DEFINE D == {m \in Message : Decodes(m)}
           t == IF chunks = <<>> THEN StableSort(tape)
                ELSE Joined(total, disk, chunk_starts)
           n == Len(Played)
<1>1. /\ tape \in Seq(Message) /\ total = Len(tape) /\ total \in Nat
      /\ Played \in Seq(Message) /\ n \in 0..total
      /\ damaged = {} => n = total
  BY DiskFacts, PlayedIs
<1>2. /\ t \in Seq(Message) /\ Len(t) = total
      /\ \E at : Rearranged(tape, t, at)
      /\ \A p \in 0..n - 1 : Played[p + 1] = t[p + 1]
  <2>1. CASE chunks = <<>>
    <3>1. t = StableSort(tape) /\ t = Played /\ n = total
      BY <2>1, PlayedIs
    <3> HIDE DEF t
    <3>2. QED
      BY <1>1, <3>1, MessagesStamped, SortRearranged
  <2>2. CASE chunks # <<>>
    <3>1. t = Joined(total, disk, chunk_starts)
      BY <2>2
    <3>2. Tiles(tape, disk, chunk_starts)
      BY <2>2, IndexFacts
    <3>3. \A p \in 0..n - 1 : Played[p + 1] = t[p + 1]
      BY <2>2, <3>1, PlayedIs
    <3> HIDE DEF t, n
    <3>4. t \in Seq(Message) /\ Len(t) = total
      BY <1>1, <3>1, <3>2, JoinedType
    <3>5. \E at : Rearranged(tape, t, at)
      BY <1>1, <3>1, <3>2, JoinedRearranged
    <3>6. QED
      BY <3>3, <3>4, <3>5
  <2>3. QED
    BY <2>1, <2>2
<1> HIDE DEF t
<1>3. Played = SubSeq(t, 1, n)
  <2>1. SubSeq(t, 1, n) \in Seq(Message) /\ Len(SubSeq(t, 1, n)) = n
    BY <1>1, <1>2
  <2>2. ASSUME NEW i \in 1..n
        PROVE  Played[i] = SubSeq(t, 1, n)[i]
    <3>1. i - 1 \in 0..n - 1 /\ (i - 1) + 1 = i
      BY <1>1
    <3>2. Played[(i - 1) + 1] = t[(i - 1) + 1]
      BY <1>2, <3>1
    <3>3. SubSeq(t, 1, n)[i] = t[i]
      BY <1>1, <1>2
    <3>4. QED
      BY <3>1, <3>2, <3>3
  <2>3. QED
    BY <1>1, <2>1, <2>2, SeqEqual
<1>4. FramesIn(tape) = Only(tape, D) /\ FramesIn(Played) = Only(Played, D)
  BY DEF FramesIn
<1> HIDE DEF D, n
<1>5. Only(t, D) = Only(tape, D)
  BY <1>1, <1>2, <1>4, MessagesStamped, OnlyOfRearranged
<1>6. Grown(Only(SubSeq(t, 1, n), D), Only(t, D))
  BY <1>1, <1>2, OnlyGrows
<1>7. ASSUME damaged = {}
      PROVE  Played = t
  <2>1. n = Len(t)
    BY <1>1, <1>2, <1>7
  <2>2. SubSeq(t, 1, Len(t)) = t
    BY <1>2
  <2>3. QED
    BY <1>3, <2>1, <2>2
<1>8. Only(tape, D) \in Seq(Message)
  BY <1>1, OnlyType
<1>9. QED
  BY <1>3, <1>4, <1>5, <1>6, <1>7, <1>8

------------------------------------------------------------------------------
(* What those who ask the source see *)

\* A call that returns "ready" has taken the next frame; one that returns "end"
\* has taken the last one before.
LEMMA TurnGives ==
  ASSUME SourceInv, Turn, ~loop_
  PROVE  /\ FramesIn(Played) \in Seq(Message)
         /\ Given \in 0..Len(FramesIn(Played))
         /\ UNCHANGED <<recording, loop_, decodes, FramesIn(Played)>>
         /\ IF turning' = "no" /\ said' = "ready"
            THEN /\ Given < Len(FramesIn(Played)) /\ Given' = Given + 1
                 /\ taken' = FramesIn(Played)[Given + 1]
            ELSE Given' = Given
         /\ turning' = "no" /\ said' = "end" => Given = Len(FramesIn(Played))
<1> DEFINE F == FramesIn(Played)
           G(p) == Len(FramesIn(SubSeq(Played, 1, p)))
<1>1. /\ Played \in Seq(Message) /\ Len(Played) \in 0..total
      /\ total \in Nat /\ pos \in 0..total /\ pos <= Len(Played)
      /\ turning # "no"
  BY PlayedIs, DiskFacts DEF SourceInv, Inv, ClockInv, Turn, Asks
<1>2. /\ GaveFrame \/ WentOn \/ SaidWait \/ SaidEnd
      /\ UNCHANGED <<recording, loop_, decodes>>
  BY TurnOutcome
<1>3. UNCHANGED FramesIn(Played)
  BY <1>2, SourceStays
<1>4. Given' = G(pos') /\ Given = G(pos)
  BY <1>2, SourceStays DEF Given, FramesIn
<1>5. HeadNow = pos
  BY DEF HeadNow
<1>6. /\ F \in Seq(Message) /\ G(Len(Played)) = Len(F)
      /\ \A i \in 1..Len(Played) :
           IF Decodes(Played[i])
           THEN /\ G(i - 1) \in Nat /\ G(i - 1) < Len(F)
                /\ F[G(i - 1) + 1] = Played[i] /\ G(i) = G(i - 1) + 1
           ELSE G(i) = G(i - 1)
  BY <1>1, FramesUpTo
<1>7. G(pos) \in 0..Len(F)
  <2> DEFINE D == {m \in Message : Decodes(m)}
  <2>1. pos \in 0..Len(Played)
    BY <1>1
  <2>2. Grown(Only(SubSeq(Played, 1, pos), D), Only(Played, D))
    BY <1>1, <2>1, OnlyGrows
  <2>3. FramesIn(SubSeq(Played, 1, pos)) \in Seq(Message)
    <3>1. SubSeq(Played, 1, pos) \in Seq(Message)
      BY <1>1, <2>1
    <3>2. QED
      BY <3>1, FramesUpTo
  <2>4. /\ FramesIn(SubSeq(Played, 1, pos)) = Only(SubSeq(Played, 1, pos), D)
        /\ F = Only(Played, D)
    BY DEF FramesIn
  <2> HIDE DEF D, F
  <2>5. QED
    BY <1>6, <2>2, <2>3, <2>4 DEF Grown
<1> HIDE DEF F, G
<1>8. CASE (GaveFrame \/ WentOn) /\ pos < Len(Played)
  <2>1. PICK i \in 1..Len(Played) : i = pos + 1 /\ i - 1 = pos
    BY <1>1, <1>8
  <2>2. /\ pos' = i
        /\ GaveFrame => Decodes(Played[i])
        /\ WentOn => ~Decodes(Played[i])
        /\ GaveFrame => turning' = "no" /\ said' = "ready" /\ taken' = Played[i]
        /\ WentOn => turning' # "no"
    BY <1>1, <1>5, <1>8, <2>1 DEF GaveFrame, WentOn, Delivers
  <2>3. Given' = G(i) /\ Given = G(i - 1)
    BY <1>4, <2>1, <2>2
  <2>4. CASE GaveFrame
    <3>1. /\ G(i - 1) \in Nat /\ G(i - 1) < Len(F)
          /\ F[G(i - 1) + 1] = Played[i] /\ G(i) = G(i - 1) + 1
      BY <1>6, <2>2, <2>4
    <3>2. /\ Given < Len(F) /\ Given' = Given + 1 /\ taken' = F[Given + 1]
          /\ turning' = "no" /\ said' = "ready"
      BY <2>2, <2>3, <2>4, <3>1
    <3>3. QED
      BY <1>2, <1>3, <1>4, <1>6, <1>7, <3>2 DEF F
  <2>5. CASE WentOn
    <3>1. G(i) = G(i - 1)
      BY <1>6, <2>2, <2>5
    <3>2. turning' # "no" /\ Given' = Given
      BY <2>2, <2>3, <2>5, <3>1
    <3>3. QED
      BY <1>2, <1>3, <1>4, <1>6, <1>7, <3>2 DEF F
  <2>6. QED
    BY <1>8, <2>4, <2>5
<1>9. CASE SaidWait
  <2>1. pos' = pos /\ said' = "wait"
    BY <1>5, <1>9 DEF SaidWait, Waits
  <2>2. QED
    BY <1>2, <1>3, <1>4, <1>6, <1>7, <2>1 DEF F
<1>10. CASE SaidEnd
  <2>1. pos' = pos /\ said' = "end" /\ pos = Len(Played)
    BY <1>10 DEF SaidEnd, SaysEnd
  <2>2. QED
    BY <1>2, <1>3, <1>4, <1>6, <1>7, <2>1 DEF F
<1>11. (GaveFrame \/ WentOn) => pos < Len(Played)
  BY <1>5 DEF GaveFrame, WentOn, Delivers
<1>12. QED
  BY <1>2, <1>8, <1>9, <1>10, <1>11

\* Before the first call, and between the turns of a call.
LEMMA SourceAtStart ==
  ASSUME BagInit
  PROVE  SourceInv /\ Given = 0 /\ FramesIn(Played) \in Seq(Message)
<1>1. SourceInv /\ Played \in Seq(Message)
  BY InitSource, PlayedIs DEF SourceInv, Inv
<1>2. /\ FramesIn(SubSeq(Played, 1, 0)) = <<>> /\ Len(<<>>) = 0
      /\ FramesIn(Played) \in Seq(Message)
  BY <1>1, FramesUpTo
<1>3. pos = 0
  BY DEF BagInit, Init
<1>4. QED
  BY <1>1, <1>2, <1>3 DEF Given

\* A step of somebody else, and the begin of a call.
LEMMA SourceQuiet ==
  ASSUME SourceInv, Call("next") \/ UNCHANGED bagVars
  PROVE  SourceInv' /\ UNCHANGED <<FramesIn(Played), Given, loop_>>
<1>1. SourceInv'
  BY SourceStep DEF BagNext
<1>2. UNCHANGED <<recording, loop_, pos, decodes>>
  BY DEF Call, bagVars, vars
<1>3. UNCHANGED <<FramesIn(Played), Played>>
  BY <1>2, SourceStays
<1>4. UNCHANGED Given
  BY <1>2, <1>3 DEF Given, FramesIn, Decodes
<1>5. QED
  BY <1>1, <1>2, <1>3, <1>4
==============================================================================
