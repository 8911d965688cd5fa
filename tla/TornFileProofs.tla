--------------------------- MODULE TornFileProofs ----------------------------
(***************************************************************************)
(* Proofs about the torn file, for every value of the constants that       *)
(* TornAssumption admits: any texts, any length of the file, any number of *)
(* crashes that cut a record. Types need nothing else; what the scans do   *)
(* in front of the first cut record needs NoTopCells. The argument: the    *)
(* records in front are whole and follow each other (FrontInv), a scan in  *)
(* front is at the beginning of one of them, and one that has passed the   *)
(* first cut never comes back (ReaderInv).                                 *)
(***************************************************************************)
EXTENDS TornFile, Counting

(* Where the elements of a concatenation are. *)
IsJoin(S, r, a, b) ==
  /\ r \in Seq(S) /\ Len(r) = Len(a) + Len(b)
  /\ \A i \in 1..Len(a) : r[i] = a[i]
  /\ \A i \in 1..Len(b) : r[Len(a) + i] = b[i]

IsJoinOfFour(S, r, a, b, c, d) ==
  /\ r \in Seq(S) /\ Len(r) = Len(a) + Len(b) + Len(c) + Len(d)
  /\ \A i \in 1..Len(a) : r[i] = a[i]
  /\ \A i \in 1..Len(b) : r[Len(a) + i] = b[i]
  /\ \A i \in 1..Len(c) : r[Len(a) + Len(b) + i] = c[i]
  /\ \A i \in 1..Len(d) : r[Len(a) + Len(b) + Len(c) + i] = d[i]

LEMMA Joined ==
  ASSUME NEW S, NEW s \in Seq(S), NEW t \in Seq(S)
  PROVE  IsJoin(S, s \o t, s, t)
BY DEF IsJoin

LEMMA JoinedFour ==
  ASSUME NEW S, NEW a \in Seq(S), NEW b \in Seq(S), NEW c \in Seq(S), NEW d \in Seq(S)
  PROVE  IsJoinOfFour(S, a \o b \o c \o d, a, b, c, d)
<1> DEFINE p == a \o b
           q == p \o c
           r == q \o d
<1>0. Len(a) \in Nat /\ Len(b) \in Nat /\ Len(c) \in Nat /\ Len(d) \in Nat
  BY LenProperties
<1>1. /\ p \in Seq(S) /\ Len(p) = Len(a) + Len(b)
      /\ \A i \in 1..Len(a) : p[i] = a[i]
      /\ \A i \in 1..Len(b) : p[Len(a) + i] = b[i]
  OBVIOUS
<1>8. p \in Seq(S)
  BY <1>1
<1> HIDE DEF p
<1>2. /\ q \in Seq(S) /\ Len(q) = Len(p) + Len(c)
      /\ \A i \in 1..Len(p) : q[i] = p[i]
      /\ \A i \in 1..Len(c) : q[Len(p) + i] = c[i]
  BY <1>8
<1>9. q \in Seq(S)
  BY <1>2
<1> HIDE DEF q
<1>3. /\ r \in Seq(S) /\ Len(r) = Len(q) + Len(d)
      /\ \A i \in 1..Len(q) : r[i] = q[i]
      /\ \A i \in 1..Len(d) : r[Len(q) + i] = d[i]
  BY <1>9
<1> HIDE DEF r
<1>4. Len(q) = Len(a) + Len(b) + Len(c) /\ Len(r) = Len(a) + Len(b) + Len(c) + Len(d)
  BY <1>1, <1>2, <1>3
<1>5. ASSUME NEW i \in 1..Len(a) PROVE r[i] = a[i]
  <2>1. i \in 1..Len(p) /\ i \in 1..Len(q)
   BY <1>0, <1>1, <1>4
  <2> QED BY <1>1, <1>2, <1>3, <2>1, Zenon
<1>6. ASSUME NEW i \in 1..Len(b) PROVE r[Len(a) + i] = b[i]
  <2>1. Len(a) + i \in 1..Len(p) /\ Len(a) + i \in 1..Len(q)
   BY <1>0, <1>1, <1>4
  <2> QED BY <1>1, <1>2, <1>3, <2>1, Zenon
<1>7. ASSUME NEW i \in 1..Len(c) PROVE r[Len(a) + Len(b) + i] = c[i]
  <2>1. Len(a) + Len(b) + i = Len(p) + i /\ Len(p) + i \in 1..Len(q)
   BY <1>0, <1>1, <1>2
  <2> QED BY <1>2, <1>3, <2>1, Zenon
<1> QED
  BY <1>3, <1>4, <1>5, <1>6, <1>7, Zenon DEF p, q, r, IsJoinOfFour

(* Where the cells of a record are. *)
IsLayout(Cell, key, val) ==
  LET e  == Encoded(key, val)
      lk == Len(key)
      lv == Len(val)
  IN  /\ Body(key, val) \in Seq(Cell) /\ Len(Body(key, val)) = 9 + lk + lv
      /\ e \in Seq(Cell) /\ Len(e) = 11 + lk + lv
      /\ e[1] = 9 + lk + lv /\ e[2] = 0 /\ e[3] = INSERT
      /\ e[8] = lk /\ e[9] = 0 /\ \A k \in 1..lk : e[9 + k] = key[k]
      /\ e[10 + lk] = lv /\ e[11 + lk] = 0 /\ \A k \in 1..lv : e[11 + lk + k] = val[k]

(* A number that fits into one cell. *)
IsNumber(Cell, c, n) == c \in Seq(Cell) /\ Len(c) = 2 /\ c[1] = n /\ c[2] = 0

NumbersFit(Cell) == \A n \in 0..15 : n \in Cell /\ IsNumber(Cell, Cells(n), n)

LEMMA LayoutOfCells ==
  ASSUME NEW Cell, NEW key, NEW val, key \in Seq(Cell) /\ val \in Seq(Cell),
         Len(key) \in 0..3 /\ Len(val) \in 0..3,
         NumbersFit(Cell)
  PROVE  IsLayout(Cell, key, val)
<1> DEFINE lk == Len(key)
           lv == Len(val)
<1>0. key \in Seq(Cell) /\ val \in Seq(Cell)
  OBVIOUS
<1>1. lk \in 0..3 /\ lv \in 0..3 /\ 0 \in Cell /\ 1 \in Cell
  BY DEF NumbersFit
<1> HIDE DEF lk, lv
<1>2. /\ Cells(0) \in Seq(Cell) /\ Len(Cells(0)) = 2
      /\ Cells(lk) \in Seq(Cell) /\ Len(Cells(lk)) = 2 /\ Cells(lk)[1] = lk /\ Cells(lk)[2] = 0
      /\ Cells(lv) \in Seq(Cell) /\ Len(Cells(lv)) = 2 /\ Cells(lv)[1] = lv /\ Cells(lv)[2] = 0
      /\ Cells(9 + lk + lv) \in Seq(Cell) /\ Len(Cells(9 + lk + lv)) = 2
      /\ Cells(9 + lk + lv)[1] = 9 + lk + lv /\ Cells(9 + lk + lv)[2] = 0
  <2>1. 0 \in 0..15 /\ lk \in 0..15 /\ lv \in 0..15 /\ 9 + lk + lv \in 0..15
    BY <1>1
  <2> QED
    BY <2>1, Zenon DEF NumbersFit, IsNumber
<1> DEFINE one == <<INSERT>>
           ptr == <<1, 0>>
<1>3. one \in Seq(Cell) /\ Len(one) = 1 /\ one[1] = INSERT /\ ptr \in Seq(Cell) /\ Len(ptr) = 2
  BY <1>1 DEF INSERT
<1> HIDE DEF lk, lv, one, ptr
<1> DEFINE head == one \o Cells(0) \o ptr \o Cells(lk)
           body == head \o key \o Cells(lv) \o val
           e == Cells(9 + lk + lv) \o body
<1>4. IsJoinOfFour(Cell, head, one, Cells(0), ptr, Cells(lk))
  <2>1. one \in Seq(Cell) /\ Cells(0) \in Seq(Cell) /\ ptr \in Seq(Cell) /\ Cells(lk) \in Seq(Cell)
    BY <1>2, <1>3
  <2> QED
    BY <2>1, JoinedFour, Zenon
<1> HIDE DEF head
<1>5. IsJoinOfFour(Cell, body, head, key, Cells(lv), val)
  <2>1. head \in Seq(Cell) /\ Cells(lv) \in Seq(Cell)
    BY <1>2, <1>4 DEF IsJoinOfFour
  <2> QED
    BY <1>0, <2>1, JoinedFour, Zenon
<1>6. Body(key, val) = body
  BY DEF Body, head, one, ptr, lk, lv
<1> HIDE DEF body
<1>7. IsJoin(Cell, e, Cells(9 + lk + lv), body)
  <2>1. body \in Seq(Cell) /\ Cells(9 + lk + lv) \in Seq(Cell)
    BY <1>2, <1>5 DEF IsJoinOfFour
  <2> QED
    BY <2>1, Joined, Zenon
<1> HIDE DEF e
<1>8. Len(head) = 7 /\ Len(body) = 9 + lk + lv /\ Len(e) = 11 + lk + lv
  <2>1. /\ Len(head) = Len(one) + Len(Cells(0)) + Len(ptr) + Len(Cells(lk))
        /\ Len(body) = Len(head) + lk + Len(Cells(lv)) + lv
        /\ Len(e) = Len(Cells(9 + lk + lv)) + Len(body)
    BY <1>4, <1>5, <1>7, Zenon DEF IsJoin, IsJoinOfFour, lk, lv
  <2>2. /\ Len(one) = 1 /\ Len(ptr) = 2 /\ Len(Cells(0)) = 2 /\ Len(Cells(lk)) = 2
        /\ Len(Cells(lv)) = 2 /\ Len(Cells(9 + lk + lv)) = 2
    BY <1>2, <1>3
  <2>3. Len(head) = 1 + 2 + 2 + 2 /\ Len(body) = Len(head) + lk + 2 + lv /\ Len(e) = 2 + Len(body)
    BY <2>1, <2>2, Zenon
  <2>4. 1 + 2 + 2 + 2 = 7 /\ 7 + lk + 2 + lv = 9 + lk + lv /\ 2 + (9 + lk + lv) = 11 + lk + lv
    BY <1>1
  <2> QED
    BY <2>3, <2>4, Zenon
<1>9. Encoded(key, val) = e
  BY <1>6, <1>8 DEF Encoded, e
<1>10. head[1] = INSERT /\ head[6] = lk /\ head[7] = 0
  <2>1. head[1] = one[1]
    BY <1>3, <1>4 DEF IsJoinOfFour
  <2>2. head[5 + 1] = Cells(lk)[1] /\ head[5 + 2] = Cells(lk)[2]
    <3>1. \A k \in 1..2 : head[1 + 2 + 2 + k] = Cells(lk)[k]
      BY <1>2, <1>3, <1>4, Zenon DEF IsJoinOfFour
    <3>2. 1 + 2 + 2 = 5
      OBVIOUS
    <3> QED
      BY <3>1, <3>2
  <2> QED
    BY <1>2, <1>3, <2>1, <2>2
<1>11. /\ body[1] = INSERT /\ body[6] = lk /\ body[7] = 0
       /\ \A k \in 1..lk : body[7 + k] = key[k]
       /\ body[8 + lk] = lv /\ body[9 + lk] = 0
       /\ \A k \in 1..lv : body[9 + lk + k] = val[k]
  <2>1. body[1] = head[1] /\ body[6] = head[6] /\ body[7] = head[7]
    BY <1>5, <1>8 DEF IsJoinOfFour
  <2>2. body[7 + lk + 1] = Cells(lv)[1] /\ body[7 + lk + 2] = Cells(lv)[2]
    BY <1>2, <1>5, <1>8 DEF IsJoinOfFour, lk
  <2>3. 7 + lk + 1 = 8 + lk /\ 7 + lk + 2 = 9 + lk
    BY <1>1
  <2>4. /\ \A k \in 1..lk : body[7 + k] = key[k]
        /\ \A k \in 1..lv : body[7 + lk + 2 + k] = val[k]
    BY <1>2, <1>5, <1>8, Zenon DEF IsJoinOfFour, lk, lv
  <2> QED
    BY <1>2, <1>10, <2>1, <2>2, <2>3, <2>4
<1>12. /\ e[1] = 9 + lk + lv /\ e[2] = 0
       /\ \A k \in 1..(9 + lk + lv) : e[2 + k] = body[k]
  <2>1. /\ \A k \in 1..2 : e[k] = Cells(9 + lk + lv)[k]
        /\ \A k \in 1..(9 + lk + lv) : e[2 + k] = body[k]
    BY <1>2, <1>7, <1>8, Zenon DEF IsJoin
  <2> QED
    BY <1>2, <2>1
<1>13. /\ e[3] = INSERT /\ e[8] = lk /\ e[9] = 0
       /\ \A k \in 1..lk : e[9 + k] = key[k]
       /\ e[10 + lk] = lv /\ e[11 + lk] = 0
       /\ \A k \in 1..lv : e[11 + lk + k] = val[k]
  <2>1. e[2 + 1] = body[1] /\ e[2 + 6] = body[6] /\ e[2 + 7] = body[7]
    BY <1>1, <1>12
  <2>2. e[2 + (8 + lk)] = body[8 + lk] /\ e[2 + (9 + lk)] = body[9 + lk]
    BY <1>1, <1>12
  <2>3. ASSUME NEW k \in 1..lk
        PROVE  e[9 + k] = key[k]
    <3>1. 7 + k \in 1..(9 + lk + lv) /\ 2 + (7 + k) = 9 + k
      BY <1>1
    <3>2. e[9 + k] = body[7 + k]
      BY <1>12, <3>1
    <3> QED
      BY <1>11, <3>2
  <2>4. ASSUME NEW k \in 1..lv
        PROVE  e[11 + lk + k] = val[k]
    <3>1. 9 + lk + k \in 1..(9 + lk + lv) /\ 2 + (9 + lk + k) = 11 + lk + k
      BY <1>1
    <3>2. e[11 + lk + k] = body[9 + lk + k]
      BY <1>12, <3>1
    <3> QED
      BY <1>11, <3>2
  <2>5. 2 + 1 = 3 /\ 2 + 6 = 8 /\ 2 + 7 = 9 /\ 2 + (8 + lk) = 10 + lk /\ 2 + (9 + lk) = 11 + lk
    BY <1>1
  <2> QED
    BY <1>11, <2>1, <2>2, <2>3, <2>4, <2>5
<1> QED
  BY <1>1, <1>5, <1>6, <1>7, <1>8, <1>9, <1>12, <1>13, Zenon DEF IsJoin, IsJoinOfFour, lk, lv, IsLayout

LEMMA Layout ==
  ASSUME NEW key \in KeyTexts, NEW val \in ValTexts, NEW top \in 15..(Base - 1),
         key \in Seq(0..top), val \in Seq(0..top)
  PROVE  Len(key) \in 0..3 /\ Len(val) \in 0..3 /\ IsLayout(0..top, key, val)
<1>1. Len(key) \in 0..3 /\ Len(val) \in 0..3
  <2>1. key \in Seq(0..(Base - 1)) /\ Len(key) < 4 /\ val \in Seq(0..(Base - 1)) /\ Len(val) < 4
    BY TornAssumption
  <2>2. Len(key) \in Nat /\ Len(val) \in Nat
    BY <2>1, LenProperties
  <2>3. \A n \in Nat : n < 4 => n \in 0..3
    OBVIOUS
  <2> QED
    BY <2>1, <2>2, <2>3, Zenon
<1>2. NumbersFit(0..top)
  <2>1. ASSUME NEW n \in 0..15
        PROVE  n \in 0..top /\ Cells(n) = <<n, 0>>
    BY TornAssumption DEF Cells
  <2>2. ASSUME NEW n \in 0..top
        PROVE  IsNumber(0..top, <<n, 0>>, n)
    BY DEF IsNumber
  <2> QED
    BY <2>1, <2>2, Zenon DEF NumbersFit
<1> QED
  BY <1>1, <1>2, LayoutOfCells, Zenon
-----------------------------------------------------------------------------
(* Types *)

Written == [at : Nat, key : KeyTexts, val : ValTexts, live : BOOLEAN]

Row == Seq(0..(Base - 1)) \X Seq(0..(Base - 1))

(* What the types of the variables are, and that the file is not longer than its bound. *)
TypeInv ==
  /\ file \in Seq(0..(Base - 1)) /\ Len(file) <= MaxCells
  /\ records \in Seq(Written)
  /\ \A i \in DOMAIN records : records[i].at \in 1..Len(file)
  /\ tears \in Seq(Nat)
  /\ \A i \in DOMAIN tears : tears[i] \in 1..Len(file)
  /\ \A e \in index : e[2] \in 1..Len(file)
  /\ indexed \in BOOLEAN
  /\ reader \in [kind : Kinds, at : Nat \ {0}, good : BOOLEAN]
  /\ answer \in Seq(Row)

(* No text has a cell with the highest value, as UTF-8 text has no byte 255. *)
NoTopCells == \A t \in KeyTexts \cup ValTexts : t \in Seq(0..(Base - 2))

LowCells == file \in Seq(0..(Base - 2))

LEMMA Bounds ==
  /\ Base \in Nat /\ Base > 16 /\ MaxCells \in Nat /\ MaxCells < Base /\ MaxTears \in Nat
  /\ Base - 1 \in 15..(Base - 1) /\ Base - 2 \in 15..(Base - 1)
BY TornAssumption

(* What a number of the file can be. *)
LEMMA NumberRange ==
  ASSUME NEW B \in Nat, NEW t \in 0..B, NEW a \in 0..t, NEW b \in 0..t
  PROVE  a + B * b \in 0..(t + B * t)
<1>1. B * b \in Nat /\ B * t \in Nat /\ B * (t - b) \in Nat
  OBVIOUS
<1>2. B * (t - b) = B * t - B * b
  OBVIOUS
<1> QED
  BY <1>1, <1>2

LEMMA ReadNumber ==
  ASSUME TypeInv, NEW at \in Nat \ {0}, Readable(at, NumberSize)
  PROVE  /\ NumberAt(at) \in Nat
         /\ LowCells => NumberAt(at) < Base * Base - Base
<1>1. at \in 1..Len(file) /\ at + 1 \in 1..Len(file)
  <2>1. Len(file) \in Nat
    BY LenProperties DEF TypeInv
  <2> QED
    BY <2>1 DEF Readable, NumberSize
<1>2. ASSUME NEW t \in 15..(Base - 1), file \in Seq(0..t)
      PROVE  NumberAt(at) \in 0..(t + Base * t)
  <2>1. file[at] \in 0..t /\ file[at + 1] \in 0..t
    BY <1>1, <1>2, ElementOfSeq
  <2> QED
    BY <2>1, Bounds, NumberRange DEF NumberAt
<1>3. NumberAt(at) \in Nat
  <2>1. NumberAt(at) \in 0..((Base - 1) + Base * (Base - 1))
    BY <1>2, Bounds DEF TypeInv
  <2> QED
    BY <2>1
<1>4. ASSUME LowCells
      PROVE  NumberAt(at) < Base * Base - Base
  <2>1. NumberAt(at) \in 0..((Base - 2) + Base * (Base - 2))
    BY <1>2, <1>4, Bounds DEF LowCells
  <2>2. Base * (Base - 2) = Base * Base - 2 * Base
    BY Bounds
  <2>3. Base * Base \in Nat
    BY Bounds
  <2> QED
    BY <2>1, <2>2, <2>3, Bounds
<1> QED
  BY <1>3, <1>4

ReaderType == [kind : Kinds, at : Nat \ {0}, good : BOOLEAN]

LEMMA Readers ==
  /\ Idle \in ReaderType /\ Idle.kind = "none" /\ Idle.at = 1 /\ Idle.good
  /\ Down \in ReaderType /\ Down.kind = "down" /\ Down.at = 1 /\ Down.good
  /\ \A kind \in Kinds :
       Scan(kind) \in ReaderType /\ Scan(kind).kind = kind /\ Scan(kind).at = 1 /\ Scan(kind).good
<1>1. Idle \in ReaderType /\ Idle.kind = "none" /\ Idle.at = 1 /\ Idle.good
  BY DEF Idle, ReaderType, Kinds
<1>2. ASSUME NEW kind \in Kinds
      PROVE  LET r == [Idle EXCEPT !.kind = kind]
             IN  r \in ReaderType /\ r.kind = kind /\ r.at = 1 /\ r.good
  BY <1>1 DEF ReaderType
<1> QED
  BY <1>1, <1>2 DEF Down, Scan, Kinds

LEMMA MoveKeepsType ==
  ASSUME reader \in ReaderType, NEW at \in Int, MoveTo(at)
  PROVE  reader' \in ReaderType /\ reader'.kind = reader.kind
<1>1. CASE at < 1
  <2>1. reader' = [reader EXCEPT !.good = FALSE]
    BY <1>1 DEF MoveTo
  <2> QED
    BY <2>1 DEF ReaderType
<1>2. CASE ~(at < 1)
  <2>1. reader' = [reader EXCEPT !.at = at] /\ at \in Nat \ {0}
    BY <1>2 DEF MoveTo
  <2> QED
    BY <2>1 DEF ReaderType
<1> QED
  BY <1>1, <1>2

LEMMA LandingType ==
  ASSUME NEW from \in Int, NEW distance \in Int
  PROVE  Landing(from, distance) \in Int
BY Bounds DEF Landing

(* Where the parts of the record at the get pointer are. *)
LEMMA Places ==
  ASSUME TypeInv
  PROVE  /\ reader.at \in Nat \ {0} /\ TypeAt = reader.at + 2 /\ KeyAt = reader.at + 7
         /\ Len(file) \in Nat
  <1>1. reader.at \in Nat \ {0}
    BY DEF TypeInv
  <1>2. Len(file) \in Nat
    BY LenProperties DEF TypeInv
  <1> QED
    BY <1>1, <1>2 DEF TypeAt, KeyAt, NumberSize, OffsetSize

(* A text of the file has cells of the file. *)
LEMMA ReadText ==
  ASSUME TypeInv, NEW at \in Nat \ {0}, HoldsText(at)
  PROVE  /\ NumberAt(at) \in Nat
         /\ TextAt(at + NumberSize, NumberAt(at)) \in Seq(0..(Base - 1))
         /\ BehindText(at) \in Nat \ {0} /\ BehindText(at) = at + 2 + NumberAt(at)
<1>1. Readable(at, NumberSize) /\ Readable(at + NumberSize, NumberAt(at))
  BY DEF HoldsText
<1>2. NumberAt(at) \in Nat
  BY <1>1, ReadNumber
<1>3. BehindText(at) \in Nat \ {0} /\ BehindText(at) = at + 2 + NumberAt(at)
  BY <1>2 DEF BehindText, NumberSize
<1>4. TextAt(at + NumberSize, NumberAt(at)) \in Seq(0..(Base - 1))
  <2> DEFINE first == at + NumberSize
             last == at + NumberSize + NumberAt(at) - 1
  <2>1. first \in Int /\ last \in Int /\ first >= 1 /\ last <= Len(file) /\ Len(file) \in Nat
    BY <1>1, <1>2, Places DEF Readable, NumberSize
  <2>2. \A i \in first..last : file[i] \in 0..(Base - 1)
    <3>1. \A i \in 1..Len(file) : file[i] \in 0..(Base - 1)
      BY ElementOfSeq DEF TypeInv
    <3> QED
      BY <2>1, <3>1
  <2> HIDE DEF first, last
  <2>3. SubSeq(file, first, last) \in Seq(0..(Base - 1))
    BY <2>1, <2>2, SubSeqProperties
  <2> QED
    BY <2>3 DEF first, last, TextAt
<1> QED
  BY <1>2, <1>3, <1>4

(* The file has more cells than before, and the cells it had. *)
LEMMA FileGrows ==
  ASSUME NEW C, NEW s \in Seq(C), NEW t \in Seq(C)
  PROVE  /\ s \o t \in Seq(C) /\ Len(s \o t) = Len(s) + Len(t)
         /\ \A k \in 1..Len(s) : (s \o t)[k] = s[k]
BY Joined DEF IsJoin

(* What INSERT writes, or the part of it that a crash leaves. *)
LEMMA InsertType ==
  ASSUME TypeInv, NEW key \in KeyTexts, NEW val \in ValTexts
  PROVE  /\ Encoded(key, val) \in Seq(0..(Base - 1))
         /\ Len(Encoded(key, val)) = 11 + Len(key) + Len(val)
         /\ Len(key) \in 0..3 /\ Len(val) \in 0..3
<1>1. key \in Seq(0..(Base - 1)) /\ val \in Seq(0..(Base - 1))
  BY TornAssumption
<1> QED
  BY <1>1, Layout, Bounds, Zenon DEF IsLayout

LEMMA CutType ==
  ASSUME NEW C, NEW s \in Seq(C), NEW n \in 1..(Len(s) - 1)
  PROVE  SubSeq(s, 1, n) \in Seq(C) /\ Len(SubSeq(s, 1, n)) = n
<1>1. Len(s) \in Nat
  BY LenProperties
<1>2. \A i \in 1..n : s[i] \in C
  <2>1. \A i \in 1..Len(s) : s[i] \in C
    BY ElementOfSeq
  <2> QED
    BY <1>1, <2>1
<1>3. n \in Int /\ 1 \in Int /\ 1 <= n /\ n - 1 + 1 = n
  BY <1>1
<1> QED
  BY <1>2, <1>3, SubSeqProperties

LEMMA TypeInit == TornInit => TypeInv
<1>1. Idle \in ReaderType
  BY DEF Idle, ReaderType, Kinds
<1>2. Len(<<>>) = 0 /\ 0 <= MaxCells
  BY Bounds
<1> QED
  BY <1>1, <1>2 DEF TornInit, TypeInv, ReaderType

(* A step of a scan that leaves the file and what was written. *)
LEMMA ScanType ==
  ASSUME TypeInv, reader' \in ReaderType, indexed' \in BOOLEAN, answer' \in Seq(Row),
         \A e \in index' : e[2] \in 1..Len(file), UNCHANGED <<file, records, tears>>
  PROVE  TypeInv'
BY DEF TypeInv, ReaderType

LEMMA AppendType ==
  ASSUME TypeInv, NEW key \in KeyTexts, NEW val \in ValTexts, AppendRecord(key, val)
  PROVE  TypeInv'
<1> DEFINE new == [at |-> Len(file) + NumberSize + 1, key |-> key, val |-> val, live |-> TRUE]
<1>1. Len(file) \in Nat
  BY Places
<1>2. /\ file' \in Seq(0..(Base - 1)) /\ Len(file') = Len(file) + Len(Encoded(key, val))
      /\ Len(Encoded(key, val)) \in Nat /\ Len(Encoded(key, val)) >= 11
  <2>1. file \in Seq(0..(Base - 1)) /\ file' = file \o Encoded(key, val)
    BY DEF TypeInv, AppendRecord
  <2>2. Encoded(key, val) \in Seq(0..(Base - 1))
    BY InsertType
  <2>3. Len(Encoded(key, val)) \in Nat /\ Len(Encoded(key, val)) >= 11
    <3>1. \A m, n \in 0..3 : 11 + m + n \in Nat /\ 11 + m + n >= 11
      OBVIOUS
    <3> QED
      BY <3>1, InsertType, Zenon
  <2> QED
    BY <2>1, <2>2, <2>3, FileGrows, Zenon
<1>3. Len(file') <= MaxCells
  BY <1>2 DEF AppendRecord
<1>4. Len(file) + NumberSize + 1 \in 1..Len(file') /\ Len(file) <= Len(file')
  BY <1>1, <1>2 DEF NumberSize
<1>5. new \in Written
  BY <1>1 DEF Written, NumberSize
<1>6. records' \in Seq(Written) /\ \A i \in DOMAIN records' : records'[i].at \in 1..Len(file')
  <2>1. records' = Append(records, new) /\ records \in Seq(Written)
    BY DEF AppendRecord, TypeInv
  <2>2. /\ records' \in Seq(Written) /\ Len(records') = Len(records) + 1 /\ Len(records) \in Nat
        /\ \A i \in 1..Len(records) : records'[i] = records[i]
        /\ records'[Len(records) + 1] = new
    BY <1>5, <2>1, AppendProperties, LenProperties
  <2>3. DOMAIN records' = 1..(Len(records) + 1) /\ DOMAIN records = 1..Len(records)
    BY <2>1, <2>2, LenProperties
  <2>4. \A i \in 1..Len(records) : records'[i].at \in 1..Len(file')
    <3>1. \A i \in 1..Len(records) : records[i].at \in 1..Len(file)
      BY <2>3 DEF TypeInv
    <3>2. \A n \in 1..Len(file) : n \in 1..Len(file')
      BY <1>1, <1>2
    <3> QED
      BY <2>2, <3>1, <3>2, Zenon
  <2>5. new.at \in 1..Len(file')
    BY <1>4
  <2> QED
    BY <2>2, <2>3, <2>4, <2>5
<1>7. \A e \in index' : e[2] \in 1..Len(file')
  <2>1. index' = index \cup {<<key, Len(file) + NumberSize + 1>>}
    BY DEF AppendRecord, TypeOffset
  <2>2. \A e \in index : e[2] \in 1..Len(file')
    BY <1>1, <1>2 DEF TypeInv
  <2> QED
    BY <1>4, <2>1, <2>2
<1>8. \A i \in DOMAIN tears : tears[i] \in 1..Len(file')
  BY <1>1, <1>2 DEF TypeInv
<1> QED
  BY <1>2, <1>3, <1>6, <1>7, <1>8 DEF TypeInv, AppendRecord

LEMMA TearType ==
  ASSUME TypeInv, NEW key \in KeyTexts, NEW val \in ValTexts,
         NEW n \in 1..(Len(Encoded(key, val)) - 1), TearRecord(key, val, n)
  PROVE  TypeInv'
<1>1. Len(file) \in Nat
  BY Places
<1>2. n \in Nat \ {0} /\ Len(Encoded(key, val)) \in Nat
  <2>1. Encoded(key, val) \in Seq(0..(Base - 1))
    BY InsertType
  <2>2. Len(Encoded(key, val)) \in Nat
    BY <2>1, LenProperties
  <2> QED
    BY <2>2
<1>3. file' \in Seq(0..(Base - 1)) /\ Len(file') = Len(file) + n
  <2>1. file \in Seq(0..(Base - 1)) /\ file' = file \o SubSeq(Encoded(key, val), 1, n)
    BY DEF TypeInv, TearRecord
  <2>2. Encoded(key, val) \in Seq(0..(Base - 1))
    BY InsertType
  <2>3. /\ SubSeq(Encoded(key, val), 1, n) \in Seq(0..(Base - 1))
        /\ Len(SubSeq(Encoded(key, val), 1, n)) = n
    BY <2>2, CutType
  <2> QED
    BY <2>1, <2>3, FileGrows, Zenon
<1>4. Len(file') <= MaxCells
  BY <1>3 DEF TearRecord
<1>5. tears' \in Seq(Nat) /\ \A i \in DOMAIN tears' : tears'[i] \in 1..Len(file')
  <2>1. tears' = Append(tears, Len(file) + 1) /\ tears \in Seq(Nat) /\ Len(file) + 1 \in Nat
    BY <1>1 DEF TearRecord, TypeInv
  <2>2. /\ tears' \in Seq(Nat) /\ Len(tears') = Len(tears) + 1 /\ Len(tears) \in Nat
        /\ \A i \in 1..Len(tears) : tears'[i] = tears[i]
        /\ tears'[Len(tears) + 1] = Len(file) + 1
    BY <2>1, AppendProperties, LenProperties
  <2>3. DOMAIN tears' = 1..(Len(tears) + 1) /\ DOMAIN tears = 1..Len(tears)
    BY <2>1, <2>2, LenProperties
  <2>4. \A i \in 1..Len(tears) : tears'[i] \in 1..Len(file')
    <3>1. \A i \in 1..Len(tears) : tears[i] \in 1..Len(file)
      BY <2>3 DEF TypeInv
    <3>2. \A m \in 1..Len(file) : m \in 1..Len(file')
      BY <1>1, <1>2, <1>3
    <3> QED
      BY <2>2, <3>1, <3>2, Zenon
  <2>5. Len(file) + 1 \in 1..Len(file')
    BY <1>1, <1>2, <1>3
  <2> QED
    BY <2>2, <2>3, <2>4, <2>5
<1>6. /\ \A i \in DOMAIN records : records[i].at \in 1..Len(file')
      /\ \A e \in index : e[2] \in 1..Len(file')
  BY <1>1, <1>2, <1>3 DEF TypeInv
<1>7. reader' \in ReaderType
  <2>1. Down \in ReaderType
    BY Readers
  <2> QED
    BY <2>1 DEF TearRecord
<1> QED
  BY <1>3, <1>4, <1>5, <1>6, <1>7 DEF TypeInv, TearRecord, ReaderType

(* DELETE writes one cell, and a record whose type is there counts as deleted. *)
LEMMA OverwriteType ==
  ASSUME TypeInv, NEW at \in 1..Len(file), file' = [file EXCEPT ![at] = DELETE],
         records' = Dead(at), UNCHANGED <<tears, indexed, answer>>,
         reader' \in ReaderType, index' \subseteq index
  PROVE  TypeInv'
<1>1. file' \in Seq(0..(Base - 1)) /\ Len(file') = Len(file)
  <2>1. DELETE \in 0..(Base - 1)
    BY Bounds DEF DELETE
  <2> QED
    BY <2>1, ExceptSeq DEF TypeInv
<1>2. /\ records' \in Seq(Written) /\ DOMAIN records' = DOMAIN records
      /\ \A i \in DOMAIN records : records'[i].at = records[i].at
  <2>1. records' = [i \in DOMAIN records |->
                      IF records[i].at = at THEN [records[i] EXCEPT !.live = FALSE] ELSE records[i]]
    BY DEF Dead
  <2>2. \A i \in DOMAIN records : records[i] \in Written
    BY DEF TypeInv
  <2>3. \A i \in DOMAIN records : records'[i] \in Written /\ records'[i].at = records[i].at
    BY <2>1, <2>2 DEF Written
  <2>4. DOMAIN records = 1..Len(records) /\ Len(records) \in Nat
    BY LenProperties DEF TypeInv
  <2>5. records' \in [1..Len(records) -> Written]
    BY <2>1, <2>3, <2>4
  <2> QED
    BY <2>1, <2>3, <2>4, <2>5
<1> QED
  BY <1>1, <1>2 DEF TypeInv, ReaderType

LEMMA TypeStep ==
  ASSUME TypeInv, [TornNext]_tornVars
  PROVE  TypeInv'
<1>1. /\ reader \in ReaderType /\ indexed \in BOOLEAN /\ answer \in Seq(Row)
      /\ \A e \in index : e[2] \in 1..Len(file)
  BY DEF TypeInv, ReaderType
<1>2. \A kind \in Kinds : Scan(kind) \in ReaderType
  BY Readers
<1>3. Idle \in ReaderType /\ Down \in ReaderType
  BY Readers
<1>4. \A at \in Int : MoveTo(at) => reader' \in ReaderType
  BY <1>1, MoveKeepsType
<1>5. [reader EXCEPT !.good = FALSE] \in ReaderType
  BY <1>1 DEF ReaderType
<1>6. ASSUME StreamFails
      PROVE  TypeInv'
  BY <1>1, <1>5, <1>6, ScanType DEF StreamFails
<1>7. ASSUME Throws
      PROVE  TypeInv'
  BY <1>1, <1>3, <1>7, ScanType DEF Throws
<1>8. ASSUME NEW key \in KeyTexts, NEW val \in ValTexts, AppendRecord(key, val)
      PROVE  TypeInv'
  BY <1>8, AppendType
<1>9. ASSUME NEW key \in KeyTexts, NEW val \in ValTexts,
             NEW n \in 1..(Len(Encoded(key, val)) - 1), TearRecord(key, val, n)
      PROVE  TypeInv'
  BY <1>9, TearType
<1>10. ASSUME NEW entry \in index, DeleteByIndexLookup(entry)
       PROVE  TypeInv'
  <2>1. /\ entry[2] \in 1..Len(file) /\ file' = [file EXCEPT ![entry[2]] = DELETE]
        /\ records' = Dead(entry[2]) /\ UNCHANGED <<tears, indexed, answer>> /\ reader' = reader
        /\ index' \subseteq index
    BY <1>1, <1>10 DEF DeleteByIndexLookup
  <2> QED
    BY <1>1, <2>1, OverwriteType
<1>11. ASSUME NEW kind \in {"rows", "delete"}, BeginScan(kind)
       PROVE  TypeInv'
  <2>1. Scan(kind) \in ReaderType
    BY <1>2 DEF Kinds
  <2> QED
    BY <1>1, <1>11, <2>1, ScanType DEF BeginScan
<1>12. CASE Stop
  BY <1>1, <1>3, <1>12, ScanType DEF Stop
<1>13. CASE Start
  <2>1. Scan("init") \in ReaderType
    BY <1>2 DEF Kinds
  <2> QED
    BY <1>13, <2>1, ScanType DEF Start
<1>14. CASE TypeMissing
  BY <1>6, <1>14 DEF TypeMissing
<1>15. CASE SkipTombstone
  <2>1. NumberAt(reader.at) \in Nat
    BY <1>15, Places, ReadNumber DEF SkipTombstone, AtRecord
  <2>2. Landing(TypeAt + 1, NumberAt(reader.at) - 1) \in Int
    <3>1. TypeAt \in Int /\ TypeAt + 1 \in Int /\ NumberAt(reader.at) - 1 \in Int
      BY <2>1, Places
    <3> QED
      BY <2>1, <3>1, LandingType
  <2> QED
    BY <1>1, <1>4, <1>15, <2>2, ScanType DEF SkipTombstone
<1>16. CASE ReadKey
  <2>1. NumberAt(reader.at) \in Nat
    BY <1>16, Places, ReadNumber DEF ReadKey, AtLive, AtRecord
  <2>2. KeyAt \in Nat \ {0} /\ HoldsText(KeyAt)
    BY <1>16, Places DEF ReadKey
  <2>3. BehindText(KeyAt) \in Nat
    BY <2>2, ReadText
  <2>4. Landing(BehindText(KeyAt), NumberAt(reader.at) - (BehindText(KeyAt) - TypeAt)) \in Int
    <3>1. NumberAt(reader.at) - (BehindText(KeyAt) - TypeAt) \in Int
      BY <2>1, <2>3, Places
    <3> QED
      BY <2>3, <3>1, LandingType
  <2>5. TypeAt \in 1..Len(file)
    BY <1>16, Places DEF ReadKey, AtLive, Readable
  <2>6. \A e \in index' : e[2] \in 1..Len(file)
    <3>1. PICK key : index' = index \/ index' = index \cup {<<key, TypeAt>>}
      BY <1>16 DEF ReadKey
    <3> QED
      BY <1>1, <2>5, <3>1
  <2> QED
    BY <1>1, <1>4, <1>16, <2>4, <2>6, ScanType DEF ReadKey
<1>17. CASE KeyUnreadable
  BY <1>6, <1>7, <1>17 DEF KeyUnreadable
<1>18. CASE ReadRow
  <2> DEFINE valAt == BehindText(KeyAt)
             row == <<TextAt(KeyAt + NumberSize, NumberAt(KeyAt)),
                      TextAt(valAt + NumberSize, NumberAt(valAt))>>
  <2>1. /\ HoldsText(KeyAt) /\ HoldsText(valAt)
        /\ answer' = Append(answer, row) /\ MoveTo(RowEnd(valAt))
        /\ UNCHANGED <<file, records, tears, index, indexed>>
    BY <1>18 DEF ReadRow
  <2>2. /\ valAt \in Nat \ {0}
        /\ TextAt(KeyAt + NumberSize, NumberAt(KeyAt)) \in Seq(0..(Base - 1))
    BY <2>1, Places, ReadText
  <2>3. /\ RowEnd(valAt) \in Int
        /\ TextAt(valAt + NumberSize, NumberAt(valAt)) \in Seq(0..(Base - 1))
    BY <2>1, <2>2, ReadText DEF RowEnd
  <2>4. row \in Row
    BY <2>2, <2>3 DEF Row
  <2> HIDE DEF valAt, row
  <2>5. answer' \in Seq(Row)
    BY <1>1, <2>1, <2>4, AppendProperties
  <2> QED
    BY <1>1, <1>4, <2>1, <2>3, <2>5, ScanType
<1>19. CASE RowUnreadable
  BY <1>6, <1>7, <1>19 DEF RowUnreadable
<1>20. CASE DeleteRecord
  <2>1. NumberAt(reader.at) \in Nat
    BY <1>20, Places, ReadNumber DEF DeleteRecord, AtLive, AtRecord
  <2>2. Landing(TypeAt, NumberAt(reader.at)) \in Int
    <3>1. TypeAt \in Int /\ TypeAt + 1 \in Int /\ NumberAt(reader.at) - 1 \in Int
      BY <2>1, Places
    <3> QED
      BY <2>1, <3>1, LandingType
  <2>3. TypeAt \in 1..Len(file)
    BY <1>20, Places DEF DeleteRecord, AtLive, Readable
  <2>4. reader' \in ReaderType
    BY <1>4, <1>20, <2>2 DEF DeleteRecord
  <2> QED
    BY <1>20, <2>3, <2>4, OverwriteType DEF DeleteRecord
<1>21. CASE EndScan
  <2>1. Scan("keys") \in ReaderType
    BY <1>2 DEF Kinds
  <2>2. reader' \in ReaderType /\ indexed' \in BOOLEAN /\ \A e \in index' : e[2] \in 1..Len(file)
    BY <1>1, <1>3, <1>21, <2>1 DEF EndScan
  <2> QED
    BY <1>1, <1>21, <2>2, ScanType DEF EndScan
<1>22. CASE UNCHANGED tornVars
  BY <1>22 DEF tornVars, TypeInv
<1> QED
  BY <1>8, <1>9, <1>10, <1>11, <1>12, <1>13, <1>14, <1>15, <1>16, <1>17, <1>18, <1>19, <1>20,
     <1>21, <1>22
  DEF TornNext, ScanStep

LEMMA TypeInvariant == TornSpec => []TypeInv
<1>1. TypeInv /\ [TornNext]_tornVars => TypeInv'
  BY TypeStep
<1> QED
  BY <1>1, TypeInit, PTL DEF TornSpec

(* Whatever a crash leaves of a record, the get pointer stays in front of nothing, and what the *)
(* index names is a cell of the file.                                                           *)
THEOREM TornTypeCorrect == TornSpec => []TornTypeOK
<1>1. TypeInv => TornTypeOK
  <2>1. ASSUME TypeInv
        PROVE  /\ DOMAIN file = 1..Len(file)
               /\ \A i \in DOMAIN records : records[i].live \in BOOLEAN
    <3>1. \A i \in DOMAIN records : records[i] \in Written
      BY <2>1 DEF TypeInv
    <3> QED
      BY <2>1, <3>1, LenProperties DEF TypeInv, Written
  <2> QED
    BY <2>1 DEF TypeInv, TornTypeOK
<1> QED
  BY <1>1, TypeInvariant, PTL
-----------------------------------------------------------------------------
(* In front of the first cut record *)

Begin(i) == records[i].at - NumberSize
CellsOf(i) == Encoded(records[i].key, records[i].val)
Behind(i) == Begin(i) + Len(CellsOf(i))
TypeOf(i) == IF records[i].live THEN INSERT ELSE DELETE

(* Where the records end that no crash has cut, and where one of them begins or they end. *)
FrontEnd == IF tears = <<>> THEN Len(file) + 1 ELSE Head(tears)
Boundaries == {Begin(i) : i \in Undisturbed} \cup {FrontEnd}

(* The cells of a record are those it was written with; its type says whether it is deleted. *)
CellsInFile(i, cells, type) ==
  \A k \in 1..Len(cells) : file[Begin(i) + k - 1] = IF k = NumberSize + 1 THEN type ELSE cells[k]

Whole(i) == CellsInFile(i, CellsOf(i), TypeOf(i))

(* The records in front of the first cut one follow each other without a gap. *)
FrontInv ==
  /\ \A i \in Undisturbed :
       Begin(i) >= 1 /\ Behind(i) <= FrontEnd /\ Behind(i) \in Boundaries /\ Whole(i)
  /\ \A i, j \in Undisturbed : i < j => Behind(i) <= Begin(j)
  /\ 1 \in Boundaries

LEMMA FrontPlace ==
  ASSUME TypeInv
  PROVE  /\ FrontEnd \in 1..(Len(file) + 1) /\ Len(file) \in Nat
         /\ \A n \in 1..Len(file) : InFront(n) <=> n < FrontEnd
<1>1. Len(file) \in Nat
  BY Places
<1>2. CASE tears = <<>>
  BY <1>1, <1>2 DEF FrontEnd, InFront
<1>3. CASE tears # <<>>
  <2>1. Head(tears) = tears[1] /\ 1 \in DOMAIN tears
    <3>1. Len(tears) \in Nat \ {0} /\ DOMAIN tears = 1..Len(tears)
      BY <1>3, EmptySeq, LenProperties DEF TypeInv
    <3>2. Head(tears) = tears[1]
      BY <1>3 DEF TypeInv
    <3> QED
      BY <3>1, <3>2
  <2>2. tears[1] \in 1..Len(file)
    BY <2>1 DEF TypeInv
  <2> QED
    BY <1>1, <1>3, <2>1, <2>2 DEF FrontEnd, InFront
<1> QED
  BY <1>1, <1>2, <1>3

(* A record that was written, and the place of its type. *)
LEMMA WrittenRecord ==
  ASSUME TypeInv, NEW i \in DOMAIN records
  PROVE  /\ records[i] \in Written /\ records[i].at \in 1..Len(file) /\ i \in Nat
         /\ records[i].key \in KeyTexts /\ records[i].val \in ValTexts /\ records[i].live \in BOOLEAN
         /\ Begin(i) \in Int /\ records[i].at = Begin(i) + 2
         /\ Len(records[i].key) \in 0..3 /\ Len(records[i].val) \in 0..3
         /\ Len(CellsOf(i)) = 11 + Len(records[i].key) + Len(records[i].val)
         /\ Behind(i) = Begin(i) + 11 + Len(records[i].key) + Len(records[i].val)
<1>1. /\ records[i] \in Written /\ records[i].at \in 1..Len(file) /\ i \in Nat
  BY LenProperties DEF TypeInv
<1>2. records[i].key \in KeyTexts /\ records[i].val \in ValTexts /\ records[i].live \in BOOLEAN
  BY <1>1 DEF Written
<1>3. Begin(i) \in Int /\ records[i].at = Begin(i) + 2
  BY <1>1, FrontPlace DEF Begin, NumberSize
<1>4. /\ Len(records[i].key) \in 0..3 /\ Len(records[i].val) \in 0..3
      /\ Len(CellsOf(i)) = 11 + Len(records[i].key) + Len(records[i].val)
  BY <1>2, InsertType DEF CellsOf
<1>5. Behind(i) = Begin(i) + 11 + Len(records[i].key) + Len(records[i].val)
  <2>1. \A b \in Int, m, n \in 0..3 : b + (11 + m + n) = b + 11 + m + n
    OBVIOUS
  <2> QED
    BY <1>3, <1>4, <2>1, Zenon DEF Behind
<1> QED
  BY <1>1, <1>2, <1>3, <1>4, <1>5

LEMMA UndisturbedRecord ==
  ASSUME TypeInv, FrontInv, NEW i \in Undisturbed
  PROVE  /\ i \in DOMAIN records /\ Begin(i) \in Nat \ {0} /\ Behind(i) \in Nat
         /\ Begin(i) + 11 <= Behind(i) /\ Behind(i) <= FrontEnd
         /\ Behind(i) - 1 <= Len(file)
<1>1. i \in DOMAIN records /\ Begin(i) >= 1 /\ Behind(i) <= FrontEnd
  BY DEF Undisturbed, FrontInv
<1>2. \A b \in Int, m, n \in 0..3 : b + 11 <= b + 11 + m + n /\ b + 11 + m + n \in Int
  OBVIOUS
<1>3. Begin(i) + 11 <= Behind(i) /\ Behind(i) \in Int /\ Begin(i) \in Int
  BY <1>1, <1>2, WrittenRecord, Zenon
<1> QED
  BY <1>1, <1>3, FrontPlace

(* What a scan reads of such a record. *)
ReadsAs(b, key, val, type) ==
  /\ NumberAt(b) = 9 + Len(key) + Len(val) /\ file[b + 2] = type
  /\ NumberAt(b + 7) = Len(key) /\ TextAt(b + 9, Len(key)) = key
  /\ NumberAt(b + 9 + Len(key)) = Len(val) /\ TextAt(b + 11 + Len(key), Len(val)) = val

LEMMA TextInFile ==
  ASSUME NEW C, NEW t \in Seq(C), NEW at \in Nat,
         \A k \in 1..Len(t) : file[at + k - 1] = t[k]
  PROVE  TextAt(at, Len(t)) = t
<1> DEFINE last == at + Len(t) - 1
<1>1. Len(t) \in Nat /\ DOMAIN t = 1..Len(t)
  BY LenProperties
<1>2. last \in Int /\ at \in Int /\ last - at + 1 = Len(t)
  BY <1>1
<1>3. \A i \in at..last : file[i] \in C
  <2>1. ASSUME NEW i \in at..last
        PROVE  file[i] \in C
    <3>1. i - at + 1 \in 1..Len(t) /\ at + (i - at + 1) - 1 = i
      BY <1>1, <2>1
    <3>2. file[at + (i - at + 1) - 1] = t[i - at + 1]
      BY <3>1, Zenon
    <3>3. t[i - at + 1] \in C
      BY <3>1, ElementOfSeq
    <3> QED
      BY <3>1, <3>2, <3>3
  <2> QED
    BY <2>1
<1>4. /\ SubSeq(file, at, last) \in Seq(C)
      /\ Len(SubSeq(file, at, last)) = IF at <= last THEN last - at + 1 ELSE 0
      /\ \A i \in 1..(last - at + 1) : SubSeq(file, at, last)[i] = file[at + i - 1]
  <2> HIDE DEF last
  <2> QED
    BY <1>2, <1>3, SubSeqProperties
<1> DEFINE s == SubSeq(file, at, last)
<1>5. s \in Seq(C) /\ Len(s) = Len(t) /\ \A i \in 1..Len(s) : s[i] = t[i]
  <2>1. Len(s) = Len(t)
    BY <1>1, <1>2, <1>4
  <2>2. \A i \in 1..Len(t) : s[i] = file[at + i - 1]
    BY <1>2, <1>4, Zenon
  <2> HIDE DEF s
  <2> QED
    BY <1>4, <2>1, <2>2, Zenon DEF s
<1> HIDE DEF s
<1>6. s = t
  BY <1>5, SeqEqual
<1> QED
  BY <1>6 DEF s, TextAt

LEMMA LayoutRead ==
  ASSUME NEW key \in KeyTexts, NEW val \in ValTexts, NEW b \in Nat \ {0}, NEW type,
         \A k \in 1..Len(Encoded(key, val)) :
           file[b + k - 1] = IF k = NumberSize + 1 THEN type ELSE Encoded(key, val)[k]
  PROVE  ReadsAs(b, key, val, type)
<1> DEFINE e == Encoded(key, val)
           lk == Len(key)
           lv == Len(val)
           C == 0..(Base - 1)
<1>1. key \in Seq(C) /\ val \in Seq(C)
  BY TornAssumption
<1>2. lk \in 0..3 /\ lv \in 0..3 /\ IsLayout(C, key, val)
  BY <1>1, Layout, Bounds, Zenon
<1>3. /\ Len(e) = 11 + lk + lv
      /\ e[1] = 9 + lk + lv /\ e[2] = 0
      /\ e[8] = lk /\ e[9] = 0 /\ \A k \in 1..lk : e[9 + k] = key[k]
      /\ e[10 + lk] = lv /\ e[11 + lk] = 0 /\ \A k \in 1..lv : e[11 + lk + k] = val[k]
  BY <1>2, Zenon DEF IsLayout
<1>4. \A k \in 1..Len(e) : file[b + k - 1] = IF k = 3 THEN type ELSE e[k]
  <2>1. NumberSize + 1 = 3
    BY DEF NumberSize
  <2> QED
    BY <2>1, Zenon
<1> HIDE DEF e, lk, lv, C
<1>5. \A k \in 1..(11 + lk + lv) : file[b + k - 1] = IF k = 3 THEN type ELSE e[k]
  BY <1>3, <1>4, Zenon
<1>6. \A n \in Nat : Base * 0 + n = n /\ n + Base * 0 = n
  BY Bounds
<1>7. NumberAt(b) = 9 + lk + lv /\ file[b + 2] = type
  <2>1. /\ 1 \in 1..(11 + lk + lv) /\ 2 \in 1..(11 + lk + lv) /\ 3 \in 1..(11 + lk + lv)
        /\ b + 1 - 1 = b /\ b + 2 - 1 = b + 1 /\ b + 3 - 1 = b + 2 /\ 9 + lk + lv \in Nat
    BY <1>2
  <2>2. file[b] = 9 + lk + lv /\ file[b + 1] = 0 /\ file[b + 2] = type
    <3>1. file[b + 1 - 1] = e[1] /\ file[b + 2 - 1] = e[2] /\ file[b + 3 - 1] = type
      BY <1>5, <2>1
    <3> QED
      BY <1>3, <2>1, <3>1, Zenon
  <2>3. 9 + lk + lv + Base * 0 = 9 + lk + lv
    BY <1>6, <2>1
  <2> QED
    BY <2>2, <2>3, Zenon DEF NumberAt
<1>8. NumberAt(b + 7) = lk
  <2>1. /\ 8 \in 1..(11 + lk + lv) /\ 9 \in 1..(11 + lk + lv)
        /\ b + 8 - 1 = b + 7 /\ b + 9 - 1 = b + 7 + 1 /\ lk \in Nat
    BY <1>2
  <2>2. file[b + 7] = lk /\ file[b + 7 + 1] = 0
    <3>1. file[b + 8 - 1] = e[8] /\ file[b + 9 - 1] = e[9]
      BY <1>5, <2>1
    <3> QED
      BY <1>3, <2>1, <3>1, Zenon
  <2> QED
    BY <1>6, <2>1, <2>2 DEF NumberAt
<1>9. NumberAt(b + 9 + lk) = lv
  <2>1. /\ 10 + lk \in 1..(11 + lk + lv) /\ 11 + lk \in 1..(11 + lk + lv)
        /\ 10 + lk # 3 /\ 11 + lk # 3 /\ b + (10 + lk) - 1 = b + 9 + lk
        /\ b + (11 + lk) - 1 = b + 9 + lk + 1 /\ lv \in Nat
    BY <1>2
  <2>2. file[b + 9 + lk] = lv /\ file[b + 9 + lk + 1] = 0
    <3>1. file[b + (10 + lk) - 1] = e[10 + lk] /\ file[b + (11 + lk) - 1] = e[11 + lk]
      BY <1>5, <2>1
    <3> QED
      BY <1>3, <2>1, <3>1, Zenon
  <2> QED
    BY <1>6, <2>1, <2>2 DEF NumberAt
<1>10. TextAt(b + 9, lk) = key
  <2>1. ASSUME NEW k \in 1..lk
        PROVE  file[(b + 9) + k - 1] = key[k]
    <3>1. 9 + k \in 1..(11 + lk + lv) /\ 9 + k # 3 /\ b + (9 + k) - 1 = (b + 9) + k - 1
      BY <1>2
    <3> QED
      BY <1>3, <1>5, <3>1
  <2>2. b + 9 \in Nat
    OBVIOUS
  <2> QED
    BY <1>1, <2>1, <2>2, TextInFile DEF lk
<1>11. TextAt(b + 11 + lk, lv) = val
  <2>1. ASSUME NEW k \in 1..lv
        PROVE  file[(b + 11 + lk) + k - 1] = val[k]
    <3>1. /\ 11 + lk + k \in 1..(11 + lk + lv) /\ 11 + lk + k # 3
          /\ b + (11 + lk + k) - 1 = (b + 11 + lk) + k - 1
      BY <1>2
    <3> QED
      BY <1>3, <1>5, <3>1
  <2>2. b + 11 + lk \in Nat
    BY <1>2
  <2> QED
    BY <1>1, <2>1, <2>2, TextInFile DEF lv
<1> QED
  BY <1>7, <1>8, <1>9, <1>10, <1>11 DEF ReadsAs, lk, lv

LEMMA FrontRead ==
  ASSUME TypeInv, FrontInv, NEW i \in Undisturbed
  PROVE  ReadsAs(Begin(i), records[i].key, records[i].val, TypeOf(i))
<1>1. Begin(i) \in Nat \ {0} /\ i \in DOMAIN records
  BY UndisturbedRecord
<1>2. records[i].key \in KeyTexts /\ records[i].val \in ValTexts
  BY <1>1, WrittenRecord
<1>3. Whole(i)
  BY DEF FrontInv
<1> QED
  BY <1>1, <1>2, <1>3, LayoutRead, Zenon DEF Whole, CellsInFile, CellsOf

LEMMA BaseSquare == Base * Base \in Nat /\ Base * Base > 30
<1>1. Base * Base \in Nat /\ Base * (Base - 17) \in Nat /\ Base * (Base - 17) = Base * Base - 17 * Base
  BY Bounds
<1> QED
  BY <1>1, Bounds

(* A seek within a record that is whole goes where it should. *)
LEMMA SmallLanding ==
  ASSUME NEW from \in Int, NEW distance \in 0..15
  PROVE  Landing(from, distance) = from + distance
BY BaseSquare DEF Landing

(* Any other seek of a scan goes on from the type of the record, or fails: the distance that *)
(* would lead back needs an upper cell that no text has.                                     *)
LEMMA AnyLanding ==
  ASSUME TypeInv, NEW from \in Int, NEW x \in Int, NEW n \in Nat,
         n < Base * Base - Base, from - x \in 1..Len(file)
  PROVE  Landing(from, n - x) < 1 \/ Landing(from, n - x) >= from - x
<1>1. from - x <= MaxCells /\ MaxCells < Base /\ MaxCells \in Nat
  BY Bounds, Places DEF TypeInv
<1>2. Base * Base \in Nat
  BY BaseSquare
<1>3. CASE 2 * (n - x) >= Base * Base
  <2>1. Landing(from, n - x) = from + (n - x - Base * Base)
    BY <1>3 DEF Landing
  <2> QED
    BY <1>1, <1>2, <2>1, Bounds
<1>4. CASE ~(2 * (n - x) >= Base * Base)
  BY <1>4 DEF Landing
<1> QED
  BY <1>3, <1>4

(* What a scan finds at a record in front of the first cut one, and where it goes on. *)
FindsRecord(i) ==
  LET valAt == BehindText(KeyAt)
  IN  /\ Readable(reader.at, NumberSize) /\ Readable(TypeAt, 1)
      /\ TypeAt = records[i].at /\ file[TypeAt] = TypeOf(i)
      /\ HoldsText(KeyAt) /\ TextAt(KeyAt + NumberSize, NumberAt(KeyAt)) = records[i].key
      /\ HoldsText(valAt) /\ TextAt(valAt + NumberSize, NumberAt(valAt)) = records[i].val
      /\ RowEnd(valAt) = Behind(i)
      /\ Landing(TypeAt + 1, NumberAt(reader.at) - 1) = Behind(i)
      /\ Landing(valAt, NumberAt(reader.at) - (valAt - TypeAt)) = Behind(i)
      /\ Landing(TypeAt, NumberAt(reader.at)) = Behind(i)

LEMMA FrontScan ==
  ASSUME TypeInv, FrontInv, NEW i \in Undisturbed, reader.at = Begin(i), reader.good
  PROVE  FindsRecord(i)
<1> DEFINE b == reader.at
           lk == Len(records[i].key)
           lv == Len(records[i].val)
           valAt == BehindText(KeyAt)
<1>1. /\ b \in Nat \ {0} /\ TypeAt = b + 2 /\ KeyAt = b + 7 /\ Len(file) \in Nat
      /\ i \in DOMAIN records /\ reader.at = b
  BY Places, UndisturbedRecord
<1>2. lk \in 0..3 /\ lv \in 0..3 /\ Behind(i) = b + 11 + lk + lv /\ records[i].at = b + 2
  BY <1>1, WrittenRecord
<1> HIDE DEF b, lk, lv
<1>3. b + 10 + lk + lv <= Len(file)
  <2>1. Behind(i) - 1 <= Len(file)
    BY UndisturbedRecord
  <2> QED
    BY <1>1, <1>2, <2>1
<1>4. /\ NumberAt(b) = 9 + lk + lv /\ file[b + 2] = TypeOf(i)
      /\ NumberAt(b + 7) = lk /\ TextAt(b + 9, lk) = records[i].key
      /\ NumberAt(b + 9 + lk) = lv /\ TextAt(b + 11 + lk, lv) = records[i].val
  BY FrontRead, Zenon DEF ReadsAs, b, lk, lv
<1>5. valAt = b + 9 + lk /\ KeyAt + NumberSize = b + 9 /\ valAt + NumberSize = b + 11 + lk
  BY <1>1, <1>2, <1>4 DEF BehindText, NumberSize
<1>6. Readable(reader.at, NumberSize) /\ Readable(TypeAt, 1)
  BY <1>1, <1>2, <1>3 DEF Readable, NumberSize
<1>7. HoldsText(KeyAt) /\ HoldsText(valAt)
  <2>1. NumberAt(KeyAt) = lk /\ NumberAt(valAt) = lv
    BY <1>1, <1>4, <1>5, Zenon
  <2>2. ~Huge(lk) /\ ~Huge(lv)
    BY <1>2, Bounds DEF Huge
  <2> HIDE DEF valAt
  <2>3. /\ Readable(KeyAt, NumberSize) /\ Readable(KeyAt + NumberSize, lk)
        /\ Readable(valAt, NumberSize) /\ Readable(valAt + NumberSize, lv)
    <3>1. b \in Nat /\ lk \in 0..3 /\ lv \in 0..3 /\ Len(file) \in Nat
      BY <1>1, <1>2
    <3>2. /\ b + 7 + 2 - 1 <= Len(file) /\ b + 9 + lk - 1 <= Len(file)
          /\ b + 9 + lk + 2 - 1 <= Len(file) /\ b + 11 + lk + lv - 1 <= Len(file)
      BY <1>3, <3>1
    <3> QED
      BY <1>1, <1>5, <3>2, Zenon DEF Readable, NumberSize
  <2> QED
    BY <2>1, <2>2, <2>3 DEF HoldsText
<1>8. RowEnd(valAt) = Behind(i)
  <2>1. RowEnd(valAt) = valAt + NumberSize + lv
    BY <1>4, <1>5, Zenon DEF RowEnd, BehindText
  <2> QED
    BY <1>1, <1>2, <1>5, <2>1
<1>9. /\ Landing(TypeAt + 1, NumberAt(reader.at) - 1) = Behind(i)
      /\ Landing(valAt, NumberAt(reader.at) - (valAt - TypeAt)) = Behind(i)
      /\ Landing(TypeAt, NumberAt(reader.at)) = Behind(i)
  <2> HIDE DEF valAt
  <2>1. /\ b + 2 + 1 \in Int /\ 9 + lk + lv - 1 \in 0..15
        /\ b + 2 + 1 + (9 + lk + lv - 1) = b + 11 + lk + lv
        /\ b + 9 + lk \in Int /\ 9 + lk + lv - (b + 9 + lk - (b + 2)) \in 0..15
        /\ b + 9 + lk + (9 + lk + lv - (b + 9 + lk - (b + 2))) = b + 11 + lk + lv
        /\ b + 2 \in Int /\ 9 + lk + lv \in 0..15
        /\ b + 2 + (9 + lk + lv) = b + 11 + lk + lv
    <3>1. b \in Nat /\ lk \in 0..3 /\ lv \in 0..3
      BY <1>1, <1>2
    <3> QED
      BY <3>1
  <2>2. /\ Landing(b + 2 + 1, 9 + lk + lv - 1) = b + 11 + lk + lv
        /\ Landing(b + 9 + lk, 9 + lk + lv - (b + 9 + lk - (b + 2))) = b + 11 + lk + lv
        /\ Landing(b + 2, 9 + lk + lv) = b + 11 + lk + lv
    BY <2>1, SmallLanding, Zenon
  <2>3. /\ reader.at = b /\ TypeAt = b + 2 /\ valAt = b + 9 + lk
        /\ NumberAt(b) = 9 + lk + lv /\ Behind(i) = b + 11 + lk + lv
    BY <1>1, <1>2, <1>4, <1>5
  <2>4. /\ b \in Nat /\ lk \in 0..3 /\ lv \in 0..3
    BY <1>1, <1>2
  <2>5. /\ NumberAt(b) - 1 = 9 + lk + lv - 1
        /\ NumberAt(b) - (valAt - TypeAt) = 9 + lk + lv - (b + 9 + lk - (b + 2))
        /\ TypeAt + 1 = b + 2 + 1
    BY <2>3, <2>4
  <2>6. Landing(TypeAt + 1, NumberAt(b) - 1) = Behind(i)
    BY <2>2, <2>3, <2>5, Zenon
  <2>7. Landing(valAt, NumberAt(b) - (valAt - TypeAt)) = Behind(i)
    BY <2>2, <2>3, <2>5, Zenon
  <2>8. Landing(TypeAt, NumberAt(b)) = Behind(i)
    BY <2>2, <2>3, Zenon
  <2> QED
    BY <2>3, <2>6, <2>7, <2>8, Zenon
<1>10. /\ TextAt(KeyAt + NumberSize, NumberAt(KeyAt)) = records[i].key
       /\ TextAt(valAt + NumberSize, NumberAt(valAt)) = records[i].val
  BY <1>1, <1>4, <1>5, Zenon
<1> QED
  BY <1>1, <1>2, <1>4, <1>6, <1>7, <1>8, <1>9, <1>10, Zenon DEF FindsRecord

(* A scan in front of the first cut record is at a record, whose end its next read needs; *)
(* behind it only a file with a cut record has more.                                      *)
ReaderInv ==
  Scanning => /\ reader.at < FrontEnd => reader.at \in Boundaries /\ reader.good
              /\ tears = <<>> => reader.at <= FrontEnd

(* How a step of a scan may move on: over a record, or from behind the first cut. *)
MovesOn ==
  /\ reader'.kind = reader.kind
  /\ \/ \E i \in Undisturbed :
          reader.at = Begin(i) /\ reader'.at = Behind(i) /\ reader'.good = reader.good
     \/ tears # <<>> /\ reader.at >= FrontEnd /\ reader'.at >= FrontEnd

LEMMA AtRecordInFront ==
  ASSUME TypeInv, FrontInv, ReaderInv, Scanning, reader.at < FrontEnd
  PROVE  \E i \in Undisturbed : reader.at = Begin(i) /\ FindsRecord(i)
<1>1. reader.at \in Boundaries /\ reader.at # FrontEnd /\ reader.good
  BY FrontPlace, Places DEF ReaderInv
<1>2. PICK i \in Undisturbed : reader.at = Begin(i)
  BY <1>1 DEF Boundaries
<1> QED
  BY <1>1, <1>2, FrontScan

LEMMA BehindFront ==
  ASSUME TypeInv, ReaderInv, AtRecord, reader.at >= FrontEnd
  PROVE  tears # <<>>
<1>1. reader.at + 1 <= Len(file)
  BY Places DEF AtRecord, Readable, NumberSize
<1> QED
  BY <1>1, Places DEF FrontEnd

LEMMA SeekOver ==
  ASSUME TypeInv, FrontInv, ReaderInv, AtRecord, NEW at \in Int, MoveTo(at),
         \A i \in Undisturbed : reader.at = Begin(i) /\ FindsRecord(i) => at = Behind(i),
         at < 1 \/ at >= reader.at
  PROVE  MovesOn
<1>1. reader \in ReaderType /\ FrontEnd \in Nat
  BY FrontPlace DEF TypeInv, ReaderType
<1>2. reader.at \in Nat
  BY <1>1 DEF ReaderType
<1>3. CASE reader.at < FrontEnd
  <2>1. PICK i \in Undisturbed : reader.at = Begin(i) /\ FindsRecord(i)
    BY <1>3, AtRecordInFront DEF AtRecord
  <2>2. at = Behind(i) /\ ~(at < 1)
    BY <2>1, UndisturbedRecord
  <2>3. reader' = [reader EXCEPT !.at = at]
    BY <2>2 DEF MoveTo
  <2>4. reader'.kind = reader.kind /\ reader'.at = Behind(i) /\ reader'.good = reader.good
    BY <1>1, <2>2, <2>3 DEF ReaderType
  <2> QED
    BY <2>1, <2>4 DEF MovesOn
<1>4. CASE ~(reader.at < FrontEnd)
  <2>1. tears # <<>> /\ reader.at >= FrontEnd
    BY <1>1, <1>2, <1>4, BehindFront
  <2>2. reader'.kind = reader.kind
    BY <1>1, MoveKeepsType
  <2>3. reader'.at = reader.at \/ (reader'.at = at /\ ~(at < 1))
    BY <1>1 DEF MoveTo, ReaderType
  <2> QED
    BY <1>1, <1>2, <2>1, <2>2, <2>3 DEF MovesOn
<1> QED
  BY <1>3, <1>4

(* If no text has a top cell, the file has none. *)
LEMMA LowStep ==
  ASSUME NoTopCells, TypeInv, LowCells, [TornNext]_tornVars
  PROVE  LowCells'
<1> DEFINE C == 0..(Base - 2)
<1>1. file \in Seq(C) /\ DELETE \in C
  BY Bounds DEF LowCells, DELETE
<1>2. \A key \in KeyTexts, val \in ValTexts : Encoded(key, val) \in Seq(C)
  <2>1. ASSUME NEW key \in KeyTexts, NEW val \in ValTexts
        PROVE  Encoded(key, val) \in Seq(C)
    <3>1. key \in Seq(C) /\ val \in Seq(C)
      BY DEF NoTopCells
    <3> QED
      BY <3>1, Layout, Bounds, Zenon DEF IsLayout
  <2> QED
    BY <2>1
<1> HIDE DEF C
<1>3. ASSUME NEW key \in KeyTexts, NEW val \in ValTexts, AppendRecord(key, val)
      PROVE  file' \in Seq(C)
  <2>1. file' = file \o Encoded(key, val)
    BY <1>3 DEF AppendRecord
  <2> QED
    BY <1>1, <1>2, <2>1, FileGrows, Zenon
<1>4. ASSUME NEW key \in KeyTexts, NEW val \in ValTexts,
             NEW n \in 1..(Len(Encoded(key, val)) - 1), TearRecord(key, val, n)
      PROVE  file' \in Seq(C)
  <2>1. file' = file \o SubSeq(Encoded(key, val), 1, n)
    BY <1>4 DEF TearRecord
  <2>2. SubSeq(Encoded(key, val), 1, n) \in Seq(C)
    BY <1>2, CutType
  <2> QED
    BY <1>1, <2>1, <2>2, FileGrows, Zenon
<1>5. ASSUME NEW at \in 1..Len(file), file' = [file EXCEPT ![at] = DELETE]
      PROVE  file' \in Seq(C)
  BY <1>1, <1>5, ExceptSeq
<1>6. ASSUME NEW entry \in index, DeleteByIndexLookup(entry)
      PROVE  file' \in Seq(C)
  <2>1. entry[2] \in 1..Len(file)
    BY DEF TypeInv
  <2> QED
    BY <1>5, <1>6, <2>1 DEF DeleteByIndexLookup
<1>7. CASE DeleteRecord
  <2>1. TypeAt \in 1..Len(file)
    BY <1>7, Places DEF DeleteRecord, AtLive, Readable
  <2> QED
    BY <1>5, <1>7, <2>1 DEF DeleteRecord, C, LowCells
<1>8. ASSUME file' = file
      PROVE  file' \in Seq(C)
  BY <1>1, <1>8
<1>9. ASSUME NEW kind \in {"rows", "delete"}, BeginScan(kind)
      PROVE  file' \in Seq(C)
  BY <1>8, <1>9 DEF BeginScan
<1>10. CASE Stop \/ Start \/ SkipTombstone \/ ReadKey \/ ReadRow \/ EndScan \/ UNCHANGED tornVars
  <2>1. file' = file
    BY <1>10 DEF Stop, Start, SkipTombstone, ReadKey, ReadRow, EndScan, tornVars
  <2> QED
    BY <1>8, <2>1 DEF C, LowCells
<1>11. CASE TypeMissing \/ KeyUnreadable \/ RowUnreadable
  <2>1. StreamFails \/ Throws
    BY <1>11 DEF TypeMissing, KeyUnreadable, RowUnreadable
  <2>2. file' = file
    BY <2>1 DEF StreamFails, Throws
  <2> QED
    BY <1>8, <2>2 DEF C, LowCells
<1> HIDE DEF LowCells
<1>12. ASSUME file' \in Seq(C)
       PROVE  LowCells'
  BY <1>12 DEF C, LowCells
<1>13. CASE ScanStep
  BY <1>7, <1>10, <1>11, <1>13 DEF ScanStep
<1> QED
  BY <1>3, <1>4, <1>6, <1>9, <1>10, <1>12, <1>13 DEF TornNext

(* The steps of a scan that find a whole record move on over it. *)
LEMMA ScanMovesOn ==
  ASSUME TypeInv, LowCells, FrontInv, ReaderInv,
         SkipTombstone \/ ReadKey \/ ReadRow \/ DeleteRecord
  PROVE  MovesOn /\ AtRecord /\ Scanning
<1>1. AtRecord /\ Readable(TypeAt, 1)
  BY DEF SkipTombstone, ReadKey, ReadRow, DeleteRecord, AtLive
<1>2. Scanning /\ Readable(reader.at, NumberSize)
  BY <1>1 DEF AtRecord
<1>3. /\ reader.at \in Nat \ {0} /\ TypeAt = reader.at + 2 /\ KeyAt = reader.at + 7
      /\ Len(file) \in Nat
  BY Places
<1>4. TypeAt \in 1..Len(file)
  BY <1>1, <1>3 DEF Readable
<1>5. NumberAt(reader.at) \in Nat /\ NumberAt(reader.at) < Base * Base - Base
  BY <1>2, <1>3, ReadNumber
<1>6. ASSUME NEW from \in Int, NEW x \in Int, from - x = TypeAt, MoveTo(Landing(from, NumberAt(reader.at) - x)),
             \A i \in Undisturbed : FindsRecord(i) => Landing(from, NumberAt(reader.at) - x) = Behind(i)
      PROVE  MovesOn
  <2> DEFINE at == Landing(from, NumberAt(reader.at) - x)
  <2>1. at < 1 \/ at >= TypeAt
    BY <1>4, <1>5, <1>6, AnyLanding
  <2>2. at \in Int
    <3>1. NumberAt(reader.at) - x \in Int
      BY <1>5
    <3> QED
      BY <3>1, LandingType
  <2>3. MoveTo(at) /\ \A i \in Undisturbed : FindsRecord(i) => at = Behind(i)
    BY <1>6
  <2> HIDE DEF at
  <2>4. at < 1 \/ at >= reader.at
    BY <1>3, <2>1, <2>2
  <2> QED
    BY <1>1, <2>2, <2>3, <2>4, SeekOver
<1>7. CASE SkipTombstone
  <2> DEFINE from == TypeAt + 1
  <2>1. from \in Int /\ 1 \in Int /\ from - 1 = TypeAt
    BY <1>3
  <2>2. \A i \in Undisturbed : FindsRecord(i) => Landing(from, NumberAt(reader.at) - 1) = Behind(i)
    BY DEF FindsRecord
  <2>3. MoveTo(Landing(from, NumberAt(reader.at) - 1))
    BY <1>7 DEF SkipTombstone
  <2> HIDE DEF from
  <2> QED
    BY <1>1, <1>2, <1>6, <2>1, <2>2, <2>3
<1>8. CASE ReadKey
  <2> DEFINE valAt == BehindText(KeyAt)
  <2>1. HoldsText(KeyAt) /\ MoveTo(Landing(valAt, NumberAt(reader.at) - (valAt - TypeAt)))
    BY <1>8 DEF ReadKey
  <2>2. KeyAt \in Nat \ {0}
    BY <1>3
  <2>3. valAt \in Nat
    BY <2>1, <2>2, ReadText
  <2>4. \A i \in Undisturbed : FindsRecord(i) =>
          Landing(valAt, NumberAt(reader.at) - (valAt - TypeAt)) = Behind(i)
    BY DEF FindsRecord
  <2> HIDE DEF valAt
  <2>5. valAt - TypeAt \in Int /\ valAt - (valAt - TypeAt) = TypeAt
    BY <1>3, <2>3
  <2> QED
    BY <1>1, <1>2, <1>6, <2>1, <2>3, <2>4, <2>5
<1>9. CASE DeleteRecord
  <2>1. TypeAt \in Int /\ 0 \in Int /\ TypeAt - 0 = TypeAt /\ NumberAt(reader.at) - 0 = NumberAt(reader.at)
    BY <1>3, <1>5
  <2>2. \A i \in Undisturbed : FindsRecord(i) => Landing(TypeAt, NumberAt(reader.at)) = Behind(i)
    BY DEF FindsRecord
  <2>3. MoveTo(Landing(TypeAt, NumberAt(reader.at)))
    BY <1>9 DEF DeleteRecord
  <2> QED
    BY <1>1, <1>2, <1>6, <2>1, <2>2, <2>3
<1>10. CASE ReadRow
  <2> DEFINE valAt == BehindText(KeyAt)
  <2>1. HoldsText(KeyAt) /\ HoldsText(valAt) /\ MoveTo(RowEnd(valAt))
    BY <1>10 DEF ReadRow
  <2>2. KeyAt \in Nat \ {0}
    BY <1>3
  <2>3. valAt \in Nat \ {0} /\ valAt = KeyAt + 2 + NumberAt(KeyAt) /\ NumberAt(KeyAt) \in Nat
    BY <2>1, <2>2, ReadText
  <2>4. RowEnd(valAt) = valAt + 2 + NumberAt(valAt) /\ NumberAt(valAt) \in Nat
    BY <2>1, <2>3, ReadText DEF RowEnd
  <2>5. RowEnd(valAt) \in Int /\ RowEnd(valAt) >= reader.at
    <3>1. \A a, m, n \in Nat : a + 7 + 2 + m + 2 + n \in Int /\ a + 7 + 2 + m + 2 + n >= a
      OBVIOUS
    <3>2. reader.at \in Nat
      BY <1>3
    <3>3. RowEnd(valAt) = reader.at + 7 + 2 + NumberAt(KeyAt) + 2 + NumberAt(valAt)
      BY <1>3, <2>3, <2>4, Zenon
    <3> QED
      BY <2>3, <2>4, <3>1, <3>2, <3>3, Zenon
  <2>6. \A i \in Undisturbed : FindsRecord(i) => RowEnd(valAt) = Behind(i)
    BY DEF FindsRecord
  <2> HIDE DEF valAt
  <2> QED
    BY <1>1, <1>2, <2>1, <2>5, <2>6, SeekOver
<1> QED
  BY <1>1, <1>2, <1>7, <1>8, <1>9, <1>10

(* A read fails, or throws, behind the first cut record only. *)
LEMMA FailsBehind ==
  ASSUME TypeInv, FrontInv, ReaderInv, TypeMissing \/ KeyUnreadable \/ RowUnreadable
  PROVE  reader.at >= FrontEnd
<1> SUFFICES ASSUME reader.at < FrontEnd
             PROVE  FALSE
  BY FrontPlace, Places
<1>1. Scanning /\ AtRecord
  BY DEF TypeMissing, KeyUnreadable, RowUnreadable, AtLive, AtRecord
<1>2. PICK i \in Undisturbed : reader.at = Begin(i) /\ FindsRecord(i)
  BY <1>1, AtRecordInFront
<1>3. Readable(TypeAt, 1) /\ HoldsText(KeyAt) /\ HoldsText(BehindText(KeyAt))
  BY <1>2, Zenon DEF FindsRecord
<1> QED
  BY <1>3, Zenon DEF TypeMissing, KeyUnreadable, RowUnreadable

(* What the reader may be after a step that leaves the front as it is. *)
LEMMA ReaderStep ==
  ASSUME TypeInv, TypeInv', FrontInv, ReaderInv, FrontEnd' = FrontEnd, Boundaries' = Boundaries, tears' = tears,
         \/ Scanning /\ MovesOn
         \/ tears # <<>> /\ reader'.at >= FrontEnd
         \/ Scanning /\ reader.at >= FrontEnd /\ reader'.at = reader.at
         \/ reader'.at = 1 /\ reader'.good
         \/ ~Scanning'
  PROVE  ReaderInv'
<1>1. FrontEnd \in Nat \ {0} /\ reader.at \in Nat /\ reader'.at \in Nat
  BY FrontPlace, Places DEF TypeInv
<1>2. CASE ~Scanning'
  BY <1>2 DEF ReaderInv
<1>3. CASE reader'.at = 1 /\ reader'.good
  <2>1. 1 \in Boundaries /\ 1 <= FrontEnd
    BY <1>1 DEF FrontInv
  <2> QED
    BY <1>3, <2>1 DEF ReaderInv
<1>4. ASSUME tears # <<>>, reader'.at >= FrontEnd
      PROVE  ReaderInv'
  <2>1. ~(reader'.at < FrontEnd)
    BY <1>1, <1>4
  <2> QED
    BY <1>4, <2>1 DEF ReaderInv
<1>5. CASE Scanning /\ reader.at >= FrontEnd /\ reader'.at = reader.at
  <2>1. ~(reader'.at < FrontEnd) /\ (tears = <<>> => reader'.at <= FrontEnd)
    BY <1>1, <1>5 DEF ReaderInv
  <2> QED
    BY <2>1 DEF ReaderInv
<1>6. CASE Scanning /\ MovesOn
  <2>1. CASE tears # <<>> /\ reader.at >= FrontEnd /\ reader'.at >= FrontEnd
    BY <1>4, <2>1
  <2>2. ASSUME NEW i \in Undisturbed, reader.at = Begin(i), reader'.at = Behind(i),
               reader'.good = reader.good
        PROVE  ReaderInv'
    <3>1. reader.at < FrontEnd /\ Behind(i) \in Boundaries /\ Behind(i) <= FrontEnd
      BY <1>1, <2>2, UndisturbedRecord DEF FrontInv
    <3> QED
      BY <1>6, <2>2, <3>1 DEF ReaderInv
  <2> QED
    BY <1>6, <2>1, <2>2 DEF MovesOn
<1> QED
  BY <1>2, <1>3, <1>4, <1>5, <1>6
-----------------------------------------------------------------------------
(* What the steps that write leave in front of the first cut record *)

(* A cell is in one record only. *)
LEMMA CellInOne ==
  ASSUME TypeInv, FrontInv, NEW i \in Undisturbed, NEW j \in Undisturbed, NEW p \in Int,
         Begin(i) <= p, p < Behind(i), Begin(j) <= p, p < Behind(j)
  PROVE  i = j
<1>1. /\ i \in Nat /\ j \in Nat
      /\ Begin(i) \in Int /\ Begin(j) \in Int /\ Behind(i) \in Int /\ Behind(j) \in Int
  <2>1. i \in DOMAIN records /\ j \in DOMAIN records /\ Behind(i) \in Nat /\ Behind(j) \in Nat
    BY UndisturbedRecord
  <2>2. \A h \in DOMAIN records : h \in Nat /\ Begin(h) \in Int
    BY WrittenRecord
  <2> QED
    BY <2>1, <2>2
<1>2. (i < j => Behind(i) <= Begin(j)) /\ (j < i => Behind(j) <= Begin(i))
  BY DEF FrontInv
<1> QED
  BY <1>1, <1>2

LEMMA CellPlace ==
  ASSUME NEW b \in Nat \ {0}, NEW n \in Nat, NEW e \in Nat, NEW l \in Nat, NEW q \in 1..n,
         b + n <= e, b + n - 1 <= l
  PROVE  /\ b + q - 1 \in 1..l /\ b + q - 1 < e /\ b <= b + q - 1 /\ b + q - 1 < b + n
         /\ b + q - 1 \in Int
         /\ (q = 3 => b + q - 1 = b + 2) /\ (b + q - 1 = b + 2 => q = 3)
OBVIOUS

LEMMA OverwriteFront ==
  ASSUME TypeInv, FrontInv, NEW at \in 1..Len(file),
         at >= FrontEnd \/ \E i \in Undisturbed : at = records[i].at,
         file' = [file EXCEPT ![at] = DELETE], records' = Dead(at), tears' = tears
  PROVE  /\ FrontInv' /\ FrontEnd' = FrontEnd /\ Boundaries' = Boundaries
         /\ LiveRecords' = {j \in LiveRecords : records[j].at # at}
         /\ DOMAIN records' = DOMAIN records
         /\ \A j \in DOMAIN records : records'[j].key = records[j].key /\ records'[j].at = records[j].at
<1>1. /\ Len(file') = Len(file)
      /\ \A k \in 1..Len(file) : file'[k] = IF k = at THEN DELETE ELSE file[k]
  <2>1. DELETE \in 0..(Base - 1) /\ file \in Seq(0..(Base - 1))
    BY Bounds DEF DELETE, TypeInv
  <2> QED
    BY <2>1, ExceptSeq
<1>2. /\ DOMAIN records' = DOMAIN records
      /\ \A j \in DOMAIN records :
           /\ records'[j].at = records[j].at /\ records'[j].key = records[j].key
           /\ records'[j].val = records[j].val
           /\ records'[j].live = (records[j].live /\ records[j].at # at)
  <2>1. records' = [j \in DOMAIN records |->
                      IF records[j].at = at THEN [records[j] EXCEPT !.live = FALSE] ELSE records[j]]
    BY DEF Dead
  <2>2. \A j \in DOMAIN records : records[j] \in Written
    BY WrittenRecord
  <2> QED
    BY <2>1, <2>2 DEF Written
<1>3. /\ \A j \in DOMAIN records :
           Begin(j)' = Begin(j) /\ CellsOf(j)' = CellsOf(j) /\ Behind(j)' = Behind(j)
      /\ \A j \in DOMAIN records : TypeOf(j)' = IF records[j].at = at THEN DELETE ELSE TypeOf(j)
  <2>1. \A j \in DOMAIN records : Begin(j)' = Begin(j) /\ CellsOf(j)' = CellsOf(j)
    BY <1>2 DEF Begin, CellsOf
  <2>2. \A j \in DOMAIN records : Behind(j)' = Behind(j)
    BY <2>1 DEF Behind
  <2>3. \A j \in DOMAIN records : TypeOf(j)' = IF records[j].at = at THEN DELETE ELSE TypeOf(j)
    BY <1>2 DEF TypeOf
  <2> QED
    BY <2>1, <2>2, <2>3
<1>4. FrontEnd' = FrontEnd /\ \A n : InFront(n)' <=> InFront(n)
  BY <1>1 DEF FrontEnd, InFront
<1>5. Undisturbed' = Undisturbed /\ Undisturbed \subseteq DOMAIN records
  BY <1>2, <1>4 DEF Undisturbed
<1>6. Boundaries' = Boundaries
  BY <1>3, <1>4, <1>5, Zenon DEF Boundaries
<1>7. ASSUME NEW j \in Undisturbed
      PROVE  Whole(j)'
  <2>1. /\ j \in DOMAIN records /\ Begin(j) \in Nat \ {0} /\ Behind(j) \in Nat
        /\ Behind(j) <= FrontEnd /\ Behind(j) - 1 <= Len(file)
        /\ records[j].at = Begin(j) + 2 /\ FrontEnd \in Nat /\ Len(file) \in Nat
    <3>1. /\ j \in DOMAIN records /\ Begin(j) \in Nat \ {0} /\ Behind(j) \in Nat
          /\ Behind(j) <= FrontEnd /\ Behind(j) - 1 <= Len(file)
      BY UndisturbedRecord
    <3>2. records[j].at = Begin(j) + 2
      BY <3>1, WrittenRecord
    <3> QED
      BY <3>1, <3>2, FrontPlace
  <2>2. Len(CellsOf(j)) \in Nat /\ Behind(j) = Begin(j) + Len(CellsOf(j))
    <3>1. Len(CellsOf(j)) = 11 + Len(records[j].key) + Len(records[j].val)
          /\ Len(records[j].key) \in 0..3 /\ Len(records[j].val) \in 0..3
      BY <2>1, WrittenRecord
    <3>2. \A m, n \in 0..3 : 11 + m + n \in Nat
      OBVIOUS
    <3> QED
      BY <3>1, <3>2, Zenon DEF Behind
  <2>3. \A k \in 1..Len(CellsOf(j)) :
          file[Begin(j) + k - 1] = IF k = 3 THEN TypeOf(j) ELSE CellsOf(j)[k]
    <3>1. NumberSize + 1 = 3
      BY DEF NumberSize
    <3> QED
      BY <3>1, Zenon DEF FrontInv, Whole, CellsInFile
  <2>4. ASSUME NEW k \in 1..Len(CellsOf(j))
        PROVE  file'[Begin(j) + k - 1] = IF k = 3 THEN TypeOf(j)' ELSE CellsOf(j)[k]
    <3> DEFINE p == Begin(j) + k - 1
    <3>1. /\ p \in 1..Len(file) /\ p < FrontEnd /\ Begin(j) <= p /\ p < Behind(j)
          /\ (k = 3 => p = records[j].at) /\ (p = records[j].at => k = 3) /\ p \in Int
      <4>2. /\ Begin(j) \in Nat \ {0} /\ Len(CellsOf(j)) \in Nat /\ FrontEnd \in Nat /\ Len(file) \in Nat
            /\ Begin(j) + Len(CellsOf(j)) <= FrontEnd /\ Begin(j) + Len(CellsOf(j)) - 1 <= Len(file)
        BY <2>1, <2>2
      <4>3. /\ p \in 1..Len(file) /\ p < FrontEnd /\ Begin(j) <= p
            /\ p < Begin(j) + Len(CellsOf(j)) /\ p \in Int
            /\ (k = 3 => p = Begin(j) + 2) /\ (p = Begin(j) + 2 => k = 3)
        BY <4>2, CellPlace
      <4> HIDE DEF p
      <4> QED
        BY <2>1, <2>2, <4>3, Zenon
    <3>2. CASE p = at
      <4>1. PICK i \in Undisturbed : at = records[i].at
        BY <2>1, <3>1, <3>2
      <4>2. Begin(i) <= p /\ p < Behind(i)
        <5>1. /\ i \in DOMAIN records /\ Begin(i) \in Nat /\ Behind(i) \in Nat
              /\ Begin(i) + 11 <= Behind(i) /\ records[i].at = Begin(i) + 2
          BY UndisturbedRecord, WrittenRecord
        <5> HIDE DEF p
        <5> QED
          BY <3>2, <4>1, <5>1
      <4>3. i = j
        <5> HIDE DEF p
        <5> QED
          BY <3>1, <4>2, CellInOne
      <4>4. k = 3 /\ records[j].at = at
        BY <3>1, <3>2, <4>1, <4>3
      <4>5. TypeOf(j)' = DELETE
        BY <1>3, <2>1, <4>4
      <4>6. file'[p] = DELETE
        BY <1>1, <3>1, <3>2
      <4> QED
        BY <4>4, <4>5, <4>6
    <3>3. CASE p # at
      <4>1. file'[p] = file[p]
        BY <1>1, <3>1, <3>3
      <4>2. k = 3 => TypeOf(j)' = TypeOf(j)
        BY <1>3, <2>1, <3>1, <3>3
      <4> QED
        BY <2>3, <4>1, <4>2
    <3> QED
      BY <3>2, <3>3
  <2>5. NumberSize + 1 = 3
    BY DEF NumberSize
  <2> QED
    BY <1>3, <2>1, <2>4, <2>5, Zenon DEF Whole, CellsInFile
<1>8. FrontInv'
  <2>1. \A i \in Undisturbed :
          /\ Begin(i)' >= 1 /\ Behind(i)' <= FrontEnd' /\ Behind(i)' \in Boundaries' /\ Whole(i)'
    BY <1>3, <1>4, <1>5, <1>6, <1>7 DEF FrontInv
  <2>2. \A i, j \in Undisturbed : i < j => Behind(i)' <= Begin(j)'
    BY <1>3, <1>5 DEF FrontInv
  <2>3. 1 \in Boundaries'
    BY <1>6 DEF FrontInv
  <2> QED
    BY <1>5, <2>1, <2>2, <2>3 DEF FrontInv
<1>9. LiveRecords' = {j \in LiveRecords : records[j].at # at}
  BY <1>2, <1>5 DEF LiveRecords
<1> QED
  BY <1>2, <1>4, <1>6, <1>8, <1>9

(* Cells behind the front do not matter to it. *)
LEMMA FrontKept ==
  ASSUME TypeInv, FrontInv, FrontEnd' = FrontEnd, Undisturbed' = Undisturbed,
         \A i \in Undisturbed : records'[i] = records[i],
         \A k \in 1..Len(file) : file'[k] = file[k]
  PROVE  FrontInv' /\ Boundaries' = Boundaries /\ LiveRecords' = LiveRecords
<1>1. \A i \in Undisturbed : /\ Begin(i)' = Begin(i) /\ CellsOf(i)' = CellsOf(i)
                             /\ Behind(i)' = Behind(i) /\ TypeOf(i)' = TypeOf(i)
  BY DEF Begin, CellsOf, Behind, TypeOf
<1>2. Boundaries' = Boundaries
  BY <1>1, Zenon DEF Boundaries
<1>3. ASSUME NEW i \in Undisturbed
      PROVE  Whole(i)'
  <2>1. /\ Begin(i) \in Nat \ {0} /\ Behind(i) \in Nat /\ Behind(i) - 1 <= Len(file)
        /\ Len(file) \in Nat /\ i \in DOMAIN records
    BY UndisturbedRecord, FrontPlace
  <2>2. Len(CellsOf(i)) \in Nat /\ Behind(i) = Begin(i) + Len(CellsOf(i))
    <3>1. Len(CellsOf(i)) = 11 + Len(records[i].key) + Len(records[i].val)
          /\ Len(records[i].key) \in 0..3 /\ Len(records[i].val) \in 0..3
      BY <2>1, WrittenRecord
    <3>2. \A m, n \in 0..3 : 11 + m + n \in Nat
      OBVIOUS
    <3> QED
      BY <3>1, <3>2, Zenon DEF Behind
  <2>3. \A k \in 1..Len(CellsOf(i)) : file'[Begin(i) + k - 1] = file[Begin(i) + k - 1]
    <3>1. \A k \in 1..Len(CellsOf(i)) : Begin(i) + k - 1 \in 1..Len(file)
      BY <2>1, <2>2
    <3> QED
      BY <3>1
  <2>4. Whole(i)
    BY DEF FrontInv
  <2> QED
    BY <1>1, <2>3, <2>4, Zenon DEF Whole, CellsInFile
<1>4. FrontInv'
  <2>1. \A i \in Undisturbed :
          /\ Begin(i)' >= 1 /\ Behind(i)' <= FrontEnd' /\ Behind(i)' \in Boundaries' /\ Whole(i)'
    BY <1>1, <1>2, <1>3 DEF FrontInv
  <2>2. \A i, j \in Undisturbed : i < j => Behind(i)' <= Begin(j)'
    BY <1>1 DEF FrontInv
  <2>3. 1 \in Boundaries'
    BY <1>2 DEF FrontInv
  <2> QED
    BY <2>1, <2>2, <2>3 DEF FrontInv
<1>5. LiveRecords' = LiveRecords
  BY DEF LiveRecords
<1> QED
  BY <1>2, <1>4, <1>5

LEMMA TearFront ==
  ASSUME TypeInv, FrontInv, NEW key \in KeyTexts, NEW val \in ValTexts,
         NEW n \in 1..(Len(Encoded(key, val)) - 1), TearRecord(key, val, n)
  PROVE  FrontInv' /\ LiveRecords' = LiveRecords
<1>1. tears \in Seq(Nat) /\ Len(file) \in Nat
  BY FrontPlace DEF TypeInv
<1>2. tears' = Append(tears, Len(file) + 1) /\ records' = records
  BY DEF TearRecord
<1>3. \A k \in 1..Len(file) : file'[k] = file[k]
  <2>1. file' = file \o SubSeq(Encoded(key, val), 1, n) /\ file \in Seq(0..(Base - 1))
    BY DEF TearRecord, TypeInv
  <2>2. SubSeq(Encoded(key, val), 1, n) \in Seq(0..(Base - 1))
    BY InsertType, CutType
  <2> QED
    BY <2>1, <2>2, FileGrows, Zenon
<1>4. tears' # <<>> /\ Head(tears') = IF tears = <<>> THEN Len(file) + 1 ELSE Head(tears)
  BY <1>1, <1>2, HeadTailAppend, AppendProperties
<1>5. FrontEnd' = FrontEnd
  BY <1>4 DEF FrontEnd
<1>6. \A i \in DOMAIN records : records[i].at \in 1..Len(file)
  BY DEF TypeInv
<1>7. \A at \in 1..Len(file) : InFront(at)' <=> InFront(at)
  BY <1>1, <1>4 DEF InFront
<1>8. Undisturbed' = Undisturbed
  BY <1>2, <1>6, <1>7 DEF Undisturbed
<1> QED
  BY <1>2, <1>3, <1>5, <1>8, FrontKept

(* What INSERT adds to a file without a cut record, and that it adds nothing to the front of *)
(* another one.                                                                              *)
AddsToFront(i, key) ==
  /\ tears = <<>> /\ i \notin Undisturbed /\ Undisturbed' = Undisturbed \cup {i}
  /\ records'[i].key = key /\ records'[i].at = Len(file) + 3 /\ records'[i].live

LEMMA AppendGrows ==
  ASSUME TypeInv, NEW key \in KeyTexts, NEW val \in ValTexts, AppendRecord(key, val)
  PROVE  /\ Len(file) \in Nat /\ Len(file') = Len(file) + Len(Encoded(key, val))
         /\ \A k \in 1..Len(file) : file'[k] = file[k]
         /\ \A k \in 1..Len(Encoded(key, val)) : file'[Len(file) + k] = Encoded(key, val)[k]
         /\ Len(records) \in Nat /\ DOMAIN records = 1..Len(records)
         /\ DOMAIN records' = 1..(Len(records) + 1)
         /\ \A i \in DOMAIN records : records'[i] = records[i]
         /\ records'[Len(records) + 1] =
              [at |-> Len(file) + NumberSize + 1, key |-> key, val |-> val, live |-> TRUE]
<1> DEFINE new == [at |-> Len(file) + NumberSize + 1, key |-> key, val |-> val, live |-> TRUE]
           e == Encoded(key, val)
<1>1. Len(file) \in Nat
  BY FrontPlace
<1>2. file' = file \o e /\ file \in Seq(0..(Base - 1)) /\ e \in Seq(0..(Base - 1))
  BY InsertType DEF AppendRecord, TypeInv
<1>3. IsJoin(0..(Base - 1), file', file, e)
  <2> HIDE DEF e
  <2> QED
    BY <1>2, Joined
<1>4. /\ Len(file') = Len(file) + Len(e)
      /\ \A k \in 1..Len(file) : file'[k] = file[k]
      /\ \A k \in 1..Len(e) : file'[Len(file) + k] = e[k]
  BY <1>3, Zenon DEF IsJoin
<1>5. records' = Append(records, new) /\ records \in Seq(Written) /\ new \in Written
  BY <1>1 DEF AppendRecord, TypeInv, Written, NumberSize
<1>6. /\ records' \in Seq(Written) /\ Len(records') = Len(records) + 1 /\ Len(records) \in Nat
      /\ \A i \in 1..Len(records) : records'[i] = records[i]
      /\ records'[Len(records) + 1] = new
  <2> HIDE DEF new
  <2> QED
    BY <1>5, AppendProperties, LenProperties
<1>7. DOMAIN records' = 1..(Len(records) + 1) /\ DOMAIN records = 1..Len(records)
  BY <1>5, <1>6, LenProperties
<1> QED
  BY <1>1, <1>4, <1>6, <1>7

LEMMA AppendBehind ==
  ASSUME TypeInv, FrontInv, NEW key \in KeyTexts, NEW val \in ValTexts, AppendRecord(key, val),
         tears # <<>>
  PROVE  FrontInv' /\ LiveRecords' = LiveRecords
         /\ \A at : at = Len(file) + 3 => ~InFront(at)'
<1> DEFINE last == Len(records) + 1
<1>1. /\ Len(file) \in Nat /\ \A k \in 1..Len(file) : file'[k] = file[k]
      /\ Len(records) \in Nat /\ DOMAIN records = 1..Len(records) /\ DOMAIN records' = 1..last
      /\ \A i \in DOMAIN records : records'[i] = records[i]
      /\ records'[last] = [at |-> Len(file) + NumberSize + 1, key |-> key, val |-> val, live |-> TRUE]
  BY AppendGrows, Zenon
<1>2. tears' = tears
  BY DEF AppendRecord
<1>3. FrontEnd' = FrontEnd /\ \A at : InFront(at)' <=> InFront(at)
  BY <1>2 DEF FrontEnd, InFront
<1>4. FrontEnd \in 1..(Len(file) + 1) /\ FrontEnd = Head(tears)
  BY FrontPlace DEF FrontEnd
<1>5. records'[last].at = Len(file) + 3
  BY <1>1 DEF NumberSize
<1>6. ~InFront(Len(file) + 3)
  BY <1>1, <1>4 DEF InFront
<1>7. Undisturbed' = Undisturbed
  <2>1. DOMAIN records' = DOMAIN records \cup {last} /\ last \notin DOMAIN records
    BY <1>1
  <2> HIDE DEF last
  <2> QED
    BY <1>1, <1>3, <1>5, <1>6, <2>1 DEF Undisturbed
<1>8. FrontInv' /\ LiveRecords' = LiveRecords
  <2>1. \A i \in Undisturbed : records'[i] = records[i]
    BY <1>1 DEF Undisturbed
  <2> QED
    BY <1>1, <1>3, <1>7, <2>1, FrontKept
<1> QED
  BY <1>3, <1>6, <1>8

LEMMA AppendFront ==
  ASSUME TypeInv, FrontInv, NEW key \in KeyTexts, NEW val \in ValTexts, AppendRecord(key, val),
         tears = <<>>, NEW last, last = Len(records) + 1
  PROVE  FrontInv' /\ AddsToFront(last, key)
<1> DEFINE e == Encoded(key, val)
<1>1. /\ Len(file) \in Nat /\ \A k \in 1..Len(file) : file'[k] = file[k]
      /\ Len(file') = Len(file) + Len(e) /\ \A k \in 1..Len(e) : file'[Len(file) + k] = e[k]
      /\ Len(records) \in Nat /\ DOMAIN records = 1..Len(records) /\ DOMAIN records' = 1..last
      /\ \A i \in DOMAIN records : records'[i] = records[i]
      /\ records'[last] = [at |-> Len(file) + NumberSize + 1, key |-> key, val |-> val, live |-> TRUE]
  BY AppendGrows, Zenon
<1>2. tears' = <<>>
  BY DEF AppendRecord
<1>3. \A at : InFront(at) /\ InFront(at)'
  BY <1>2 DEF InFront
<1>4. Undisturbed = DOMAIN records /\ Undisturbed' = DOMAIN records'
  BY <1>3 DEF Undisturbed
<1>5. DOMAIN records' = DOMAIN records \cup {last} /\ last \notin DOMAIN records /\ last \in Nat
      /\ \A i \in DOMAIN records : i \in Nat /\ i < last
  BY <1>1
<1>6. /\ records'[last].at = Len(file) + 3 /\ records'[last].key = key
      /\ records'[last].val = val /\ records'[last].live
  BY <1>1 DEF NumberSize
<1>7. Len(e) \in Nat /\ Len(e) >= 11 /\ e[3] = INSERT
  <2>1. Len(e) = 11 + Len(key) + Len(val) /\ Len(key) \in 0..3 /\ Len(val) \in 0..3
    BY InsertType
  <2>2. \A m, n \in 0..3 : 11 + m + n \in Nat /\ 11 + m + n >= 11
    OBVIOUS
  <2>3. Len(e) \in Nat /\ Len(e) >= 11
    BY <2>1, <2>2, Zenon
  <2>4. key \in Seq(0..(Base - 1)) /\ val \in Seq(0..(Base - 1))
    BY TornAssumption
  <2>5. IsLayout(0..(Base - 1), key, val)
    BY <2>4, Layout, Bounds, Zenon
  <2> QED
    BY <2>3, <2>5, Zenon DEF IsLayout
<1>8. FrontEnd = Len(file) + 1 /\ FrontEnd' = Len(file) + Len(e) + 1
  <2>1. FrontEnd = Len(file) + 1 /\ FrontEnd' = Len(file') + 1
    BY <1>2 DEF FrontEnd
  <2> QED
    BY <1>1, <2>1
<1>9. Begin(last)' = FrontEnd /\ Behind(last)' = FrontEnd'
  <2>1. Begin(last)' = Len(file) + 1
    BY <1>1, <1>6 DEF Begin, NumberSize
  <2>2. CellsOf(last)' = e
    BY <1>6 DEF CellsOf
  <2>3. Behind(last)' = Len(file) + 1 + Len(e)
    BY <2>1, <2>2 DEF Behind
  <2> HIDE DEF e
  <2> QED
    BY <1>1, <1>7, <1>8, <2>1, <2>3
<1>10. Whole(last)'
  <2>1. Begin(last)' = Len(file) + 1 /\ CellsOf(last)' = e /\ TypeOf(last)' = INSERT
    BY <1>6, <1>8, <1>9 DEF CellsOf, TypeOf
  <2> HIDE DEF e
  <2>2. ASSUME NEW k \in 1..Len(e)
        PROVE  file'[Len(file) + 1 + k - 1] = IF k = NumberSize + 1 THEN INSERT ELSE e[k]
    <3>1. Len(file) + 1 + k - 1 = Len(file) + k
      BY <1>1, <1>7
    <3>2. NumberSize + 1 = 3
      BY DEF NumberSize
    <3> QED
      BY <1>1, <1>7, <3>1, <3>2
  <2> QED
    BY <2>1, <2>2, Zenon DEF Whole, CellsInFile
<1>11. \A i \in DOMAIN records : /\ Begin(i)' = Begin(i) /\ Behind(i)' = Behind(i)
                                 /\ CellsOf(i)' = CellsOf(i) /\ TypeOf(i)' = TypeOf(i)
  BY <1>1 DEF Begin, CellsOf, Behind, TypeOf
<1>12. Boundaries' = Boundaries \cup {FrontEnd'}
  <2>1. Boundaries = {Begin(i) : i \in DOMAIN records} \cup {FrontEnd}
    BY <1>4 DEF Boundaries
  <2>2. Boundaries' = {Begin(i)' : i \in DOMAIN records \cup {last}} \cup {FrontEnd'}
    BY <1>4, <1>5 DEF Boundaries
  <2> QED
    BY <1>9, <1>11, <2>1, <2>2
<1>13. ASSUME NEW i \in DOMAIN records
       PROVE  Whole(i)' /\ Begin(i)' >= 1 /\ Behind(i)' <= FrontEnd /\ Behind(i)' \in Boundaries'
  <2>1. i \in Undisturbed /\ Whole(i) /\ Begin(i) >= 1 /\ Behind(i) <= FrontEnd /\ Behind(i) \in Boundaries
    BY <1>4 DEF FrontInv
  <2>2. /\ Begin(i) \in Nat \ {0} /\ Behind(i) \in Nat /\ Behind(i) - 1 <= Len(file)
    BY <2>1, UndisturbedRecord
  <2>3. Len(CellsOf(i)) \in Nat /\ Behind(i) = Begin(i) + Len(CellsOf(i))
    <3>1. Len(CellsOf(i)) = 11 + Len(records[i].key) + Len(records[i].val)
          /\ Len(records[i].key) \in 0..3 /\ Len(records[i].val) \in 0..3
      BY WrittenRecord
    <3>2. \A m, n \in 0..3 : 11 + m + n \in Nat
      OBVIOUS
    <3> QED
      BY <3>1, <3>2, Zenon DEF Behind
  <2>4. \A k \in 1..Len(CellsOf(i)) : file'[Begin(i) + k - 1] = file[Begin(i) + k - 1]
    <3>1. \A k \in 1..Len(CellsOf(i)) : Begin(i) + k - 1 \in 1..Len(file)
      BY <1>1, <2>2, <2>3
    <3> QED
      BY <1>1, <3>1, Zenon
  <2>5. Whole(i)'
    BY <1>11, <2>1, <2>4, Zenon DEF Whole, CellsInFile
  <2> QED
    BY <1>11, <1>12, <2>1, <2>5
<1>14. FrontInv'
  <2>1. FrontEnd \in Nat /\ FrontEnd' \in Nat /\ FrontEnd <= FrontEnd' /\ FrontEnd >= 1
    <3> HIDE DEF e
    <3> QED
      BY <1>1, <1>7, <1>8
  <2>2. \A i \in DOMAIN records : Behind(i)' \in Nat
    BY <1>4, <1>11, UndisturbedRecord
  <2>3. \A i \in DOMAIN records \cup {last} :
          Begin(i)' >= 1 /\ Behind(i)' <= FrontEnd' /\ Behind(i)' \in Boundaries' /\ Whole(i)'
    BY <1>9, <1>10, <1>12, <1>13, <2>1, <2>2
  <2>4. \A i, j \in DOMAIN records : i < j => Behind(i)' <= Begin(j)'
    BY <1>4, <1>11 DEF FrontInv
  <2>5. \A i \in DOMAIN records : Behind(i)' <= Begin(last)' /\ ~(last < i)
    BY <1>5, <1>9, <1>13
  <2>6. \A i, j \in DOMAIN records \cup {last} : i < j => Behind(i)' <= Begin(j)'
    BY <1>5, <2>4, <2>5
  <2>7. 1 \in Boundaries'
    BY <1>12 DEF FrontInv
  <2> QED
    BY <1>4, <1>5, <2>3, <2>6, <2>7 DEF FrontInv
<1>15. AddsToFront(last, key)
  BY <1>4, <1>5, <1>6 DEF AddsToFront
<1> QED
  BY <1>14, <1>15
-----------------------------------------------------------------------------
(* The index *)

(* The live records that a scan has passed at a place, and their entries in the index. *)
SeenAt(n) == {i \in LiveRecords : Begin(i) < n}
EntriesFor(S) == {<<records[i].key, records[i].at>> : i \in S}
FrontEntries == {e \in index : InFront(e[2])}

(* Two live records have different keys, and the index is what INIT, or the rebuilding of it, *)
(* makes of the records it has passed. In front of the first cut record it has nothing else.  *)
KeysDiffer == \A i, j \in LiveRecords : records[i].key = records[j].key => i = j

IndexInv ==
  /\ KeysDiffer
  /\ reader.kind \in {"none", "rows"} /\ indexed => FrontEntries = EntriesFor(LiveRecords)
  /\ reader.kind \in {"init", "keys"} =>
       /\ FrontEntries = EntriesFor(SeenAt(reader.at))
       /\ reader.at < FrontEnd => index = FrontEntries

FileInv == TypeInv /\ LowCells /\ FrontInv /\ ReaderInv /\ IndexInv

LEMMA LiveIsWritten ==
  ASSUME TypeInv, NEW i \in LiveRecords
  PROVE  /\ i \in Undisturbed /\ i \in DOMAIN records /\ InFront(records[i].at)
         /\ records[i].at \in 1..Len(file)
BY DEF LiveRecords, Undisturbed, TypeInv

LEMMA SeenNone ==
  ASSUME TypeInv, FrontInv
  PROVE  SeenAt(1) = {} /\ 1 <= FrontEnd
<1>1. \A i \in Undisturbed : ~(Begin(i) < 1)
  BY UndisturbedRecord
<1> QED
  BY <1>1, FrontPlace DEF SeenAt, LiveRecords

LEMMA SeenAll ==
  ASSUME TypeInv, FrontInv, NEW n \in Nat, n >= FrontEnd
  PROVE  SeenAt(n) = LiveRecords
<1>1. ASSUME NEW i \in Undisturbed
      PROVE  Begin(i) < n
  BY UndisturbedRecord, FrontPlace
<1> QED
  BY <1>1 DEF SeenAt, LiveRecords

LEMMA SeenNext ==
  ASSUME TypeInv, FrontInv, NEW i \in Undisturbed
  PROVE  /\ SeenAt(Behind(i)) = SeenAt(Begin(i)) \cup (LiveRecords \cap {i})
         /\ i \notin SeenAt(Begin(i))
<1>1. i \in DOMAIN records /\ Begin(i) \in Nat /\ Behind(i) \in Nat /\ Begin(i) < Behind(i)
  BY UndisturbedRecord
<1>2. ASSUME NEW j \in LiveRecords
      PROVE  Begin(j) < Behind(i) <=> Begin(j) < Begin(i) \/ j = i
  <2>1. j \in Undisturbed
    BY LiveIsWritten
  <2>2. j \in DOMAIN records /\ Begin(j) \in Nat /\ Behind(j) \in Nat /\ Begin(j) < Behind(j)
    BY <2>1, UndisturbedRecord
  <2>3. \A h \in DOMAIN records : h \in Nat
    BY WrittenRecord
  <2>4. (i < j => Behind(i) <= Begin(j)) /\ (j < i => Behind(j) <= Begin(i))
    BY <2>1 DEF FrontInv
  <2>5. i \in Nat /\ j \in Nat
    BY <1>1, <2>2, <2>3
  <2> QED
    BY <1>1, <2>2, <2>4, <2>5
<1> QED
  BY <1>1, <1>2 DEF SeenAt

(* A step that leaves the file leaves its front. *)
LEMMA FrontSame ==
  ASSUME UNCHANGED <<file, records, tears>>
  PROVE  /\ FrontInv' = FrontInv /\ FrontEnd' = FrontEnd /\ Boundaries' = Boundaries
         /\ Undisturbed' = Undisturbed /\ LiveRecords' = LiveRecords /\ KeysDiffer' = KeysDiffer
         /\ \A S : EntriesFor(S)' = EntriesFor(S)
         /\ \A n : SeenAt(n)' = SeenAt(n)
         /\ \A n : InFront(n)' = InFront(n)
<1>1. /\ FrontEnd' = FrontEnd /\ \A n : InFront(n)' = InFront(n)
      /\ \A i : Begin(i)' = Begin(i) /\ CellsOf(i)' = CellsOf(i) /\ TypeOf(i)' = TypeOf(i)
  BY DEF FrontEnd, InFront, Begin, CellsOf, TypeOf
<1>2. Undisturbed' = Undisturbed
  BY <1>1 DEF Undisturbed
<1>3. LiveRecords' = LiveRecords
  BY <1>2 DEF LiveRecords
<1>4. Boundaries' = Boundaries /\ \A i : Behind(i)' = Behind(i) /\ Whole(i)' = Whole(i)
  BY <1>1, <1>2, Zenon DEF Boundaries, Behind, Whole, CellsInFile
<1>5. FrontInv' = FrontInv
  BY <1>1, <1>2, <1>4, Zenon DEF FrontInv
<1>6. /\ KeysDiffer' = KeysDiffer /\ \A S : EntriesFor(S)' = EntriesFor(S)
      /\ \A n : SeenAt(n)' = SeenAt(n)
  BY <1>1, <1>3, Zenon DEF KeysDiffer, EntriesFor, SeenAt
<1> QED
  BY <1>1, <1>2, <1>3, <1>4, <1>5, <1>6

(* What a step has to show of the index when it leaves the file. *)
LEMMA IndexStep ==
  ASSUME KeysDiffer, FrontInv, UNCHANGED <<file, records, tears>>,
         reader'.kind \in {"none", "rows"} /\ indexed' => FrontEntries' = EntriesFor(LiveRecords),
         reader'.kind \in {"init", "keys"} =>
           /\ FrontEntries' = EntriesFor(SeenAt(reader'.at))
           /\ reader'.at < FrontEnd => index' = FrontEntries'
  PROVE  FrontInv' /\ IndexInv'
<1>1. /\ FrontInv' /\ KeysDiffer' /\ FrontEnd' = FrontEnd /\ LiveRecords' = LiveRecords
      /\ \A S : EntriesFor(S)' = EntriesFor(S)
      /\ \A n : SeenAt(n)' = SeenAt(n)
  BY FrontSame, Zenon
<1>2. EntriesFor(LiveRecords)' = EntriesFor(LiveRecords)
  BY <1>1
<1>3. EntriesFor(SeenAt(reader.at))' = EntriesFor(SeenAt(reader'.at))
  BY <1>1
<1> QED
  BY <1>1, <1>2, <1>3 DEF IndexInv

(* The entries in front are the same when the index and the file are. *)
LEMMA SameEntries ==
  ASSUME UNCHANGED <<file, records, tears, index>>
  PROVE  FrontEntries' = FrontEntries
BY FrontSame, Zenon DEF FrontEntries

LEMMA NoEntries ==
  ASSUME index' = {}
  PROVE  FrontEntries' = {} /\ EntriesFor({}) = {}
BY DEF FrontEntries, EntriesFor

(* A scan that ends has passed every record in front of the first cut one. *)
LEMMA EndsBehind ==
  ASSUME TypeInv, FrontInv, ReaderInv, Scanning, ~Readable(reader.at, NumberSize)
  PROVE  reader.at >= FrontEnd
<1> SUFFICES ASSUME reader.at < FrontEnd
             PROVE  FALSE
  BY FrontPlace, Places
<1>1. PICK i \in Undisturbed : reader.at = Begin(i) /\ FindsRecord(i)
  BY AtRecordInFront
<1> QED
  BY <1>1, Zenon DEF FindsRecord

(* What is under way begins or ends, and nothing is read. *)
LEMMA ControlKeepsFront ==
  ASSUME FileInv, TypeInv', Stop \/ Start \/ (\E kind \in {"rows", "delete"} : BeginScan(kind))
  PROVE  FrontInv' /\ ReaderInv' /\ IndexInv'
<1>1. TypeInv /\ FrontInv /\ ReaderInv /\ IndexInv /\ KeysDiffer
  BY DEF FileInv, IndexInv
<1>2. file' = file /\ records' = records /\ tears' = tears
  BY DEF Stop, Start, BeginScan
<1>3. FrontEnd' = FrontEnd /\ Boundaries' = Boundaries
  BY <1>2, FrontSame, Zenon
<1>4. CASE Stop
  <2>1. reader'.kind = "down" /\ ~Scanning'
    BY <1>4 DEF Stop, Down, Idle, Scanning
  <2> QED
    BY <1>1, <1>2, <1>3, <2>1, ReaderStep, IndexStep
<1>5. CASE Start
  <2>1. reader'.kind = "init" /\ reader'.at = 1 /\ reader'.good /\ index' = {}
    BY <1>5 DEF Start, Scan, Idle
  <2>2. FrontEntries' = EntriesFor(SeenAt(1)) /\ index' = FrontEntries'
    BY <1>1, <2>1, NoEntries, SeenNone
  <2> QED
    BY <1>1, <1>2, <1>3, <2>1, <2>2, ReaderStep, IndexStep
<1>6. ASSUME NEW kind \in {"rows", "delete"}, BeginScan(kind)
      PROVE  FrontInv' /\ ReaderInv' /\ IndexInv'
  <2>1. reader'.kind = kind /\ reader'.at = 1 /\ reader'.good /\ index' = index
        /\ indexed' = indexed /\ reader.kind = "none"
    BY <1>6 DEF BeginScan, Scan, Idle
  <2>2. FrontEntries' = FrontEntries
    BY <1>2, <2>1, SameEntries
  <2>3. indexed' => FrontEntries' = EntriesFor(LiveRecords)
    BY <1>1, <2>1, <2>2 DEF IndexInv
  <2> QED
    BY <1>1, <1>2, <1>3, <2>1, <2>3, ReaderStep, IndexStep
<1> QED
  BY <1>4, <1>5, <1>6

LEMMA FailureKeepsFront ==
  ASSUME FileInv, TypeInv', TypeMissing \/ KeyUnreadable \/ RowUnreadable
  PROVE  FrontInv' /\ ReaderInv' /\ IndexInv'
<1>1. TypeInv /\ FrontInv /\ ReaderInv /\ IndexInv /\ KeysDiffer
  BY DEF FileInv, IndexInv
<1>2. file' = file /\ records' = records /\ tears' = tears /\ index' = index
  BY DEF TypeMissing, KeyUnreadable, RowUnreadable, StreamFails, Throws
<1>3. FrontEnd' = FrontEnd /\ Boundaries' = Boundaries
  BY <1>2, FrontSame, Zenon
<1>4. reader.at >= FrontEnd /\ Scanning
  <2>1. Scanning
    BY DEF TypeMissing, KeyUnreadable, RowUnreadable, AtLive, AtRecord
  <2> QED
    BY <1>1, <2>1, FailsBehind
<1>5. FrontEntries' = FrontEntries
  BY <1>2, SameEntries
<1>6. CASE StreamFails
  <2>1. reader'.kind = reader.kind /\ reader'.at = reader.at /\ indexed' = indexed
    BY <1>1, <1>6 DEF StreamFails, TypeInv
  <2> QED
    BY <1>1, <1>2, <1>3, <1>4, <1>5, <2>1, ReaderStep, IndexStep DEF IndexInv
<1>7. CASE Throws /\ (reader.kind \in {"init", "keys", "rows"})
  <2>1. reader' = (IF reader.kind = "init" THEN Down ELSE Idle) /\ indexed' = (indexed /\ reader.kind # "keys")
    BY <1>7 DEF Throws
  <2>2. reader'.kind \in {"none", "down"} /\ ~Scanning'
    BY <2>1 DEF Down, Idle, Scanning
  <2>3. reader'.kind = "none" /\ indexed' => reader.kind = "rows" /\ indexed
    BY <1>7, <2>1 DEF Down, Idle
  <2> QED
    BY <1>1, <1>2, <1>3, <1>5, <2>2, <2>3, ReaderStep, IndexStep DEF IndexInv
<1> QED
  BY <1>6, <1>7 DEF TypeMissing, KeyUnreadable, RowUnreadable, AtLive

LEMMA SkipKeepsFront ==
  ASSUME FileInv, TypeInv', SkipTombstone \/ ReadRow
  PROVE  FrontInv' /\ ReaderInv' /\ IndexInv'
<1>1. TypeInv /\ LowCells /\ FrontInv /\ ReaderInv /\ IndexInv /\ KeysDiffer
  BY DEF FileInv, IndexInv
<1>2. file' = file /\ records' = records /\ tears' = tears /\ index' = index /\ indexed' = indexed
  BY DEF SkipTombstone, ReadRow
<1>3. FrontEnd' = FrontEnd /\ Boundaries' = Boundaries
  BY <1>2, FrontSame, Zenon
<1>4. FrontEntries' = FrontEntries
  BY <1>2, SameEntries
<1>5. MovesOn /\ AtRecord /\ Scanning /\ reader'.kind = reader.kind
  BY <1>1, ScanMovesOn DEF MovesOn
<1>6. ReaderInv'
  BY <1>1, <1>2, <1>3, <1>5, ReaderStep
<1>7. ASSUME reader.kind \in {"init", "keys"}
      PROVE  SeenAt(reader'.at) = SeenAt(reader.at) /\ (reader'.at < FrontEnd => reader.at < FrontEnd)
  <2>1. SkipTombstone
    BY <1>7 DEF ReadRow, AtLive
  <2>2. ASSUME NEW i \in Undisturbed, reader.at = Begin(i), reader'.at = Behind(i),
               reader'.good = reader.good
        PROVE  SeenAt(reader'.at) = SeenAt(reader.at) /\ reader.at < FrontEnd
    <3>1. reader.at < FrontEnd /\ i \in DOMAIN records
      BY <1>1, <2>2, UndisturbedRecord, FrontPlace
    <3>2. FindsRecord(i)
      BY <1>1, <1>5, <2>2, <3>1, FrontScan DEF ReaderInv
    <3>3. file[TypeAt] = TypeOf(i) /\ IsTombstone(file[TypeAt])
      BY <2>1, <3>2, Zenon DEF FindsRecord, SkipTombstone
    <3>4. ~records[i].live
      BY <3>3 DEF TypeOf, IsTombstone, INSERT, DELETE, UNUSED
    <3>5. LiveRecords \cap {i} = {}
      BY <3>4 DEF LiveRecords
    <3> QED
      BY <1>1, <2>2, <3>1, <3>5, SeenNext
  <2>3. CASE tears # <<>> /\ reader.at >= FrontEnd /\ reader'.at >= FrontEnd
    <3>1. reader.at \in Nat /\ reader'.at \in Nat /\ FrontEnd \in Nat
      BY <1>1, FrontPlace DEF TypeInv
    <3>2. SeenAt(reader'.at) = LiveRecords /\ SeenAt(reader.at) = LiveRecords
      BY <1>1, <2>3, <3>1, SeenAll
    <3> QED
      BY <2>3, <3>1, <3>2
  <2> QED
    BY <1>5, <2>2, <2>3 DEF MovesOn
<1>8. reader'.kind \in {"init", "keys"} =>
        /\ FrontEntries' = EntriesFor(SeenAt(reader'.at))
        /\ reader'.at < FrontEnd => index' = FrontEntries'
  BY <1>1, <1>2, <1>4, <1>5, <1>7 DEF IndexInv
<1>9. reader'.kind \in {"none", "rows"} /\ indexed' => FrontEntries' = EntriesFor(LiveRecords)
  BY <1>1, <1>2, <1>4, <1>5 DEF IndexInv
<1> QED
  BY <1>1, <1>2, <1>6, <1>8, <1>9, IndexStep

(* INIT and the rebuilding of the index take a live record in front into the index, and nothing *)
(* behind the first cut one changes what the index has of the front.                            *)
LEMMA ReadKeyKeepsFront ==
  ASSUME FileInv, TypeInv', ReadKey
  PROVE  FrontInv' /\ ReaderInv' /\ IndexInv'
<1> DEFINE key == TextAt(KeyAt + NumberSize, NumberAt(KeyAt))
<1>1. TypeInv /\ LowCells /\ FrontInv /\ ReaderInv /\ IndexInv /\ KeysDiffer
  BY DEF FileInv, IndexInv
<1>2. file' = file /\ records' = records /\ tears' = tears /\ indexed' = indexed
      /\ index' = (IF EntriesOf(key) = {} THEN index \cup {<<key, TypeAt>>} ELSE index)
      /\ ~IsTombstone(file[TypeAt]) /\ reader.kind \in {"init", "keys"}
  BY DEF ReadKey, AtLive
<1>3. FrontEnd' = FrontEnd /\ Boundaries' = Boundaries /\ \A n : InFront(n)' = InFront(n)
  BY <1>2, FrontSame, Zenon
<1>4. MovesOn /\ AtRecord /\ Scanning /\ reader'.kind = reader.kind
  BY <1>1, ScanMovesOn DEF MovesOn
<1>5. ReaderInv'
  BY <1>1, <1>2, <1>3, <1>4, ReaderStep
<1>6. reader.at \in Nat /\ reader'.at \in Nat /\ FrontEnd \in Nat /\ TypeAt = reader.at + 2
      /\ Len(file) \in Nat
  BY <1>1, FrontPlace, Places DEF TypeInv
<1>7. TypeAt \in 1..Len(file)
  <2>1. Readable(TypeAt, 1)
    BY DEF ReadKey, AtLive
  <2> QED
    BY <1>6, <2>1 DEF Readable
<1>8. ASSUME NEW i \in Undisturbed, reader.at = Begin(i), reader'.at = Behind(i),
             reader'.good = reader.good
      PROVE  /\ FrontEntries' = EntriesFor(SeenAt(reader'.at))
             /\ reader'.at < FrontEnd => index' = FrontEntries'
  <2>1. reader.at < FrontEnd /\ i \in DOMAIN records
    BY <1>1, <1>6, <1>8, UndisturbedRecord
  <2>2. FindsRecord(i)
    BY <1>1, <1>4, <1>8, <2>1, FrontScan DEF ReaderInv
  <2>3. file[TypeAt] = TypeOf(i) /\ TypeAt = records[i].at /\ key = records[i].key
    BY <2>2, Zenon DEF FindsRecord
  <2>4. records[i].live
    BY <1>2, <2>3 DEF TypeOf, IsTombstone, INSERT, DELETE, UNUSED
  <2>5. i \in LiveRecords
    BY <2>4 DEF LiveRecords
  <2>6. /\ SeenAt(reader'.at) = SeenAt(reader.at) \cup {i} /\ i \notin SeenAt(reader.at)
    <3>1. LiveRecords \cap {i} = {i}
      BY <2>5
    <3> QED
      BY <1>1, <1>8, <3>1, SeenNext
  <2>7. index = EntriesFor(SeenAt(reader.at)) /\ index = FrontEntries
    BY <1>1, <1>2, <2>1 DEF IndexInv
  <2> HIDE DEF key
  <2>8. EntriesOf(key) = {}
    <3>1. \A j \in SeenAt(reader.at) : j \in LiveRecords /\ j # i
      BY <2>6 DEF SeenAt
    <3>2. \A j \in SeenAt(reader.at) : records[j].key # key
      BY <1>1, <2>3, <2>5, <3>1 DEF KeysDiffer
    <3> QED
      BY <2>7, <3>2 DEF EntriesOf, EntriesFor
  <2>9. index' = EntriesFor(SeenAt(reader'.at))
    BY <1>2, <2>3, <2>6, <2>7, <2>8 DEF EntriesFor
  <2>10. \A e \in index' : InFront(e[2])
    <3>1. InFront(records[i].at)
      BY DEF Undisturbed
    <3> QED
      BY <1>2, <2>3, <2>7, <2>8, <3>1 DEF FrontEntries
  <2>11. FrontEntries' = index'
    BY <1>3, <2>10 DEF FrontEntries
  <2> QED
    BY <2>9, <2>11
<1>9. ASSUME tears # <<>>, reader.at >= FrontEnd, reader'.at >= FrontEnd
      PROVE  /\ FrontEntries' = EntriesFor(SeenAt(reader'.at))
             /\ reader'.at < FrontEnd => index' = FrontEntries'
  <2>1. SeenAt(reader'.at) = LiveRecords /\ SeenAt(reader.at) = LiveRecords
    BY <1>1, <1>6, <1>9, SeenAll
  <2>2. ~InFront(TypeAt)
    <3>1. ~(TypeAt < FrontEnd)
      BY <1>6, <1>9
    <3> QED
      BY <1>1, <1>7, <3>1, FrontPlace
  <2> HIDE DEF key
  <2>3. FrontEntries' = FrontEntries
    BY <1>2, <1>3, <2>2 DEF FrontEntries
  <2> QED
    BY <1>1, <1>2, <1>6, <1>9, <2>1, <2>3 DEF IndexInv
<1>10. FrontEntries' = EntriesFor(SeenAt(reader'.at)) /\ (reader'.at < FrontEnd => index' = FrontEntries')
  BY <1>4, <1>8, <1>9 DEF MovesOn
<1> QED
  BY <1>1, <1>2, <1>4, <1>5, <1>10, IndexStep

LEMMA EndKeepsFront ==
  ASSUME FileInv, TypeInv', EndScan
  PROVE  FrontInv' /\ ReaderInv' /\ IndexInv'
<1>1. TypeInv /\ FrontInv /\ ReaderInv /\ IndexInv /\ KeysDiffer
  BY DEF FileInv, IndexInv
<1>2. file' = file /\ records' = records /\ tears' = tears
      /\ Scanning /\ ~Readable(reader.at, NumberSize)
  BY DEF EndScan
<1>3. FrontEnd' = FrontEnd /\ Boundaries' = Boundaries
  BY <1>2, FrontSame, Zenon
<1>4. reader.at >= FrontEnd /\ reader.at \in Nat
  BY <1>1, <1>2, EndsBehind, Places
<1>5. CASE reader.kind = "delete"
  <2>1. reader'.kind = "keys" /\ reader'.at = 1 /\ reader'.good /\ index' = {}
    BY <1>5 DEF EndScan, Scan, Idle
  <2>2. FrontEntries' = EntriesFor(SeenAt(1)) /\ index' = FrontEntries'
    BY <1>1, <2>1, NoEntries, SeenNone
  <2> QED
    BY <1>1, <1>2, <1>3, <2>1, <2>2, ReaderStep, IndexStep
<1>6. CASE reader.kind # "delete"
  <2>1. reader'.kind = "none" /\ index' = index /\ indexed' = (indexed \/ reader.kind = "keys")
        /\ ~Scanning'
    BY <1>6 DEF EndScan, Idle, Scanning
  <2>2. FrontEntries' = FrontEntries
    BY <1>2, <2>1, SameEntries
  <2>3. indexed' => FrontEntries = EntriesFor(LiveRecords)
    <3>1. CASE reader.kind \in {"init", "keys"}
      <4>1. SeenAt(reader.at) = LiveRecords
        BY <1>1, <1>4, SeenAll
      <4> QED
        BY <1>1, <3>1, <4>1 DEF IndexInv
    <3>2. CASE reader.kind = "rows"
      BY <1>1, <2>1, <3>2 DEF IndexInv
    <3> QED
      BY <1>2, <1>6, <3>1, <3>2 DEF Scanning
  <2> QED
    BY <1>1, <1>2, <1>3, <2>1, <2>2, <2>3, ReaderStep, IndexStep
<1> QED
  BY <1>5, <1>6

(* A subset of the live records still has a key only once. *)
LEMMA DifferLess ==
  ASSUME KeysDiffer, LiveRecords' \subseteq LiveRecords, \A i \in LiveRecords : records'[i].key = records[i].key
  PROVE  KeysDiffer'
<1>1. \A i, j \in LiveRecords' : records'[i].key = records'[j].key => i = j
  BY DEF KeysDiffer
<1> QED
  BY <1>1 DEF KeysDiffer

LEMMA DeleteKeepsFront ==
  ASSUME FileInv, TypeInv', DeleteRecord
  PROVE  FrontInv' /\ ReaderInv' /\ IndexInv'
<1>1. TypeInv /\ LowCells /\ FrontInv /\ ReaderInv /\ IndexInv /\ KeysDiffer
  BY DEF FileInv, IndexInv
<1>2. file' = [file EXCEPT ![TypeAt] = DELETE] /\ records' = Dead(TypeAt) /\ tears' = tears
      /\ reader.kind = "delete" /\ Readable(TypeAt, 1)
  BY DEF DeleteRecord, AtLive
<1>3. MovesOn /\ AtRecord /\ Scanning /\ reader'.kind = reader.kind
  BY <1>1, ScanMovesOn DEF MovesOn
<1>4. reader.at \in Nat /\ FrontEnd \in Nat /\ TypeAt = reader.at + 2 /\ Len(file) \in Nat
  BY <1>1, FrontPlace, Places
<1>5. TypeAt \in 1..Len(file)
  BY <1>2, <1>4 DEF Readable
<1>6. TypeAt >= FrontEnd \/ \E i \in Undisturbed : TypeAt = records[i].at
  <2>1. CASE reader.at < FrontEnd
    <3>1. PICK i \in Undisturbed : FindsRecord(i)
      BY <1>1, <1>3, <2>1, AtRecordInFront
    <3> QED
      BY <3>1, Zenon DEF FindsRecord
  <2>2. CASE reader.at >= FrontEnd
    BY <1>4, <2>2
  <2> QED
    BY <1>4, <2>1, <2>2
<1>7. /\ FrontInv' /\ FrontEnd' = FrontEnd /\ Boundaries' = Boundaries
      /\ LiveRecords' = {j \in LiveRecords : records[j].at # TypeAt}
      /\ \A j \in DOMAIN records : records'[j].key = records[j].key
  <2>1. ASSUME NEW at, at = TypeAt
        PROVE  /\ FrontInv' /\ FrontEnd' = FrontEnd /\ Boundaries' = Boundaries
               /\ LiveRecords' = {j \in LiveRecords : records[j].at # at}
               /\ \A j \in DOMAIN records : records'[j].key = records[j].key
    <3>1. /\ at \in 1..Len(file) /\ (at >= FrontEnd \/ \E i \in Undisturbed : at = records[i].at)
          /\ file' = [file EXCEPT ![at] = DELETE] /\ records' = Dead(at)
      BY <1>2, <1>5, <1>6, <2>1
    <3> QED
      BY <1>1, <1>2, <3>1, OverwriteFront
  <2> QED
    BY <2>1
<1>8. KeysDiffer'
  <2>1. \A i \in LiveRecords : records'[i].key = records[i].key
    BY <1>1, <1>7, LiveIsWritten
  <2> QED
    BY <1>1, <1>7, <2>1, DifferLess
<1>9. IndexInv'
  BY <1>2, <1>3, <1>8 DEF IndexInv
<1> QED
  BY <1>1, <1>2, <1>3, <1>7, <1>9, ReaderStep

(* The cell that an entry of the index names is the type of its record, or lies behind the front. *)
LEMMA LookupKeepsFront ==
  ASSUME FileInv, TypeInv', NEW entry \in index, DeleteByIndexLookup(entry)
  PROVE  FrontInv' /\ ReaderInv' /\ IndexInv'
<1> DEFINE at == entry[2]
<1>1. TypeInv /\ FrontInv /\ ReaderInv /\ IndexInv /\ KeysDiffer
  BY DEF FileInv, IndexInv
<1>2. file' = [file EXCEPT ![at] = DELETE] /\ records' = Dead(at) /\ tears' = tears
      /\ index' = index \ {entry} /\ reader.kind = "none" /\ reader' = reader /\ indexed /\ indexed'
  BY DEF DeleteByIndexLookup
<1>3. FrontEntries = EntriesFor(LiveRecords)
  BY <1>1, <1>2 DEF IndexInv
<1>4. at \in 1..Len(file)
  BY <1>1 DEF TypeInv
<1>5. InFront(at) => \E i \in LiveRecords : entry = <<records[i].key, records[i].at>>
  <2>1. InFront(at) => entry \in FrontEntries
    BY DEF FrontEntries
  <2> QED
    BY <1>3, <2>1 DEF EntriesFor
<1>6. at >= FrontEnd \/ \E i \in Undisturbed : at = records[i].at
  <2>1. InFront(at) => \E i \in Undisturbed : at = records[i].at
    BY <1>1, <1>5, LiveIsWritten
  <2> QED
    BY <1>1, <1>4, <2>1, FrontPlace
<1>7. /\ FrontInv' /\ FrontEnd' = FrontEnd /\ Boundaries' = Boundaries
      /\ LiveRecords' = {j \in LiveRecords : records[j].at # at}
      /\ DOMAIN records' = DOMAIN records
      /\ \A j \in DOMAIN records : records'[j].key = records[j].key /\ records'[j].at = records[j].at
  <2> HIDE DEF at
  <2> QED
    BY <1>1, <1>2, <1>4, <1>6, OverwriteFront
<1>8. KeysDiffer'
  <2>1. \A i \in LiveRecords : records'[i].key = records[i].key
    BY <1>1, <1>7, LiveIsWritten
  <2> QED
    BY <1>1, <1>7, <2>1, DifferLess
<1>9. FrontEntries' = FrontEntries \ {entry}
  <2>1. \A n : InFront(n)' = InFront(n)
    BY <1>2 DEF InFront
  <2> QED
    BY <1>2, <2>1 DEF FrontEntries
<1>10. EntriesFor(LiveRecords)' = EntriesFor(LiveRecords) \ {entry}
  <2>1. EntriesFor(LiveRecords)' = {<<records[j].key, records[j].at>> : j \in LiveRecords'}
    <3>1. \A j \in LiveRecords' : j \in LiveRecords /\ j \in DOMAIN records
      BY <1>1, <1>7, LiveIsWritten
    <3>2. \A j \in LiveRecords' : records'[j].key = records[j].key /\ records'[j].at = records[j].at
      BY <1>7, <3>1
    <3> QED
      BY <3>2 DEF EntriesFor
  <2>2. \A j \in LiveRecords : <<records[j].key, records[j].at>> = entry <=> records[j].at = at
    <3>1. ASSUME NEW j \in LiveRecords, records[j].at = at
          PROVE  <<records[j].key, records[j].at>> = entry
      <4>1. InFront(at)
        BY <1>1, <3>1, LiveIsWritten
      <4>2. PICK i \in LiveRecords : entry = <<records[i].key, records[i].at>>
        BY <1>5, <4>1
      <4>3. i = j
        <5>1. i \in Undisturbed /\ j \in Undisturbed /\ records[i].at = records[j].at
          BY <1>1, <3>1, <4>2, LiveIsWritten
        <5>2. i \in DOMAIN records /\ j \in DOMAIN records
              /\ Begin(i) + 11 <= Behind(i) /\ Begin(j) + 11 <= Behind(j)
              /\ Begin(i) \in Nat /\ Begin(j) \in Nat /\ Behind(i) \in Nat /\ Behind(j) \in Nat
          BY <1>1, <5>1, UndisturbedRecord
        <5>3. Begin(i) = Begin(j)
          BY <5>1 DEF Begin
        <5>4. Begin(i) \in Int /\ Begin(i) <= Begin(i) /\ Begin(i) < Behind(i) /\ Begin(i) < Behind(j)
              /\ Begin(j) <= Begin(i)
          BY <5>2, <5>3
        <5> QED
          BY <1>1, <5>1, <5>4, CellInOne
      <4> QED
        BY <4>2, <4>3
    <3>2. \A j \in LiveRecords : <<records[j].key, records[j].at>> = entry => records[j].at = at
      OBVIOUS
    <3> QED
      BY <3>1, <3>2
  <2> HIDE DEF at
  <2>3. {<<records[j].key, records[j].at>> : j \in LiveRecords'} = EntriesFor(LiveRecords) \ {entry}
    BY <1>7, <2>2 DEF EntriesFor
  <2> QED
    BY <2>1, <2>3
<1>11. IndexInv'
  <2>1. reader'.kind = "none"
    BY <1>2
  <2>2. FrontEntries' = EntriesFor(LiveRecords)'
    BY <1>3, <1>9, <1>10
  <2> QED
    BY <1>8, <2>1, <2>2 DEF IndexInv
<1>12. ~Scanning'
  BY <1>2 DEF Scanning
<1> QED
  BY <1>1, <1>2, <1>7, <1>11, <1>12, ReaderStep

LEMMA TearKeepsFront ==
  ASSUME FileInv, NEW key \in KeyTexts, NEW val \in ValTexts,
         NEW n \in 1..(Len(Encoded(key, val)) - 1), TearRecord(key, val, n)
  PROVE  FrontInv' /\ ReaderInv' /\ IndexInv'
<1>1. TypeInv /\ FrontInv /\ KeysDiffer
  BY DEF FileInv, IndexInv
<1>2. records' = records /\ reader'.kind = "down" /\ ~Scanning'
  BY DEF TearRecord, Down, Idle, Scanning
<1>3. FrontInv' /\ LiveRecords' = LiveRecords
  BY <1>1, TearFront
<1>4. KeysDiffer'
  BY <1>1, <1>2, <1>3, DifferLess
<1> QED
  BY <1>2, <1>3, <1>4 DEF IndexInv, ReaderInv

(* INSERT adds a record and its entry: both to the front, or both behind a cut record. *)
LEMMA AppendKeepsFront ==
  ASSUME FileInv, NEW key \in KeyTexts, NEW val \in ValTexts, AppendRecord(key, val)
  PROVE  FrontInv' /\ ReaderInv' /\ IndexInv'
<1>0. PICK p : p = Len(file) + 3
  OBVIOUS
<1> DEFINE entry == <<key, p>>
<1>1. TypeInv /\ FrontInv /\ IndexInv /\ KeysDiffer
  BY DEF FileInv, IndexInv
<1>2. Len(file) \in Nat /\ TypeOffset(Len(file)) = p
  BY <1>0, <1>1, FrontPlace DEF TypeOffset, NumberSize
<1>3. /\ tears' = tears /\ index' = index \cup {entry} /\ reader.kind = "none" /\ reader' = reader
      /\ indexed /\ EntriesOf(key) = {}
  BY <1>2 DEF AppendRecord
<1>4. \A n : InFront(n)' = InFront(n)
  BY <1>3 DEF InFront
<1>5. FrontEntries = EntriesFor(LiveRecords)
  BY <1>1, <1>3 DEF IndexInv
<1>6. \A i \in DOMAIN records : records'[i] = records[i]
  BY <1>1, AppendGrows, Zenon
<1>7. CASE tears # <<>>
  <2>1. FrontInv' /\ LiveRecords' = LiveRecords /\ ~InFront(p)'
    BY <1>0, <1>1, <1>7, AppendBehind
  <2>2. FrontEntries' = FrontEntries
    BY <1>3, <1>4, <2>1 DEF FrontEntries
  <2>3. \A i \in LiveRecords : i \in DOMAIN records
    BY <1>1, LiveIsWritten
  <2>4. KeysDiffer'
    BY <1>1, <1>6, <2>1, <2>3, DifferLess
  <2>5. EntriesFor(LiveRecords)' = EntriesFor(LiveRecords)
    BY <1>6, <2>1, <2>3 DEF EntriesFor
  <2> QED
    BY <1>3, <1>5, <2>1, <2>2, <2>4, <2>5 DEF IndexInv, ReaderInv, Scanning
<1>8. CASE tears = <<>>
  <2>1. PICK last : last = Len(records) + 1
    OBVIOUS
  <2>2. FrontInv' /\ AddsToFront(last, key)
    BY <1>1, <1>8, <2>1, AppendFront
  <2>3. /\ last \notin Undisturbed /\ Undisturbed' = Undisturbed \cup {last} /\ records'[last].live
        /\ records'[last].key = key /\ records'[last].at = p
    BY <1>0, <2>2 DEF AddsToFront
  <2>4. \A i \in Undisturbed : records'[i] = records[i]
    BY <1>6 DEF Undisturbed
  <2>5. LiveRecords' = LiveRecords \cup {last}
    BY <2>3, <2>4 DEF LiveRecords
  <2>6. \A i \in LiveRecords : i \in Undisturbed /\ records'[i] = records[i]
    BY <2>4 DEF LiveRecords
  <2>7. FrontEntries = index /\ FrontEntries' = index'
    BY <1>4, <1>8 DEF FrontEntries, InFront
  <2>8. EntriesFor(LiveRecords)' = EntriesFor(LiveRecords) \cup {entry}
    BY <2>3, <2>5, <2>6 DEF EntriesFor
  <2>9. \A i \in LiveRecords : records[i].key # key
    <3>1. \A i \in LiveRecords : <<records[i].key, records[i].at>> \in index
      BY <1>5, <2>7 DEF EntriesFor
    <3>2. \A k, n : <<k, n>> \in index => <<k, n>> \in EntriesOf(k)
      BY DEF EntriesOf
    <3> QED
      BY <1>3, <3>1, <3>2
  <2>10. KeysDiffer'
    <3>1. \A i, j \in LiveRecords \cup {last} : records'[i].key = records'[j].key => i = j
      BY <1>1, <2>3, <2>6, <2>9 DEF KeysDiffer
    <3> QED
      BY <2>5, <3>1 DEF KeysDiffer
  <2> QED
    BY <1>3, <1>5, <2>2, <2>7, <2>8, <2>10 DEF IndexInv, ReaderInv, Scanning
<1> QED
  BY <1>7, <1>8

LEMMA FileInit == NoTopCells /\ TornInit => FileInv
<1> SUFFICES ASSUME TornInit
             PROVE  FileInv
  OBVIOUS
<1>1. TypeInv
  BY TypeInit
<1>2. file = <<>> /\ records = <<>> /\ tears = <<>> /\ index = {} /\ reader.kind = "none"
  BY DEF TornInit, Idle
<1>3. LowCells
  BY <1>2 DEF LowCells
<1>4. Undisturbed = {} /\ LiveRecords = {} /\ Boundaries = {1}
  BY <1>2 DEF Undisturbed, LiveRecords, Boundaries, FrontEnd
<1>5. FrontInv
  BY <1>4 DEF FrontInv
<1>6. ReaderInv /\ IndexInv
  BY <1>2, <1>4 DEF ReaderInv, Scanning, IndexInv, KeysDiffer, FrontEntries, EntriesFor
<1> QED
  BY <1>1, <1>3, <1>5, <1>6 DEF FileInv

LEMMA FileStep ==
  ASSUME NoTopCells, FileInv, [TornNext]_tornVars
  PROVE  FileInv'
<1>1. TypeInv /\ LowCells
  BY DEF FileInv
<1>2. TypeInv' /\ LowCells'
  BY <1>1, TypeStep, LowStep
<1>3. CASE UNCHANGED tornVars
  <2>1. /\ file' = file /\ records' = records /\ tears' = tears /\ index' = index
        /\ reader' = reader /\ indexed' = indexed
    BY <1>3 DEF tornVars
  <2>2. FrontInv' = FrontInv /\ FrontEnd' = FrontEnd /\ Boundaries' = Boundaries
    BY <2>1, FrontSame, Zenon
  <2>3. ReaderInv'
    BY <2>1, <2>2 DEF ReaderInv, Scanning, FileInv
  <2>4. FrontInv' /\ IndexInv'
    BY <2>1, SameEntries, IndexStep DEF FileInv, IndexInv
  <2> QED
    BY <1>2, <2>3, <2>4 DEF FileInv
<1>4. ASSUME TornNext
      PROVE  FrontInv' /\ ReaderInv' /\ IndexInv'
  <2>1. ASSUME NEW key \in KeyTexts, NEW val \in ValTexts, AppendRecord(key, val)
        PROVE  FrontInv' /\ ReaderInv' /\ IndexInv'
    BY <2>1, AppendKeepsFront
  <2>2. ASSUME NEW key \in KeyTexts, NEW val \in ValTexts,
               NEW n \in 1..(Len(Encoded(key, val)) - 1), TearRecord(key, val, n)
        PROVE  FrontInv' /\ ReaderInv' /\ IndexInv'
    BY <2>2, TearKeepsFront
  <2>3. ASSUME NEW entry \in index, DeleteByIndexLookup(entry)
        PROVE  FrontInv' /\ ReaderInv' /\ IndexInv'
    BY <1>2, <2>3, LookupKeepsFront
  <2>4. CASE ScanStep
    BY <1>2, <2>4, FailureKeepsFront, SkipKeepsFront, ReadKeyKeepsFront, DeleteKeepsFront, EndKeepsFront
    DEF ScanStep
  <2>5. CASE Stop \/ Start \/ (\E kind \in {"rows", "delete"} : BeginScan(kind))
    BY <1>2, <2>5, ControlKeepsFront
  <2> QED
    BY <1>4, <2>1, <2>2, <2>3, <2>4, <2>5 DEF TornNext
<1> QED
  BY <1>2, <1>3, <1>4 DEF FileInv

(* The inductive invariant of the torn file. *)
LEMMA FileInvariant ==
  ASSUME NoTopCells
  PROVE  TornSpec => []FileInv
<1>1. TornInit => FileInv
  BY FileInit
<1>2. FileInv /\ [TornNext]_tornVars => FileInv'
  BY FileStep
<1> QED
  BY <1>1, <1>2, PTL DEF TornSpec

(* Between two statements the index has every live record in front of the first cut one under   *)
(* its own key and at its type byte, and nothing else of that part of the file                  *)
(* (initializeExistingTable and recalculateIndicesForTable after a crash within an INSERT).      *)
THEOREM IndexNamesFront ==
  ASSUME NoTopCells
  PROVE  TornSpec => []IndexNamesRecords
<1>1. FileInv => IndexNamesRecords
  BY DEF FileInv, IndexInv, IndexNamesRecords, FrontEntries, EntriesFor
<1> QED
  BY <1>1, FileInvariant, PTL

LEMMA PartOf ==
  ASSUME NEW C, NEW s \in Seq(C), NEW b \in Nat \ {0}, NEW n \in Nat, b + n - 1 <= Len(s)
  PROVE  /\ SubSeq(s, b, b + n - 1) \in Seq(C) /\ Len(SubSeq(s, b, b + n - 1)) = n
         /\ \A k \in 1..n : SubSeq(s, b, b + n - 1)[k] = s[b + k - 1]
<1> DEFINE m == b + n - 1
<1>1. Len(s) \in Nat /\ \A k \in 1..Len(s) : s[k] \in C
  BY LenProperties, ElementOfSeq
<1>2. /\ m \in Int /\ b \in Int /\ \A k \in b..m : k \in 1..Len(s)
      /\ n = (IF b <= m THEN m - b + 1 ELSE 0) /\ m - b + 1 = n
  BY <1>1
<1>3. \A k \in b..m : s[k] \in C
  BY <1>1, <1>2
<1> HIDE DEF m
<1>4. /\ SubSeq(s, b, m) \in Seq(C) /\ Len(SubSeq(s, b, m)) = IF b <= m THEN m - b + 1 ELSE 0
      /\ \A k \in 1..(m - b + 1) : SubSeq(s, b, m)[k] = s[b + k - 1]
  BY <1>2, <1>3, SubSeqProperties
<1>5. /\ SubSeq(s, b, m) \in Seq(C) /\ Len(SubSeq(s, b, m)) = n
      /\ \A k \in 1..n : SubSeq(s, b, m)[k] = s[b + k - 1]
  BY <1>2, <1>4, Zenon
<1> QED
  BY <1>5 DEF m

LEMMA Overwritten ==
  ASSUME NEW C, NEW s \in Seq(C), NEW t \in Seq(C), NEW p \in 1..Len(s), NEW x \in C,
         Len(t) = Len(s), \A k \in 1..Len(s) : t[k] = IF k = p THEN x ELSE s[k]
  PROVE  t = [s EXCEPT ![p] = x]
<1> DEFINE r == [s EXCEPT ![p] = x]
<1>1. r \in Seq(C) /\ Len(r) = Len(s) /\ \A k \in 1..Len(s) : r[k] = IF k = p THEN x ELSE s[k]
  BY ExceptSeq
<1> HIDE DEF r
<1>2. Len(t) = Len(r) /\ \A k \in 1..Len(t) : t[k] = r[k]
  BY <1>1
<1>3. t = r
  BY <1>1, <1>2, SeqEqual
<1> QED
  BY <1>3 DEF r

(* No DELETE of a session after the crash writes into a record in front of the first cut one,   *)
(* wherever the numbers behind it lead the scan (performSequentialDelete and                     *)
(* performDeleteByPrimaryKeyLookup): its cells stay those it was written with but for its type. *)
THEOREM FrontUndamaged ==
  ASSUME NoTopCells
  PROVE  TornSpec => []RecordsUndamaged
<1>1. ASSUME TypeInv, FrontInv, NEW i \in Undisturbed
      PROVE  SubSeq(file, Begin(i), Begin(i) + Len(CellsOf(i)) - 1)
               = [CellsOf(i) EXCEPT ![NumberSize + 1] = TypeOf(i)]
  <2> DEFINE cells == CellsOf(i)
             kept == SubSeq(file, Begin(i), Begin(i) + Len(cells) - 1)
             written == [cells EXCEPT ![NumberSize + 1] = TypeOf(i)]
             C == 0..(Base - 1)
  <2>1. /\ i \in DOMAIN records /\ Begin(i) \in Nat \ {0} /\ Behind(i) \in Nat
        /\ Behind(i) - 1 <= Len(file) /\ Len(file) \in Nat
    BY <1>1, UndisturbedRecord, FrontPlace
  <2>2. cells \in Seq(C) /\ Len(cells) \in Nat /\ Len(cells) >= 11 /\ Behind(i) = Begin(i) + Len(cells)
    <3>1. records[i].key \in KeyTexts /\ records[i].val \in ValTexts
      BY <1>1, <2>1, WrittenRecord
    <3>2. /\ cells \in Seq(C) /\ Len(cells) = 11 + Len(records[i].key) + Len(records[i].val)
          /\ Len(records[i].key) \in 0..3 /\ Len(records[i].val) \in 0..3
      BY <1>1, <3>1, InsertType, Zenon DEF CellsOf
    <3>3. \A m, n \in 0..3 : 11 + m + n \in Nat /\ 11 + m + n >= 11
      OBVIOUS
    <3> QED
      BY <3>2, <3>3, Zenon DEF Behind
  <2>3. TypeOf(i) \in C /\ file \in Seq(C) /\ NumberSize + 1 \in 1..Len(cells)
    <3>1. TypeOf(i) \in {0, 1} /\ 0 \in C /\ 1 \in C
      BY Bounds DEF TypeOf, INSERT, DELETE
    <3>2. file \in Seq(C)
      BY <1>1, Zenon DEF TypeInv
    <3>3. \A n \in Nat : n >= 11 => 2 + 1 \in 1..n
      OBVIOUS
    <3>4. 2 + 1 \in 1..Len(cells)
      BY <2>2, <3>3, Zenon
    <3>5. TypeOf(i) \in C
      BY <3>1
    <3> QED
      BY <3>2, <3>4, <3>5, Zenon DEF NumberSize
  <2>4. Whole(i)
    BY <1>1 DEF FrontInv
  <2>5. \A k \in 1..Len(cells) : file[Begin(i) + k - 1] = IF k = NumberSize + 1 THEN TypeOf(i) ELSE cells[k]
    BY <2>4, Zenon DEF Whole, CellsInFile
  <2> HIDE DEF cells, C
  <2>6. /\ kept \in Seq(C) /\ Len(kept) = Len(cells)
        /\ \A k \in 1..Len(cells) : kept[k] = file[Begin(i) + k - 1]
    BY <2>1, <2>2, <2>3, PartOf
  <2> HIDE DEF kept
  <2>7. \A k \in 1..Len(cells) : kept[k] = IF k = NumberSize + 1 THEN TypeOf(i) ELSE cells[k]
    BY <2>5, <2>6, Zenon
  <2>8. \A p \in 1..Len(cells), x \in C :
          (\A k \in 1..Len(cells) : kept[k] = IF k = p THEN x ELSE cells[k])
            => kept = [cells EXCEPT ![p] = x]
    <3> SUFFICES ASSUME NEW p \in 1..Len(cells), NEW x \in C,
                        \A k \in 1..Len(cells) : kept[k] = IF k = p THEN x ELSE cells[k]
                 PROVE  kept = [cells EXCEPT ![p] = x]
      OBVIOUS
    <3>1. cells \in Seq(C) /\ kept \in Seq(C) /\ Len(kept) = Len(cells)
      BY <2>2, <2>6
    <3> QED
      BY <3>1, Overwritten, Zenon
  <2>9. kept = [cells EXCEPT ![NumberSize + 1] = TypeOf(i)]
    BY <2>3, <2>7, <2>8, Zenon
  <2> QED
    BY <2>9 DEF kept, cells
<1>2. FileInv => RecordsUndamaged
  BY <1>1 DEF FileInv, RecordsUndamaged, Begin, CellsOf, TypeOf
<1> QED
  BY <1>2, FileInvariant, PTL
-----------------------------------------------------------------------------
(* What SELECT delivers *)

(* The rows of the live records that were passed are where these records are among each other; *)
(* in front of the first cut record there are no others.                                       *)
AnswerInv ==
  reader.kind = "rows" =>
    LET S == SeenAt(reader.at)
    IN  /\ Len(answer) >= Cardinality(S)
        /\ (tears = <<>> \/ reader.at < FrontEnd) => Len(answer) = Cardinality(S)
        /\ \A i \in S : answer[RankIn(S, i)] = <<records[i].key, records[i].val>>

LEMMA SeenIsFinite ==
  ASSUME TypeInv, NEW n
  PROVE  /\ SeenAt(n) \in SUBSET Nat /\ IsFiniteSet(SeenAt(n))
         /\ LiveRecords \in SUBSET Nat /\ IsFiniteSet(LiveRecords)
<1>1. Len(records) \in Nat /\ DOMAIN records = 1..Len(records)
  BY LenProperties DEF TypeInv
<1>2. IsFiniteSet(1..Len(records))
  BY <1>1, FS_Interval
<1>3. SeenAt(n) \in SUBSET (1..Len(records)) /\ LiveRecords \in SUBSET (1..Len(records))
  BY <1>1 DEF SeenAt, LiveRecords, Undisturbed
<1>4. IsFiniteSet(SeenAt(n)) /\ IsFiniteSet(LiveRecords)
  BY <1>2, <1>3, FS_Subset
<1>5. 1..Len(records) \subseteq Nat
  BY <1>1
<1> QED
  BY <1>3, <1>4, <1>5

(* The rows stay the same, and what has been passed does. *)
LEMMA SameAnswer ==
  ASSUME AnswerInv, reader.kind = "rows", file' = file, records' = records, tears' = tears,
         answer' = answer, SeenAt(reader'.at) = SeenAt(reader.at),
         reader'.at < FrontEnd => reader.at < FrontEnd
  PROVE  AnswerInv'
<1>1. FrontEnd' = FrontEnd /\ \A n : SeenAt(n)' = SeenAt(n)
  BY FrontSame, Zenon
<1>2. SeenAt(reader.at)' = SeenAt(reader.at)
  BY <1>1
<1> QED
  BY <1>1, <1>2 DEF AnswerInv

(* A row that is delivered in front belongs to the record that was passed, and to no other *)
(* behind: there the rows that the front has delivered stay.                               *)
LEMMA RowAnswers ==
  ASSUME FileInv, TypeInv', AnswerInv, ReadRow
  PROVE  AnswerInv'
<1> DEFINE valAt == BehindText(KeyAt)
           row == <<TextAt(KeyAt + NumberSize, NumberAt(KeyAt)),
                    TextAt(valAt + NumberSize, NumberAt(valAt))>>
           S == SeenAt(reader.at)
<1>1. TypeInv /\ LowCells /\ FrontInv /\ ReaderInv
  BY DEF FileInv
<1>2. file' = file /\ records' = records /\ tears' = tears /\ answer' = Append(answer, row)
      /\ reader.kind = "rows" /\ ~IsTombstone(file[TypeAt])
  BY DEF ReadRow, AtLive
<1>3. MovesOn /\ Scanning /\ reader'.kind = "rows"
  BY <1>1, <1>2, ScanMovesOn DEF MovesOn
<1>4. /\ Len(answer) \in Nat /\ Len(answer') = Len(answer) + 1 /\ answer'[Len(answer) + 1] = row
      /\ \A k \in 1..Len(answer) : answer'[k] = answer[k]
  <2>1. PICK T : answer \in Seq(T)
    BY <1>1 DEF TypeInv
  <2>2. answer \in Seq(T \cup {row}) /\ row \in T \cup {row}
    <3> HIDE DEF row
    <3>1. Len(answer) \in Nat /\ \A k \in 1..Len(answer) : answer[k] \in T \cup {row}
      BY <2>1, LenProperties, ElementOfSeq
    <3> QED
      BY <2>1, <3>1
  <2> HIDE DEF row
  <2> QED
    BY <1>2, <2>2, AppendProperties, LenProperties
<1>5. /\ S \in SUBSET Nat /\ IsFiniteSet(S) /\ Cardinality(S) \in Nat
      /\ Len(answer) >= Cardinality(S)
      /\ (tears = <<>> \/ reader.at < FrontEnd) => Len(answer) = Cardinality(S)
      /\ \A i \in S : answer[RankIn(S, i)] = <<records[i].key, records[i].val>>
  BY <1>1, <1>2, SeenIsFinite, FS_CardinalityType DEF AnswerInv
<1>6. FrontEnd' = FrontEnd /\ \A n : SeenAt(n)' = SeenAt(n)
  BY <1>2, FrontSame, Zenon
<1>7. SeenAt(reader.at)' = SeenAt(reader'.at)
  BY <1>6
<1>8. \A i \in S : RankIn(S, i) \in 1..Len(answer)
  <2> HIDE DEF S
  <2>1. \A i \in S : RankIn(S, i) \in 1..Cardinality(S)
    BY <1>5, RankBounds
  <2> QED
    BY <1>4, <1>5, <2>1
<1>9. ASSUME NEW i \in Undisturbed, reader.at = Begin(i), reader'.at = Behind(i),
             reader'.good = reader.good
      PROVE  AnswerInv'
  <2>1. reader.at < FrontEnd /\ i \in DOMAIN records /\ i \in Nat
    <3>1. i \in DOMAIN records /\ Begin(i) \in Nat /\ Behind(i) \in Nat /\ Begin(i) + 11 <= Behind(i)
          /\ Behind(i) <= FrontEnd /\ FrontEnd \in Nat
      BY <1>1, UndisturbedRecord, FrontPlace
    <3>2. i \in Nat
      BY <1>1, <3>1, WrittenRecord
    <3> QED
      BY <1>9, <3>1, <3>2
  <2>2. FindsRecord(i)
    BY <1>1, <1>3, <1>9, <2>1, FrontScan DEF ReaderInv
  <2>3. file[TypeAt] = TypeOf(i) /\ row = <<records[i].key, records[i].val>>
    BY <2>2, Zenon DEF FindsRecord
  <2> HIDE DEF row
  <2>4. i \in LiveRecords
    BY <1>2, <2>3 DEF LiveRecords, TypeOf, IsTombstone, INSERT, DELETE, UNUSED
  <2>5. SeenAt(reader'.at) = S \cup {i} /\ i \notin S
    <3>1. LiveRecords \cap {i} = {i}
      BY <2>4
    <3> QED
      BY <1>1, <1>9, <3>1, SeenNext
  <2>6. \A j \in S : j < i
    <3>1. \A j \in S : j \in Undisturbed /\ j \in Nat /\ Begin(j) < Begin(i)
      BY <1>5, <1>9 DEF SeenAt, LiveRecords
    <3>2. \A j \in Undisturbed : i < j => Behind(i) <= Begin(j)
      BY <1>1 DEF FrontInv
    <3>3. \A j \in Undisturbed : Begin(j) \in Nat
      BY <1>1, UndisturbedRecord
    <3>4. Begin(i) < Behind(i) /\ Begin(i) \in Nat /\ Behind(i) \in Nat
      BY <1>1, UndisturbedRecord
    <3> QED
      BY <2>1, <2>5, <3>1, <3>2, <3>3, <3>4
  <2> HIDE DEF S
  <2>7. /\ Cardinality(S \cup {i}) = Cardinality(S) + 1 /\ RankIn(S \cup {i}, i) = Cardinality(S) + 1
        /\ \A j \in S : RankIn(S \cup {i}, j) = RankIn(S, j)
    BY <1>5, <2>1, <2>6, RankGrows
  <2>8. Len(answer) = Cardinality(S)
    BY <1>5, <2>1
  <2>9. \A j \in S \cup {i} : answer'[RankIn(S \cup {i}, j)] = <<records[j].key, records[j].val>>
    <3>1. answer'[RankIn(S \cup {i}, i)] = <<records[i].key, records[i].val>>
      BY <1>4, <2>3, <2>7, <2>8
    <3>2. ASSUME NEW j \in S
          PROVE  answer'[RankIn(S \cup {i}, j)] = <<records[j].key, records[j].val>>
      <4>1. answer'[RankIn(S, j)] = answer[RankIn(S, j)]
        BY <1>4, <1>8, <3>2
      <4> QED
        BY <1>5, <2>7, <3>2, <4>1
    <3> QED
      BY <3>1, <3>2
  <2>10. Len(answer') = Cardinality(S \cup {i})
    BY <1>4, <2>7, <2>8
  <2>11. Len(answer') >= Cardinality(S \cup {i})
    BY <1>4, <2>10
  <2> QED
    BY <1>2, <1>7, <2>5, <2>9, <2>10, <2>11 DEF AnswerInv
<1>10. ASSUME tears # <<>>, reader.at >= FrontEnd, reader'.at >= FrontEnd
       PROVE  AnswerInv'
  <2>1. reader.at \in Nat /\ reader'.at \in Nat /\ FrontEnd \in Nat
    <3>1. reader' \in ReaderType
      BY DEF TypeInv, ReaderType
    <3> QED
      BY <1>1, <3>1, FrontPlace DEF TypeInv, ReaderType
  <2>2. SeenAt(reader'.at) = S
    BY <1>1, <1>10, <2>1, SeenAll
  <2>3. ~(reader'.at < FrontEnd)
    BY <1>10, <2>1
  <2> HIDE DEF S, row
  <2>4. \A i \in S : answer'[RankIn(S, i)] = <<records[i].key, records[i].val>>
    BY <1>4, <1>5, <1>8
  <2>5. Len(answer') >= Cardinality(S)
    BY <1>4, <1>5
  <2> QED
    BY <1>2, <1>6, <1>7, <1>10, <2>2, <2>3, <2>4, <2>5 DEF AnswerInv
<1> QED
  BY <1>3, <1>9, <1>10 DEF MovesOn

(* A step of a scan that skips a record: a tombstone, or something behind the first cut. *)
LEMMA SkipAnswers ==
  ASSUME FileInv, TypeInv', AnswerInv, SkipTombstone
  PROVE  AnswerInv'
<1>1. TypeInv /\ LowCells /\ FrontInv /\ ReaderInv
  BY DEF FileInv
<1>2. file' = file /\ records' = records /\ tears' = tears /\ answer' = answer
  BY DEF SkipTombstone
<1>3. MovesOn /\ Scanning /\ reader'.kind = reader.kind
  BY <1>1, ScanMovesOn DEF MovesOn
<1>4. ASSUME NEW i \in Undisturbed, reader.at = Begin(i), reader'.at = Behind(i),
             reader'.good = reader.good
      PROVE  SeenAt(reader'.at) = SeenAt(reader.at) /\ reader.at < FrontEnd
  <2>1. reader.at < FrontEnd
    <3>1. i \in DOMAIN records /\ Begin(i) \in Nat /\ Behind(i) \in Nat /\ Begin(i) + 11 <= Behind(i)
          /\ Behind(i) <= FrontEnd /\ FrontEnd \in Nat
      BY <1>1, UndisturbedRecord, FrontPlace
    <3> QED
      BY <1>4, <3>1
  <2>2. FindsRecord(i)
    BY <1>1, <1>3, <1>4, <2>1, FrontScan DEF ReaderInv
  <2>3. file[TypeAt] = TypeOf(i) /\ IsTombstone(file[TypeAt])
    BY <2>2, Zenon DEF FindsRecord, SkipTombstone
  <2>4. ~records[i].live
    BY <2>3 DEF TypeOf, IsTombstone, INSERT, DELETE, UNUSED
  <2>5. LiveRecords \cap {i} = {}
    BY <2>4 DEF LiveRecords
  <2> QED
    BY <1>1, <1>4, <2>1, <2>5, SeenNext
<1>5. ASSUME reader.at >= FrontEnd, reader'.at >= FrontEnd
      PROVE  SeenAt(reader'.at) = SeenAt(reader.at) /\ ~(reader'.at < FrontEnd)
  <2>1. reader.at \in Nat /\ reader'.at \in Nat /\ FrontEnd \in Nat
    BY <1>1, FrontPlace DEF TypeInv
  <2> QED
    BY <1>1, <1>5, <2>1, SeenAll
<1>6. SeenAt(reader'.at) = SeenAt(reader.at) /\ (reader'.at < FrontEnd => reader.at < FrontEnd)
  BY <1>3, <1>4, <1>5 DEF MovesOn
<1>7. CASE reader.kind = "rows"
  BY <1>2, <1>6, <1>7, SameAnswer
<1>8. CASE reader.kind # "rows"
  BY <1>3, <1>8 DEF AnswerInv
<1> QED
  BY <1>7, <1>8

LEMMA AnswerStep ==
  ASSUME FileInv, TypeInv', AnswerInv, [TornNext]_tornVars
  PROVE  AnswerInv'
<1>1. TypeInv /\ FrontInv
  BY DEF FileInv
<1> SUFFICES ASSUME reader'.kind = "rows"
             PROVE  AnswerInv'
  BY DEF AnswerInv
<1>2. ASSUME NEW kind \in {"rows", "delete"}, BeginScan(kind)
      PROVE  AnswerInv'
  <2>1. reader'.at = 1 /\ answer' = <<>> /\ file' = file /\ records' = records /\ tears' = tears
    BY <1>2 DEF BeginScan, Scan, Idle
  <2>2. \A n : SeenAt(n)' = SeenAt(n)
    BY <2>1, FrontSame, Zenon
  <2>3. SeenAt(reader.at)' = {}
    BY <1>1, <2>1, <2>2, SeenNone
  <2>4. Len(answer') = 0 /\ Cardinality({}) = 0
    BY <2>1, FS_EmptySet
  <2> QED
    BY <2>3, <2>4 DEF AnswerInv
<1>3. CASE StreamFails \/ UNCHANGED tornVars
  <2>1. /\ file' = file /\ records' = records /\ tears' = tears /\ answer' = answer
        /\ reader'.at = reader.at /\ reader'.kind = reader.kind
    BY <1>1, <1>3 DEF StreamFails, tornVars, TypeInv
  <2> QED
    BY <2>1, SameAnswer
<1>4. \A key, val : ~AppendRecord(key, val)
  BY DEF AppendRecord
<1>5. \A key, val, n : ~TearRecord(key, val, n)
  BY DEF TearRecord, Down, Idle
<1>6. \A entry : ~DeleteByIndexLookup(entry)
  BY DEF DeleteByIndexLookup
<1>7. ~Stop /\ ~Start /\ ~EndScan /\ ~Throws
  BY DEF Stop, Start, EndScan, Throws, Down, Idle, Scan
<1>8. ~ReadKey /\ ~DeleteRecord
  <2>1. ReadKey \/ DeleteRecord => reader'.kind = reader.kind
    BY <1>1, ScanMovesOn DEF MovesOn, FileInv
  <2> QED
    BY <2>1 DEF ReadKey, DeleteRecord, AtLive
<1>9. ScanStep => StreamFails \/ SkipTombstone \/ ReadRow
  BY <1>7, <1>8 DEF ScanStep, TypeMissing, KeyUnreadable, RowUnreadable
<1> QED
  BY <1>2, <1>3, <1>4, <1>5, <1>6, <1>7, <1>9, SkipAnswers, RowAnswers DEF TornNext

LEMMA AnswerInvariant ==
  ASSUME NoTopCells
  PROVE  TornSpec => [](FileInv /\ AnswerInv)
<1>1. TornInit => AnswerInv
  BY DEF TornInit, Idle, AnswerInv
<1>2. FileInv /\ FileInv' /\ AnswerInv /\ [TornNext]_tornVars => AnswerInv'
  BY AnswerStep DEF FileInv
<1> QED
  BY <1>1, <1>2, FileInvariant, PTL DEF TornSpec

(* A SELECT that reaches the end of the table, or throws, has delivered the live records in      *)
(* front of the first cut one, in their order; of a file without a cut, exactly those            *)
(* (performSequentialRead and deserializeNextRecord).                                            *)
THEOREM SelectReadsFront ==
  ASSUME NoTopCells
  PROVE  TornSpec => SelectReadsRecords
<1> DEFINE Delivered ==
             reader.kind = "rows" /\ reader'.kind = "none" =>
               LET Rank(i) == Cardinality({j \in LiveRecords : j <= i})
               IN  /\ Len(answer) >= Cardinality(LiveRecords)
                   /\ tears = <<>> => Len(answer) = Cardinality(LiveRecords)
                   /\ \A i \in LiveRecords : answer[Rank(i)] = <<records[i].key, records[i].val>>
<1>1. ASSUME FileInv, AnswerInv, [TornNext]_tornVars, reader.kind = "rows", reader'.kind = "none"
      PROVE  SeenAt(reader.at) = LiveRecords
  <2>1. TypeInv /\ FrontInv /\ ReaderInv /\ Scanning
    BY <1>1 DEF FileInv, Scanning
  <2>2. CASE TypeMissing \/ KeyUnreadable \/ RowUnreadable \/ EndScan
    <3>1. reader.at >= FrontEnd
      BY <2>1, <2>2, FailsBehind, EndsBehind DEF EndScan
    <3>2. reader.at \in Nat
      BY <2>1, Places
    <3> QED
      BY <2>1, <3>1, <3>2, SeenAll
  <2>3. ~(SkipTombstone \/ ReadKey \/ ReadRow \/ DeleteRecord)
    <3>1. SkipTombstone \/ ReadKey \/ ReadRow \/ DeleteRecord => reader'.kind = reader.kind
      BY <1>1, ScanMovesOn DEF MovesOn, FileInv
    <3> QED
      BY <1>1, <3>1
  <2>4. ~ \E key \in KeyTexts, val \in ValTexts : AppendRecord(key, val)
    BY <1>1 DEF AppendRecord
  <2>5. ~ \E key \in KeyTexts, val \in ValTexts :
            \E n \in 1..(Len(Encoded(key, val)) - 1) : TearRecord(key, val, n)
    BY <1>1 DEF TearRecord
  <2>6. ~ \E entry \in index : DeleteByIndexLookup(entry)
    BY <1>1 DEF DeleteByIndexLookup
  <2>7. ~Stop /\ ~Start /\ ~(\E kind \in {"rows", "delete"} : BeginScan(kind)) /\ ~UNCHANGED tornVars
    BY <1>1 DEF Stop, Start, BeginScan, Down, Idle, tornVars
  <2> QED
    BY <1>1, <2>2, <2>3, <2>4, <2>5, <2>6, <2>7 DEF TornNext, ScanStep
<1>2. FileInv /\ AnswerInv /\ [TornNext]_tornVars => Delivered
  <2> SUFFICES ASSUME FileInv, AnswerInv, [TornNext]_tornVars,
                      reader.kind = "rows", reader'.kind = "none"
               PROVE  Delivered
    OBVIOUS
  <2>1. SeenAt(reader.at) = LiveRecords
    BY <1>1
  <2> QED
    BY <2>1 DEF AnswerInv, RankIn
<1>3. [](FileInv /\ AnswerInv) /\ [][TornNext]_tornVars => SelectReadsRecords
  <2>1. FileInv /\ AnswerInv /\ [TornNext]_tornVars => [Delivered]_tornVars
    BY <1>2
  <2>2. [](FileInv /\ AnswerInv) /\ [][TornNext]_tornVars => [][Delivered]_tornVars
    <3> HIDE DEF Delivered
    <3> QED
      BY <2>1, PTL
  <2> QED
    BY <2>2, PTL DEF SelectReadsRecords
<1> QED
  BY <1>3, AnswerInvariant, PTL DEF TornSpec
=============================================================================
