------------------------- MODULE EventLog_proofs ---------------------------
(***************************************************************************)
(* That the event log keeps the daemon's events, for any number of claims, *)
(* days and backups, any sizes of the buffer and of the files, and every   *)
(* interleaving of the processes' system calls and faults.  What the log   *)
(* holds is defined by recursive functions along sequences; the induction  *)
(* over them is done with sets of numbers closed under successor.          *)
(***************************************************************************)
EXTENDS EventLog, FiniteSetTheorems, SequenceTheorems, WellFoundedInduction, TLAPS

-----------------------------------------------------------------------------
(* The inductive invariant.                                                *)

(* The units of lines, and the writers' records.                           *)
Units == (Nat \cup Claims) \X {1, 2}
Writers ==
  [pc : {"closed", "idle", "ensure", "check", "append", "shift", "close"}, file : Nat, day : Days \cup {0},
   size : Nat, buf : Seq(Units), line : Seq(Units), date : Days \cup {0}, shift : 0..MaxBackups,
   retry : BOOLEAN]
LogTypeOK ==
  /\ writer \in [Processes -> Writers]
  /\ slots \in [Days -> [0..MaxBackups -> Nat]]
  /\ content \in Seq(Seq(Units))
  /\ accepted \in [Days -> Seq(Units)]
  /\ collided \in BOOLEAN /\ logFaults \in Nat

(* Sequences of the daemon's units only; of whole claims.                  *)
OfDaemon(s) == \A i \in 1..Len(s) : DaemonUnit(s[i])
Whole(s) ==
  \A i \in 1..Len(s) : s[i][1] \in Claims /\ s[i][2] = 1 => i < Len(s) /\ s[i + 1] = <<s[i][1], 2>>

(* What a writer has open, buffered and under way, by its location.        *)
DaemonWriter(w) ==
  /\ OfDaemon(w.buf)
  /\ w.pc \in {"ensure", "check", "append", "shift"} => \E n \in Nat : w.line = Line(n)
ClaimWriter(c, w) ==
  /\ w.buf # <<>> => w.pc = "close" /\ w.buf = Line(c)
  /\ w.pc \in {"ensure", "check", "append", "shift"} => w.line = Line(c)
WriterInv(p, w) ==
  /\ w.file <= Len(content)
  /\ w.file = 0 => w.buf = <<>>
  /\ w.file # 0 => w.day \in Days
  /\ w.pc \in {"check", "append"} => w.file # 0 /\ w.day = w.date
  /\ w.pc \in {"closed", "shift"} => w.file = 0
  /\ w.pc \in {"ensure", "check", "append", "shift"} => w.date \in Days
  /\ w.pc = "shift" => w.day = w.date
  /\ IF p = "daemon" THEN DaemonWriter(w) ELSE ClaimWriter(p, w)
WritersInv == \A p \in Processes : WriterInv(p, writer[p])

(* A file has one name at most, and claims' lines in it are whole.         *)
FilesInv ==
  /\ \A d \in Days, i \in 0..MaxBackups : slots[d][i] <= Len(content)
  /\ \A d, e \in Days, i, j \in 0..MaxBackups :
       slots[d][i] # 0 /\ slots[d][i] = slots[e][j] => d = e /\ i = j
LinesInv == \A f \in 1..Len(content) : Whole(content[f])

(* Where the daemon's units of a day are: the slot i holds those between   *)
(* cut[i + 1] and cut[i], the buffer the rest; h is the slot of the file   *)
(* that the daemon has open (-1: none), the only one that may end within a *)
(* line.                                                                   *)
Piece(s, a, b) == [k \in 1..(b - a) |-> s[a + k]]
Cuts == [0..(MaxBackups + 1) -> Nat]
OpenOn(d) == writer["daemon"].file # 0 /\ writer["daemon"].day = d
Kept(d, cut, h) ==
  /\ IF OpenOn(d) THEN h # -1 /\ slots[d][h] = writer["daemon"].file ELSE h = -1
  /\ \A j \in 0..h : cut[j] = cut[0]
  /\ \A j \in (h + 1)..(MaxBackups + 1) : cut[j] % 2 = 0
  /\ \A i \in 0..MaxBackups :
       cut[i + 1] <= cut[i] /\ FilePart(slots[d][i]) = Piece(accepted[d], cut[i + 1], cut[i])
  /\ cut[0] <= Len(accepted[d]) /\ DaemonBuf(d) = Piece(accepted[d], cut[0], Len(accepted[d]))
  /\ Len(accepted[d]) % 2 = 0
KeptInv ==
  collided \/ \A d \in Days : \E cut \in Cuts, h \in -1..MaxBackups : Kept(d, cut, h)

LogInv == LogTypeOK /\ WritersInv /\ FilesInv /\ LinesInv /\ KeptInv

-----------------------------------------------------------------------------
(* Induction, and pieces of sequences.                                     *)

(* A set of numbers that has 0 and with every number its successor has     *)
(* all: the least number outside it would be neither 0 nor a successor.    *)
LEMMA Successors ==
  ASSUME NEW S, 0 \in S, \A n \in Nat : n \in S => n + 1 \in S
  PROVE  Nat \subseteq S
<1> DEFINE R == {ss \in Nat \X Nat : ss[1] < ss[2]}
           T == Nat \ S
<1>1. SUFFICES ASSUME T # {} PROVE FALSE
  OBVIOUS
<1>2. IsWellFoundedOn(R, Nat)
  BY NatLessThanWellFounded DEF OpToRel
<1>3. PICK x \in T : \A y \in T : ~ (<<y, x>> \in R)
  <2> HIDE DEF R
  <2> QED
    BY <1>1, <1>2, WFMin
<1>4. x \in Nat /\ x # 0
  OBVIOUS
<1>5. x - 1 \in Nat /\ (x - 1) + 1 = x /\ x - 1 < x
  BY <1>4
<1>6. x - 1 \in T
  BY <1>4, <1>5
<1> QED
  BY <1>3, <1>5, <1>6

(* A function given along 0..m by its first value, a, and its steps g[1],  *)
(* g[2], ...                                                               *)
StepsAlong(f, g, m, a) == f[0] = a /\ \A n \in 1..m : f[n] = g[n][f[n - 1]]

(* Such a function exists.                                                 *)
LEMMA StepByStep ==
  ASSUME NEW V, NEW a \in V, NEW m \in Nat, NEW g \in [1..m -> [V -> V]]
  PROVE  \E f \in [0..m -> V] : StepsAlong(f, g, m, a)
<1> DEFINE Defines(f, n) == f[0] = a /\ \A i \in 1..n : f[i] = g[i][f[i - 1]]
           S == {n \in Nat : n <= m => \E f \in [0..n -> V] : Defines(f, n)}
<1>1. 0 \in S
  <2>1. [i \in 0..0 |-> a] \in [0..0 -> V] /\ Defines([i \in 0..0 |-> a], 0)
    OBVIOUS
  <2> QED
    BY <2>1
<1>2. ASSUME NEW n \in Nat, n \in S PROVE n + 1 \in S
  <2>1. SUFFICES ASSUME n + 1 <= m PROVE \E f \in [0..(n + 1) -> V] : Defines(f, n + 1)
    OBVIOUS
  <2>2. n <= m
    BY <2>1
  <2>3. PICK f \in [0..n -> V] : Defines(f, n)
    BY <1>2, <2>2
  <2> DEFINE x == g[n + 1][f[n]]
             e == [i \in 0..(n + 1) |-> IF i = n + 1 THEN x ELSE f[i]]
  <2>4. f[n] \in V /\ g[n + 1] \in [V -> V]
    BY <2>1
  <2>5. x \in V
    BY <2>4
  <2>6. e \in [0..(n + 1) -> V]
    BY <2>5
  <2>7. e[0] = a
    BY <2>3
  <2>8. ASSUME NEW i \in 1..(n + 1) PROVE e[i] = g[i][e[i - 1]]
    <3>1. CASE i = n + 1
      <4>1. e[i] = x /\ e[i - 1] = f[n]
        BY <3>1
      <4> QED
        BY <3>1, <4>1
    <3>2. CASE i # n + 1
      <4>1. i \in 1..n /\ i - 1 \in 0..n
        BY <3>2
      <4>2. e[i] = f[i] /\ e[i - 1] = f[i - 1]
        BY <4>1
      <4> QED
        BY <2>3, <4>1, <4>2
    <3> QED
      BY <3>1, <3>2
  <2> HIDE DEF e
  <2> QED
    BY <2>6, <2>7, <2>8
<1>3. Nat \subseteq S
  <2> HIDE DEF S
  <2> QED
    BY <1>1, <1>2, Successors
<1>4. m \in S
  BY <1>3
<1> QED
  BY <1>4 DEF StepsAlong

(* A piece of a sequence is a sequence of its length.                      *)
LEMMA PieceIsSeq ==
  ASSUME NEW s \in Seq(Units), NEW a \in Nat, NEW b \in Nat, a <= b, b <= Len(s)
  PROVE  Piece(s, a, b) \in Seq(Units) /\ Len(Piece(s, a, b)) = b - a
<1>1. b - a \in Nat /\ \A k \in 1..(b - a) : a + k \in 1..Len(s) /\ s[a + k] \in Units
  OBVIOUS
<1>2. Piece(s, a, b) \in [1..(b - a) -> Units]
  BY <1>1 DEF Piece
<1> QED
  BY <1>1, <1>2

(* Pieces that meet join.                                                  *)
LEMMA PiecesJoin ==
  ASSUME NEW s \in Seq(Units), NEW a \in Nat, NEW b \in Nat, NEW c \in Nat, a <= b, b <= c, c <= Len(s)
  PROVE  Piece(s, a, b) \o Piece(s, b, c) = Piece(s, a, c)
<1> DEFINE x == Piece(s, a, b)
           y == Piece(s, b, c)
           z == Piece(s, a, c)
<1>1. x \in Seq(Units) /\ Len(x) = b - a /\ y \in Seq(Units) /\ Len(y) = c - b /\ z \in Seq(Units) /\ Len(z) = c - a
  <2>1. a <= c /\ b <= Len(s)
    OBVIOUS
  <2>2. x \in Seq(Units) /\ Len(x) = b - a
    BY <2>1, PieceIsSeq
  <2>3. y \in Seq(Units) /\ Len(y) = c - b
    BY <2>1, PieceIsSeq
  <2>4. z \in Seq(Units) /\ Len(z) = c - a
    BY <2>1, PieceIsSeq
  <2> QED
    BY <2>2, <2>3, <2>4
<1>2. \A k \in 1..Len(x) : x[k] = s[a + k]
  BY <1>1 DEF Piece
<1>3. \A k \in 1..Len(y) : y[k] = s[b + k]
  BY <1>1 DEF Piece
<1>4. \A k \in 1..Len(z) : z[k] = s[a + k]
  BY <1>1 DEF Piece
<1> HIDE DEF x, y, z
<1>5. x \o y \in Seq(Units) /\ Len(x \o y) = Len(z)
  <2>1. x \o y \in Seq(Units) /\ Len(x \o y) = Len(x) + Len(y)
    BY <1>1, ConcatProperties
  <2>2. Len(x) + Len(y) = Len(z)
    BY <1>1
  <2> QED
    BY <2>1, <2>2
<1>6. ASSUME NEW k \in 1..Len(z) PROVE (x \o y)[k] = z[k]
  <2>1. CASE k <= Len(x)
    <3>1. (x \o y)[k] = x[k] /\ k \in 1..Len(x)
      BY <1>1, <2>1
    <3> QED
      BY <1>2, <1>4, <3>1
  <2>2. CASE k > Len(x)
    <3>1. k - Len(x) \in 1..Len(y) /\ b + (k - Len(x)) = a + k
      BY <1>1, <2>2
    <3>2. (x \o y)[k] = y[k - Len(x)]
      BY <1>1, <1>5, <2>2, ConcatProperties
    <3> QED
      BY <1>3, <1>4, <3>1, <3>2
  <2> QED
    BY <1>1, <2>1, <2>2
<1> QED
  BY <1>1, <1>5, <1>6, SeqEqual DEF x, y, z

(* A piece of what was there is unchanged by what is appended.             *)
LEMMA PieceOfLonger ==
  ASSUME NEW s \in Seq(Units), NEW t \in Seq(Units), NEW a \in Nat, NEW b \in Nat, b <= Len(s)
  PROVE  Piece(s \o t, a, b) = Piece(s, a, b)
<1>1. \A k \in 1..(b - a) : (s \o t)[a + k] = s[a + k]
  OBVIOUS
<1> QED
  BY <1>1 DEF Piece

(* What is appended is the piece at the end.                               *)
LEMMA PieceAtEnd ==
  ASSUME NEW s \in Seq(Units), NEW t \in Seq(Units)
  PROVE  Piece(s \o t, Len(s), Len(s) + Len(t)) = t
<1> DEFINE p == Piece(s \o t, Len(s), Len(s) + Len(t))
<1>1. p \in Seq(Units) /\ Len(p) = Len(t)
  <2> DEFINE st == s \o t
             m == Len(s)
             n == Len(s) + Len(t)
  <2>1. st \in Seq(Units) /\ Len(st) = n /\ m \in Nat /\ n \in Nat /\ m <= n /\ n <= Len(st) /\ n - m = Len(t)
    BY ConcatProperties
  <2> HIDE DEF st, m, n
  <2>2. Piece(st, m, n) \in Seq(Units) /\ Len(Piece(st, m, n)) = n - m
    BY <2>1, PieceIsSeq, Zenon
  <2> QED
    BY <2>1, <2>2 DEF st, m, n
<1>2. \A k \in 1..Len(t) : p[k] = t[k]
  BY DEF Piece
<1> HIDE DEF p
<1> QED
  BY <1>1, <1>2, SeqEqual DEF p

-----------------------------------------------------------------------------
(* What a file holds of the daemon's.                                      *)

(* The function along a sequence that DaemonPart defines.                  *)
Parts(s, f) ==
  f = [n \in 0..Len(s) |->
        IF n = 0 THEN <<>> ELSE IF DaemonUnit(s[n]) THEN Append(f[n - 1], s[n]) ELSE f[n - 1]]

(* It exists.                                                              *)
LEMMA PartsExist ==
  ASSUME NEW s \in Seq(Units)
  PROVE  \E f \in [0..Len(s) -> Seq(Units)] : Parts(s, f)
<1> DEFINE V == Seq(Units)
           g == [n \in 1..Len(s) |-> [x \in V |-> IF DaemonUnit(s[n]) THEN Append(x, s[n]) ELSE x]]
<1>1. Len(s) \in Nat /\ <<>> \in V
  OBVIOUS
<1>2. g \in [1..Len(s) -> [V -> V]]
  <2>1. ASSUME NEW n \in 1..Len(s), NEW x \in V PROVE (IF DaemonUnit(s[n]) THEN Append(x, s[n]) ELSE x) \in V
    <3>1. s[n] \in Units
      OBVIOUS
    <3>2. Append(x, s[n]) \in V
      BY <3>1, AppendProperties
    <3> QED
      BY <3>2
  <2> QED
    BY <2>1
<1>3. PICK f \in [0..Len(s) -> V] : StepsAlong(f, g, Len(s), <<>>)
  <2> HIDE DEF V, g
  <2> QED
    BY <1>1, <1>2, StepByStep
<1>4. ASSUME NEW n \in 0..Len(s)
      PROVE  f[n] = IF n = 0 THEN <<>> ELSE IF DaemonUnit(s[n]) THEN Append(f[n - 1], s[n]) ELSE f[n - 1]
  <2>1. CASE n = 0
    BY <1>3, <2>1 DEF StepsAlong
  <2>2. CASE n # 0
    <3>1. n \in 1..Len(s) /\ n - 1 \in 0..Len(s)
      BY <2>2
    <3>2. f[n - 1] \in V /\ f[n] = g[n][f[n - 1]]
      BY <1>3, <3>1 DEF StepsAlong
    <3>3. g[n][f[n - 1]] = IF DaemonUnit(s[n]) THEN Append(f[n - 1], s[n]) ELSE f[n - 1]
      BY <3>1, <3>2
    <3> QED
      BY <2>2, <3>2, <3>3
  <2> QED
    BY <2>1, <2>2
<1>5. f = [n \in 0..Len(s) |-> f[n]]
  OBVIOUS
<1> QED
  BY <1>4, <1>5 DEF Parts

(* Up to m it depends on the first m units only.                           *)
LEMMA PartsAgree ==
  ASSUME NEW s, NEW t, NEW f, NEW g, NEW m \in Nat, Len(s) \in Nat, Len(t) \in Nat, Parts(s, f), Parts(t, g),
         m <= Len(s), m <= Len(t), \A i \in 1..m : s[i] = t[i]
  PROVE  f[m] = g[m]
<1> DEFINE S == {n \in Nat : n <= m => f[n] = g[n]}
<1>1. 0 \in S
  <2>1. 0 \in 0..Len(s) /\ 0 \in 0..Len(t)
    OBVIOUS
  <2>2. f[0] = <<>> /\ g[0] = <<>>
    BY <2>1 DEF Parts
  <2> QED
    BY <2>2
<1>2. ASSUME NEW n \in Nat, n \in S PROVE n + 1 \in S
  <2>1. SUFFICES ASSUME n + 1 <= m PROVE f[n + 1] = g[n + 1]
    OBVIOUS
  <2>2. n + 1 \in 0..Len(s) /\ n + 1 \in 0..Len(t) /\ n + 1 # 0 /\ (n + 1) - 1 = n /\ n + 1 \in 1..m
    BY <2>1
  <2>3. f[n + 1] = IF DaemonUnit(s[n + 1]) THEN Append(f[n], s[n + 1]) ELSE f[n]
    BY <2>2 DEF Parts
  <2>4. g[n + 1] = IF DaemonUnit(t[n + 1]) THEN Append(g[n], t[n + 1]) ELSE g[n]
    BY <2>2 DEF Parts
  <2>5. s[n + 1] = t[n + 1] /\ f[n] = g[n]
    BY <1>2, <2>1, <2>2
  <2> QED
    BY <2>3, <2>4, <2>5
<1>3. Nat \subseteq S
  <2> HIDE DEF S
  <2> QED
    BY <1>1, <1>2, Successors
<1> QED
  BY <1>3

(* DaemonPart is its last value.                                           *)
LEMMA DaemonPartIs ==
  ASSUME NEW s \in Seq(Units), NEW f, Parts(s, f)
  PROVE  DaemonPart(s) = f[Len(s)]
<1> DEFINE g == CHOOSE h : Parts(s, h)
<1>1. Parts(s, g)
  BY Zenon
<1>2. DaemonPart(s) = g[Len(s)]
  BY Zenon DEF DaemonPart, Parts
<1> HIDE DEF g
<1>3. f[Len(s)] = g[Len(s)]
  BY <1>1, PartsAgree
<1> QED
  BY <1>2, <1>3

(* DaemonPart is a sequence of units.                                      *)
LEMMA PartType ==
  ASSUME NEW s \in Seq(Units)
  PROVE  DaemonPart(s) \in Seq(Units)
<1>1. PICK f \in [0..Len(s) -> Seq(Units)] : Parts(s, f)
  BY PartsExist
<1>2. Len(s) \in 0..Len(s)
  OBVIOUS
<1> QED
  BY <1>1, <1>2, DaemonPartIs

(* An empty file holds nothing of the daemon's.                            *)
LEMMA PartOfNothing == DaemonPart(<<>>) = <<>>
<1>1. <<>> \in Seq(Units) /\ Len(<<>>) = 0 /\ 0 \in 0..0
  OBVIOUS
<1>2. PICK f \in [0..Len(<<>>) -> Seq(Units)] : Parts(<<>>, f)
  BY <1>1, PartsExist
<1>3. f[0] = <<>>
  BY <1>1, <1>2 DEF Parts
<1> QED
  BY <1>1, <1>2, <1>3, DaemonPartIs

(* One more unit in a file counts if it is the daemon's.                   *)
LEMMA PartOfAppend ==
  ASSUME NEW s \in Seq(Units), NEW u \in Units
  PROVE  DaemonPart(Append(s, u)) = IF DaemonUnit(u) THEN Append(DaemonPart(s), u) ELSE DaemonPart(s)
<1> DEFINE t == Append(s, u)
           m == Len(s)
<1>1. t \in Seq(Units) /\ Len(t) = m + 1 /\ t[m + 1] = u /\ m \in Nat /\ \A i \in 1..m : s[i] = t[i]
  BY AppendProperties
<1> HIDE DEF t
<1>2. PICK f : Parts(s, f)
  BY PartsExist
<1>3. PICK g : Parts(t, g)
  BY <1>1, PartsExist
<1>4. f[m] = g[m]
  BY <1>1, <1>2, <1>3, PartsAgree
<1>5. m + 1 \in 0..Len(t) /\ m + 1 # 0 /\ (m + 1) - 1 = m
  BY <1>1
<1>6. g[m + 1] = IF DaemonUnit(u) THEN Append(g[m], u) ELSE g[m]
  BY <1>1, <1>3, <1>5 DEF Parts
<1>7. DaemonPart(s) = f[m] /\ DaemonPart(t) = g[m + 1]
  BY <1>1, <1>2, <1>3, DaemonPartIs
<1> QED
  BY <1>4, <1>6, <1>7 DEF t

(* What the daemon writes at the end of a file joins the daemon's part.    *)
LEMMA DaemonWrites ==
  ASSUME NEW s \in Seq(Units), NEW t \in Seq(Units), OfDaemon(t)
  PROVE  DaemonPart(s \o t) = DaemonPart(s) \o t
<1> DEFINE First(k) == SubSeq(t, 1, k)
           S == {k \in Nat : k <= Len(t) => DaemonPart(s \o First(k)) = DaemonPart(s) \o First(k)}
<1>0. DaemonPart(s) \in Seq(Units)
  BY PartType
<1>1. 0 \in S
  <2>1. First(0) = <<>>
    BY SubSeqEmpty
  <2>2. s \o <<>> = s /\ DaemonPart(s) \o <<>> = DaemonPart(s)
    BY <1>0, ConcatEmptySeq
  <2> QED
    BY <2>1, <2>2
<1>2. ASSUME NEW k \in Nat, k \in S PROVE k + 1 \in S
  <2>1. SUFFICES ASSUME k + 1 <= Len(t) PROVE DaemonPart(s \o First(k + 1)) = DaemonPart(s) \o First(k + 1)
    OBVIOUS
  <2>2. k + 1 \in 1..Len(t) /\ 1 <= k + 1 /\ t[k + 1] \in Units /\ DaemonUnit(t[k + 1])
    BY <2>1 DEF OfDaemon
  <2>3. First(k) \in Seq(Units) /\ First(k + 1) = Append(First(k), t[k + 1])
    BY <2>1, <2>2
  <2>4. \A r \in Seq(Units) : r \o Append(First(k), t[k + 1]) = Append(r \o First(k), t[k + 1])
    BY <2>2, <2>3
  <2>5. s \o First(k) \in Seq(Units)
    BY <2>3, ConcatProperties
  <2>6. DaemonPart(Append(s \o First(k), t[k + 1])) = Append(DaemonPart(s \o First(k)), t[k + 1])
    BY <2>2, <2>5, PartOfAppend
  <2>7. DaemonPart(s \o First(k)) = DaemonPart(s) \o First(k)
    BY <1>2, <2>1
  <2> HIDE DEF First
  <2> QED
    BY <1>0, <2>3, <2>4, <2>6, <2>7
<1>3. Nat \subseteq S
  <2> HIDE DEF S
  <2> QED
    BY <1>1, <1>2, Successors
<1>4. DaemonPart(s \o First(Len(t))) = DaemonPart(s) \o First(Len(t))
  <2>1. Len(t) \in Nat /\ Len(t) <= Len(t)
    OBVIOUS
  <2>2. Len(t) \in S
    BY <1>3, <2>1
  <2> HIDE DEF First
  <2> QED
    BY <2>1, <2>2
<1>5. First(Len(t)) = t
  BY SubSeqFull
<1> QED
  BY <1>4, <1>5

(* A claim's line leaves the daemon's part as it is.                       *)
LEMMA ClaimWrites ==
  ASSUME NEW s \in Seq(Units), NEW c \in Claims
  PROVE  DaemonPart(s \o Line(c)) = DaemonPart(s)
<1> DEFINE u == <<c, 1>>
           v == <<c, 2>>
<1>1. u \in Units /\ v \in Units /\ ~DaemonUnit(u) /\ ~DaemonUnit(v)
  BY DEF Units, DaemonUnit
<1> HIDE DEF u, v
<1>2. s \o <<u, v>> = Append(Append(s, u), v) /\ Append(s, u) \in Seq(Units)
  BY <1>1
<1>3. DaemonPart(Append(s, u)) = DaemonPart(s)
  BY <1>1, PartOfAppend
<1>4. DaemonPart(Append(Append(s, u), v)) = DaemonPart(Append(s, u))
  BY <1>1, <1>2, PartOfAppend
<1> QED
  BY <1>2, <1>3, <1>4 DEF Line, u, v

-----------------------------------------------------------------------------
(* What the log of a day holds.                                            *)

(* A piece up to the end is a suffix.                                      *)
LEMMA PieceIsSuffix ==
  ASSUME NEW s \in Seq(Units), NEW a \in Nat, a <= Len(s)
  PROVE  IsSuffix(Piece(s, a, Len(s)), s)
<1> DEFINE p == Piece(s, a, Len(s))
           n == Len(s) - a
<1>1. p \in Seq(Units) /\ Len(p) = n /\ n \in Nat /\ n <= Len(s)
  <2> DEFINE b == Len(s)
  <2>1. b \in Nat /\ a <= b /\ b <= Len(s) /\ b - a \in Nat /\ b - a <= Len(s)
    OBVIOUS
  <2> HIDE DEF b
  <2>2. Piece(s, a, b) \in Seq(Units) /\ Len(Piece(s, a, b)) = b - a
    BY <2>1, PieceIsSeq
  <2> QED
    BY <2>1, <2>2 DEF b
<1>2. \A k \in 1..n : p[k] = s[a + k]
  BY DEF Piece
<1> HIDE DEF p
<1>3. Reverse(p) \in Seq(Units) /\ Len(Reverse(p)) = n
  BY <1>1 DEF Reverse
<1>4. Reverse(s) \in Seq(Units) /\ Len(Reverse(s)) = Len(s)
  BY DEF Reverse
<1>5. ASSUME NEW k \in 1..n PROVE Reverse(p)[k] = Reverse(s)[k]
  <2>1. (n - k) + 1 \in 1..n /\ a + ((n - k) + 1) = (Len(s) - k) + 1 /\ k \in 1..Len(s)
    BY <1>1
  <2>2. Reverse(p)[k] = p[(n - k) + 1]
    BY <1>1 DEF Reverse
  <2>3. Reverse(s)[k] = s[(Len(s) - k) + 1]
    BY <2>1 DEF Reverse
  <2> QED
    BY <1>2, <2>1, <2>2, <2>3
<1>6. SubSeq(Reverse(p), 1, n) = SubSeq(Reverse(s), 1, n)
  <2>1. SubSeq(Reverse(p), 1, n) = [k \in 1..n |-> Reverse(p)[k]]
    BY <1>1, <1>3
  <2>2. SubSeq(Reverse(s), 1, n) = [k \in 1..n |-> Reverse(s)[k]]
    BY <1>1, <1>4
  <2> QED
    BY <1>5, <2>1, <2>2
<1> QED
  BY <1>1, <1>3, <1>4, <1>6 DEF IsSuffix, IsPrefix, p

(* The cuts descend from the newest file to the oldest.                    *)
LEMMA CutsDescend ==
  ASSUME NEW cut \in Cuts, \A i \in 0..MaxBackups : cut[i + 1] <= cut[i]
  PROVE  \A j \in 0..(MaxBackups + 1) : cut[j] \in Nat /\ cut[j] <= cut[0]
<1> DEFINE S == {n \in Nat : n <= MaxBackups + 1 => cut[n] <= cut[0]}
<1>0. MaxBackups \in Nat /\ \A j \in 0..(MaxBackups + 1) : cut[j] \in Nat
  BY EventLogAssumption DEF Cuts
<1>1. 0 \in S
  BY <1>0
<1>2. ASSUME NEW n \in Nat, n \in S PROVE n + 1 \in S
  <2>1. SUFFICES ASSUME n + 1 <= MaxBackups + 1 PROVE cut[n + 1] <= cut[0]
    OBVIOUS
  <2>2. n \in 0..MaxBackups /\ n \in 0..(MaxBackups + 1) /\ n + 1 \in 0..(MaxBackups + 1) /\ 0 \in 0..(MaxBackups + 1)
    BY <1>0, <2>1
  <2>3. cut[n + 1] <= cut[n] /\ cut[n] <= cut[0]
    BY <1>2, <2>2
  <2> QED
    BY <1>0, <2>2, <2>3
<1>3. Nat \subseteq S
  <2> HIDE DEF S
  <2> QED
    BY <1>1, <1>2, Successors
<1> QED
  BY <1>0, <1>3

(* The function over the files of a day that DaemonLog defines.            *)
Logs(d, f) ==
  f = [n \in 0..(MaxBackups + 1) |->
        IF n = 0 THEN <<>> ELSE f[n - 1] \o FilePart(slots[d][(MaxBackups + 1) - n])]

(* Where the pieces are in their slots, the log of a day is the accepted   *)
(* events from the oldest cut on: an induction over the files, oldest      *)
(* first.                                                                  *)
LEMMA DaemonLogIs ==
  ASSUME LogTypeOK, NEW d \in Days, NEW cut \in Cuts, NEW h \in -1..MaxBackups, Kept(d, cut, h)
  PROVE  DaemonLog(d) = Piece(accepted[d], cut[MaxBackups + 1], Len(accepted[d]))
<1> DEFINE V == Seq(Units)
           m == MaxBackups + 1
           acc == accepted[d]
           At(n) == FilePart(slots[d][m - n])
           g == [n \in 1..m |-> [x \in V |-> x \o At(n)]]
           L == CHOOSE f : Logs(d, f)
<1>1. MaxBackups \in Nat /\ m \in Nat /\ acc \in V
  BY EventLogAssumption DEF LogTypeOK
<1>2. \A i \in 0..MaxBackups : cut[i + 1] <= cut[i] /\ FilePart(slots[d][i]) = Piece(acc, cut[i + 1], cut[i])
  BY DEF Kept
<1>3. cut[0] <= Len(acc) /\ DaemonBuf(d) = Piece(acc, cut[0], Len(acc))
  BY DEF Kept
<1>4. \A j \in 0..m : cut[j] \in Nat /\ cut[j] <= cut[0]
  BY <1>2, CutsDescend
<1>5. ASSUME NEW n \in 1..m
      PROVE  At(n) = Piece(acc, cut[m - (n - 1)], cut[m - n]) /\ At(n) \in V
             /\ cut[m - (n - 1)] <= cut[m - n] /\ cut[m - n] <= Len(acc)
             /\ cut[m - n] \in Nat /\ cut[m - (n - 1)] \in Nat
  <2>1. m - n \in 0..MaxBackups /\ m - n \in 0..m /\ m - (n - 1) \in 0..m /\ (m - n) + 1 = m - (n - 1)
    BY <1>1
  <2>2. At(n) = Piece(acc, cut[m - (n - 1)], cut[m - n]) /\ cut[m - (n - 1)] <= cut[m - n]
    BY <1>2, <2>1
  <2> DEFINE a == cut[m - (n - 1)]
             b == cut[m - n]
  <2>3. a \in Nat /\ b \in Nat /\ a <= b
    BY <1>4, <2>1, <2>2
  <2>4. b <= Len(acc)
    <3>1. b <= cut[0] /\ cut[0] \in Nat /\ Len(acc) \in Nat
      BY <1>1, <1>4, <2>1
    <3> QED
      BY <1>3, <2>3, <3>1
  <2> HIDE DEF acc, m, a, b
  <2>5. Piece(acc, a, b) \in V
    BY <1>1, <2>3, <2>4, PieceIsSeq
  <2> QED
    BY <2>2, <2>3, <2>4, <2>5 DEF a, b
<1>6. PICK f \in [0..m -> V] : StepsAlong(f, g, m, <<>>)
  <2>1. g \in [1..m -> [V -> V]]
    <3>1. ASSUME NEW n \in 1..m, NEW x \in V PROVE x \o At(n) \in V
      <4>1. At(n) \in V
        BY <1>5
      <4> HIDE DEF At
      <4> QED
        BY <4>1, ConcatProperties
    <3> HIDE DEF At, m
    <3> QED
      BY <3>1
  <2>2. <<>> \in V
    OBVIOUS
  <2> HIDE DEF V, g, m
  <2> QED
    BY <1>1, <2>1, <2>2, StepByStep
<1>7. Logs(d, f)
  <2>1. ASSUME NEW n \in 0..m PROVE f[n] = IF n = 0 THEN <<>> ELSE f[n - 1] \o At(n)
    <3>1. CASE n = 0
      BY <1>6, <3>1 DEF StepsAlong
    <3>2. CASE n # 0
      <4>1. n \in 1..m /\ n - 1 \in 0..m
        BY <1>1, <3>2
      <4>2. f[n - 1] \in V /\ f[n] = g[n][f[n - 1]]
        BY <1>6, <4>1 DEF StepsAlong
      <4> HIDE DEF At, m, V
      <4>3. g[n][f[n - 1]] = f[n - 1] \o At(n)
        BY <4>1, <4>2
      <4> HIDE DEF g
      <4> QED
        BY <3>2, <4>2, <4>3
    <3> QED
      BY <3>1, <3>2
  <2>2. f = [n \in 0..m |-> f[n]]
    OBVIOUS
  <2>3. f = [n \in 0..m |-> IF n = 0 THEN <<>> ELSE f[n - 1] \o At(n)]
    <3> HIDE DEF At, m
    <3> QED
      BY <2>1, <2>2
  <2> QED
    BY <2>3, Zenon DEF Logs
<1>8. Logs(d, L)
  BY <1>7, Zenon
<1>9. DaemonLog(d) = L[m] \o DaemonBuf(d)
  BY Zenon DEF DaemonLog, Logs
<1> HIDE DEF L
<1>10. \A n \in 0..m : L[n] = IF n = 0 THEN <<>> ELSE L[n - 1] \o At(n)
  <2>1. L = [n \in 0..m |-> IF n = 0 THEN <<>> ELSE L[n - 1] \o At(n)]
    BY <1>8, Zenon DEF Logs
  <2> HIDE DEF m, At
  <2> QED
    BY <2>1
<1> DEFINE S == {n \in Nat : n <= m => /\ L[n] = Piece(acc, cut[m], cut[m - n])
                                       /\ cut[m] <= cut[m - n]}
<1>11. 0 \in S
  <2>1. 0 \in 0..m /\ m - 0 = m /\ m \in 0..m
    BY <1>1
  <2>2. L[0] = <<>> /\ cut[m] \in Nat
    BY <1>4, <1>10, <2>1
  <2>3. Piece(acc, cut[m], cut[m]) = <<>> /\ cut[m] <= cut[m]
    BY <2>2 DEF Piece
  <2> QED
    BY <2>1, <2>2, <2>3
<1>12. ASSUME NEW n \in Nat, n \in S PROVE n + 1 \in S
  <2>1. SUFFICES ASSUME n + 1 <= m
                 PROVE  L[n + 1] = Piece(acc, cut[m], cut[m - (n + 1)]) /\ cut[m] <= cut[m - (n + 1)]
    OBVIOUS
  <2>2. n + 1 \in 1..m /\ n + 1 \in 0..m /\ n + 1 # 0 /\ (n + 1) - 1 = n /\ n <= m /\ m \in 0..m
    BY <1>1, <2>1
  <2> DEFINE a == cut[m]
             b == cut[m - n]
             c == cut[m - (n + 1)]
  <2>3. L[n] = Piece(acc, a, b) /\ a <= b
    BY <1>12, <2>2
  <2>4. At(n + 1) = Piece(acc, b, c) /\ b <= c /\ c <= Len(acc) /\ b \in Nat /\ c \in Nat
    BY <1>5, <2>2
  <2>5. L[n + 1] = L[n] \o At(n + 1)
    BY <1>10, <2>2
  <2>6. a \in Nat
    BY <1>4, <2>2
  <2> HIDE DEF a, b, c, acc, At, m
  <2>7. Piece(acc, a, b) \o Piece(acc, b, c) = Piece(acc, a, c)
    <3>1. acc \in Seq(Units) /\ a <= b /\ b <= c /\ c <= Len(acc) /\ b \in Nat /\ c \in Nat
      BY <1>1, <2>3, <2>4
    <3> QED
      BY <2>6, <3>1, PiecesJoin
  <2>8. a <= c
    BY <2>3, <2>4, <2>6
  <2> QED
    BY <2>3, <2>4, <2>5, <2>7, <2>8 DEF a, c
<1>13. Nat \subseteq S
  <2> HIDE DEF S
  <2> QED
    BY <1>11, <1>12, Successors
<1>14. L[m] = Piece(acc, cut[m], cut[0]) /\ cut[m] <= cut[0]
  <2>1. m - m = 0 /\ m <= m
    BY <1>1
  <2>2. m \in S
    BY <1>1, <1>13
  <2> HIDE DEF m, acc
  <2> QED
    BY <2>1, <2>2
<1> DEFINE a == cut[m]
           b == cut[0]
           e == Len(acc)
<1>15. a \in Nat /\ b \in Nat /\ e \in Nat
  <2>1. 0 \in 0..m /\ m \in 0..m
    BY <1>1
  <2>2. Len(acc) \in Nat
    BY <1>1
  <2> QED
    BY <1>4, <2>1, <2>2
<1>16. a <= b /\ b <= e /\ e <= Len(acc) /\ L[m] = Piece(acc, a, b) /\ DaemonBuf(d) = Piece(acc, b, e)
  BY <1>3, <1>14, <1>15
<1> HIDE DEF a, b, e, acc, m
<1>17. Piece(acc, a, b) \o Piece(acc, b, e) = Piece(acc, a, e)
  <2>1. acc \in Seq(Units) /\ a <= b /\ b <= e /\ e <= Len(acc)
    BY <1>1, <1>16
  <2> QED
    BY <1>15, <2>1, PiecesJoin
<1> QED
  BY <1>9, <1>16, <1>17 DEF a, e, acc, m

(* The invariant implies the property.                                     *)
LEMMA KeptIsKept ==
  ASSUME LogInv
  PROVE  EventsAreKept
<1>1. ASSUME ~collided, NEW d \in Days
      PROVE  Len(DaemonLog(d)) % 2 = 0 /\ IsSuffix(DaemonLog(d), accepted[d])
  <2>1. PICK cut \in Cuts, h \in -1..MaxBackups : Kept(d, cut, h)
    BY <1>1 DEF LogInv, KeptInv
  <2> DEFINE acc == accepted[d]
             a == cut[MaxBackups + 1]
  <2>2. DaemonLog(d) = Piece(acc, a, Len(acc))
    BY <2>1, DaemonLogIs DEF LogInv
  <2>3. MaxBackups \in Nat /\ 0 \in 0..(MaxBackups + 1) /\ MaxBackups + 1 \in 0..(MaxBackups + 1)
        /\ MaxBackups + 1 \in (h + 1)..(MaxBackups + 1)
    BY EventLogAssumption
  <2>4. acc \in Seq(Units) /\ Len(acc) \in Nat
    BY DEF LogInv, LogTypeOK
  <2>5. a \in Nat /\ a <= Len(acc)
    <3>1. \A i \in 0..MaxBackups : cut[i + 1] <= cut[i]
      BY <2>1 DEF Kept
    <3>2. a \in Nat /\ cut[0] \in Nat /\ a <= cut[0]
      BY <2>3, <3>1, CutsDescend
    <3>3. cut[0] <= Len(acc)
      BY <2>1 DEF Kept
    <3> QED
      BY <2>4, <3>2, <3>3
  <2>6. a % 2 = 0 /\ Len(acc) % 2 = 0
    BY <2>1, <2>3 DEF Kept
  <2> HIDE DEF a, acc
  <2>7. Len(Piece(acc, a, Len(acc))) = Len(acc) - a /\ IsSuffix(Piece(acc, a, Len(acc)), acc)
    <3> DEFINE b == Len(acc)
    <3>1. b \in Nat /\ a <= b /\ b <= Len(acc)
      BY <2>4, <2>5
    <3> HIDE DEF b
    <3>2. Len(Piece(acc, a, b)) = b - a
      BY <2>4, <2>5, <3>1, PieceIsSeq
    <3>3. IsSuffix(Piece(acc, a, Len(acc)), acc)
      BY <2>4, <2>5, PieceIsSuffix
    <3> QED
      BY <3>2, <3>3 DEF b
  <2>8. (Len(acc) - a) % 2 = 0
    BY <2>4, <2>5, <2>6
  <2> QED
    BY <2>2, <2>7, <2>8 DEF acc
<1>2. ASSUME NEW f \in 1..Len(content), NEW i \in 1..Len(content[f]),
             content[f][i][1] \in Claims, content[f][i][2] = 1
      PROVE  i < Len(content[f]) /\ content[f][i + 1] = <<content[f][i][1], 2>>
  BY <1>2 DEF LogInv, LinesInv, Whole
<1> QED
  BY <1>1, <1>2 DEF EventsAreKept

-----------------------------------------------------------------------------
(* Writers and files.                                                      *)

(* The daemon and the claims are apart, and lines are two units of their   *)
(* writer.                                                                 *)
LEMMA LogProcesses ==
  /\ "daemon" \in Processes /\ \A p \in Processes : p # "daemon" <=> p \in Claims
  /\ \A e \in Nat \cup Claims : Line(e) \in Seq(Units) /\ Len(Line(e)) = 2
  /\ \A n \in Nat : OfDaemon(Line(n))
<1>1. "daemon" \in Processes /\ \A p \in Processes : p # "daemon" <=> p \in Claims
  BY EventLogAssumption DEF Processes
<1>2. ASSUME NEW e \in Nat \cup Claims PROVE Line(e) \in Seq(Units) /\ Len(Line(e)) = 2
  <2>1. <<e, 1>> \in Units /\ <<e, 2>> \in Units
    BY DEF Units
  <2> QED
    BY <2>1 DEF Line
<1>3. ASSUME NEW n \in Nat PROVE OfDaemon(Line(n))
  <2>1. n \notin Claims
    BY EventLogAssumption
  <2>2. Len(Line(n)) = 2 /\ Line(n)[1] = <<n, 1>> /\ Line(n)[2] = <<n, 2>>
    BY DEF Line
  <2>3. \A i \in 1..Len(Line(n)) : i = 1 \/ i = 2
    BY <2>2
  <2> QED
    BY <2>1, <2>2, <2>3 DEF OfDaemon, DaemonUnit
<1> QED
  BY <1>1, <1>2, <1>3

(* The number of the daemon's next event is a number.                      *)
LEMMA EventsAreNumbered == ASSUME LogTypeOK PROVE DaemonEvents \in Nat
<1> DEFINE units == {{d} \X DOMAIN accepted[d] : d \in Days}
<1>1. IsFiniteSet(units)
  <2> DEFINE f == [d \in Days |-> {d} \X DOMAIN accepted[d]]
  <2>1. f \in Surjection(Days, units)
    BY DEF Surjection
  <2>2. IsFiniteSet(Days)
    BY EventLogAssumption
  <2> HIDE DEF f, units
  <2> QED
    BY <2>1, <2>2, FS_Surjection
<1>2. ASSUME NEW x \in units PROVE IsFiniteSet(x)
  <2>1. PICK d \in Days : x = {d} \X DOMAIN accepted[d]
    OBVIOUS
  <2>2. DOMAIN accepted[d] = 1..Len(accepted[d]) /\ Len(accepted[d]) \in Nat
    BY DEF LogTypeOK
  <2>3. IsFiniteSet({d})
    BY FS_Singleton
  <2>4. IsFiniteSet(1..Len(accepted[d]))
    <3>1. \A n \in Nat : IsFiniteSet(1..n)
      BY FS_Interval
    <3> QED
      BY <2>2, <3>1
  <2> QED
    BY <2>1, <2>2, <2>3, <2>4, FS_Product
<1>3. IsFiniteSet(UNION units)
  BY <1>1, <1>2, FS_UNION
<1> HIDE DEF units
<1>4. Cardinality(UNION units) \in Nat
  BY <1>3, FS_CardinalityType
<1> QED
  BY <1>4 DEF DaemonEvents, units

(* One process moves and no file gets shorter: what the others have open   *)
(* stays.                                                                  *)
LEMMA OthersWriteOn ==
  ASSUME LogTypeOK, WritersInv, NEW p \in Processes, NEW w \in Writers, writer' = [writer EXCEPT ![p] = w],
         Len(content') \in Nat, Len(content) <= Len(content'), WriterInv(p, w)'
  PROVE  /\ writer' \in [Processes -> Writers] /\ WritersInv'
         /\ writer'[p] = w /\ \A q \in Processes \ {p} : writer'[q] = writer[q]
<1>1. writer \in [Processes -> Writers] /\ Len(content) \in Nat
  BY DEF LogTypeOK
<1>2. writer' \in [Processes -> Writers] /\ writer'[p] = w /\ \A q \in Processes \ {p} : writer'[q] = writer[q]
  BY <1>1
<1>3. ASSUME NEW q \in Processes, q # p PROVE WriterInv(q, writer[q])'
  <2>1. writer[q] \in Writers /\ WriterInv(q, writer[q]) /\ writer'[q] = writer[q]
    BY <1>1, <1>2, <1>3 DEF WritersInv
  <2>2. writer[q].file <= Len(content')
    BY <1>1, <2>1 DEF WriterInv, Writers
  <2> QED
    BY <2>1, <2>2 DEF WriterInv
<1> QED
  BY <1>2, <1>3 DEF WritersInv

(* A write at the end of one file leaves the others.                       *)
LEMMA FileGrows ==
  ASSUME NEW files \in Seq(Seq(Units)), NEW f \in 1..Len(files), NEW t \in Seq(Units),
         NEW grown, grown = [files EXCEPT ![f] = @ \o t]
  PROVE  /\ grown \in Seq(Seq(Units)) /\ Len(grown) = Len(files) /\ grown[f] = files[f] \o t
         /\ \A g \in 1..Len(files) : g # f => grown[g] = files[g]
<1> DEFINE new == files[f] \o t
<1>1. files[f] \in Seq(Units)
  OBVIOUS
<1>2. new \in Seq(Units)
  BY <1>1, ConcatProperties
<1> HIDE DEF new
<1>3. [files EXCEPT ![f] = new] \in Seq(Seq(Units)) /\ Len([files EXCEPT ![f] = new]) = Len(files)
  BY <1>2, ExceptSeq
<1>4. [files EXCEPT ![f] = new][f] = new /\ \A g \in 1..Len(files) : g # f => [files EXCEPT ![f] = new][g] = files[g]
  OBVIOUS
<1> QED
  BY <1>3, <1>4 DEF new

(* A new file comes after the others.                                      *)
LEMMA FileAppears ==
  ASSUME NEW files \in Seq(Seq(Units))
  PROVE  /\ Append(files, <<>>) \in Seq(Seq(Units)) /\ Len(Append(files, <<>>)) = Len(files) + 1
         /\ Append(files, <<>>)[Len(files) + 1] = <<>>
         /\ \A g \in 1..Len(files) : Append(files, <<>>)[g] = files[g]
<1>1. <<>> \in Seq(Units)
  OBVIOUS
<1> QED
  BY <1>1, AppendProperties

(* Claims' lines stay whole when the daemon writes or a claim writes a     *)
(* line.                                                                   *)
LEMMA WholeGrows ==
  ASSUME NEW s \in Seq(Units), NEW t \in Seq(Units), Whole(s), OfDaemon(t) \/ \E c \in Claims : t = Line(c)
  PROVE  Whole(s \o t)
<1>1. s \o t \in Seq(Units) /\ Len(s \o t) = Len(s) + Len(t) /\ Len(s) \in Nat /\ Len(t) \in Nat
  BY ConcatProperties
<1>2. \A i \in 1..Len(s) : (s \o t)[i] = s[i]
  BY ConcatProperties
<1>3. \A i \in 1..Len(t) : (s \o t)[Len(s) + i] = t[i]
  OBVIOUS
<1>4. Whole(t)
  <2>1. CASE OfDaemon(t)
    BY <2>1 DEF OfDaemon, DaemonUnit, Whole
  <2>2. ASSUME NEW c \in Claims, t = Line(c) PROVE Whole(t)
    <3>1. Len(t) = 2 /\ t[1] = <<c, 1>> /\ t[2] = <<c, 2>>
      BY <2>2 DEF Line
    <3>2. \A i \in 1..Len(t) : i = 1 \/ i = 2
      BY <3>1
    <3> QED
      BY <3>1, <3>2 DEF Whole
  <2> QED
    BY <2>1, <2>2
<1> DEFINE st == s \o t
<1> HIDE DEF st
<1>5. ASSUME NEW i \in 1..Len(st), st[i][1] \in Claims, st[i][2] = 1
      PROVE  i < Len(st) /\ st[i + 1] = <<st[i][1], 2>>
  <2>1. CASE i <= Len(s)
    <3>1. i \in 1..Len(s) /\ st[i] = s[i]
      BY <1>1, <1>2, <2>1 DEF st
    <3>2. i < Len(s) /\ s[i + 1] = <<s[i][1], 2>>
      BY <1>5, <3>1 DEF Whole
    <3>3. i + 1 \in 1..Len(s)
      BY <1>1, <3>1, <3>2
    <3> QED
      BY <1>1, <1>2, <3>1, <3>2, <3>3 DEF st
  <2>2. CASE i > Len(s)
    <3> DEFINE k == i - Len(s)
    <3>1. k \in 1..Len(t) /\ Len(s) + k = i /\ Len(s) + (k + 1) = i + 1
      BY <1>1, <2>2 DEF st
    <3>2. st[i] = t[k]
      BY <1>3, <3>1 DEF st
    <3>3. k < Len(t) /\ t[k + 1] = <<t[k][1], 2>>
      BY <1>4, <1>5, <3>1, <3>2 DEF Whole
    <3>4. k + 1 \in 1..Len(t)
      BY <1>1, <3>1, <3>3
    <3>5. st[i + 1] = t[k + 1]
      BY <1>3, <3>1, <3>4 DEF st
    <3>6. i < Len(st)
      BY <1>1, <3>1, <3>3 DEF st
    <3> QED
      BY <3>2, <3>3, <3>5, <3>6
  <2> QED
    BY <1>1, <2>1, <2>2 DEF st
<1> QED
  BY <1>5 DEF Whole, st

(* The invariant without the part on where the daemon's lines are.         *)
PlainInv == LogTypeOK /\ WritersInv /\ FilesInv /\ LinesInv

(* What a writer has open and in its buffer.                               *)
LEMMA BufferHolds ==
  ASSUME PlainInv, NEW p \in Processes
  PROVE  /\ writer[p] \in Writers /\ WriterInv(p, writer[p])
         /\ writer[p].file # 0 => writer[p].file \in 1..Len(content)
         /\ writer[p].buf \in Seq(Units)
         /\ OfDaemon(writer[p].buf) \/ \E c \in Claims : writer[p].buf = Line(c)
<1>1. writer[p] \in Writers /\ WriterInv(p, writer[p]) /\ writer[p].buf \in Seq(Units) /\ Len(content) \in Nat
  BY DEF PlainInv, LogTypeOK, WritersInv, Writers
<1>2. writer[p].file # 0 => writer[p].file \in 1..Len(content)
  BY <1>1 DEF WriterInv, Writers
<1>3. CASE p = "daemon"
  BY <1>1, <1>2, <1>3 DEF WriterInv, DaemonWriter
<1>4. CASE p # "daemon"
  <2>1. p \in Claims
    BY <1>4, LogProcesses
  <2>2. writer[p].buf = <<>> \/ writer[p].buf = Line(p)
    BY <1>1, <1>4 DEF WriterInv, ClaimWriter
  <2>3. OfDaemon(<<>>)
    BY DEF OfDaemon
  <2> QED
    BY <1>1, <1>2, <2>1, <2>2, <2>3
<1> QED
  BY <1>3, <1>4

(* A buffer is written out: files and lines stay in order.                 *)
LEMMA FilesGrow ==
  ASSUME PlainInv, NEW f \in 1..Len(content), NEW t \in Seq(Units), OfDaemon(t) \/ \E c \in Claims : t = Line(c),
         content' = [content EXCEPT ![f] = @ \o t], UNCHANGED slots
  PROVE  /\ content' \in Seq(Seq(Units)) /\ Len(content') = Len(content) /\ content'[f] = content[f] \o t
         /\ \A g \in 1..Len(content) : g # f => content'[g] = content[g]
         /\ FilesInv' /\ LinesInv'
<1>1. content \in Seq(Seq(Units))
  BY DEF PlainInv, LogTypeOK
<1>2. /\ content' \in Seq(Seq(Units)) /\ Len(content') = Len(content) /\ content'[f] = content[f] \o t
      /\ \A g \in 1..Len(content) : g # f => content'[g] = content[g]
  BY <1>1, FileGrows
<1>3. FilesInv'
  BY <1>2 DEF PlainInv, FilesInv
<1>4. ASSUME NEW g \in 1..Len(content') PROVE Whole(content'[g])
  <2>1. g \in 1..Len(content) /\ content[g] \in Seq(Units) /\ Whole(content[g]) /\ content[f] \in Seq(Units) /\ Whole(content[f])
    BY <1>1, <1>2 DEF PlainInv, LinesInv
  <2>2. Whole(content[f] \o t)
    BY <2>1, WholeGrows
  <2> QED
    BY <1>2, <2>1, <2>2
<1> QED
  BY <1>2, <1>3, <1>4 DEF LinesInv

(* A path is opened, with its file or a new empty one.                     *)
LEMMA PathOpens ==
  ASSUME PlainInv, NEW d \in Days, NEW f \in 1..(Len(content) + 1), OpenPath(d, f)
  PROVE  /\ slots' \in [Days -> [0..MaxBackups -> Nat]] /\ content' \in Seq(Seq(Units))
         /\ Len(content) \in Nat /\ Len(content') \in Nat /\ Len(content) <= Len(content') /\ f \in 1..Len(content')
         /\ slots'[d][0] = f /\ slots[d][0] \in {0, f}
         /\ \A g \in 1..Len(content) : content'[g] = content[g]
         /\ slots[d][0] = 0 => content'[f] = <<>>
         /\ \A e \in Days, i \in 0..MaxBackups : <<e, i>> # <<d, 0>> => slots'[e][i] = slots[e][i]
         /\ FilesInv' /\ LinesInv'
<1>1. content \in Seq(Seq(Units)) /\ slots \in [Days -> [0..MaxBackups -> Nat]] /\ Len(content) \in Nat
      /\ 0 \in 0..MaxBackups /\ MaxBackups \in Nat
  BY EventLogAssumption DEF PlainInv, LogTypeOK
<1>2. CASE slots[d][0] # 0 /\ f = slots[d][0] /\ UNCHANGED <<slots, content>>
  <2>1. f \in 1..Len(content)
    BY <1>1, <1>2 DEF PlainInv, FilesInv
  <2>2. FilesInv' /\ LinesInv'
    BY <1>2 DEF PlainInv, FilesInv, LinesInv
  <2> QED
    BY <1>1, <1>2, <2>1, <2>2
<1>3. CASE /\ slots[d][0] = 0 /\ f = Len(content) + 1
           /\ slots' = [slots EXCEPT ![d][0] = f] /\ content' = Append(content, <<>>)
  <2>1. /\ content' \in Seq(Seq(Units)) /\ Len(content') = f /\ content'[f] = <<>>
        /\ \A g \in 1..Len(content) : content'[g] = content[g]
    BY <1>1, <1>3, FileAppears
  <2>2. slots' \in [Days -> [0..MaxBackups -> Nat]] /\ slots'[d][0] = f
        /\ \A e \in Days, i \in 0..MaxBackups : <<e, i>> # <<d, 0>> => slots'[e][i] = slots[e][i]
    BY <1>1, <1>3
  <2>3. \A e \in Days, i \in 0..MaxBackups : slots[e][i] \in Nat /\ slots[e][i] <= Len(content)
    BY <1>1 DEF PlainInv, FilesInv
  <2>4. FilesInv'
    <3>1. \A e \in Days, i \in 0..MaxBackups : slots'[e][i] <= Len(content')
      BY <1>1, <1>3, <2>1, <2>2, <2>3
    <3>2. ASSUME NEW a \in Days, NEW b \in Days, NEW i \in 0..MaxBackups, NEW j \in 0..MaxBackups,
                 slots'[a][i] # 0, slots'[a][i] = slots'[b][j]
          PROVE  a = b /\ i = j
      <4>1. CASE <<a, i>> = <<d, 0>>
        BY <1>1, <1>3, <2>2, <2>3, <3>2, <4>1
      <4>2. CASE <<b, j>> = <<d, 0>>
        BY <1>1, <1>3, <2>2, <2>3, <3>2, <4>2
      <4>3. CASE <<a, i>> # <<d, 0>> /\ <<b, j>> # <<d, 0>>
        BY <2>2, <3>2, <4>3 DEF PlainInv, FilesInv
      <4> QED
        BY <4>1, <4>2, <4>3
    <3> QED
      BY <3>1, <3>2 DEF FilesInv
  <2>5. LinesInv'
    <3>1. Whole(<<>>)
      BY DEF Whole
    <3>2. ASSUME NEW g \in 1..Len(content') PROVE Whole(content'[g])
      <4>1. g = f \/ g \in 1..Len(content)
        BY <1>1, <1>3, <2>1
      <4> QED
        BY <2>1, <3>1, <4>1 DEF PlainInv, LinesInv
    <3> QED
      BY <3>2 DEF LinesInv
  <2> QED
    BY <1>1, <1>3, <2>1, <2>2, <2>4, <2>5
<1> QED
  BY <1>2, <1>3 DEF OpenPath

(* A writer that has not been used.                                        *)
LEMMA FreshWriter == Fresh \in Writers
<1>1. <<>> \in Seq(Units) /\ 0 \in 0..MaxBackups /\ 0 \in Nat
  BY EventLogAssumption
<1> QED
  BY <1>1 DEF Fresh, Writers

-----------------------------------------------------------------------------
(* The steps: what each one does to the writers and the files.             *)

(* A process moves, among files that are in order.                         *)
LEMMA ProcessMoves ==
  ASSUME PlainInv, NEW p \in Processes, NEW w \in Writers, writer' = [writer EXCEPT ![p] = w], WriterInv(p, w)',
         slots' \in [Days -> [0..MaxBackups -> Nat]], content' \in Seq(Seq(Units)), Len(content) <= Len(content'),
         FilesInv', LinesInv', accepted' \in [Days -> Seq(Units)], collided' \in BOOLEAN, logFaults' \in Nat
  PROVE  PlainInv' /\ writer'[p] = w /\ \A q \in Processes \ {p} : writer'[q] = writer[q]
<1>1. Len(content') \in Nat
  OBVIOUS
<1>2. /\ writer' \in [Processes -> Writers] /\ WritersInv'
      /\ writer'[p] = w /\ \A q \in Processes \ {p} : writer'[q] = writer[q]
  BY <1>1, OthersWriteOn DEF PlainInv
<1> QED
  BY <1>2 DEF PlainInv, LogTypeOK

(* It touches nothing but itself.                                          *)
LEMMA ProcessAlone ==
  ASSUME PlainInv, NEW p \in Processes, NEW w \in Writers, writer' = [writer EXCEPT ![p] = w], WriterInv(p, w),
         UNCHANGED <<slots, content, accepted>>, collided' \in BOOLEAN, logFaults' \in Nat
  PROVE  PlainInv' /\ writer'[p] = w /\ \A q \in Processes \ {p} : writer'[q] = writer[q]
<1>1. /\ slots' \in [Days -> [0..MaxBackups -> Nat]] /\ content' \in Seq(Seq(Units)) /\ Len(content) <= Len(content')
      /\ FilesInv' /\ LinesInv' /\ accepted' \in [Days -> Seq(Units)]
  BY DEF PlainInv, LogTypeOK, FilesInv, LinesInv
<1>2. WriterInv(p, w)'
  BY DEF WriterInv
<1> QED
  BY <1>1, <1>2, ProcessMoves

(* A step of p alone: the daemon has open and in its buffer what it had.   *)
Alone(p) ==
  /\ UNCHANGED <<slots, content, accepted, collided>>
  /\ \A q \in Processes \ {p} : writer'[q] = writer[q]
  /\ p = "daemon" =>
       /\ writer'[p].file = writer[p].file
       /\ writer[p].file # 0 => writer'[p].day = writer[p].day /\ writer'[p].buf = writer[p].buf

(* NewBus is such a step.                                                  *)
LEMMA NewBusKeeps ==
  ASSUME PlainInv, NEW p \in Processes, NewBus(p)
  PROVE  PlainInv' /\ Alone(p)
<1> DEFINE w == [Fresh EXCEPT !.pc = "idle"]
<1>1. w \in Writers /\ w.file = 0 /\ w.buf = <<>> /\ w.pc = "idle"
  BY FreshWriter DEF Fresh, Writers
<1>2. OfDaemon(<<>>) /\ Len(content) \in Nat
  BY DEF OfDaemon, PlainInv, LogTypeOK
<1> HIDE DEF w
<1>3. WriterInv(p, w)
  BY <1>1, <1>2 DEF WriterInv, DaemonWriter, ClaimWriter
<1>4. writer[p].file = 0
  BY BufferHolds DEF NewBus, WriterInv
<1>5. writer' = [writer EXCEPT ![p] = w] /\ collided' \in BOOLEAN /\ logFaults' \in Nat
  BY DEF NewBus, PlainInv, LogTypeOK, w
<1>6. PlainInv' /\ writer'[p] = w /\ \A q \in Processes \ {p} : writer'[q] = writer[q]
  BY <1>1, <1>3, <1>5, ProcessAlone DEF NewBus
<1> QED
  BY <1>1, <1>4, <1>6 DEF NewBus, Alone

(* Write, which only takes the line and its date, is one.                  *)
LEMMA WriteKeeps ==
  ASSUME PlainInv, NEW p \in Processes, NEW d \in Days, Write(p, d)
  PROVE  PlainInv' /\ Alone(p)
<1> DEFINE e == IF p = "daemon" THEN DaemonEvents ELSE p
           l == Line(e)
           w == [writer[p] EXCEPT !.pc = "ensure", !.date = d, !.retry = FALSE, !.line = l]
<1>1. e \in Nat \cup Claims /\ (p = "daemon" => e \in Nat) /\ (p # "daemon" => e = p)
  BY EventsAreNumbered, LogProcesses DEF PlainInv
<1>2. l \in Seq(Units)
  <2> HIDE DEF e
  <2> QED
    BY <1>1, LogProcesses
<1>3. writer[p] \in Writers /\ WriterInv(p, writer[p]) /\ writer[p].pc = "idle"
  BY BufferHolds DEF Write
<1> HIDE DEF l
<1>4. w \in Writers /\ w.pc = "ensure" /\ w.line = l /\ w.date = d /\ w.file = writer[p].file
      /\ w.day = writer[p].day /\ w.buf = writer[p].buf
  BY <1>2, <1>3 DEF Writers
<1>5. writer' = [writer EXCEPT ![p] = w]
  BY DEF Write, l
<1> HIDE DEF w, e
<1>6. WriterInv(p, w)
  <2>1. CASE p = "daemon"
    BY <1>1, <1>3, <1>4, <2>1 DEF WriterInv, DaemonWriter, l
  <2>2. CASE p # "daemon"
    <3>1. writer[p].buf = <<>>
      BY <1>3, <2>2 DEF WriterInv, ClaimWriter
    <3> QED
      BY <1>1, <1>3, <1>4, <2>2, <3>1 DEF WriterInv, ClaimWriter, l
  <2> QED
    BY <2>1, <2>2
<1>7. collided' \in BOOLEAN /\ logFaults' \in Nat
  BY DEF Write, PlainInv, LogTypeOK
<1>8. PlainInv' /\ writer'[p] = w /\ \A q \in Processes \ {p} : writer'[q] = writer[q]
  BY <1>4, <1>5, <1>6, <1>7, ProcessAlone DEF Write
<1> QED
  BY <1>4, <1>8 DEF Write, Alone

(* Fits is one.                                                            *)
LEMMA FitsKeeps ==
  ASSUME PlainInv, NEW p \in Processes, Fits(p)
  PROVE  PlainInv' /\ Alone(p)
<1> DEFINE w == [writer[p] EXCEPT !.pc = "append"]
<1>1. writer[p] \in Writers /\ WriterInv(p, writer[p]) /\ writer[p].pc = "check"
  BY BufferHolds DEF Fits
<1>2. w \in Writers /\ w.pc = "append" /\ w.line = writer[p].line /\ w.date = writer[p].date
      /\ w.file = writer[p].file /\ w.day = writer[p].day /\ w.buf = writer[p].buf
  BY <1>1 DEF Writers
<1>3. writer' = [writer EXCEPT ![p] = w]
  BY DEF Fits
<1> HIDE DEF w
<1>4. WriterInv(p, w)
  BY <1>1, <1>2 DEF WriterInv, DaemonWriter, ClaimWriter
<1>5. collided' \in BOOLEAN /\ logFaults' \in Nat
  BY DEF Fits, PlainInv, LogTypeOK
<1>6. PlainInv' /\ writer'[p] = w /\ \A q \in Processes \ {p} : writer'[q] = writer[q]
  BY <1>2, <1>3, <1>4, <1>5, ProcessAlone DEF Fits
<1> QED
  BY <1>2, <1>6 DEF Fits, Alone

(* So is a failing open, whatever the writer does next.                    *)
LEMMA OpenFailsKeeps ==
  ASSUME PlainInv, NEW p \in Processes, writer[p].pc = "ensure", writer[p].file = 0, OpenFails(p),
         UNCHANGED <<accepted, collided>>
  PROVE  PlainInv' /\ Alone(p)
<1> DEFINE w == [writer[p] EXCEPT !.pc = IF p \in Claims THEN "close" ELSE "idle"]
<1>1. writer[p] \in Writers /\ WriterInv(p, writer[p])
  BY BufferHolds
<1>2. w \in Writers /\ w.pc \in {"close", "idle"} /\ w.file = 0 /\ w.day = writer[p].day /\ w.buf = writer[p].buf
  BY <1>1 DEF Writers
<1>3. writer' = [writer EXCEPT ![p] = w]
  BY DEF OpenFails
<1> HIDE DEF w
<1>4. WriterInv(p, w)
  BY <1>1, <1>2 DEF WriterInv, DaemonWriter, ClaimWriter
<1>5. collided' \in BOOLEAN /\ logFaults' \in Nat
  BY DEF OpenFails, PlainInv, LogTypeOK
<1>6. PlainInv' /\ writer'[p] = w /\ \A q \in Processes \ {p} : writer'[q] = writer[q]
  BY <1>2, <1>3, <1>4, <1>5, ProcessAlone DEF OpenFails
<1> QED
  BY <1>2, <1>6 DEF OpenFails, Alone

(* So is a failing step of a rotation.                                     *)
LEMMA RotationFailsKeeps ==
  ASSUME PlainInv, NEW p \in Processes, writer[p].pc = "shift", RotationFails(p), UNCHANGED <<accepted, collided>>
  PROVE  PlainInv' /\ Alone(p)
<1> DEFINE w == [writer[p] EXCEPT !.pc = "ensure", !.day = 0, !.retry = TRUE]
<1>1. writer[p] \in Writers /\ WriterInv(p, writer[p])
  BY BufferHolds
<1>2. w \in Writers /\ w.pc = "ensure" /\ w.file = writer[p].file /\ w.line = writer[p].line
      /\ w.date = writer[p].date /\ w.buf = writer[p].buf
  BY <1>1 DEF Writers
<1>3. writer' = [writer EXCEPT ![p] = w]
  BY DEF RotationFails
<1>4. writer[p].file = 0
  BY <1>1 DEF WriterInv
<1> HIDE DEF w
<1>5. WriterInv(p, w)
  BY <1>1, <1>2, <1>4 DEF WriterInv, DaemonWriter, ClaimWriter
<1>6. collided' \in BOOLEAN /\ logFaults' \in Nat
  BY DEF RotationFails, PlainInv, LogTypeOK
<1>7. PlainInv' /\ writer'[p] = w /\ \A q \in Processes \ {p} : writer'[q] = writer[q]
  BY <1>2, <1>3, <1>5, <1>6, ProcessAlone DEF RotationFails
<1> QED
  BY <1>2, <1>4, <1>7 DEF RotationFails, Alone

(* A step that writes the buffer out and closes the file.                  *)
FlushesAway(p) ==
  /\ writer[p].file # 0 /\ content' = Flushed(p) /\ writer'[p].file = 0
  /\ UNCHANGED <<slots, accepted, collided>>
  /\ \A q \in Processes \ {p} : writer'[q] = writer[q]

(* It keeps files and writers in order.                                    *)
LEMMA FlushKeeps ==
  ASSUME PlainInv, NEW p \in Processes, writer[p].file # 0, content' = Flushed(p), NEW w \in Writers,
         writer' = [writer EXCEPT ![p] = w], WriterInv(p, w), w.file = 0,
         UNCHANGED <<slots, accepted, collided, logFaults>>
  PROVE  PlainInv' /\ FlushesAway(p)
<1> DEFINE f == writer[p].file
           t == writer[p].buf
<1>1. f \in 1..Len(content) /\ t \in Seq(Units) /\ (OfDaemon(t) \/ \E c \in Claims : t = Line(c))
  BY BufferHolds
<1>2. content' = [content EXCEPT ![f] = @ \o t]
  BY DEF Flushed
<1> HIDE DEF f, t
<1>3. content' \in Seq(Seq(Units)) /\ Len(content') = Len(content) /\ FilesInv' /\ LinesInv'
  BY <1>1, <1>2, FilesGrow
<1>4. WriterInv(p, w)'
  BY <1>3 DEF WriterInv
<1>5. slots' \in [Days -> [0..MaxBackups -> Nat]] /\ Len(content) <= Len(content') /\ accepted' \in [Days -> Seq(Units)]
      /\ collided' \in BOOLEAN /\ logFaults' \in Nat
  BY <1>3 DEF PlainInv, LogTypeOK
<1>6. PlainInv' /\ writer'[p] = w /\ \A q \in Processes \ {p} : writer'[q] = writer[q]
  BY <1>3, <1>4, <1>5, ProcessMoves
<1> QED
  BY <1>6 DEF FlushesAway

(* A writer that has closed its file is in order.                          *)
LEMMA ClosedWriter ==
  ASSUME PlainInv, NEW p \in Processes, NEW there \in {"ensure", "closed"},
         there = "ensure" => writer[p].pc = "ensure"
  PROVE  /\ Closed(p, there) \in Writers /\ WriterInv(p, Closed(p, there)) /\ Closed(p, there).file = 0
         /\ Closed(p, there).buf = <<>>
<1> DEFINE w == Closed(p, there)
<1>1. writer[p] \in Writers /\ WriterInv(p, writer[p]) /\ <<>> \in Seq(Units) /\ Len(content) \in Nat
  BY BufferHolds DEF PlainInv, LogTypeOK
<1>2. w \in Writers /\ w.pc = there /\ w.line = writer[p].line /\ w.date = writer[p].date
      /\ w.file = 0 /\ w.day = writer[p].day /\ w.buf = <<>>
  BY <1>1 DEF Writers, Closed
<1> HIDE DEF w
<1>3. OfDaemon(<<>>)
  BY DEF OfDaemon
<1>4. WriterInv(p, w)
  BY <1>1, <1>2, <1>3 DEF WriterInv, DaemonWriter, ClaimWriter
<1> QED
  BY <1>2, <1>4 DEF w

(* A change of date is such a step.                                        *)
LEMMA SwitchDateKeeps ==
  ASSUME PlainInv, NEW p \in Processes, SwitchDate(p)
  PROVE  PlainInv' /\ FlushesAway(p)
<1> DEFINE w == Closed(p, "ensure")
<1>1. writer[p].pc = "ensure" /\ writer[p].file # 0 /\ content' = Flushed(p) /\ writer' = [writer EXCEPT ![p] = w]
      /\ UNCHANGED <<slots, accepted, collided, logFaults>>
  BY DEF SwitchDate
<1>2. w \in Writers /\ WriterInv(p, w) /\ w.file = 0
  BY <1>1, ClosedWriter
<1> HIDE DEF w
<1> QED
  BY <1>1, <1>2, FlushKeeps

(* So is Close, unless no file is open.                                    *)
LEMMA CloseBusKeeps ==
  ASSUME PlainInv, NEW p \in Processes, CloseBus(p)
  PROVE  PlainInv' /\ (FlushesAway(p) \/ Alone(p))
<1> DEFINE w == Closed(p, "closed")
<1>1. writer' = [writer EXCEPT ![p] = w] /\ UNCHANGED <<slots, accepted, collided, logFaults>>
      /\ content' = IF writer[p].file = 0 THEN content ELSE Flushed(p)
  BY DEF CloseBus
<1>2. w \in Writers /\ WriterInv(p, w) /\ w.file = 0
  BY ClosedWriter
<1> HIDE DEF w
<1>3. CASE writer[p].file # 0
  BY <1>1, <1>2, <1>3, FlushKeeps
<1>4. CASE writer[p].file = 0
  <2>1. UNCHANGED <<slots, content, accepted, collided>> /\ collided' \in BOOLEAN /\ logFaults' \in Nat
    BY <1>1, <1>4 DEF PlainInv, LogTypeOK
  <2>2. PlainInv' /\ writer'[p] = w /\ \A q \in Processes \ {p} : writer'[q] = writer[q]
    BY <1>1, <1>2, <2>1, ProcessAlone
  <2> QED
    BY <1>2, <1>4, <2>1, <2>2 DEF Alone
<1> QED
  BY <1>3, <1>4

(* So is the beginning of a rotation.                                      *)
LEMMA BeginRotateKeeps ==
  ASSUME PlainInv, NEW p \in Processes, BeginRotate(p)
  PROVE  PlainInv' /\ FlushesAway(p)
<1> DEFINE w == [Closed(p, "shift") EXCEPT !.size = 0, !.shift = MaxBackups]
<1>1. writer[p].pc = "check" /\ content' = Flushed(p) /\ writer' = [writer EXCEPT ![p] = w]
      /\ UNCHANGED <<slots, accepted, collided, logFaults>>
  BY DEF BeginRotate
<1>2. writer[p] \in Writers /\ WriterInv(p, writer[p]) /\ <<>> \in Seq(Units) /\ Len(content) \in Nat
      /\ MaxBackups \in 0..MaxBackups
  BY EventLogAssumption, BufferHolds DEF PlainInv, LogTypeOK
<1>3. w \in Writers /\ w.pc = "shift" /\ w.line = writer[p].line /\ w.date = writer[p].date
      /\ w.file = 0 /\ w.day = writer[p].day /\ w.buf = <<>>
  BY <1>2 DEF Writers, Closed
<1> HIDE DEF w
<1>4. OfDaemon(<<>>)
  BY DEF OfDaemon
<1>5. WriterInv(p, w)
  BY <1>1, <1>2, <1>3, <1>4 DEF WriterInv, DaemonWriter, ClaimWriter
<1>6. writer[p].file # 0
  BY <1>1, <1>2 DEF WriterInv
<1> QED
  BY <1>1, <1>3, <1>5, <1>6, FlushKeeps

(* A step that opens a day's path.                                         *)
Opens(p) ==
  /\ \E d \in Days : \E f \in 1..(Len(content) + 1) :
       OpenPath(d, f) /\ writer'[p].file = f /\ writer'[p].day = d
  /\ writer[p].file = 0 /\ writer'[p].buf = <<>>
  /\ UNCHANGED <<accepted, collided>>
  /\ \A q \in Processes \ {p} : writer'[q] = writer[q]

(* It keeps files and writers in order.                                    *)
LEMMA OpenKeeps ==
  ASSUME PlainInv, NEW p \in Processes, NEW d \in Days, NEW f \in 1..(Len(content) + 1), OpenPath(d, f),
         NEW w \in Writers, writer' = [writer EXCEPT ![p] = w], w.file = f, w.day = d, w.date = d,
         w.pc \in {"check", "append"}, w.buf = writer[p].buf, w.line = writer[p].line,
         writer[p].file = 0, writer[p].pc \in {"ensure", "shift"},
         UNCHANGED <<accepted, collided, logFaults>>
  PROVE  PlainInv' /\ Opens(p)
<1>1. /\ slots' \in [Days -> [0..MaxBackups -> Nat]] /\ content' \in Seq(Seq(Units))
      /\ Len(content) <= Len(content') /\ f \in 1..Len(content') /\ FilesInv' /\ LinesInv'
  BY PathOpens
<1>2. writer[p] \in Writers /\ WriterInv(p, writer[p])
  BY BufferHolds
<1>3. w.buf = <<>>
  BY <1>2 DEF WriterInv
<1>4. OfDaemon(<<>>) /\ f # 0 /\ f <= Len(content')
  BY <1>1 DEF OfDaemon
<1>5. WriterInv(p, w)'
  BY <1>2, <1>3, <1>4 DEF WriterInv, DaemonWriter, ClaimWriter
<1>6. accepted' \in [Days -> Seq(Units)] /\ collided' \in BOOLEAN /\ logFaults' \in Nat
  BY DEF PlainInv, LogTypeOK
<1>7. PlainInv' /\ writer'[p] = w /\ \A q \in Processes \ {p} : writer'[q] = writer[q]
  BY <1>1, <1>5, <1>6, ProcessMoves
<1> QED
  BY <1>3, <1>7 DEF Opens

(* ensureFile opens the path or leaves everything alone.                   *)
LEMMA EnsureFileKeeps ==
  ASSUME PlainInv, NEW p \in Processes, EnsureFile(p)
  PROVE  PlainInv' /\ (Alone(p) \/ Opens(p))
<1>1. writer[p] \in Writers /\ WriterInv(p, writer[p]) /\ writer[p].pc = "ensure" /\ UNCHANGED <<accepted, collided>>
  BY BufferHolds DEF EnsureFile
<1>2. CASE /\ writer[p].file # 0 /\ writer[p].day = writer[p].date
           /\ writer' = [writer EXCEPT ![p].pc = "check"] /\ UNCHANGED <<slots, content, logFaults>>
  <2> DEFINE w == [writer[p] EXCEPT !.pc = "check"]
  <2>1. w \in Writers /\ w.pc = "check" /\ w.line = writer[p].line /\ w.date = writer[p].date
        /\ w.file = writer[p].file /\ w.day = writer[p].day /\ w.buf = writer[p].buf
    BY <1>1 DEF Writers
  <2>2. writer' = [writer EXCEPT ![p] = w]
    BY <1>2
  <2> HIDE DEF w
  <2>3. WriterInv(p, w)
    BY <1>1, <1>2, <2>1 DEF WriterInv, DaemonWriter, ClaimWriter
  <2>4. collided' \in BOOLEAN /\ logFaults' \in Nat
    BY <1>1, <1>2 DEF PlainInv, LogTypeOK
  <2>5. PlainInv' /\ writer'[p] = w /\ \A q \in Processes \ {p} : writer'[q] = writer[q]
    BY <1>1, <1>2, <2>1, <2>2, <2>3, <2>4, ProcessAlone
  <2> QED
    BY <1>1, <1>2, <2>1, <2>5 DEF Alone
<1>3. ASSUME writer[p].file = 0, NEW f \in 1..(Len(content) + 1), OpenPath(writer[p].date, f), UNCHANGED logFaults,
             writer' = [writer EXCEPT ![p] =
               [@ EXCEPT !.pc = IF writer[p].retry THEN "append" ELSE "check", !.file = f,
                         !.day = writer[p].date, !.size = Len(content'[f])]]
      PROVE  PlainInv' /\ Opens(p)
  <2> DEFINE d == writer[p].date
             n == Len(content'[f])
             w == [writer[p] EXCEPT !.pc = IF writer[p].retry THEN "append" ELSE "check", !.file = f,
                                    !.day = d, !.size = n]
  <2>1. d \in Days
    BY <1>1 DEF WriterInv
  <2>2. content' \in Seq(Seq(Units)) /\ f \in 1..Len(content')
    BY <1>3, <2>1, PathOpens
  <2>3. n \in Nat /\ f \in Nat
    BY <2>2
  <2>4. writer' = [writer EXCEPT ![p] = w]
    BY <1>3
  <2> HIDE DEF n
  <2>5. w \in Writers /\ w.pc \in {"check", "append"} /\ w.line = writer[p].line /\ w.date = d
        /\ w.file = f /\ w.day = d /\ w.buf = writer[p].buf
    BY <1>1, <2>1, <2>3 DEF Writers
  <2>6. writer[p].file = 0 /\ writer[p].pc = "ensure" /\ OpenPath(d, f)
        /\ UNCHANGED <<accepted, collided, logFaults>>
    BY <1>1, <1>3
  <2> HIDE DEF d, w
  <2> QED
    BY <2>1, <2>4, <2>5, <2>6, OpenKeeps
<1>4. CASE writer[p].file = 0 /\ OpenFails(p)
  BY <1>1, <1>4, OpenFailsKeeps
<1> QED
  BY <1>2, <1>3, <1>4 DEF EnsureFile

(* So does the last call of a rotation.                                    *)
LEMMA OpenAfterRotationKeeps ==
  ASSUME PlainInv, NEW p \in Processes, OpenAfterRotation(p)
  PROVE  PlainInv' /\ (Alone(p) \/ Opens(p))
<1>1. writer[p] \in Writers /\ WriterInv(p, writer[p]) /\ writer[p].pc = "shift" /\ UNCHANGED <<accepted, collided>>
  BY BufferHolds DEF OpenAfterRotation
<1>2. ASSUME NEW f \in 1..(Len(content) + 1), OpenPath(writer[p].date, f), UNCHANGED logFaults,
             writer' = [writer EXCEPT ![p] = [@ EXCEPT !.pc = "append", !.file = f]]
      PROVE  PlainInv' /\ Opens(p)
  <2> DEFINE d == writer[p].date
             w == [writer[p] EXCEPT !.pc = "append", !.file = f]
  <2>1. d \in Days /\ writer[p].day = d /\ writer[p].file = 0 /\ f \in Nat
    BY <1>1 DEF WriterInv
  <2>2. w \in Writers /\ w.pc = "append" /\ w.line = writer[p].line /\ w.date = d
        /\ w.file = f /\ w.day = d /\ w.buf = writer[p].buf
    BY <1>1, <2>1 DEF Writers
  <2>3. writer' = [writer EXCEPT ![p] = w]
    BY <1>2
  <2> HIDE DEF w
  <2> QED
    BY <1>1, <1>2, <2>1, <2>2, <2>3, OpenKeeps
<1>3. CASE RotationFails(p)
  BY <1>1, <1>3, RotationFailsKeeps
<1> QED
  BY <1>2, <1>3 DEF OpenAfterRotation

(* A step that moves a file of d into the slot i.                          *)
Moves(d, i) == slots' = [slots EXCEPT ![d][i] = slots[d][i - 1], ![d][i - 1] = 0]

(* One turn of a rotation's loop, and when it counts as a collision.       *)
Shifts(p, d, i) ==
  /\ slots[d][i - 1] # 0 /\ Moves(d, i)
  /\ collided' = (collided \/ /\ slots[d][i] # 0
                              /\ i < MaxBackups \/ \E q \in Processes : writer[q].file = slots[d][i])
  /\ UNCHANGED <<content, accepted>>
  /\ writer[p].file = 0 /\ writer'[p].file = 0
  /\ \A q \in Processes \ {p} : writer'[q] = writer[q]

(* A file that moves stays the only one of its name.                       *)
LEMMA ShiftedSlots ==
  ASSUME PlainInv, NEW d \in Days, NEW i \in 1..MaxBackups, Moves(d, i), UNCHANGED content
  PROVE  /\ slots' \in [Days -> [0..MaxBackups -> Nat]]
         /\ slots'[d][i] = slots[d][i - 1] /\ slots'[d][i - 1] = 0
         /\ \A e \in Days, j \in 0..MaxBackups :
              <<e, j>> \notin {<<d, i>>, <<d, i - 1>>} => slots'[e][j] = slots[e][j]
         /\ FilesInv'
<1>1. slots \in [Days -> [0..MaxBackups -> Nat]] /\ i \in 0..MaxBackups /\ i - 1 \in 0..MaxBackups /\ i - 1 # i
      /\ Len(content) \in Nat
  BY EventLogAssumption DEF PlainInv, LogTypeOK
<1>2. /\ slots' \in [Days -> [0..MaxBackups -> Nat]]
      /\ slots'[d][i] = slots[d][i - 1] /\ slots'[d][i - 1] = 0
      /\ \A e \in Days, j \in 0..MaxBackups :
           <<e, j>> \notin {<<d, i>>, <<d, i - 1>>} => slots'[e][j] = slots[e][j]
  BY <1>1 DEF Moves
<1>3. \A e \in Days, j \in 0..MaxBackups : slots[e][j] \in Nat /\ slots[e][j] <= Len(content)
  <2>1. FilesInv
    BY DEF PlainInv
  <2>2. \A e \in Days, j \in 0..MaxBackups : slots[e][j] \in Nat
    BY <1>1
  <2> QED
    BY <2>1, <2>2 DEF FilesInv
<1>4. \A e \in Days, j \in 0..MaxBackups : slots'[e][j] <= Len(content')
  <2>1. ASSUME NEW e \in Days, NEW j \in 0..MaxBackups PROVE slots'[e][j] <= Len(content)
    <3>1. CASE e = d /\ j = i
      BY <1>1, <1>2, <1>3, <3>1
    <3>2. CASE e = d /\ j = i - 1
      BY <1>1, <1>2, <3>2
    <3>3. CASE ~(e = d /\ j = i) /\ ~(e = d /\ j = i - 1)
      BY <1>2, <1>3, <3>3
    <3> QED
      BY <3>1, <3>2, <3>3
  <2> QED
    BY <2>1
<1>5. ASSUME NEW a \in Days, NEW b \in Days, NEW k \in 0..MaxBackups, NEW l \in 0..MaxBackups,
             slots'[a][k] # 0, slots'[a][k] = slots'[b][l]
      PROVE  a = b /\ k = l
  <2> DEFINE Old(e, j) == IF e = d /\ j = i THEN i - 1 ELSE j
  <2>1. Old(a, k) \in 0..MaxBackups /\ slots'[a][k] = slots[a][Old(a, k)] /\ ~(a = d /\ k = i - 1)
    BY <1>1, <1>2, <1>5
  <2>2. Old(b, l) \in 0..MaxBackups /\ slots'[b][l] = slots[b][Old(b, l)] /\ ~(b = d /\ l = i - 1)
    BY <1>1, <1>2, <1>5
  <2>3. a = b /\ Old(a, k) = Old(b, l)
    <3>1. \A x, y \in Days, k1, k2 \in 0..MaxBackups :
            slots[x][k1] # 0 /\ slots[x][k1] = slots[y][k2] => x = y /\ k1 = k2
      BY DEF PlainInv, FilesInv
    <3> HIDE DEF Old
    <3>2. slots[a][Old(a, k)] # 0 /\ slots[a][Old(a, k)] = slots[b][Old(b, l)]
      BY <1>5, <2>1, <2>2
    <3> QED
      BY <2>1, <2>2, <3>1, <3>2
  <2> QED
    BY <2>1, <2>2, <2>3
<1>6. FilesInv'
  BY <1>4, <1>5 DEF FilesInv
<1> QED
  BY <1>2, <1>6

(* ShiftBackup moves a file or leaves everything alone.                    *)
LEMMA ShiftKeeps ==
  ASSUME PlainInv, NEW p \in Processes, ShiftBackup(p)
  PROVE  PlainInv' /\ (Alone(p) \/ \E d \in Days, i \in 1..MaxBackups : Shifts(p, d, i))
<1>1. writer[p] \in Writers /\ WriterInv(p, writer[p]) /\ writer[p].pc = "shift" /\ writer[p].shift > 0
      /\ UNCHANGED accepted
  BY BufferHolds DEF ShiftBackup
<1>2. PICK d \in Days, i \in 1..MaxBackups : d = writer[p].date /\ i = writer[p].shift
  BY <1>1, EventLogAssumption DEF WriterInv, Writers
<1>3. PICK w \in Writers : w = [writer[p] EXCEPT !.shift = i - 1]
  <2>1. i - 1 \in 0..MaxBackups
    BY EventLogAssumption
  <2> QED
    BY <1>1, <2>1 DEF Writers
<1>4. w.pc = "shift" /\ w.line = writer[p].line /\ w.date = d /\ w.file = writer[p].file /\ w.day = writer[p].day
      /\ w.buf = writer[p].buf /\ writer[p].file = 0 /\ writer[p].buf = <<>>
  BY <1>1, <1>2, <1>3 DEF Writers, WriterInv
<1>5. WriterInv(p, w)
  BY <1>1, <1>2, <1>4 DEF WriterInv, DaemonWriter, ClaimWriter
<1>6. collided \in BOOLEAN /\ logFaults \in Nat /\ accepted \in [Days -> Seq(Units)] /\ content \in Seq(Seq(Units))
  BY DEF PlainInv, LogTypeOK
<1>7. CASE slots[d][i - 1] = 0 /\ writer' = [writer EXCEPT ![p].shift = i - 1]
           /\ UNCHANGED <<slots, content, collided, logFaults>>
  <2>1. writer' = [writer EXCEPT ![p] = w]
    BY <1>3, <1>7
  <2>2. collided' \in BOOLEAN /\ logFaults' \in Nat
    BY <1>6, <1>7
  <2>3. PlainInv' /\ writer'[p] = w /\ \A q \in Processes \ {p} : writer'[q] = writer[q]
    BY <1>1, <1>5, <1>7, <2>1, <2>2, ProcessAlone
  <2> QED
    BY <1>1, <1>4, <1>7, <2>3 DEF Alone
<1>8. CASE /\ slots[d][i - 1] # 0
           /\ slots' = [slots EXCEPT ![d][i] = slots[d][i - 1], ![d][i - 1] = 0]
           /\ writer' = [writer EXCEPT ![p].shift = i - 1]
           /\ collided' = (collided \/ /\ slots[d][i] # 0
                                       /\ i < MaxBackups \/ \E q \in Processes : writer[q].file = slots[d][i])
           /\ UNCHANGED <<content, logFaults>>
  <2>1. writer' = [writer EXCEPT ![p] = w] /\ Moves(d, i)
    BY <1>3, <1>8 DEF Moves
  <2>2. slots' \in [Days -> [0..MaxBackups -> Nat]] /\ FilesInv'
    BY <1>8, <2>1, ShiftedSlots
  <2>3. LinesInv'
    BY <1>8 DEF PlainInv, LinesInv
  <2>4. WriterInv(p, w)'
    BY <1>5, <1>8 DEF WriterInv
  <2>5. content' \in Seq(Seq(Units)) /\ Len(content) <= Len(content') /\ accepted' \in [Days -> Seq(Units)]
        /\ logFaults' \in Nat
    BY <1>1, <1>6, <1>8
  <2>6. collided' \in BOOLEAN
    BY <1>6, <1>8
  <2>7. PlainInv' /\ writer'[p] = w /\ \A q \in Processes \ {p} : writer'[q] = writer[q]
    BY <2>1, <2>2, <2>3, <2>4, <2>5, <2>6, ProcessMoves
  <2>8. Shifts(p, d, i)
    BY <1>1, <1>4, <1>8, <2>1, <2>7 DEF Shifts
  <2> QED
    BY <2>7, <2>8
<1>9. CASE slots[d][i - 1] # 0 /\ RotationFails(p) /\ UNCHANGED collided
  BY <1>1, <1>9, RotationFailsKeeps
<1> QED
  BY <1>2, <1>7, <1>8, <1>9 DEF ShiftBackup

(* The daemon's line joins its buffer, and the buffer's beginning the file *)
(* when it is full.                                                        *)
Emits ==
  LET w == writer["daemon"]
      all == w.buf \o w.line
  IN /\ w.file # 0 /\ w.day = w.date /\ w.date \in Days
     /\ OfDaemon(all) /\ all \in Seq(Units) /\ Len(w.line) = 2 /\ w.line \in Seq(Units)
     /\ writer'["daemon"].file = w.file /\ writer'["daemon"].day = w.day
     /\ accepted' = [accepted EXCEPT ![w.date] = @ \o w.line]
     /\ \/ Len(all) > BufSize /\ content' = [content EXCEPT ![w.file] = @ \o SubSeq(all, 1, BufSize)]
           /\ writer'["daemon"].buf = SubSeq(all, BufSize + 1, Len(all))
        \/ Len(all) <= BufSize /\ content' = content /\ writer'["daemon"].buf = all
     /\ UNCHANGED <<slots, collided>>

(* A claim's line fits into its buffer: its AppendLine writes nothing yet. *)
LEMMA ClaimAppends ==
  ASSUME PlainInv, NEW p \in Claims, AppendLine(p)
  PROVE  PlainInv' /\ Alone(p)
<1>1. p \in Processes /\ p # "daemon"
  BY LogProcesses DEF Processes
<1>2. writer[p] \in Writers /\ WriterInv(p, writer[p]) /\ writer[p].pc = "append"
  BY <1>1, BufferHolds DEF AppendLine
<1>3. writer[p].buf = <<>> /\ writer[p].line = Line(p) /\ writer[p].file # 0
  BY <1>1, <1>2 DEF WriterInv, ClaimWriter
<1>4. Line(p) \in Seq(Units) /\ Len(Line(p)) = 2
  BY LogProcesses
<1>5. writer[p].buf \o writer[p].line = Line(p)
  BY <1>3, <1>4, ConcatEmptySeq
<1>6. ~(Len(writer[p].buf \o writer[p].line) > BufSize)
  <2>1. Len(writer[p].buf \o writer[p].line) = 2
    BY <1>4, <1>5
  <2>2. ~(2 > BufSize)
    BY EventLogAssumption
  <2> QED
    BY <2>1, <2>2
<1> DEFINE all == writer[p].buf \o writer[p].line
           buf == IF Len(all) > BufSize THEN SubSeq(all, BufSize + 1, Len(all)) ELSE all
           there == IF p \in Claims THEN "close" ELSE "idle"
<1>7. writer' = [writer EXCEPT ![p] = [writer[p] EXCEPT !.buf = buf, !.size = @ + 2, !.pc = there]]
  BY Zenon DEF AppendLine
<1> PICK w : w = [writer[p] EXCEPT !.buf = buf, !.size = @ + 2, !.pc = there]
  OBVIOUS
<1>8. w = [writer[p] EXCEPT !.buf = buf, !.size = @ + 2, !.pc = there] /\ buf = Line(p) /\ there = "close"
      /\ writer' = [writer EXCEPT ![p] = w]
  <2>1. buf = Line(p) /\ there = "close"
    BY <1>5, <1>6
  <2> HIDE DEF all, buf, there
  <2> QED
    BY <1>7, <2>1
<1> HIDE DEF all, buf, there
<1>9. UNCHANGED <<slots, content, accepted, collided, logFaults>>
  BY <1>6 DEF AppendLine
<1>10. w \in Writers /\ w.pc = "close" /\ w.line = writer[p].line /\ w.date = writer[p].date
       /\ w.file = writer[p].file /\ w.day = writer[p].day /\ w.buf = Line(p)
  <2>1. writer[p].size \in Nat /\ writer[p].size + 2 \in Nat
    BY <1>2 DEF Writers
  <2> QED
    BY <1>2, <1>4, <1>8, <2>1 DEF Writers
<1>11. WriterInv(p, w)
  BY <1>1, <1>2, <1>3, <1>10 DEF WriterInv, ClaimWriter
<1>12. collided' \in BOOLEAN /\ logFaults' \in Nat
  BY <1>9 DEF PlainInv, LogTypeOK
<1>13. PlainInv' /\ writer'[p] = w /\ \A q \in Processes \ {p} : writer'[q] = writer[q]
  BY <1>1, <1>8, <1>9, <1>10, <1>11, <1>12, ProcessAlone
<1> QED
  BY <1>1, <1>9, <1>13 DEF Alone

(* The daemon's AppendLine is the step Emits.                              *)
LEMMA DaemonAppends ==
  ASSUME PlainInv, AppendLine("daemon")
  PROVE  PlainInv' /\ Emits
<1> DEFINE p == "daemon"
           all == writer[p].buf \o writer[p].line
           full == Len(all) > BufSize
           buf == IF full THEN SubSeq(all, BufSize + 1, Len(all)) ELSE all
           f == writer[p].file
           out == SubSeq(all, 1, BufSize)
           there == IF p \in Claims THEN "close" ELSE "idle"
<1>1. p \in Processes /\ p \notin Claims /\ BufSize \in Nat
  BY LogProcesses, EventLogAssumption
<1>2. /\ writer' = [writer EXCEPT ![p] = [writer[p] EXCEPT !.buf = buf, !.size = @ + 2, !.pc = there]]
      /\ content' = IF full THEN [content EXCEPT ![f] = @ \o out] ELSE content
      /\ accepted' = [accepted EXCEPT ![writer[p].date] = @ \o writer[p].line]
      /\ UNCHANGED <<slots, collided, logFaults>>
  <2>1. accepted' = [accepted EXCEPT ![writer[p].date] = @ \o writer[p].line]
    BY <1>1 DEF AppendLine
  <2>2. content' = IF full THEN [content EXCEPT ![f] = @ \o out] ELSE content
    BY DEF AppendLine
  <2>3. writer' = [writer EXCEPT ![p] = [writer[p] EXCEPT !.buf = buf, !.size = @ + 2, !.pc = there]]
    BY Zenon DEF AppendLine
  <2>4. UNCHANGED <<slots, collided, logFaults>>
    BY DEF AppendLine
  <2> QED
    BY <2>1, <2>2, <2>3, <2>4
<1>3. writer[p] \in Writers /\ WriterInv(p, writer[p]) /\ writer[p].pc = "append"
  BY <1>1, BufferHolds DEF AppendLine
<1>4. writer[p].buf \in Seq(Units) /\ OfDaemon(writer[p].buf) /\ f # 0 /\ writer[p].day = writer[p].date
      /\ writer[p].date \in Days
  BY <1>3 DEF WriterInv, DaemonWriter, Writers
<1>5. writer[p].line \in Seq(Units) /\ Len(writer[p].line) = 2 /\ OfDaemon(writer[p].line)
  <2>1. PICK n \in Nat : writer[p].line = Line(n)
    BY <1>3 DEF WriterInv, DaemonWriter
  <2> QED
    BY <2>1, LogProcesses
<1>6. f \in 1..Len(content)
  BY <1>1, <1>4, BufferHolds
<1>7. all \in Seq(Units) /\ OfDaemon(all)
  <2> DEFINE a == writer[p].buf
             b == writer[p].line
  <2> HIDE DEF a, b
  <2>1. a \in Seq(Units) /\ OfDaemon(a) /\ b \in Seq(Units) /\ OfDaemon(b)
    BY <1>4, <1>5 DEF a, b
  <2>2. a \o b \in Seq(Units) /\ Len(a \o b) = Len(a) + Len(b) /\ Len(a) \in Nat /\ Len(b) \in Nat
    BY <2>1, ConcatProperties
  <2>3. ASSUME NEW i \in 1..Len(a \o b) PROVE DaemonUnit((a \o b)[i])
    <3>1. CASE i <= Len(a)
      BY <2>1, <2>2, <3>1 DEF OfDaemon
    <3>2. CASE i > Len(a)
      <4>1. i - Len(a) \in 1..Len(b)
        BY <2>2, <3>2
      <4>2. (a \o b)[i] = b[i - Len(a)]
        BY <2>1, <2>2, <3>2, ConcatProperties
      <4> QED
        BY <2>1, <4>1, <4>2 DEF OfDaemon
    <3> QED
      BY <2>2, <3>1, <3>2
  <2> QED
    BY <2>2, <2>3 DEF OfDaemon, a, b
<1> HIDE DEF all
<1>8. ASSUME full PROVE SubSeq(all, BufSize + 1, Len(all)) \in Seq(Units) /\ OfDaemon(SubSeq(all, BufSize + 1, Len(all)))
                        /\ out \in Seq(Units) /\ OfDaemon(out)
  <2>1. \A i \in 1..Len(all) : all[i] \in Units /\ DaemonUnit(all[i])
    BY <1>7 DEF OfDaemon
  <2>2. Len(all) \in Nat /\ BufSize \in 0..Len(all)
    BY <1>1, <1>7, <1>8
  <2>3. out \in Seq(Units) /\ Len(out) = BufSize /\ \A i \in 1..BufSize : out[i] = all[i]
    BY <1>7, <2>2
  <2> DEFINE rest == SubSeq(all, BufSize + 1, Len(all))
  <2>4. rest \in Seq(Units) /\ Len(rest) = Len(all) - BufSize
        /\ \A i \in 1..(Len(all) - BufSize) : rest[i] = all[BufSize + i] /\ BufSize + i \in 1..Len(all)
    BY <1>1, <1>7, <2>2
  <2> QED
    BY <2>1, <2>2, <2>3, <2>4 DEF OfDaemon
<1>9. buf \in Seq(Units) /\ OfDaemon(buf)
  BY <1>7, <1>8
<1> HIDE DEF buf
<1>10. PICK w : w = [writer[p] EXCEPT !.buf = buf, !.size = @ + 2, !.pc = there]
  OBVIOUS
<1>11. w \in Writers /\ w.pc = "idle" /\ w.line = writer[p].line /\ w.date = writer[p].date
       /\ w.file = f /\ w.day = writer[p].day /\ w.buf = buf
  <2>1. writer[p].size \in Nat /\ writer[p].size + 2 \in Nat
    BY <1>3 DEF Writers
  <2> QED
    BY <1>1, <1>3, <1>9, <1>10, <2>1 DEF Writers
<1> HIDE DEF out, full, there
<1>12. content' \in Seq(Seq(Units)) /\ Len(content') = Len(content) /\ FilesInv' /\ LinesInv'
  <2>1. CASE full
    <3>1. out \in Seq(Units) /\ (OfDaemon(out) \/ \E c \in Claims : out = Line(c))
      BY <1>8, <2>1
    <3>2. content' = [content EXCEPT ![f] = @ \o out] /\ UNCHANGED slots
      BY <1>2, <2>1
    <3> HIDE DEF f
    <3> QED
      BY <1>6, <3>1, <3>2, FilesGrow
  <2>2. CASE ~full
    BY <1>2, <2>2 DEF PlainInv, LogTypeOK, FilesInv, LinesInv
  <2> QED
    BY <2>1, <2>2
<1>13. WriterInv(p, w)'
  BY <1>3, <1>4, <1>9, <1>11, <1>12 DEF WriterInv, DaemonWriter
<1>14. accepted' \in [Days -> Seq(Units)] /\ slots' \in [Days -> [0..MaxBackups -> Nat]] /\ collided' \in BOOLEAN
       /\ logFaults' \in Nat /\ Len(content) <= Len(content')
  <2>1. accepted \in [Days -> Seq(Units)]
    BY DEF PlainInv, LogTypeOK
  <2>2. accepted[writer[p].date] \o writer[p].line \in Seq(Units)
    BY <1>4, <1>5, <2>1, ConcatProperties
  <2>3. accepted' \in [Days -> Seq(Units)]
    BY <1>2, <2>1, <2>2
  <2> QED
    BY <1>2, <1>12, <2>3 DEF PlainInv, LogTypeOK
<1>15. PlainInv' /\ writer'[p] = w
  <2>1. writer' = [writer EXCEPT ![p] = w]
    BY <1>2, <1>10
  <2> HIDE DEF p
  <2> QED
    BY <1>1, <2>1, <1>11, <1>12, <1>13, <1>14, ProcessMoves
<1>16. Emits
  <2>1. Len(all) \in Nat /\ BufSize \in Nat
    BY <1>1, <1>7
  <2>2. \/ Len(all) > BufSize /\ content' = [content EXCEPT ![f] = @ \o SubSeq(all, 1, BufSize)]
           /\ writer'[p].buf = SubSeq(all, BufSize + 1, Len(all))
        \/ Len(all) <= BufSize /\ content' = content /\ writer'[p].buf = all
    <3>1. CASE full
      <4>1. content' = [content EXCEPT ![f] = @ \o SubSeq(all, 1, BufSize)]
        BY <1>2, <3>1 DEF out
      <4>2. writer'[p].buf = SubSeq(all, BufSize + 1, Len(all))
        BY <1>11, <1>15, <3>1 DEF buf
      <4> QED
        BY <3>1, <4>1, <4>2 DEF full
    <3>2. CASE ~full
      <4>1. content' = content /\ writer'[p].buf = all
        BY <1>2, <1>11, <1>15, <3>2 DEF buf
      <4>2. Len(all) <= BufSize
        BY <2>1, <3>2 DEF full
      <4> QED
        BY <4>1, <4>2
    <3> QED
      BY <3>1, <3>2
  <2> QED
    BY <1>2, <1>4, <1>5, <1>7, <1>11, <1>15, <2>2 DEF Emits, all
<1> QED
  BY <1>15, <1>16

-----------------------------------------------------------------------------
(* Where the daemon's lines are after each kind of step.                   *)

(* A day none of whose files change of what they hold of the daemon's.     *)
LEMMA KeptStays ==
  ASSUME NEW d, NEW cut, NEW h, Kept(d, cut, h), accepted'[d] = accepted[d], OpenOn(d)' <=> OpenOn(d),
         OpenOn(d) => writer'["daemon"].file = writer["daemon"].file /\ slots'[d][h] = slots[d][h],
         DaemonBuf(d)' = DaemonBuf(d),
         \A i \in 0..MaxBackups : FilePart(slots[d][i])' = FilePart(slots[d][i])
  PROVE  Kept(d, cut, h)'
BY DEF Kept

(* What a file that stays as it is holds of the daemon's.                  *)
LEMMA PartStays ==
  ASSUME NEW f, f = 0 \/ content'[f] = content[f]
  PROVE  FilePart(f)' = FilePart(f)
BY DEF FilePart

(* What Kept says of the cuts and of the open file.                        *)
LEMMA KeptTypes ==
  ASSUME PlainInv, NEW d \in Days, NEW cut \in Cuts, NEW h \in -1..MaxBackups, Kept(d, cut, h)
  PROVE  /\ MaxBackups \in Nat /\ accepted[d] \in Seq(Units) /\ Len(accepted[d]) \in Nat
         /\ \A j \in 0..(MaxBackups + 1) : cut[j] \in Nat /\ cut[j] <= cut[0] /\ cut[j] <= Len(accepted[d])
         /\ OpenOn(d) => h \in 0..MaxBackups /\ slots[d][h] = writer["daemon"].file
         /\ ~OpenOn(d) => h = -1 /\ DaemonBuf(d) = <<>> /\ cut[0] = Len(accepted[d])
<1>1. MaxBackups \in Nat /\ accepted[d] \in Seq(Units) /\ Len(accepted[d]) \in Nat
  BY EventLogAssumption DEF PlainInv, LogTypeOK
<1>2. \A j \in 0..(MaxBackups + 1) : cut[j] \in Nat /\ cut[j] <= cut[0]
  <2>1. \A i \in 0..MaxBackups : cut[i + 1] <= cut[i]
    BY DEF Kept
  <2> QED
    BY <2>1, CutsDescend
<1>3. cut[0] <= Len(accepted[d]) /\ cut[0] \in Nat
  BY <1>1, <1>2 DEF Kept
<1>4. OpenOn(d) => h \in 0..MaxBackups /\ slots[d][h] = writer["daemon"].file
  <2>1. OpenOn(d) => h # -1 /\ slots[d][h] = writer["daemon"].file
    BY DEF Kept
  <2> QED
    BY <1>1, <2>1
<1>5. ASSUME ~OpenOn(d) PROVE h = -1 /\ DaemonBuf(d) = <<>> /\ cut[0] = Len(accepted[d])
  <2>1. h = -1
    BY <1>5 DEF Kept
  <2>2. DaemonBuf(d) = <<>>
    BY <1>5 DEF DaemonBuf, OpenOn
  <2>3. Piece(accepted[d], cut[0], Len(accepted[d])) = <<>>
    BY <2>2 DEF Kept
  <2> DEFINE acc == accepted[d]
             a == cut[0]
             b == Len(acc)
  <2>4. a \in Nat /\ b \in Nat /\ a <= b /\ b <= Len(acc) /\ acc \in Seq(Units)
    BY <1>1, <1>3
  <2>5. Len(Piece(acc, a, b)) = b - a
    <3> HIDE DEF acc, a, b
    <3> QED
      BY <2>4, PieceIsSeq
  <2>6. b - a = 0
    BY <2>3, <2>5
  <2> QED
    BY <2>1, <2>2, <2>4, <2>6
<1>6. ASSUME NEW j \in 0..(MaxBackups + 1) PROVE cut[j] <= Len(accepted[d])
  BY <1>1, <1>2, <1>3
<1> QED
  BY <1>1, <1>2, <1>4, <1>5, <1>6

(* A slot is empty or holds a file.                                        *)
LEMMA SlotsHoldFiles ==
  ASSUME PlainInv
  PROVE  \A d \in Days, i \in 0..MaxBackups : slots[d][i] = 0 \/ slots[d][i] \in 1..Len(content)
<1>1. \A d \in Days, i \in 0..MaxBackups : slots[d][i] \in Nat
  BY DEF PlainInv, LogTypeOK
<1>2. Len(content) \in Nat
  BY DEF PlainInv, LogTypeOK
<1> QED
  BY <1>1, <1>2 DEF PlainInv, FilesInv

(* The daemon's open file is the one in the slot h of its day.             *)
LEMMA OpenFileIsOne ==
  ASSUME PlainInv, NEW e \in Days, NEW cut \in Cuts, NEW h \in -1..MaxBackups, Kept(e, cut, h), OpenOn(e),
         NEW d \in Days, NEW i \in 0..MaxBackups, slots[d][i] = writer["daemon"].file
  PROVE  d = e /\ i = h
<1>1. h \in 0..MaxBackups /\ slots[e][h] = writer["daemon"].file /\ writer["daemon"].file # 0
  BY KeptTypes DEF OpenOn
<1> QED
  BY <1>1 DEF PlainInv, FilesInv

(* A step that concerns nothing of the daemon's keeps its lines.           *)
LEMMA AloneKept ==
  ASSUME PlainInv, KeptInv, NEW p \in Processes, Alone(p)
  PROVE  KeptInv'
<1>1. SUFFICES ASSUME ~collided PROVE KeptInv'
  BY DEF KeptInv, Alone
<1>2. /\ writer'["daemon"].file = writer["daemon"].file
      /\ writer["daemon"].file # 0 => /\ writer'["daemon"].day = writer["daemon"].day
                                      /\ writer'["daemon"].buf = writer["daemon"].buf
  BY LogProcesses DEF Alone
<1>3. ASSUME NEW d \in Days PROVE \E cut \in Cuts, h \in -1..MaxBackups : Kept(d, cut, h)'
  <2>1. PICK cut \in Cuts, h \in -1..MaxBackups : Kept(d, cut, h)
    BY <1>1 DEF KeptInv
  <2>2. (OpenOn(d)' <=> OpenOn(d)) /\ DaemonBuf(d)' = DaemonBuf(d)
    BY <1>2 DEF OpenOn, DaemonBuf
  <2>3. UNCHANGED <<slots, content, accepted>>
    BY DEF Alone
  <2>4. \A i \in 0..MaxBackups : FilePart(slots[d][i])' = FilePart(slots[d][i])
    BY <2>3 DEF FilePart
  <2>5. Kept(d, cut, h)'
    BY <1>2, <2>1, <2>2, <2>3, <2>4, KeptStays
  <2> QED
    BY <2>5
<1> QED
  BY <1>3 DEF KeptInv, Cuts

(* A claim that writes its line out keeps the daemon's.                    *)
LEMMA ClaimFlushKept ==
  ASSUME PlainInv, KeptInv, NEW p \in Claims, FlushesAway(p)
  PROVE  KeptInv'
<1>1. SUFFICES ASSUME ~collided PROVE KeptInv'
  BY DEF KeptInv, FlushesAway
<1>2. p \in Processes /\ p # "daemon" /\ "daemon" \in Processes
  BY LogProcesses DEF Processes
<1>3. writer'["daemon"] = writer["daemon"] /\ UNCHANGED <<slots, accepted>>
  BY <1>2 DEF FlushesAway
<1>4. PICK f \in 1..Len(content), t \in Seq(Units) : f = writer[p].file /\ t = writer[p].buf
  BY <1>2, BufferHolds DEF FlushesAway
<1>5. t = <<>> \/ t = Line(p)
  BY <1>2, <1>4, BufferHolds DEF WriterInv, ClaimWriter
<1>6. content \in Seq(Seq(Units)) /\ content[f] \in Seq(Units)
  BY DEF PlainInv, LogTypeOK
<1>7. content' = [content EXCEPT ![f] = @ \o t]
  BY <1>4 DEF FlushesAway, Flushed
<1>8. content'[f] = content[f] \o t /\ \A g \in 1..Len(content) : g # f => content'[g] = content[g]
  BY <1>6, <1>7, FileGrows
<1>9. DaemonPart(content[f] \o t) = DaemonPart(content[f])
  <2>1. CASE t = <<>>
    BY <1>6, <2>1, ConcatEmptySeq
  <2>2. CASE t = Line(p)
    BY <1>6, <2>2, ClaimWrites
  <2> QED
    BY <1>5, <2>1, <2>2
<1>10. ASSUME NEW d \in Days PROVE \E cut \in Cuts, h \in -1..MaxBackups : Kept(d, cut, h)'
  <2>1. PICK cut \in Cuts, h \in -1..MaxBackups : Kept(d, cut, h)
    BY <1>1 DEF KeptInv
  <2>2. (OpenOn(d)' <=> OpenOn(d)) /\ DaemonBuf(d)' = DaemonBuf(d)
    BY <1>3 DEF OpenOn, DaemonBuf
  <2>3. \A i \in 0..MaxBackups : FilePart(slots[d][i])' = FilePart(slots[d][i])
    BY <1>3, <1>8, <1>9, SlotsHoldFiles DEF FilePart
  <2>4. Kept(d, cut, h)'
    BY <1>3, <2>1, <2>2, <2>3, KeptStays
  <2> QED
    BY <2>4
<1> QED
  BY <1>10 DEF KeptInv, Cuts

(* The cuts when the daemon's open file has grown to n.                    *)
Raised(cut, h, n) == [j \in 0..(MaxBackups + 1) |-> IF j <= h THEN n ELSE cut[j]]

(* acc begins with s.                                                      *)
Continues(acc, s) ==
  /\ Len(s) <= Len(acc)
  /\ \A a, b \in Nat : b <= Len(s) => Piece(acc, a, b) = Piece(s, a, b)

(* The daemon's open file takes t and no other file changes.               *)
Takes(t) ==
  /\ content'[writer["daemon"].file] = content[writer["daemon"].file] \o t
  /\ \A g \in 1..Len(content) : g # writer["daemon"].file => content'[g] = content[g]
  /\ slots' = slots

(* The daemon's open file takes what comes next: the other pieces stay and *)
(* its own grows to n.                                                     *)
LEMMA HeadGrows ==
  ASSUME PlainInv, NEW d \in Days, NEW cut \in Cuts, NEW h \in -1..MaxBackups, Kept(d, cut, h), OpenOn(d),
         NEW acc \in Seq(Units), NEW n \in Nat, cut[0] <= n, n <= Len(acc),
         Continues(acc, accepted[d]), Takes(Piece(acc, cut[0], n)), OfDaemon(Piece(acc, cut[0], n))
  PROVE  /\ Raised(cut, h, n) \in Cuts
         /\ \A i \in 0..MaxBackups :
              /\ Raised(cut, h, n)[i + 1] <= Raised(cut, h, n)[i]
              /\ FilePart(slots[d][i])' = Piece(acc, Raised(cut, h, n)[i + 1], Raised(cut, h, n)[i])
<1> DEFINE new == Raised(cut, h, n)
           f == writer["daemon"].file
<1>0. /\ \A a, b \in Nat : b <= Len(accepted[d]) => Piece(acc, a, b) = Piece(accepted[d], a, b)
      /\ content'[f] = content[f] \o Piece(acc, cut[0], n) /\ slots' = slots
      /\ \A g \in 1..Len(content) : g # f => content'[g] = content[g]
  BY DEF Continues, Takes
<1>1. /\ MaxBackups \in Nat /\ accepted[d] \in Seq(Units) /\ Len(accepted[d]) \in Nat
      /\ \A j \in 0..(MaxBackups + 1) : cut[j] \in Nat /\ cut[j] <= cut[0] /\ cut[j] <= Len(accepted[d])
      /\ h \in 0..MaxBackups /\ slots[d][h] = f /\ f # 0
  BY KeptTypes DEF OpenOn
<1>2. new \in Cuts
  BY <1>1 DEF Raised, Cuts
<1>3. \A j \in 0..(MaxBackups + 1) : new[j] = IF j <= h THEN n ELSE cut[j]
  BY DEF Raised
<1> HIDE DEF new
<1>4. \A j \in 0..h : cut[j] = cut[0]
  BY DEF Kept
<1>5. \A i \in 0..MaxBackups :
        cut[i + 1] <= cut[i] /\ FilePart(slots[d][i]) = Piece(accepted[d], cut[i + 1], cut[i])
  BY DEF Kept
<1>6. f \in 1..Len(content) /\ content[f] \in Seq(Units)
  <2>1. f \in 1..Len(content)
    BY <1>1, SlotsHoldFiles
  <2> QED
    BY <2>1 DEF PlainInv, LogTypeOK
<1>7. ASSUME NEW i \in 0..MaxBackups, i # h PROVE FilePart(slots[d][i])' = FilePart(slots[d][i])
  <2>1. slots[d][i] # f
    BY <1>7, OpenFileIsOne
  <2>2. slots[d][i] = 0 \/ slots[d][i] \in 1..Len(content)
    BY SlotsHoldFiles
  <2> QED
    BY <1>0, <2>1, <2>2 DEF FilePart
<1>8. ASSUME NEW i \in 0..MaxBackups
      PROVE  new[i + 1] <= new[i] /\ FilePart(slots[d][i])' = Piece(acc, new[i + 1], new[i])
  <2>0. i \in 0..(MaxBackups + 1) /\ i + 1 \in 0..(MaxBackups + 1) /\ 0 \in 0..(MaxBackups + 1)
    BY <1>1
  <2>1. CASE i < h
    <3>1. new[i + 1] = n /\ new[i] = n /\ cut[i + 1] = cut[i] /\ cut[i] \in Nat
      BY <1>1, <1>3, <1>4, <2>0, <2>1
    <3>2. FilePart(slots[d][i])' = Piece(accepted[d], cut[i], cut[i])
      BY <1>5, <1>7, <2>1, <3>1
    <3>3. Piece(accepted[d], cut[i], cut[i]) = Piece(acc, n, n)
      BY <3>1 DEF Piece
    <3> QED
      BY <3>1, <3>2, <3>3
  <2>2. CASE i = h
    <3> DEFINE a == cut[h + 1]
               b == cut[0]
    <3>1. new[i + 1] = a /\ new[i] = n /\ cut[h] = b /\ a <= b /\ a \in Nat /\ b \in Nat /\ b <= Len(accepted[d])
          /\ b <= n
      BY <1>1, <1>3, <1>4, <1>5, <2>0, <2>2
    <3>2. FilePart(slots[d][h]) = Piece(accepted[d], a, b)
      BY <1>1, <1>5, <3>1
    <3>3. Piece(accepted[d], a, b) = Piece(acc, a, b)
      BY <1>0, <3>1
    <3>4. Piece(acc, b, n) \in Seq(Units)
      BY <3>1, PieceIsSeq
    <3>5. OfDaemon(Piece(acc, b, n))
      OBVIOUS
    <3>6. DaemonPart(content[f] \o Piece(acc, b, n)) = DaemonPart(content[f]) \o Piece(acc, b, n)
      BY <1>6, <3>4, <3>5, DaemonWrites
    <3>7. FilePart(slots[d][h])' = DaemonPart(content[f] \o Piece(acc, b, n)) /\ FilePart(slots[d][h]) = DaemonPart(content[f])
      BY <1>0, <1>1 DEF FilePart
    <3> HIDE DEF a, b
    <3>8. Piece(acc, a, b) \o Piece(acc, b, n) = Piece(acc, a, n)
      <4>1. \A x, y, z \in Nat : x <= y /\ y <= z /\ z <= Len(acc) => Piece(acc, x, y) \o Piece(acc, y, z) = Piece(acc, x, z)
        BY PiecesJoin
      <4> QED
        BY <3>1, <4>1
    <3>9. FilePart(slots[d][h])' = Piece(acc, a, n)
      BY <3>2, <3>3, <3>6, <3>7, <3>8
    <3>10. a <= n
      BY <3>1
    <3> QED
      BY <2>2, <3>1, <3>9, <3>10
  <2>3. CASE i > h
    <3>1. new[i + 1] = cut[i + 1] /\ new[i] = cut[i] /\ cut[i] \in Nat /\ cut[i + 1] \in Nat /\ cut[i] <= Len(accepted[d])
      BY <1>1, <1>3, <2>0, <2>3
    <3>2. FilePart(slots[d][i])' = Piece(accepted[d], cut[i + 1], cut[i]) /\ cut[i + 1] <= cut[i]
      BY <1>5, <1>7, <2>3
    <3>3. Piece(accepted[d], cut[i + 1], cut[i]) = Piece(acc, cut[i + 1], cut[i])
      BY <1>0, <3>1
    <3> QED
      BY <3>1, <3>2, <3>3
  <2> QED
    BY <1>1, <2>1, <2>2, <2>3
<1> QED
  BY <1>2, <1>8 DEF new

(* A piece between equal cuts is empty.                                    *)
LEMMA PieceOfNothing == ASSUME NEW s, NEW n \in Nat PROVE Piece(s, n, n) = <<>>
BY DEF Piece

(* The daemon writes its buffer out and closes its file: the cut of that   *)
(* file rises to all that was accepted, and every cut is between two       *)
(* lines.                                                                  *)
LEMMA DaemonFlushKept ==
  ASSUME PlainInv, KeptInv, FlushesAway("daemon")
  PROVE  KeptInv'
<1>1. SUFFICES ASSUME ~collided PROVE KeptInv'
  BY DEF KeptInv, FlushesAway
<1>2. PICK f \in 1..Len(content), t \in Seq(Units) :
        f = writer["daemon"].file /\ t = writer["daemon"].buf /\ OfDaemon(t) /\ writer["daemon"].day \in Days
  <2>1. /\ writer["daemon"].file \in 1..Len(content) /\ writer["daemon"].buf \in Seq(Units)
        /\ WriterInv("daemon", writer["daemon"])
    BY LogProcesses, BufferHolds DEF FlushesAway
  <2> QED
    BY <2>1 DEF WriterInv, DaemonWriter, FlushesAway
<1>3. content \in Seq(Seq(Units)) /\ content' = [content EXCEPT ![f] = @ \o t] /\ UNCHANGED <<slots, accepted>>
      /\ writer'["daemon"].file = 0 /\ f # 0
  BY <1>2 DEF PlainInv, LogTypeOK, FlushesAway, Flushed
<1>4. content'[f] = content[f] \o t /\ \A g \in 1..Len(content) : g # f => content'[g] = content[g]
  BY <1>3, FileGrows
<1>5. \A d \in Days : ~OpenOn(d)' /\ DaemonBuf(d)' = <<>>
  BY <1>3 DEF OpenOn, DaemonBuf
<1>6. ASSUME NEW d \in Days PROVE \E cut \in Cuts, h \in -1..MaxBackups : Kept(d, cut, h)'
  <2>1. PICK cut \in Cuts, h \in -1..MaxBackups : Kept(d, cut, h)
    BY <1>1 DEF KeptInv
  <2>2. /\ MaxBackups \in Nat /\ accepted[d] \in Seq(Units) /\ Len(accepted[d]) \in Nat
        /\ \A j \in 0..(MaxBackups + 1) : cut[j] \in Nat /\ cut[j] <= cut[0] /\ cut[j] <= Len(accepted[d])
        /\ OpenOn(d) => h \in 0..MaxBackups /\ slots[d][h] = writer["daemon"].file
        /\ ~OpenOn(d) => h = -1 /\ DaemonBuf(d) = <<>> /\ cut[0] = Len(accepted[d])
    BY <2>1, KeptTypes
  <2>3. CASE OpenOn(d)
    <3> PICK acc \in Seq(Units), n \in Nat : acc = accepted[d] /\ n = Len(acc)
      BY <2>2
    <3>0. acc = accepted[d] /\ n = Len(acc)
      OBVIOUS
    <3>1. t = Piece(acc, cut[0], n) /\ cut[0] <= n /\ n % 2 = 0
      BY <1>2, <2>1, <2>3, <3>0 DEF Kept, DaemonBuf, OpenOn
    <3> DEFINE new == Raised(cut, h, n)
    <3>2. /\ new \in Cuts
          /\ \A i \in 0..MaxBackups : /\ new[i + 1] <= new[i]
                                      /\ FilePart(slots[d][i])' = Piece(acc, new[i + 1], new[i])
      <4>1. n <= Len(acc) /\ Continues(acc, accepted[d])
        BY <2>2, <3>0 DEF Continues
      <4>2. Takes(Piece(acc, cut[0], n)) /\ OfDaemon(Piece(acc, cut[0], n))
        BY <1>2, <1>3, <1>4, <3>1 DEF Takes
      <4> QED
        BY <2>1, <2>3, <3>1, <4>1, <4>2, HeadGrows
    <3>3. \A j \in 0..(MaxBackups + 1) : new[j] = IF j <= h THEN n ELSE cut[j]
      BY DEF Raised
    <3> HIDE DEF new
    <3>4. \A j \in 0..(MaxBackups + 1) : new[j] % 2 = 0
      <4>1. \A j \in (h + 1)..(MaxBackups + 1) : cut[j] % 2 = 0
        BY <2>1 DEF Kept
      <4>2. ASSUME NEW j \in 0..(MaxBackups + 1), ~(j <= h) PROVE j \in (h + 1)..(MaxBackups + 1)
        BY <2>2, <2>3, <4>2
      <4> QED
        BY <3>1, <3>3, <4>1, <4>2
    <3>5. new[0] = n /\ 0 \in 0..(MaxBackups + 1)
      <4>1. 0 <= h /\ 0 \in 0..(MaxBackups + 1)
        BY <2>2, <2>3
      <4> QED
        BY <3>3, <4>1
    <3>6. Piece(acc, n, n) = <<>>
      BY PieceOfNothing
    <3>7. Kept(d, new, -1)'
      <4>1. accepted'[d] = acc /\ slots' = slots
        BY <1>3, <3>0
      <4>2. \A j \in 0..(-1) : new[j] = new[0]
        OBVIOUS
      <4>3. \A j \in ((-1) + 1)..(MaxBackups + 1) : new[j] % 2 = 0
        BY <3>4
      <4>4. new[0] <= Len(accepted'[d]) /\ DaemonBuf(d)' = Piece(accepted'[d], new[0], Len(accepted'[d]))
            /\ Len(accepted'[d]) % 2 = 0
        <5>1. new[0] <= n
          BY <3>5
        <5>2. DaemonBuf(d)' = Piece(acc, new[0], n)
          BY <1>5, <3>5, <3>6
        <5>3. n % 2 = 0 /\ Len(accepted'[d]) = n
          BY <3>0, <3>1, <4>1
        <5> QED
          BY <4>1, <5>1, <5>2, <5>3
      <4> QED
        BY <1>5, <3>2, <4>1, <4>2, <4>3, <4>4 DEF Kept
    <3>8. -1 \in -1..MaxBackups
      BY <2>2
    <3> QED
      BY <3>2, <3>7, <3>8
  <2>4. CASE ~OpenOn(d)
    <3>1. PICK e \in Days : OpenOn(e)
      BY <1>2, <1>3 DEF OpenOn
    <3>2. PICK c \in Cuts, k \in -1..MaxBackups : Kept(e, c, k)
      BY <1>1 DEF KeptInv
    <3>3. ASSUME NEW i \in 0..MaxBackups PROVE FilePart(slots[d][i])' = FilePart(slots[d][i])
      <4>1. slots[d][i] # f
        BY <1>2, <2>4, <3>1, <3>2, OpenFileIsOne
      <4>2. slots[d][i] = 0 \/ slots[d][i] \in 1..Len(content)
        BY SlotsHoldFiles
      <4> QED
        BY <1>3, <1>4, <4>1, <4>2 DEF FilePart
    <3>4. Kept(d, cut, h)'
      BY <1>3, <1>5, <2>1, <2>2, <2>4, <3>3, KeptStays
    <3> QED
      BY <3>4
  <2> QED
    BY <2>3, <2>4
<1> QED
  BY <1>6 DEF KeptInv, Cuts

(* A process opens a day's path: the daemon's open file is then in slot 0. *)
LEMMA OpensKept ==
  ASSUME PlainInv, KeptInv, NEW p \in Processes, Opens(p)
  PROVE  KeptInv'
<1>1. SUFFICES ASSUME ~collided PROVE KeptInv'
  BY DEF KeptInv, Opens
<1>2. PICK e \in Days, f \in 1..(Len(content) + 1) :
        OpenPath(e, f) /\ writer'[p].file = f /\ writer'[p].day = e
  BY DEF Opens
<1>3. /\ writer[p].file = 0 /\ writer'[p].buf = <<>> /\ accepted' = accepted
      /\ \A q \in Processes \ {p} : writer'[q] = writer[q]
  BY DEF Opens
<1>4. /\ slots'[e][0] = f /\ slots[e][0] \in {0, f} /\ f # 0
      /\ \A g \in 1..Len(content) : content'[g] = content[g]
      /\ slots[e][0] = 0 => content'[f] = <<>>
      /\ \A d \in Days, i \in 0..MaxBackups : <<d, i>> # <<e, 0>> => slots'[d][i] = slots[d][i]
  <2>1. f # 0
    OBVIOUS
  <2> QED
    BY <1>2, <2>1, PathOpens
<1>5. ASSUME NEW d \in Days, NEW i \in 0..MaxBackups
      PROVE  /\ FilePart(slots[d][i])' = FilePart(slots[d][i])
             /\ slots[d][i] # 0 => slots'[d][i] = slots[d][i]
  <2>1. slots[d][i] = 0 \/ slots[d][i] \in 1..Len(content)
    BY SlotsHoldFiles
  <2>2. CASE slots[d][i] # 0
    <3>1. slots'[d][i] = slots[d][i]
      BY <1>4, <2>2
    <3> QED
      BY <1>4, <2>1, <2>2, <3>1 DEF FilePart
  <2>3. CASE slots[d][i] = 0 /\ <<d, i>> # <<e, 0>>
    BY <1>4, <2>3 DEF FilePart
  <2>4. CASE slots[d][i] = 0 /\ <<d, i>> = <<e, 0>>
    <3>1. slots'[d][i] = f /\ content'[f] = <<>> /\ FilePart(slots[d][i]) = <<>>
      BY <1>4, <2>4 DEF FilePart
    <3>2. FilePart(slots[d][i])' = DaemonPart(<<>>)
      BY <1>4, <3>1 DEF FilePart
    <3> QED
      BY <2>4, <3>1, <3>2, PartOfNothing
  <2> QED
    BY <2>2, <2>3, <2>4
<1>6. ASSUME NEW d \in Days PROVE \E cut \in Cuts, h \in -1..MaxBackups : Kept(d, cut, h)'
  <2>1. PICK cut \in Cuts, h \in -1..MaxBackups : Kept(d, cut, h)
    BY <1>1 DEF KeptInv
  <2>2. /\ MaxBackups \in Nat
        /\ OpenOn(d) => h \in 0..MaxBackups /\ slots[d][h] = writer["daemon"].file
        /\ ~OpenOn(d) => h = -1 /\ DaemonBuf(d) = <<>> /\ cut[0] = Len(accepted[d])
    BY <2>1, KeptTypes
  <2>3. CASE p = "daemon" /\ d = e
    <3>1. ~OpenOn(d) /\ OpenOn(d)' /\ writer'["daemon"].file = f /\ DaemonBuf(d)' = <<>>
      BY <1>2, <1>3, <1>4, <2>3 DEF OpenOn, DaemonBuf
    <3>2. h = -1 /\ DaemonBuf(d) = <<>>
      BY <2>2, <3>1
    <3>3. Kept(d, cut, 0)'
      <4>1. \A j \in 0..0 : cut[j] = cut[0]
        OBVIOUS
      <4>2. \A j \in (0 + 1)..(MaxBackups + 1) : cut[j] % 2 = 0
        BY <2>1, <3>2 DEF Kept
      <4>3. \A i \in 0..MaxBackups :
              cut[i + 1] <= cut[i] /\ FilePart(slots[d][i])' = Piece(accepted'[d], cut[i + 1], cut[i])
        BY <1>3, <1>5, <2>1 DEF Kept
      <4>4. cut[0] <= Len(accepted'[d]) /\ DaemonBuf(d)' = Piece(accepted'[d], cut[0], Len(accepted'[d]))
            /\ Len(accepted'[d]) % 2 = 0
        BY <1>3, <2>1, <3>1, <3>2 DEF Kept
      <4>5. slots'[d][0] = writer'["daemon"].file /\ 0 # -1
        BY <1>4, <2>3, <3>1
      <4> QED
        BY <3>1, <4>1, <4>2, <4>3, <4>4, <4>5 DEF Kept
    <3> QED
      BY <2>2, <3>3
  <2>4. CASE ~(p = "daemon" /\ d = e)
    <3>1. (OpenOn(d)' <=> OpenOn(d)) /\ DaemonBuf(d)' = DaemonBuf(d)
      BY <1>2, <1>3, <2>4, LogProcesses DEF OpenOn, DaemonBuf
    <3>2. ASSUME OpenOn(d) PROVE writer'["daemon"].file = writer["daemon"].file /\ slots'[d][h] = slots[d][h]
      <4>1. p # "daemon" /\ writer'["daemon"] = writer["daemon"]
        BY <1>3, <3>2, LogProcesses DEF OpenOn
      <4>2. slots[d][h] # 0 /\ h \in 0..MaxBackups
        BY <2>2, <3>2 DEF OpenOn
      <4> QED
        BY <1>5, <4>1, <4>2
    <3>3. \A i \in 0..MaxBackups : FilePart(slots[d][i])' = FilePart(slots[d][i])
      BY <1>5
    <3>4. Kept(d, cut, h)'
      BY <1>3, <2>1, <3>1, <3>2, <3>3, KeptStays
    <3> QED
      BY <3>4
  <2> QED
    BY <2>3, <2>4
<1> QED
  BY <1>6 DEF KeptInv, Cuts

(* The cuts when the slot i - 1 has moved into the slot i: over the oldest *)
(* backup, whose piece is dropped, or into an empty slot.                  *)
Shifted(cut, i) == [j \in 0..(MaxBackups + 1) |-> IF j = i THEN cut[i - 1]
                                                ELSE IF j = i + 1 /\ i = MaxBackups THEN cut[i]
                                                ELSE cut[j]]

(* A rotation, the daemon's or a claim's, under whatever the daemon has    *)
(* open: its file moves with its cut.                                      *)
LEMMA ShiftsKept ==
  ASSUME PlainInv, KeptInv, NEW p \in Processes, NEW d \in Days, NEW i \in 1..MaxBackups, Shifts(p, d, i)
  PROVE  KeptInv'
<1>1. SUFFICES ASSUME ~collided, ~collided' PROVE KeptInv'
  BY DEF KeptInv, Shifts
<1>2. /\ slots'[d][i] = slots[d][i - 1] /\ slots'[d][i - 1] = 0 /\ slots[d][i - 1] # 0
      /\ \A e \in Days, j \in 0..MaxBackups :
           <<e, j>> \notin {<<d, i>>, <<d, i - 1>>} => slots'[e][j] = slots[e][j]
  BY ShiftedSlots DEF Shifts
<1>3. slots[d][i] # 0 => i = MaxBackups /\ \A q \in Processes : writer[q].file # slots[d][i]
  <2> DEFINE Over == slots[d][i] # 0 /\ (i < MaxBackups \/ \E q \in Processes : writer[q].file = slots[d][i])
  <2>1. collided' = (collided \/ Over)
    BY DEF Shifts
  <2>2. ~Over
    BY <1>1, <2>1, Zenon
  <2>3. i < MaxBackups \/ i = MaxBackups
    BY EventLogAssumption
  <2> QED
    BY <2>2, <2>3
<1>4. UNCHANGED <<content, accepted>> /\ \A f : FilePart(f)' = FilePart(f)
  BY DEF Shifts, FilePart
<1>5. \A e \in Days : (OpenOn(e)' <=> OpenOn(e)) /\ DaemonBuf(e)' = DaemonBuf(e)
                      /\ (OpenOn(e) => writer'["daemon"].file = writer["daemon"].file)
  <2>1. writer'["daemon"] = writer["daemon"] \/ (writer'["daemon"].file = 0 /\ writer["daemon"].file = 0)
    BY LogProcesses DEF Shifts
  <2> QED
    BY <2>1 DEF OpenOn, DaemonBuf
<1>6. ASSUME NEW e \in Days PROVE \E cut \in Cuts, h \in -1..MaxBackups : Kept(e, cut, h)'
  <2>1. PICK cut \in Cuts, h \in -1..MaxBackups : Kept(e, cut, h)
    BY <1>1 DEF KeptInv
  <2>2. /\ MaxBackups \in Nat /\ accepted[e] \in Seq(Units) /\ Len(accepted[e]) \in Nat
        /\ \A j \in 0..(MaxBackups + 1) : cut[j] \in Nat /\ cut[j] <= cut[0] /\ cut[j] <= Len(accepted[e])
        /\ OpenOn(e) => h \in 0..MaxBackups /\ slots[e][h] = writer["daemon"].file
        /\ ~OpenOn(e) => h = -1 /\ DaemonBuf(e) = <<>> /\ cut[0] = Len(accepted[e])
    BY <2>1, KeptTypes
  <2>3. CASE e # d
    <3>1. \A j \in 0..MaxBackups : slots'[e][j] = slots[e][j]
      BY <1>2, <2>3
    <3>2. \A j \in 0..MaxBackups : FilePart(slots[e][j])' = FilePart(slots[e][j])
      BY <1>4, <3>1 DEF FilePart
    <3>3. Kept(e, cut, h)'
      BY <1>4, <1>5, <2>1, <2>2, <3>1, <3>2, KeptStays
    <3> QED
      BY <3>3
  <2>4. CASE e = d
    <3> PICK new \in Cuts : new = Shifted(cut, i)
      <4>1. \A j \in 0..(MaxBackups + 1) : Shifted(cut, i)[j] \in Nat
        <5>1. i - 1 \in 0..(MaxBackups + 1) /\ i \in 0..(MaxBackups + 1)
          BY <2>2
        <5> QED
          BY <2>2, <5>1 DEF Shifted
      <4> QED
        BY <4>1 DEF Shifted, Cuts
    <3> PICK g : g = IF h = i - 1 THEN i ELSE h
      OBVIOUS
    <3>0. new \in Cuts /\ g = IF h = i - 1 THEN i ELSE h
      OBVIOUS
    <3>1. /\ i - 1 \in 0..MaxBackups /\ i \in 0..MaxBackups /\ i \in 0..(MaxBackups + 1) /\ i + 1 \in 0..(MaxBackups + 1)
          /\ i - 1 \in 0..(MaxBackups + 1) /\ i # 0 /\ i - 1 + 1 = i /\ 0 \in 0..(MaxBackups + 1)
      BY <2>2
    <3>2. \A j \in 0..(MaxBackups + 1) : new[j] = IF j = i THEN cut[i - 1]
                                                ELSE IF j = i + 1 /\ i = MaxBackups THEN cut[i] ELSE cut[j]
      BY DEF Shifted
    <3>3. \A j \in 0..MaxBackups :
            cut[j + 1] <= cut[j] /\ FilePart(slots[e][j]) = Piece(accepted[e], cut[j + 1], cut[j])
      BY <2>1 DEF Kept
    <3>4. slots[d][i] = 0 => cut[i + 1] = cut[i]
      <4>1. ASSUME slots[d][i] = 0 PROVE Piece(accepted[e], cut[i + 1], cut[i]) = <<>>
        BY <2>4, <3>1, <3>3, <4>1 DEF FilePart
      <4> PICK acc \in Seq(Units), a \in Nat, b \in Nat : acc = accepted[e] /\ a = cut[i + 1] /\ b = cut[i]
        BY <2>2, <3>1
      <4>2. a <= b /\ b <= Len(acc)
        BY <2>2, <3>1, <3>3
      <4>3. Len(Piece(acc, a, b)) = b - a
        BY <4>2, PieceIsSeq
      <4>4. Piece(acc, a, b) = <<>> => b - a = 0
        BY <4>3
      <4> QED
        BY <4>1, <4>2, <4>4
    <3>5. OpenOn(d) => h # i
      <4>1. ASSUME OpenOn(d), h = i PROVE FALSE
        <5>1. slots[d][i] = writer["daemon"].file /\ writer["daemon"].file # 0
          BY <2>2, <2>4, <4>1 DEF OpenOn
        <5> QED
          BY <1>3, <5>1, LogProcesses
      <4> QED
        BY <4>1
    <3>6. g \in -1..MaxBackups /\ (OpenOn(d) => g # -1 /\ slots'[d][g] = writer["daemon"].file) /\ (~OpenOn(d) => g = -1)
      <4>1. CASE ~OpenOn(d)
        <5>1. h = -1 /\ i - 1 # -1
          BY <2>2, <2>4, <3>1, <4>1
        <5> QED
          BY <3>0, <4>1, <5>1, <2>2
      <4>2. CASE OpenOn(d) /\ h = i - 1
        <5>1. g = i /\ slots[d][i - 1] = writer["daemon"].file
          BY <2>2, <2>4, <3>0, <4>2
        <5> QED
          BY <1>2, <2>2, <3>1, <4>2, <5>1
      <4>3. CASE OpenOn(d) /\ h # i - 1
        <5>1. g = h /\ h \in 0..MaxBackups /\ slots[d][h] = writer["daemon"].file
          BY <2>2, <2>4, <3>0, <4>3
        <5>2. slots'[d][h] = slots[d][h]
          BY <1>2, <3>5, <4>3, <5>1
        <5> QED
          BY <4>3, <5>1, <5>2
      <4> QED
        BY <4>1, <4>2, <4>3
    <3>7. \A j \in 0..h : cut[j] = cut[0]
      BY <2>1 DEF Kept
    <3>8. \A j \in (h + 1)..(MaxBackups + 1) : cut[j] % 2 = 0
      BY <2>1 DEF Kept
    <3>9. new[0] = cut[0]
      BY <3>1, <3>2
    <3>10. ASSUME NEW j \in 0..g PROVE new[j] = new[0]
      <4>1. j \in 0..(MaxBackups + 1)
        BY <2>2, <3>6
      <4>2. CASE g = i /\ h = i - 1
        <5>1. j = i \/ j \in 0..h
          BY <3>1, <4>2
        <5>2. i - 1 \in 0..h
          BY <3>1, <4>2
        <5>3. ~(j = i + 1)
          BY <3>1, <4>2
        <5> QED
          BY <3>2, <3>7, <3>9, <4>1, <5>1, <5>2, <5>3
      <4>3. CASE g = h /\ h # i - 1
        <5>1. j \in 0..h
          BY <4>3
        <5>2. j = i => i - 1 \in 0..h
          BY <3>1, <5>1
        <5>3. j = i + 1 => i \in 0..h
          BY <3>1, <5>1
        <5> QED
          BY <3>2, <3>7, <3>9, <4>1, <5>1, <5>2, <5>3
      <4> QED
        BY <3>0, <4>2, <4>3
    <3>11. ASSUME NEW j \in (g + 1)..(MaxBackups + 1) PROVE new[j] % 2 = 0
      <4>0. g \in Int /\ h \in Int /\ g >= h /\ j \in 0..(MaxBackups + 1) /\ j \in (h + 1)..(MaxBackups + 1)
        BY <2>2, <3>0, <3>1, <3>6
      <4>1. CASE j = i
        <5>1. g < i
          BY <4>0, <4>1
        <5>2. h # i - 1
          BY <3>0, <5>1
        <5>3. i - 1 \in (h + 1)..(MaxBackups + 1)
          BY <3>1, <4>0, <4>1, <5>2
        <5> QED
          BY <3>2, <3>8, <4>0, <4>1, <5>3
      <4>2. CASE j = i + 1 /\ i = MaxBackups
        <5>1. h # i
          BY <2>2, <2>4, <3>1, <3>5
        <5>2. h + 1 <= i
          BY <3>1, <4>0, <4>2, <5>1, <2>2
        <5>3. i \in (h + 1)..(MaxBackups + 1)
          BY <3>1, <4>0, <5>2
        <5>4. j # i
          BY <3>1, <4>2
        <5> QED
          BY <3>2, <3>8, <4>0, <4>2, <5>3, <5>4
      <4>3. CASE j # i /\ ~(j = i + 1 /\ i = MaxBackups)
        BY <3>2, <3>8, <4>0, <4>3
      <4> QED
        BY <4>1, <4>2, <4>3
    <3>12. ASSUME NEW j \in 0..MaxBackups
           PROVE  new[j + 1] <= new[j] /\ FilePart(slots[e][j])' = Piece(accepted[e], new[j + 1], new[j])
      <4>0. j \in 0..(MaxBackups + 1) /\ j + 1 \in 0..(MaxBackups + 1)
        BY <2>2
      <4>1. CASE j = i
        <5>1. new[j] = cut[i - 1] /\ new[j + 1] = cut[i]
          <6>1. CASE i = MaxBackups
            BY <3>1, <3>2, <4>0, <4>1, <6>1
          <6>2. CASE i # MaxBackups
            <7>1. cut[i + 1] = cut[i]
              BY <1>3, <3>4, <6>2
            <7>2. j + 1 # i
              BY <3>1, <4>1
            <7> QED
              BY <3>2, <4>0, <4>1, <6>2, <7>1, <7>2
          <6> QED
            BY <6>1, <6>2
        <5>2. FilePart(slots[e][j])' = FilePart(slots[e][i - 1])
          BY <1>2, <1>4, <2>4, <4>1 DEF FilePart
        <5> QED
          BY <3>1, <3>3, <5>1, <5>2
      <4>2. CASE j = i - 1
        <5>1. j # i /\ j + 1 = i /\ ~(j = i + 1)
          BY <3>1, <4>2
        <5>2. new[j] = cut[i - 1] /\ new[j + 1] = cut[i - 1]
          BY <3>2, <4>0, <4>2, <5>1
        <5>3. FilePart(slots[e][j])' = <<>>
          BY <1>2, <2>4, <4>2 DEF FilePart
        <5>4. Piece(accepted[e], cut[i - 1], cut[i - 1]) = <<>> /\ cut[i - 1] <= cut[i - 1]
          BY <2>2, <3>1, PieceOfNothing
        <5> QED
          BY <5>2, <5>3, <5>4
      <4>3. CASE j # i /\ j # i - 1
        <5>1. j # i /\ j + 1 # i
          BY <3>1, <4>3
        <5>2. ~(j = i + 1 /\ i = MaxBackups)
          BY <3>1
        <5>3. ~(j + 1 = i + 1)
          BY <3>1, <5>1
        <5>4. new[j] = cut[j] /\ new[j + 1] = cut[j + 1]
          BY <3>2, <4>0, <5>1, <5>2, <5>3
        <5>5. slots'[e][j] = slots[e][j]
          BY <1>2, <2>4, <4>3
        <5>6. FilePart(slots[e][j])' = FilePart(slots[e][j])
          BY <1>4, <5>5 DEF FilePart
        <5> QED
          BY <3>3, <5>4, <5>6
      <4> QED
        BY <4>1, <4>2, <4>3
    <3>13. accepted' = accepted
      BY <1>4
    <3>14. /\ new[0] <= Len(accepted[e]) /\ DaemonBuf(e)' = Piece(accepted[e], new[0], Len(accepted[e]))
           /\ Len(accepted[e]) % 2 = 0
      BY <1>5, <2>1, <3>9 DEF Kept
    <3>15. IF OpenOn(e)' THEN g # -1 /\ slots'[e][g] = writer'["daemon"].file ELSE g = -1
      BY <1>5, <2>4, <3>6
    <3>16. Kept(e, new, g)'
      BY <3>10, <3>11, <3>12, <3>13, <3>14, <3>15 DEF Kept
    <3> QED
      BY <3>6, <3>16
  <2> QED
    BY <2>3, <2>4
<1> QED
  BY <1>6 DEF KeptInv, Cuts

(* A piece of s from a to b, of length l, is cut at c, after its first k   *)
(* units.                                                                  *)
Splits(s, a, b, c, k, l) ==
  /\ s \in Seq(Units) /\ {a, b, c, k, l} \subseteq Nat
  /\ a <= c /\ c <= b /\ b <= Len(s) /\ k = c - a /\ l = b - a

(* Its two parts are pieces.                                               *)
LEMMA PieceSplits ==
  ASSUME NEW s, NEW a, NEW b, NEW c, NEW k, NEW l, Splits(s, a, b, c, k, l)
  PROVE  /\ SubSeq(Piece(s, a, b), 1, k) = Piece(s, a, c)
         /\ SubSeq(Piece(s, a, b), k + 1, l) = Piece(s, c, b)
<1>0. /\ s \in Seq(Units) /\ Len(s) \in Nat /\ a \in Nat /\ b \in Nat /\ c \in Nat /\ k \in Nat /\ l \in Nat
      /\ a <= c /\ c <= b /\ b <= Len(s) /\ k = c - a /\ l = b - a
  BY DEF Splits
<1> DEFINE t == Piece(s, a, b)
           x == Piece(s, a, c)
           y == Piece(s, c, b)
<1>1. t \in Seq(Units) /\ Len(t) = b - a
  <2>1. a <= b
    BY <1>0
  <2> QED
    BY <1>0, <2>1, PieceIsSeq
<1>2. x \in Seq(Units) /\ Len(x) = c - a
  <2>1. c <= Len(s)
    BY <1>0
  <2> QED
    BY <1>0, <2>1, PieceIsSeq
<1>3. y \in Seq(Units) /\ Len(y) = b - c
  BY <1>0, PieceIsSeq
<1>4. /\ \A i \in 1..(b - a) : t[i] = s[a + i]
      /\ \A i \in 1..(c - a) : x[i] = s[a + i]
      /\ \A i \in 1..(b - c) : y[i] = s[c + i]
  BY <1>0 DEF Piece
<1> HIDE DEF t, x, y
<1>5. SubSeq(t, 1, k) = x
  <2> DEFINE u == SubSeq(t, 1, k)
  <2>1. u \in Seq(Units) /\ Len(u) = k /\ \A i \in 1..k : u[i] = t[i]
    BY <1>0, <1>1
  <2>2. \A i \in 1..k : u[i] = x[i]
    BY <1>0, <1>4, <2>1
  <2> HIDE DEF u
  <2> QED
    BY <1>0, <1>2, <2>1, <2>2, SeqEqual DEF u
<1>6. SubSeq(t, k + 1, l) = y
  <2> DEFINE u == SubSeq(t, k + 1, l)
  <2>0. k \in 0..l /\ l = Len(t) /\ k + 1 \in 1..(l + 1) /\ l - k \in Nat
    BY <1>0, <1>1
  <2>1. u \in Seq(Units) /\ Len(u) = l - k /\ \A i \in 1..(l - k) : u[i] = t[k + i]
    <3>1. t \in Seq(Units) /\ k + 1 \in 1..(Len(t) + 1) /\ l \in ((k + 1) - 1)..Len(t)
      BY <1>0, <1>1, <2>0
    <3>2. /\ u \in Seq(Units) /\ Len(u) = (l - (k + 1)) + 1
          /\ \A i \in 1..((l - (k + 1)) + 1) : u[i] = t[((k + 1) + i) - 1]
      BY <3>1, SubSeqProperties
    <3>3. (l - (k + 1)) + 1 = l - k /\ \A i \in 1..(l - k) : ((k + 1) + i) - 1 = k + i
      BY <1>0
    <3> HIDE DEF u
    <3> QED
      BY <3>2, <3>3
  <2>2. ASSUME NEW i \in 1..(l - k) PROVE u[i] = y[i]
    <3>1. k + i \in 1..(b - a) /\ a + (k + i) = c + i /\ i \in 1..(b - c)
      BY <1>0
    <3>2. t[k + i] = s[c + i] /\ y[i] = s[c + i]
      BY <1>4, <3>1
    <3> QED
      BY <2>1, <3>2
  <2>3. Len(y) = l - k /\ l - k \in Nat
    BY <1>0, <1>3
  <2> HIDE DEF u
  <2> QED
    BY <1>3, <2>1, <2>2, <2>3, SeqEqual DEF u
<1> QED
  BY <1>5, <1>6 DEF t, x, y

(* The daemon's line is accepted: it is in the buffer, or the file takes   *)
(* as much as the buffer holds and the rest stays.                         *)
LEMMA EmitsKept ==
  ASSUME PlainInv, KeptInv, Emits
  PROVE  KeptInv'
<1>1. SUFFICES ASSUME ~collided PROVE KeptInv'
  BY DEF KeptInv, Emits
<1>2. PICK a \in Days, line \in Seq(Units), buf \in Seq(Units), f \in 1..Len(content) :
        a = writer["daemon"].date /\ line = writer["daemon"].line /\ buf = writer["daemon"].buf
        /\ f = writer["daemon"].file
  BY LogProcesses, BufferHolds DEF Emits
<1>20. buf \o line \in Seq(Units) /\ OfDaemon(buf \o line) /\ Len(line) = 2 /\ f # 0
  BY <1>2 DEF Emits
<1>21. PICK all \in Seq(Units) : all = buf \o line
  BY <1>20
<1>3. /\ OfDaemon(all) /\ all = buf \o line /\ Len(line) = 2 /\ f # 0 /\ BufSize \in Nat /\ Len(all) \in Nat
      /\ writer["daemon"].file = f /\ writer["daemon"].day = a /\ writer["daemon"].buf = buf
      /\ writer'["daemon"].file = f /\ writer'["daemon"].day = a
      /\ slots' = slots /\ accepted' = [accepted EXCEPT ![a] = @ \o line]
  <2>1. OfDaemon(all) /\ all = buf \o line /\ Len(line) = 2 /\ f # 0
    BY <1>20, <1>21
  <2>2. BufSize \in Nat /\ Len(all) \in Nat
    BY EventLogAssumption
  <2>3. writer["daemon"].file = f /\ writer["daemon"].day = a /\ writer["daemon"].buf = buf
    BY <1>2 DEF Emits
  <2>4. writer'["daemon"].file = f /\ writer'["daemon"].day = a
    BY <1>2 DEF Emits
  <2>5. slots' = slots /\ accepted' = [accepted EXCEPT ![a] = @ \o line]
    BY <1>2 DEF Emits
  <2> QED
    BY <2>1, <2>2, <2>3, <2>4, <2>5
<1>4. \/ Len(all) > BufSize /\ content' = [content EXCEPT ![f] = @ \o SubSeq(all, 1, BufSize)]
         /\ writer'["daemon"].buf = SubSeq(all, BufSize + 1, Len(all))
      \/ Len(all) <= BufSize /\ content' = content /\ writer'["daemon"].buf = all
  BY <1>2, <1>3 DEF Emits
<1>5. /\ content \in Seq(Seq(Units)) /\ accepted \in [Days -> Seq(Units)]
      /\ accepted'[a] = accepted[a] \o line /\ \A e \in Days : e # a => accepted'[e] = accepted[e]
  BY <1>3 DEF PlainInv, LogTypeOK
<1>6. OpenOn(a) /\ OpenOn(a)' /\ DaemonBuf(a) = buf /\ DaemonBuf(a)' = writer'["daemon"].buf
      /\ \A e \in Days : e # a => ~OpenOn(e) /\ ~OpenOn(e)' /\ DaemonBuf(e) = <<>> /\ DaemonBuf(e)' = <<>>
  BY <1>3 DEF OpenOn, DaemonBuf
<1>7. PICK cut \in Cuts, h \in -1..MaxBackups : Kept(a, cut, h)
  BY <1>1 DEF KeptInv
<1>8. \A g \in 1..Len(content) : g # f => content'[g] = content[g]
  BY <1>4, <1>5
<1>9. ASSUME NEW e \in Days, e # a PROVE \E c \in Cuts, k \in -1..MaxBackups : Kept(e, c, k)'
  <2>1. PICK c \in Cuts, k \in -1..MaxBackups : Kept(e, c, k)
    BY <1>1 DEF KeptInv
  <2>2. ASSUME NEW i \in 0..MaxBackups PROVE FilePart(slots[e][i])' = FilePart(slots[e][i])
    <3>1. slots[e][i] # f
      BY <1>3, <1>6, <1>7, <1>9, OpenFileIsOne
    <3>2. slots[e][i] = 0 \/ slots[e][i] \in 1..Len(content)
      BY SlotsHoldFiles
    <3> QED
      BY <1>3, <1>8, <3>1, <3>2 DEF FilePart
  <2>3. accepted'[e] = accepted[e] /\ (OpenOn(e)' <=> OpenOn(e)) /\ ~OpenOn(e) /\ DaemonBuf(e)' = DaemonBuf(e)
    BY <1>5, <1>6, <1>9
  <2>4. Kept(e, c, k)'
    BY <2>1, <2>2, <2>3, KeptStays
  <2> QED
    BY <2>4
<1>10. \E c \in Cuts, k \in -1..MaxBackups : Kept(a, c, k)'
  <2>1. /\ MaxBackups \in Nat /\ accepted[a] \in Seq(Units) /\ Len(accepted[a]) \in Nat
        /\ \A j \in 0..(MaxBackups + 1) : cut[j] \in Nat /\ cut[j] <= cut[0] /\ cut[j] <= Len(accepted[a])
        /\ h \in 0..MaxBackups /\ slots[a][h] = f
    BY <1>3, <1>6, <1>7, KeptTypes
  <2>20. PICK old \in Seq(Units), acc \in Seq(Units), m \in Nat, b \in Nat :
        old = accepted[a] /\ acc = old \o line /\ m = Len(old) /\ b = cut[0]
    <3>1. accepted[a] \in Seq(Units) /\ accepted[a] \o line \in Seq(Units) /\ cut[0] \in Nat
      <4>1. 0 \in 0..(MaxBackups + 1)
        BY <2>1
      <4> QED
        BY <2>1, <4>1
    <3> QED
      BY <2>1, <3>1
  <2>2. /\ old = accepted[a] /\ acc = accepted'[a] /\ acc = old \o line /\ m = Len(old) /\ b = cut[0]
        /\ Len(acc) = m + 2 /\ b <= m /\ 0 \in 0..(MaxBackups + 1)
    <3>1. 0 \in 0..(MaxBackups + 1)
      BY <2>1
    <3>2. b <= m
      BY <2>1, <2>20, <3>1
    <3>3. Len(acc) = m + 2
      <4>1. Len(line) = 2
        BY <1>3
      <4>2. Len(old \o line) = Len(old) + Len(line)
        BY ConcatProperties
      <4> QED
        BY <2>20, <4>1, <4>2
    <3> QED
      BY <1>5, <2>20, <3>1, <3>2, <3>3
  <2>3. all = Piece(acc, b, m + 2) /\ Len(all) = (m + 2) - b
    <3>1. buf = Piece(old, b, m) /\ Piece(old, b, m) = Piece(acc, b, m)
      <4>1. buf = Piece(old, b, m)
        BY <1>6, <1>7, <2>2 DEF Kept
      <4>2. Piece(old \o line, b, m) = Piece(old, b, m)
        BY <2>2, PieceOfLonger
      <4> QED
        BY <2>2, <4>1, <4>2
    <3>2. line = Piece(acc, m, m + 2)
      BY <1>3, <2>2, PieceAtEnd
    <3>3. Piece(acc, b, m) \o Piece(acc, m, m + 2) = Piece(acc, b, m + 2)
      <4>1. PICK e \in Nat : e = m + 2
        OBVIOUS
      <4>2. b <= m /\ m <= e /\ e <= Len(acc)
        BY <2>2, <4>1
      <4>3. Piece(acc, b, m) \o Piece(acc, m, e) = Piece(acc, b, e)
        BY <4>2, PiecesJoin
      <4> QED
        BY <4>1, <4>3
    <3>4. Len(Piece(acc, b, m + 2)) = (m + 2) - b
      <4>1. PICK e \in Nat : e = m + 2
        OBVIOUS
      <4>2. b <= e /\ e <= Len(acc)
        BY <2>2, <4>1
      <4>3. Len(Piece(acc, b, e)) = e - b
        BY <4>2, PieceIsSeq
      <4> QED
        BY <4>1, <4>3
    <3> QED
      BY <1>3, <3>1, <3>2, <3>3, <3>4
  <2>4. Continues(acc, accepted[a])
    <3>1. \A x, y \in Nat : y <= Len(old) => Piece(old \o line, x, y) = Piece(old, x, y)
      BY PieceOfLonger
    <3> QED
      BY <2>2, <3>1 DEF Continues
  <2>5. (m + 2) % 2 = 0
    <3>1. m % 2 = 0
      BY <1>7, <2>2 DEF Kept
    <3> QED
      BY <3>1
  <2>6. \A i \in 0..MaxBackups :
          cut[i + 1] <= cut[i] /\ FilePart(slots[a][i]) = Piece(old, cut[i + 1], cut[i])
    BY <1>7, <2>2 DEF Kept
  <2>7. /\ \A j \in 0..h : cut[j] = b
        /\ \A j \in (h + 1)..(MaxBackups + 1) : cut[j] % 2 = 0
    BY <1>7, <2>2 DEF Kept
  <2>8. slots'[a][h] = writer'["daemon"].file /\ h # -1
    BY <1>3, <2>1
  <2>9. CASE Len(all) <= BufSize /\ content' = content /\ writer'["daemon"].buf = all
    <3>1. ASSUME NEW i \in 0..MaxBackups
          PROVE  cut[i + 1] <= cut[i] /\ FilePart(slots[a][i])' = Piece(acc, cut[i + 1], cut[i])
      <4>1. i \in 0..(MaxBackups + 1) /\ i + 1 \in 0..(MaxBackups + 1)
        BY <2>1
      <4>2. FilePart(slots[a][i])' = FilePart(slots[a][i])
        <5>1. slots' = slots /\ content' = content
          BY <1>3, <2>9
        <5> QED
          BY <5>1 DEF FilePart
      <4>3. Piece(acc, cut[i + 1], cut[i]) = Piece(accepted[a], cut[i + 1], cut[i])
        BY <2>1, <2>4, <4>1 DEF Continues
      <4> QED
        BY <2>2, <2>6, <4>2, <4>3
    <3>2. cut[0] <= Len(accepted'[a]) /\ DaemonBuf(a)' = Piece(accepted'[a], cut[0], Len(accepted'[a]))
      BY <1>6, <2>2, <2>3, <2>9
    <3>3. Len(accepted'[a]) % 2 = 0
      BY <2>2, <2>5
    <3>4. \A j \in 0..h : cut[j] = cut[0]
      BY <2>2, <2>7
    <3>5. Kept(a, cut, h)'
      BY <1>6, <2>2, <2>7, <2>8, <3>1, <3>2, <3>3, <3>4 DEF Kept
    <3> QED
      BY <3>5
  <2>10. CASE /\ Len(all) > BufSize /\ content' = [content EXCEPT ![f] = @ \o SubSeq(all, 1, BufSize)]
              /\ writer'["daemon"].buf = SubSeq(all, BufSize + 1, Len(all))
    <3>20. PICK n \in Nat : n = b + BufSize
      BY <1>3
    <3>1. n = b + BufSize /\ b <= n /\ n <= m + 2 /\ n <= Len(acc) /\ BufSize <= (m + 2) - b
      <4>1. n = b + BufSize /\ BufSize <= (m + 2) - b
        <5>1. BufSize \in Nat
          BY <1>3
        <5> QED
          BY <2>3, <2>10, <3>20, <5>1
      <4> QED
        <5>1. BufSize \in Nat /\ Len(acc) = m + 2
          BY <1>3, <2>2
        <5> QED
          BY <4>1, <5>1
    <3>2. SubSeq(all, 1, BufSize) = Piece(acc, b, n) /\ writer'["daemon"].buf = Piece(acc, n, m + 2)
      <4>0. PICK e \in Nat, l \in Nat : e = m + 2 /\ l = e - b
        BY <2>2
      <4>1. n <= e /\ e <= Len(acc) /\ BufSize = n - b
        <5>1. BufSize \in Nat /\ Len(acc) = m + 2
          BY <1>3, <2>2
        <5> QED
          BY <3>1, <4>0, <5>1
      <4>2. /\ SubSeq(Piece(acc, b, e), 1, BufSize) = Piece(acc, b, n)
            /\ SubSeq(Piece(acc, b, e), BufSize + 1, l) = Piece(acc, n, e)
        <5>1. BufSize \in Nat
          BY <1>3
        <5>2. Splits(acc, b, e, n, BufSize, l)
          BY <3>1, <4>0, <4>1, <5>1 DEF Splits
        <5> QED
          BY <5>2, PieceSplits
      <4>3. all = Piece(acc, b, e) /\ Len(all) = l
        BY <2>3, <4>0
      <4> QED
        BY <2>10, <4>0, <4>2, <4>3
    <3>3. OfDaemon(Piece(acc, b, n)) /\ Piece(acc, b, n) \in Seq(Units)
      <4>1. Piece(acc, b, n) \in Seq(Units) /\ Len(Piece(acc, b, n)) = BufSize
        <5>1. Piece(acc, b, n) \in Seq(Units) /\ Len(Piece(acc, b, n)) = n - b
          BY <3>1, PieceIsSeq
        <5> QED
          BY <1>3, <3>1, <5>1
      <4>2. \A i \in 1..BufSize : Piece(acc, b, n)[i] = all[i] /\ i \in 1..Len(all)
        <5>1. Len(SubSeq(all, 1, BufSize)) = BufSize /\ \A i \in 1..BufSize : SubSeq(all, 1, BufSize)[i] = all[i]
          <6>1. Len(all) \in Nat /\ BufSize \in Nat /\ BufSize <= Len(all)
            BY <1>3, <2>10
          <6> QED
            BY <6>1
        <5> QED
          BY <1>3, <2>10, <3>2, <5>1
      <4> QED
        BY <1>3, <4>1, <4>2 DEF OfDaemon
    <3>4. Takes(Piece(acc, b, n))
      <4>1. content' = [content EXCEPT ![f] = @ \o Piece(acc, b, n)]
        BY <2>10, <3>2
      <4>2. content'[f] = content[f] \o Piece(acc, b, n)
        <5>1. PICK t \in Seq(Units) : t = Piece(acc, b, n)
          BY <3>3
        <5>2. content' = [content EXCEPT ![f] = @ \o t]
          BY <4>1, <5>1
        <5>3. content'[f] = content[f] \o t
          <6>1. OfDaemon(t) /\ UNCHANGED slots
            BY <1>3, <3>3, <5>1
          <6> QED
            BY <5>2, <6>1, FilesGrow
        <5> QED
          BY <5>1, <5>3
      <4> QED
        BY <1>3, <1>8, <4>2 DEF Takes
    <3>5. /\ Raised(cut, h, n) \in Cuts
          /\ \A i \in 0..MaxBackups :
               /\ Raised(cut, h, n)[i + 1] <= Raised(cut, h, n)[i]
               /\ FilePart(slots[a][i])' = Piece(acc, Raised(cut, h, n)[i + 1], Raised(cut, h, n)[i])
      <4>1. Takes(Piece(acc, cut[0], n)) /\ OfDaemon(Piece(acc, cut[0], n)) /\ cut[0] <= n
        BY <2>2, <3>1, <3>3, <3>4
      <4> QED
        BY <1>6, <1>7, <2>4, <3>1, <4>1, HeadGrows
    <3>21. PICK new \in Cuts : new = Raised(cut, h, n)
      BY <3>5
    <3>6. \A i \in 0..MaxBackups : /\ new[i + 1] <= new[i]
                                   /\ FilePart(slots[a][i])' = Piece(acc, new[i + 1], new[i])
      BY <3>5, <3>21
    <3>7. \A j \in 0..(MaxBackups + 1) : new[j] = IF j <= h THEN n ELSE cut[j]
      BY <3>21 DEF Raised
    <3>8. new[0] = n /\ \A j \in 0..h : new[j] = new[0]
      <4>1. 0 <= h /\ 0 \in 0..(MaxBackups + 1)
        BY <2>1
      <4>2. \A j \in 0..h : j <= h /\ j \in 0..(MaxBackups + 1)
        BY <2>1
      <4>3. new[0] = n
        BY <3>7, <4>1
      <4> QED
        BY <3>7, <4>2, <4>3
    <3>9. ASSUME NEW j \in (h + 1)..(MaxBackups + 1) PROVE new[j] % 2 = 0
      <4>1. j \in 0..(MaxBackups + 1) /\ ~(j <= h)
        BY <2>1
      <4> QED
        BY <2>7, <3>7, <4>1
    <3>10. new[0] <= Len(accepted'[a]) /\ DaemonBuf(a)' = Piece(accepted'[a], new[0], Len(accepted'[a]))
      BY <1>6, <2>2, <3>1, <3>2, <3>8
    <3>11. Len(accepted'[a]) % 2 = 0
      BY <2>2, <2>5
    <3>12. Kept(a, new, h)'
      BY <1>6, <2>2, <2>8, <3>6, <3>8, <3>9, <3>10, <3>11 DEF Kept
    <3> QED
      BY <3>12
  <2> QED
    BY <1>4, <2>9, <2>10
<1> QED
  BY <1>9, <1>10 DEF KeptInv, Cuts

-----------------------------------------------------------------------------
(* The theorem.                                                            *)

(* Nothing is accepted and there are no files.                             *)
LEMMA LogInitInv == LogInit => LogInv
<1>1. SUFFICES ASSUME LogInit PROVE LogInv
  OBVIOUS
<1>2. MaxBackups \in Nat /\ <<>> \in Seq(Seq(Units)) /\ <<>> \in Seq(Units) /\ Len(<<>>) = 0
  BY EventLogAssumption
<1>3. /\ \A p \in Processes : writer[p] = Fresh
      /\ \A d \in Days, i \in 0..MaxBackups : slots[d][i] = 0
      /\ \A d \in Days : accepted[d] = <<>>
      /\ content = <<>> /\ collided = FALSE
  BY <1>1 DEF LogInit
<1>4. Fresh.file = 0 /\ Fresh.buf = <<>> /\ Fresh.pc = "closed"
  BY DEF Fresh
<1>5. LogTypeOK
  <2>1. writer \in [Processes -> Writers]
    BY <1>1, FreshWriter DEF LogInit
  <2> QED
    BY <1>1, <1>2, <2>1 DEF LogInit, LogTypeOK
<1>6. WritersInv
  <2>1. OfDaemon(<<>>) /\ Len(content) = 0
    BY <1>3 DEF OfDaemon
  <2>2. ASSUME NEW p \in Processes PROVE WriterInv(p, Fresh)
    BY <1>4, <2>1 DEF WriterInv, DaemonWriter, ClaimWriter
  <2> QED
    BY <1>3, <2>2 DEF WritersInv
<1>7. FilesInv /\ LinesInv
  BY <1>2, <1>3 DEF FilesInv, LinesInv
<1>8. KeptInv
  <2>1. PICK cut \in Cuts : \A j \in 0..(MaxBackups + 1) : cut[j] = 0
    <3> DEFINE c == [j \in 0..(MaxBackups + 1) |-> 0]
    <3>1. c \in Cuts /\ \A j \in 0..(MaxBackups + 1) : c[j] = 0
      BY DEF Cuts
    <3> QED
      BY <3>1
  <2>2. ASSUME NEW d \in Days PROVE Kept(d, cut, -1)
    <3>1. ~OpenOn(d) /\ DaemonBuf(d) = <<>>
      BY <1>3, <1>4, LogProcesses DEF OpenOn, DaemonBuf
    <3>2. accepted[d] = <<>> /\ Len(accepted[d]) = 0
      BY <1>2, <1>3
    <3>3. Piece(accepted[d], 0, 0) = <<>>
      BY PieceOfNothing
    <3>4. ASSUME NEW i \in 0..MaxBackups
          PROVE  cut[i + 1] <= cut[i] /\ FilePart(slots[d][i]) = Piece(accepted[d], cut[i + 1], cut[i])
      <4>1. cut[i] = 0 /\ cut[i + 1] = 0
        BY <1>2, <2>1
      <4>2. FilePart(slots[d][i]) = <<>>
        BY <1>3 DEF FilePart
      <4> QED
        BY <3>3, <4>1, <4>2
    <3>5. cut[0] = 0
      BY <1>2, <2>1
    <3>6. \A j \in 0..(-1) : cut[j] = cut[0]
      OBVIOUS
    <3>7. ASSUME NEW j \in ((-1) + 1)..(MaxBackups + 1) PROVE cut[j] % 2 = 0
      BY <2>1
    <3>8. cut[0] <= Len(accepted[d]) /\ DaemonBuf(d) = Piece(accepted[d], cut[0], Len(accepted[d]))
          /\ Len(accepted[d]) % 2 = 0
      BY <3>1, <3>2, <3>3, <3>5
    <3> QED
      BY <3>1, <3>4, <3>6, <3>7, <3>8 DEF Kept
  <2>3. -1 \in -1..MaxBackups
    BY <1>2
  <2> QED
    BY <2>2, <2>3 DEF KeptInv
<1> QED
  BY <1>5, <1>6, <1>7, <1>8 DEF LogInv

(* Every step of every process keeps the invariant.                        *)
LEMMA LogStepInv == LogInv /\ [LogNext]_logVars => LogInv'
<1>1. SUFFICES ASSUME PlainInv, KeptInv, [LogNext]_logVars PROVE PlainInv' /\ KeptInv'
  BY DEF LogInv, PlainInv
<1>2. CASE UNCHANGED logVars
  <2>1. PlainInv'
    BY <1>1, <1>2 DEF logVars, PlainInv, LogTypeOK, WritersInv, WriterInv, FilesInv, LinesInv
  <2>2. KeptInv'
    <3>1. Alone("daemon") /\ "daemon" \in Processes
      BY <1>2, LogProcesses DEF Alone, logVars
    <3> QED
      BY <1>1, <3>1, AloneKept
  <2> QED
    BY <2>1, <2>2
<1>3. ASSUME NEW p \in Processes, FlushesAway(p) PROVE KeptInv'
  <2>1. CASE p = "daemon"
    BY <1>1, <1>3, <2>1, DaemonFlushKept
  <2>2. CASE p \in Claims
    BY <1>1, <1>3, <2>2, ClaimFlushKept
  <2> QED
    BY <2>1, <2>2, LogProcesses
<1>4. ASSUME NEW p \in Processes, PlainInv', Alone(p) \/ Opens(p) \/ FlushesAway(p) PROVE PlainInv' /\ KeptInv'
  BY <1>1, <1>3, <1>4, AloneKept, OpensKept
<1>5. ASSUME NEW p \in Processes, NewBus(p) PROVE PlainInv' /\ KeptInv'
  BY <1>1, <1>4, <1>5, NewBusKeeps
<1>6. ASSUME NEW p \in Processes, NEW d \in Days, Write(p, d) PROVE PlainInv' /\ KeptInv'
  BY <1>1, <1>4, <1>6, WriteKeeps
<1>7. ASSUME NEW p \in Processes, SwitchDate(p) PROVE PlainInv' /\ KeptInv'
  BY <1>1, <1>4, <1>7, SwitchDateKeeps
<1>8. ASSUME NEW p \in Processes, EnsureFile(p) PROVE PlainInv' /\ KeptInv'
  BY <1>1, <1>4, <1>8, EnsureFileKeeps
<1>9. ASSUME NEW p \in Processes, BeginRotate(p) PROVE PlainInv' /\ KeptInv'
  BY <1>1, <1>4, <1>9, BeginRotateKeeps
<1>10. ASSUME NEW p \in Processes, Fits(p) PROVE PlainInv' /\ KeptInv'
  BY <1>1, <1>4, <1>10, FitsKeeps
<1>11. ASSUME NEW p \in Processes, ShiftBackup(p) PROVE PlainInv' /\ KeptInv'
  <2>1. PlainInv' /\ (Alone(p) \/ \E d \in Days, i \in 1..MaxBackups : Shifts(p, d, i))
    BY <1>1, <1>11, ShiftKeeps
  <2>2. ASSUME NEW d \in Days, NEW i \in 1..MaxBackups, Shifts(p, d, i) PROVE KeptInv'
    BY <1>1, <2>2, ShiftsKept
  <2> QED
    BY <1>4, <2>1, <2>2
<1>12. ASSUME NEW p \in Processes, OpenAfterRotation(p) PROVE PlainInv' /\ KeptInv'
  BY <1>1, <1>4, <1>12, OpenAfterRotationKeeps
<1>13. ASSUME NEW p \in Processes, AppendLine(p) PROVE PlainInv' /\ KeptInv'
  <2>1. CASE p = "daemon"
    <3>1. PlainInv' /\ Emits
      BY <1>1, <1>13, <2>1, DaemonAppends
    <3> QED
      BY <1>1, <3>1, EmitsKept
  <2>2. CASE p \in Claims
    <3>1. PlainInv' /\ Alone(p)
      BY <1>1, <1>13, <2>2, ClaimAppends
    <3> QED
      BY <1>4, <3>1
  <2> QED
    BY <2>1, <2>2, LogProcesses
<1>14. ASSUME NEW p \in Processes, CloseBus(p) PROVE PlainInv' /\ KeptInv'
  BY <1>1, <1>4, <1>14, CloseBusKeeps
<1> QED
  BY <1>1, <1>2, <1>5, <1>6, <1>7, <1>8, <1>9, <1>10, <1>11, <1>12, <1>13, <1>14 DEF LogNext

(* Whatever the daemon and the claims do, with failing opens and renames   *)
(* at any point: the daemon's accepted events are in the files of their    *)
(* day and its buffer, in order, the last ones without a gap and no half   *)
(* line, unless two rotations collided; and no claim's line is ever split. *)
THEOREM LogIsKept == LogSpec => []EventsAreKept
<1>1. LogInit => LogInv
  BY LogInitInv
<1>2. LogInv /\ [LogNext]_logVars => LogInv'
  BY LogStepInv
<1>3. LogInv => EventsAreKept
  BY KeptIsKept
<1> QED
  BY <1>1, <1>2, <1>3, PTL DEF LogSpec

=============================================================================
