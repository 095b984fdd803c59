------------------------- MODULE HistorySync_proofs -------------------------
(***************************************************************************)
(* Proofs about HistorySync for any file, any chunk bound, any wire and    *)
(* any number of failures: the server's cache never has a hole.            *)
(*                                                                         *)
(* The argument is about windows.  Every frame that exists anywhere, read  *)
(* by the push, planned, read for a pull or on the wire, covers a window   *)
(* base..upto of the file as it is now: files only grow.  A full frame     *)
(* starts at line 0, so it may replace the cache; an append that the gap   *)
(* guard lets through starts inside what is cached, so it extends it.  And *)
(* the cache's water mark is never beyond its records, which is what makes *)
(* the guard, that only looks at the mark, see every hole.                 *)
(***************************************************************************)
EXTENDS HistorySync, FiniteSetTheorems, WellFoundedInduction, TLAPS

\* A cursor into a file of n lines: never 0, for what was read of a file that
\* has lines has lines.
Marks(n) == {None} \cup 1..n

\* The frames a file of n lines gives, now or when it was shorter.
GoodFrames(n) ==
  {f \in Frames :
     /\ f.upto \in Marks(n)
     /\ f.upto = None => f.full /\ f.base = 0 /\ f.lines = <<>> /\ f.final
     /\ f.upto # None => f.base <= f.upto /\ Len(f.lines) = f.upto - f.base
     /\ f.full => f.base = 0}

\* The states of the push tick and of the reply to a pull over such a file.
PushStates(n) ==
  {Idle}
  \cup [pc : {"read"}, read : GoodFrames(n), listed : BOOLEAN]
  \cup [pc : {"planned"}, frame : {q \in Seq(GoodFrames(n)) : Len(q) <= 1},
        prev : Marks(n) \cup {Absent}, commit : Marks(n) \cup {Absent},
        held : BOOLEAN]

DrainStates(n) ==
  {Idle}
  \cup [pc : {"read"}, from : Marks(n)]
  \cup [pc : {"send"}, from : Marks(n), read : GoodFrames(n)]

\* The cache: a prefix of the file that reaches its water mark.
Bundles(n) ==
  {b \in [recs : LineSeqs, cur : Marks(n), held : BOOLEAN] :
     /\ Len(b.recs) <= n
     /\ Water(b.cur) <= Len(b.recs)
     /\ b.cur = None => b.recs = <<>>}

ServerStates(n) ==
  [bundle : Bundles(n), reqFull : BOOLEAN, inflight : BOOLEAN,
   delivery : {"none", "open", "stalled"}, pulls : Seq(Marks(n)),
   replaying : BOOLEAN, cold : BOOLEAN, rest : BOOLEAN, ended : BOOLEAN]

-----------------------------------------------------------------------------
(* Lines, and parts of them.                                               *)

LEMMA LineSeqsAreSeqs == LineSeqs = {s \in Seq(Versions) : Len(s) <= MaxLines}
<1>1. ASSUME NEW s \in LineSeqs PROVE s \in Seq(Versions) /\ Len(s) <= MaxLines
  <2>1. PICK n \in 0..MaxLines : s \in [1..n -> Versions]
    BY <1>1 DEF LineSeqs
  <2>2. n \in Nat /\ s \in Seq(Versions) /\ Len(s) = n
    BY <2>1
  <2>3. QED  BY <2>1, <2>2
<1>2. ASSUME NEW s \in Seq(Versions), Len(s) <= MaxLines PROVE s \in LineSeqs
  <2>1. Len(s) \in 0..MaxLines  BY <1>2, BoundsAssumption
  <2>2. s \in [1..Len(s) -> Versions]  OBVIOUS
  <2>3. QED  BY <2>1, <2>2 DEF LineSeqs
<1>3. QED  BY <1>1, <1>2

LEMMA Constants ==
  /\ Chunk \in Nat /\ Chunk >= 1 /\ MaxLines \in Nat /\ MaxTroubles \in Nat
  /\ None = -1 /\ Absent = -2 /\ Cursors = {None} \cup 0..MaxLines
BY BoundsAssumption DEF None, Absent, Cursors

LEMMA EmptyLines == <<>> \in LineSeqs
BY LineSeqsAreSeqs, Constants

LEMMA FileLength ==
  ASSUME NEW s \in LineSeqs PROVE Len(s) \in Nat /\ Len(s) <= MaxLines /\ s \in Seq(Versions)
BY LineSeqsAreSeqs

LEMMA LineAt ==
  ASSUME NEW s \in LineSeqs, NEW i \in 1..Len(s) PROVE s[i] \in Versions
<1>1. s \in Seq(Versions)  BY FileLength
<1>2. QED  BY <1>1

LEMMA SubLines ==
  ASSUME NEW s \in LineSeqs, NEW a \in Nat, NEW b \in Nat, a <= b, b <= Len(s)
  PROVE  /\ SubSeq(s, a + 1, b) \in LineSeqs
         /\ Len(SubSeq(s, a + 1, b)) = b - a
<1>1. s \in Seq(Versions) /\ Len(s) \in Nat /\ Len(s) <= MaxLines  BY FileLength
<1>2. SubSeq(s, a + 1, b) \in Seq(Versions)  BY <1>1
<1>3. Len(SubSeq(s, a + 1, b)) = b - a  BY <1>1
<1>4. QED  BY <1>1, <1>2, <1>3, LineSeqsAreSeqs, Constants

-----------------------------------------------------------------------------
(* Whatever is good for a file is good for the file it grows to.           *)

LEMMA MarksGrow ==
  ASSUME NEW n \in Nat, NEW m \in Nat, n <= m PROVE Marks(n) \subseteq Marks(m)
BY DEF Marks

LEMMA FramesGrow ==
  ASSUME NEW n \in Nat, NEW m \in Nat, n <= m PROVE GoodFrames(n) \subseteq GoodFrames(m)
BY MarksGrow DEF GoodFrames

LEMMA SeqsGrow ==
  ASSUME NEW S, NEW T, S \subseteq T PROVE Seq(S) \subseteq Seq(T)
OBVIOUS

LEMMA PushGrows ==
  ASSUME NEW n \in Nat, NEW m \in Nat, n <= m PROVE PushStates(n) \subseteq PushStates(m)
<1> DEFINE G == GoodFrames(n)
           H == GoodFrames(m)
           A == Marks(n)
           B == Marks(m)
<1>1. G \subseteq H /\ A \subseteq B  BY FramesGrow, MarksGrow
<1>2. Seq(G) \subseteq Seq(H)  BY <1>1, SeqsGrow
<1> HIDE DEF G, H, A, B
<1>3. {q \in Seq(G) : Len(q) <= 1} \subseteq {q \in Seq(H) : Len(q) <= 1}  BY <1>2
<1> DEFINE SG == {q \in Seq(G) : Len(q) <= 1}
           SH == {q \in Seq(H) : Len(q) <= 1}
<1>4. SG \subseteq SH  BY <1>3
<1> HIDE DEF SG, SH
<1>5. [pc : {"read"}, read : G, listed : BOOLEAN] \subseteq [pc : {"read"}, read : H, listed : BOOLEAN]
  BY <1>1
<1>6. [pc : {"planned"}, frame : SG, prev : A \cup {Absent}, commit : A \cup {Absent}, held : BOOLEAN]
        \subseteq [pc : {"planned"}, frame : SH, prev : B \cup {Absent}, commit : B \cup {Absent}, held : BOOLEAN]
  BY <1>1, <1>4
<1>7. QED  BY <1>5, <1>6 DEF PushStates, G, H, A, B, SG, SH

LEMMA DrainGrows ==
  ASSUME NEW n \in Nat, NEW m \in Nat, n <= m PROVE DrainStates(n) \subseteq DrainStates(m)
<1> DEFINE G == GoodFrames(n)
           H == GoodFrames(m)
           A == Marks(n)
           B == Marks(m)
<1>1. G \subseteq H /\ A \subseteq B  BY FramesGrow, MarksGrow
<1> HIDE DEF G, H, A, B
<1>5. [pc : {"read"}, from : A] \subseteq [pc : {"read"}, from : B]
  BY <1>1
<1>6. [pc : {"send"}, from : A, read : G] \subseteq [pc : {"send"}, from : B, read : H]
  BY <1>1
<1>7. QED  BY <1>5, <1>6 DEF DrainStates, G, H, A, B

LEMMA BundlesGrow ==
  ASSUME NEW n \in Nat, NEW m \in Nat, n <= m PROVE Bundles(n) \subseteq Bundles(m)
<1> SUFFICES ASSUME NEW b \in Bundles(n) PROVE b \in Bundles(m)
  OBVIOUS
<1>1. Marks(n) \subseteq Marks(m)  BY MarksGrow
<1>2. b.recs \in LineSeqs  BY DEF Bundles
<1>3. Len(b.recs) \in Nat  BY <1>2, FileLength
<1>4. b \in [recs : LineSeqs, cur : Marks(m), held : BOOLEAN]  BY <1>1 DEF Bundles
<1>5. QED  BY <1>3, <1>4 DEF Bundles

LEMMA ServerGrows ==
  ASSUME NEW n \in Nat, NEW m \in Nat, n <= m PROVE ServerStates(n) \subseteq ServerStates(m)
<1> DEFINE A == Bundles(n)
           B == Bundles(m)
           C == Seq(Marks(n))
           D == Seq(Marks(m))
<1>1. A \subseteq B /\ C \subseteq D  BY BundlesGrow, MarksGrow, SeqsGrow
<1> HIDE DEF A, B, C, D
<1>2. QED  BY <1>1 DEF ServerStates, A, B, C, D

-----------------------------------------------------------------------------
(* What the daemon reads and what it makes up.                             *)

\* A read covers a window of the file, whole from the start when it is full; it
\* is empty from the start, closes nothing and has no water mark only when the
\* file is empty.
LEMMA ReadGood ==
  ASSUME file \in LineSeqs, NEW c \in Marks(Len(file)) \cup {Absent}
  PROVE  /\ ReadFlow(c) \in GoodFrames(Len(file))
         /\ file # <<>> => ReadFlow(c).upto \in 1..Len(file)
         /\ ReadFlow(c).lines = <<>> /\ c \in {None, Absent} => file = <<>>
         /\ ~ReadFlow(c).final => file # <<>>
         /\ ~ReadFlow(c).full => ReadFlow(c).upto # None
<1> DEFINE n == Len(file)
           start == IF ~Prefix(seen, file) \/ Water(c) > Len(file) THEN 0 ELSE Water(c)
           upto == IF start + Chunk < Len(file) THEN start + Chunk ELSE Len(file)
<1>1. file \in Seq(Versions) /\ n \in Nat /\ n <= MaxLines  BY FileLength
<1>2. Water(c) \in Nat /\ (c \in 1..n => Water(c) = c) /\ (c \in {None, Absent} => Water(c) = 0)
  BY <1>1, Constants DEF Water, Marks
<1>3. start \in Nat /\ start <= n /\ (c \in {None, Absent} => start = 0)
  BY <1>1, <1>2
<1>4. upto \in Nat /\ start <= upto /\ upto <= n /\ (n > 0 => upto >= 1)
  BY <1>1, <1>3, Constants
<1>5. n = 0 <=> file = <<>>  BY <1>1
<1>6. ReadFlow(c) = [full |-> c < 0, base |-> start, lines |-> SubSeq(file, start + 1, upto),
                     upto |-> IF file = <<>> THEN None ELSE upto, final |-> upto - start < Chunk]
  BY DEF ReadFlow
<1> HIDE DEF n, start, upto
<1>7. /\ SubSeq(file, start + 1, upto) \in LineSeqs
      /\ Len(SubSeq(file, start + 1, upto)) = upto - start
  BY <1>1, <1>3, <1>4, SubLines DEF n
<1>8. c \in Int /\ (c < 0 <=> c \in {None, Absent}) /\ c \in Marks(n) \cup {Absent}
  BY <1>1, Constants DEF Marks, n
<1> DEFINE l == SubSeq(file, start + 1, upto)
<1> HIDE DEF l
<1>9. l \in LineSeqs /\ Len(l) = upto - start /\ (l = <<>> <=> upto = start)
  <2>1. l \in LineSeqs /\ Len(l) = upto - start  BY <1>7 DEF l
  <2>2. l \in Seq(Versions)  BY <2>1, FileLength
  <2>3. QED  BY <2>1, <2>2, <1>3, <1>4
<1>10. ReadFlow(c) = [full |-> c < 0, base |-> start, lines |-> l,
                     upto |-> IF file = <<>> THEN None ELSE upto, final |-> upto - start < Chunk]
  BY <1>6 DEF l
<1> DEFINE r == ReadFlow(c)
<1>11. /\ (r.full <=> c < 0) /\ r.base = start /\ r.lines = l
       /\ r.upto = (IF file = <<>> THEN None ELSE upto)
       /\ (r.final <=> upto - start < Chunk)
  <2>1. /\ r.full = (c < 0) /\ r.base = start /\ r.lines = l
        /\ r.upto = (IF file = <<>> THEN None ELSE upto)
        /\ r.final = (upto - start < Chunk)
    BY <1>10
  <2>2. (r.full <=> c < 0) /\ (r.final <=> upto - start < Chunk)
    <3> HIDE DEF r
    <3>1. QED  BY ONLY <2>1, Zenon
  <2>3. QED  BY <2>1, <2>2, Zenon
<1>12. r \in Frames
  BY <1>1, <1>3, <1>4, <1>9, <1>10, <1>8, Constants DEF Frames
<1> HIDE DEF r
<1>13. r.upto \in Marks(n) /\ (file # <<>> => r.upto \in 1..n)
  BY <1>1, <1>4, <1>5, <1>11 DEF Marks
<1>14. file # <<>> => r.upto # None  BY <1>4, <1>11, Constants
<1>15. r.upto = None => r.full /\ r.base = 0 /\ r.lines = <<>> /\ r.final
  <2>1. SUFFICES ASSUME file = <<>> PROVE r.full /\ r.base = 0 /\ r.lines = <<>> /\ r.final
    BY <1>14
  <2>2. n = 0 /\ start = 0 /\ upto = 0  BY <2>1, <1>5, <1>3, <1>4, <1>1
  <2>3. c \in {None, Absent}  BY <2>2, <1>8 DEF Marks
  <2>4. r.base = 0  BY <2>2, <1>11
  <2>5. r.lines = <<>>  BY <2>2, <1>9, <1>11
  <2>6. r.full  BY <2>3, <1>8, <1>11
  <2>7. r.final  BY <2>2, <1>11, Constants
  <2>8. QED  BY <2>4, <2>5, <2>6, <2>7
<1>16. r.upto # None => r.base <= r.upto /\ Len(r.lines) = r.upto - r.base
  BY <1>11, <1>9, <1>4
<1>17. r.full => r.base = 0  BY <1>11, <1>8, <1>3
<1>18. ~r.final => file # <<>>  BY <1>11, <1>3, <1>4, <1>1, <1>5, Constants
<1>19. r.lines = <<>> /\ c \in {None, Absent} => file = <<>>
  BY <1>11, <1>9, <1>3, <1>4, <1>1, <1>5
<1>20. ~r.full => r.upto # None  BY <1>15
<1>21. QED
  BY <1>12, <1>13, <1>15, <1>16, <1>17, <1>18, <1>19, <1>20 DEF GoodFrames, n, r

\* The terminator of a flow with a cursor is an empty window at that cursor.
LEMMA TerminatorGood ==
  ASSUME NEW n \in Nat, n <= MaxLines, NEW c \in 1..n
  PROVE  Terminator(c) \in GoodFrames(n)
<1> DEFINE t == Terminator(c)
<1>1. /\ t = [full |-> FALSE, base |-> c, lines |-> <<>>, upto |-> c, final |-> TRUE]
      /\ c \in 0..MaxLines /\ c \in Cursors /\ c # None
  BY Constants DEF Terminator
<1>2. t \in Frames  BY <1>1, EmptyLines DEF Frames
<1>3. Len(<<>>) = 0  OBVIOUS
<1>4. QED  BY <1>1, <1>2, <1>3 DEF GoodFrames, Marks

-----------------------------------------------------------------------------
(* What the server makes of a frame.                                       *)

\* An append that starts inside the records leaves records without a hole that
\* reach its end.
LEMMA FoldGood ==
  ASSUME NEW n \in Nat, n <= MaxLines, NEW recs \in LineSeqs, Len(recs) <= n,
         NEW f \in GoodFrames(n), f.upto # None, f.base <= Len(recs)
  PROVE  /\ Fold(recs, f) \in LineSeqs
         /\ Len(Fold(recs, f)) <= n
         /\ f.upto <= Len(Fold(recs, f))
         /\ Len(recs) <= Len(Fold(recs, f))
<1> DEFINE k == Len(recs)
           b == f.base
           u == f.upto
           m == IF u > k THEN u ELSE k
           window == (b + 1)..(b + Len(f.lines))
           F == Fold(recs, f)
<1>1. recs \in Seq(Versions) /\ k \in Nat /\ DOMAIN recs = 1..k
  BY FileLength
<1>2. /\ f \in Frames /\ f.lines \in LineSeqs /\ b \in Nat /\ u \in 1..n
      /\ b <= u /\ Len(f.lines) = u - b /\ b <= k
  BY Constants DEF GoodFrames, Frames, Marks
<1>3. f.lines \in Seq(Versions) /\ DOMAIN f.lines = 1..(u - b)
  BY <1>2, FileLength
<1>4. window = (b + 1)..u
  BY <1>2
<1>5. DOMAIN recs \cup window = 1..m
  <2> HIDE DEF window, k, b, u
  <2>1. QED  BY <1>1, <1>2, <1>4
<1>6. m \in 0..MaxLines /\ m <= n /\ u <= m /\ k <= m
  <2> HIDE DEF k, b, u
  <2>1. QED  BY <1>1, <1>2, Constants DEF k
<1>7. F = [i \in 1..m |-> IF i \in window THEN f.lines[i - b] ELSE recs[i]]
  BY <1>5 DEF Fold
<1>8. ASSUME NEW i \in 1..m PROVE (IF i \in window THEN f.lines[i - b] ELSE recs[i]) \in Versions
  <2>1. CASE i \in window
    <3>1. i - b \in 1..(u - b)  BY <2>1, <1>2, <1>4
    <3>2. f.lines[i - b] \in Versions
      <4>1. i - b \in 1..Len(f.lines)  BY <3>1, <1>2
      <4>2. QED  BY ONLY <4>1, <1>2, LineAt
    <3>3. QED  BY <2>1, <3>2
  <2>2. CASE i \notin window
    <3>1. i \in 1..k  BY <2>2, <1>1, <1>5
    <3>2. recs[i] \in Versions  BY <3>1, <1>1
    <3>3. QED  BY <2>2, <3>2
  <2>3. QED  BY <2>1, <2>2
<1> HIDE DEF F, window, u, b, m, k
<1>9. F \in [1..m -> Versions]
  BY <1>7, <1>8
<1>10. F \in LineSeqs  BY <1>6, <1>9 DEF LineSeqs
<1>11. Len(F) = m
  <2>1. m \in Nat  BY <1>6, Constants
  <2>2. QED  BY <2>1, <1>9
<1>12. QED  BY <1>6, <1>10, <1>11 DEF F, u, k

\* A cache of its kind, taken apart and put together.
LEMMA BundleFields ==
  ASSUME NEW n \in Nat, NEW b \in Bundles(n)
  PROVE  /\ b.recs \in LineSeqs /\ Len(b.recs) \in Nat /\ Len(b.recs) <= n
         /\ DOMAIN b.recs = 1..Len(b.recs)
         /\ b.cur \in Marks(n) /\ b.held \in BOOLEAN
         /\ Water(b.cur) \in Nat /\ Water(b.cur) <= Len(b.recs)
         /\ b.cur = None => b.recs = <<>>
         /\ b.recs = <<>> => b.cur = None
<1>1. b.recs \in LineSeqs /\ b.cur \in Marks(n) /\ b.held \in BOOLEAN
  BY DEF Bundles
<1>2. Len(b.recs) \in Nat /\ DOMAIN b.recs = 1..Len(b.recs)
  BY <1>1, FileLength
<1>3. /\ Len(b.recs) <= n /\ Water(b.cur) <= Len(b.recs)
      /\ b.cur = None => b.recs = <<>>
  BY DEF Bundles
<1>4. Water(b.cur) \in Nat /\ (b.cur # None => Water(b.cur) >= 1)
  BY <1>1, Constants DEF Marks, Water
<1>5. b.recs = <<>> => Len(b.recs) = 0  OBVIOUS
<1>6. QED  BY <1>1, <1>2, <1>3, <1>4, <1>5

LEMMA BundleMade ==
  ASSUME NEW n \in Nat, NEW r \in LineSeqs, NEW c \in Marks(n), NEW h \in BOOLEAN,
         Len(r) <= n, Water(c) <= Len(r), c = None => r = <<>>
  PROVE  [recs |-> r, cur |-> c, held |-> h] \in Bundles(n)
BY DEF Bundles

\* A frame, taken apart.
LEMMA FrameFields ==
  ASSUME NEW n \in Nat, n <= MaxLines, NEW f \in GoodFrames(n)
  PROVE  /\ f.full \in BOOLEAN /\ f.final \in BOOLEAN /\ f.lines \in LineSeqs
         /\ f.base \in Nat /\ f.upto \in Marks(n) /\ Len(f.lines) \in Nat
         /\ f.upto = None => f.full /\ f.base = 0 /\ f.lines = <<>> /\ f.final
         /\ f.upto # None => f.upto \in 1..n /\ f.base <= f.upto /\ Len(f.lines) = f.upto - f.base
         /\ f.full => f.base = 0
<1>1. f \in Frames  BY DEF GoodFrames
<1>2. f.full \in BOOLEAN /\ f.final \in BOOLEAN /\ f.lines \in LineSeqs /\ f.base \in Nat
  BY <1>1, Constants DEF Frames
<1>3. Len(f.lines) \in Nat  BY <1>2, FileLength
<1>4. /\ f.upto \in Marks(n)
      /\ f.upto = None => f.full /\ f.base = 0 /\ f.lines = <<>> /\ f.final
      /\ f.upto # None => f.base <= f.upto /\ Len(f.lines) = f.upto - f.base
      /\ f.full => f.base = 0
  BY DEF GoodFrames
<1>5. f.upto # None => f.upto \in 1..n  BY <1>4 DEF Marks
<1>6. QED  BY <1>2, <1>3, <1>4, <1>5

\* The shrink guard counts the cached lines.
LEMMA CachedCount ==
  ASSUME NEW n \in Nat, NEW b \in Bundles(n)
  PROVE  Cardinality(DOMAIN b.recs) = Len(b.recs)
<1>1. DOMAIN b.recs = 1..Len(b.recs) /\ Len(b.recs) \in Nat  BY BundleFields
<1>2. QED  BY <1>1, FS_Interval

\* Updates inside a bundle, and inside the bundle of the server's state.
LEMMA Remarked ==
  ASSUME NEW A, NEW B, NEW C, NEW b \in [recs : A, cur : B, held : C], NEW c
  PROVE  [b EXCEPT !.cur = c] = [recs |-> b.recs, cur |-> c, held |-> b.held]
OBVIOUS

LEMMA TakenBundle ==
  ASSUME NEW n \in Nat, NEW s \in ServerStates(n), NEW f
  PROVE  [s EXCEPT !.reqFull = FALSE, !.bundle.recs = Fold(@, f), !.bundle.cur = f.upto]
         = [s EXCEPT !.reqFull = FALSE,
                     !.bundle = [recs |-> Fold(s.bundle.recs, f), cur |-> f.upto,
                                 held |-> s.bundle.held]]
<1> DEFINE r == Fold(s.bundle.recs, f)
           c == f.upto
           b == s.bundle
<1>1. b \in [recs : LineSeqs, cur : Marks(n), held : BOOLEAN]
  BY DEF ServerStates, Bundles
<1> DEFINE X == [b EXCEPT !.recs = r]
<1>2. X \in [recs : LineSeqs \cup {r}, cur : Marks(n), held : BOOLEAN] /\ X.recs = r /\ X.held = b.held
  <2> HIDE DEF r, b
  <2>1. QED  BY <1>1
<1>3. DOMAIN s = {"bundle", "reqFull", "inflight", "delivery", "pulls", "replaying", "cold", "rest", "ended"}
  BY DEF ServerStates
<1> DEFINE C == [X EXCEPT !.cur = c]
<1>4. C = [recs |-> r, cur |-> c, held |-> b.held]
  <2> HIDE DEF X, r, b, c
  <2>1. QED  BY <1>2, Remarked
<1>5. [s EXCEPT !.reqFull = FALSE, !.bundle.recs = r, !.bundle.cur = c]
      = [s EXCEPT !.reqFull = FALSE, !.bundle = C]
  <2> HIDE DEF r, c
  <2>1. QED  BY <1>3
<1> HIDE DEF C
<1>6. QED  BY <1>4, <1>5

\* An append is refused or extends the cache: the gap guard or, when a full read
\* is due, the exact water mark.
LEMMA ApplyAppendGood ==
  ASSUME NEW n \in Nat, n <= MaxLines, NEW s \in ServerStates(n),
         NEW f \in GoodFrames(n), ~f.full
  PROVE  /\ ApplyAppend(s, f).s \in ServerStates(n)
         /\ ApplyAppend(s, f).ok \in BOOLEAN
         /\ ApplyAppend(s, f).rejected \in BOOLEAN
<1> DEFINE b == s.bundle
           atMark == f.base = Water(s.bundle.cur)
           refused == ~s.bundle.held \/ (~s.reqFull /\ Gap(s.bundle, f))
           early == s.reqFull /\ ~atMark
           taken == [s EXCEPT !.reqFull = FALSE, !.bundle.recs = Fold(@, f), !.bundle.cur = f.upto]
<1>1. CASE refused
  <2>1. ApplyAppend(s, f) = [s |-> [s EXCEPT !.reqFull = TRUE], ok |-> FALSE, rejected |-> FALSE]
    BY <1>1 DEF ApplyAppend, Outcome
  <2>2. [s EXCEPT !.reqFull = TRUE] \in ServerStates(n)
    BY DEF ServerStates
  <2>3. QED  BY <2>1, <2>2
<1>2. CASE ~refused /\ early
  <2>1. ApplyAppend(s, f) = [s |-> s, ok |-> FALSE, rejected |-> FALSE]
    BY <1>2 DEF ApplyAppend, Outcome
  <2>2. QED  BY <2>1
<1>3. CASE ~refused /\ ~early
  <2>1. ApplyAppend(s, f) = [s |-> taken, ok |-> TRUE, rejected |-> FALSE]
    BY <1>3 DEF ApplyAppend, Outcome
  <2>2. b \in Bundles(n)  BY DEF ServerStates
  <2>3. /\ b.recs \in LineSeqs /\ Len(b.recs) \in Nat /\ Len(b.recs) <= n
        /\ DOMAIN b.recs = 1..Len(b.recs)
        /\ Water(b.cur) \in Nat /\ Water(b.cur) <= Len(b.recs)
        /\ b.cur = None => b.recs = <<>>
        /\ b.held \in BOOLEAN
    BY <2>2, BundleFields
  <2>4. /\ f.upto # None /\ f.upto \in 1..n /\ f.base \in Nat /\ f.base <= f.upto
    BY FrameFields
  <2>5. f.base <= Len(b.recs)
    <3>1. CASE atMark  BY <3>1, <2>3
    <3>2. CASE ~Gap(s.bundle, f)
      <4>1. b.cur # None \/ DOMAIN b.recs = {}
        <5>1. CASE b.cur = None
          <6>1. b.recs = <<>>  BY <5>1, <2>3
          <6>2. DOMAIN b.recs = {}  BY <6>1
          <6>3. QED  BY <6>2
        <5>2. QED  BY <5>1
      <4>2. ~(f.upto > Water(b.cur) /\ f.base > Water(b.cur))
        BY <3>2, <4>1 DEF Gap
      <4> HIDE DEF b
      <4>3. QED  BY <4>2, <2>3, <2>4
    <3>3. QED  BY <1>3, <3>1, <3>2
  <2>6. /\ Fold(b.recs, f) \in LineSeqs
        /\ Len(Fold(b.recs, f)) <= n
        /\ f.upto <= Len(Fold(b.recs, f))
    BY <2>3, <2>4, <2>5, FoldGood
  <2>7. f.upto \in Marks(n) /\ Water(f.upto) = f.upto
    BY <2>4 DEF Marks, Water
  <2>8. [recs |-> Fold(b.recs, f), cur |-> f.upto, held |-> b.held] \in Bundles(n)
    BY <2>3, <2>4, <2>6, <2>7, BundleMade
  <2>9. taken = [s EXCEPT !.reqFull = FALSE,
                          !.bundle = [recs |-> Fold(b.recs, f), cur |-> f.upto, held |-> b.held]]
    BY TakenBundle
  <2>10. taken \in ServerStates(n)
    <3> DEFINE B == [recs |-> Fold(b.recs, f), cur |-> f.upto, held |-> b.held]
    <3>1. B \in Bundles(n)  BY <2>8
    <3>2. taken = [s EXCEPT !.reqFull = FALSE, !.bundle = B]  BY <2>9
    <3> HIDE DEF B, taken
    <3>3. QED  BY <3>1, <3>2 DEF ServerStates
  <2> HIDE DEF taken
  <2>11. QED  BY <2>1, <2>10
<1>4. QED  BY <1>1, <1>2, <1>3

\* A full frame replaces the cache, or the shrink guard keeps the records and
\* only moves the mark, below their end.
LEMMA ApplyFullGood ==
  ASSUME NEW n \in Nat, n <= MaxLines, NEW s \in ServerStates(n),
         NEW f \in GoodFrames(n), f.full
  PROVE  /\ ApplyFull(s, f).s \in ServerStates(n)
         /\ ApplyFull(s, f).ok \in BOOLEAN
         /\ ApplyFull(s, f).rejected \in BOOLEAN
<1> DEFINE b == s.bundle
           mark == IF f.upto = None THEN s.bundle.cur ELSE f.upto
           blank == f.lines = <<>> /\ DOMAIN s.bundle.recs = {} /\ WorktreeActive
           dropped == [s EXCEPT !.bundle = NoBundle, !.reqFull = TRUE]
           kept == [s EXCEPT !.bundle.cur = mark, !.reqFull = FALSE]
           B == [recs |-> f.lines, cur |-> mark, held |-> TRUE]
           taken == [s EXCEPT !.reqFull = FALSE, !.cold = FALSE, !.bundle = B]
<1>1. b \in Bundles(n)  BY DEF ServerStates
<1>2. /\ b.recs \in LineSeqs /\ Len(b.recs) \in Nat /\ Len(b.recs) <= n
      /\ b.cur \in Marks(n) /\ b.held \in BOOLEAN
      /\ Water(b.cur) \in Nat /\ Water(b.cur) <= Len(b.recs)
      /\ b.cur = None => b.recs = <<>>
      /\ b.recs = <<>> => b.cur = None
  BY <1>1, BundleFields
<1>3. /\ f.lines \in LineSeqs /\ Len(f.lines) \in Nat /\ f.upto \in Marks(n)
      /\ f.upto = None => f.lines = <<>>
      /\ f.upto # None => f.upto \in 1..n /\ Len(f.lines) = f.upto
  BY FrameFields
<1>4. f.upto # None => Water(f.upto) = f.upto  BY <1>3 DEF Water
<1>5. CASE blank
  <2>1. ApplyFull(s, f) = [s |-> dropped, ok |-> FALSE, rejected |-> TRUE]
    BY <1>5 DEF ApplyFull, Outcome
  <2>2. NoBundle \in Bundles(n)
    <3>1. None \in Marks(n) /\ Water(None) = 0 /\ Len(<<>>) = 0
      BY Constants DEF Marks, Water
    <3>2. NoBundle \in [recs : LineSeqs, cur : Marks(n), held : BOOLEAN]
      BY <3>1, EmptyLines DEF NoBundle
    <3>3. NoBundle.recs = <<>> /\ NoBundle.cur = None  BY DEF NoBundle
    <3>4. QED  BY ONLY <3>1, <3>2, <3>3, n \in Nat DEF Bundles
  <2>3. dropped \in ServerStates(n)
    <3> HIDE DEF NoBundle
    <3>1. QED  BY <2>2 DEF ServerStates
  <2> HIDE DEF dropped
  <2>4. QED  BY <2>1, <2>3
<1>6. CASE ~blank /\ Shrinks(s, f)
  <2>1. ApplyFull(s, f) = [s |-> kept, ok |-> TRUE, rejected |-> TRUE]
    BY <1>6 DEF ApplyFull, Outcome
  <2>2. Len(f.lines) < Len(b.recs)
    BY <1>6, <1>1, CachedCount DEF Shrinks
  <2>3. /\ mark \in Marks(n) /\ Water(mark) <= Len(b.recs)
        /\ mark = None => b.recs = <<>>
    <3> HIDE DEF b
    <3>1. CASE f.upto = None  BY <3>1, <1>2 DEF b
    <3>2. CASE f.upto # None  BY <3>2, <1>2, <1>3, <1>4, <2>2
    <3>3. QED  BY <3>1, <3>2
  <2> DEFINE C == [recs |-> b.recs, cur |-> mark, held |-> b.held]
  <2>4. C \in Bundles(n)
    <3> HIDE DEF mark, b
    <3>1. QED  BY <2>3, <1>2, BundleMade
  <2>5. kept = [s EXCEPT !.bundle = C, !.reqFull = FALSE]
    <3>1. C = [b EXCEPT !.cur = mark]
      <4> HIDE DEF mark
      <4>1. QED  BY <1>1, Remarked DEF Bundles
    <3>2. DOMAIN s = {"bundle", "reqFull", "inflight", "delivery", "pulls", "replaying", "cold", "rest", "ended"}
      BY DEF ServerStates
    <3> HIDE DEF mark, C
    <3>3. QED  BY <3>1, <3>2
  <2>6. kept \in ServerStates(n)
    <3> HIDE DEF C, kept
    <3>1. QED  BY <2>4, <2>5 DEF ServerStates
  <2> HIDE DEF kept
  <2>7. QED  BY <2>1, <2>6
<1>7. CASE ~blank /\ ~Shrinks(s, f)
  <2>1. ApplyFull(s, f) = [s |-> taken, ok |-> TRUE, rejected |-> FALSE]
    BY <1>7 DEF ApplyFull, Outcome
  <2>2. /\ mark \in Marks(n) /\ Water(mark) <= Len(f.lines) /\ Len(f.lines) <= n
        /\ mark = None => f.lines = <<>>
    <3>1. CASE f.upto = None
      <4>1. f.lines = <<>> /\ Len(f.lines) = 0  BY <3>1, <1>3
      <4>2. Len(b.recs) = 0
        BY <4>1, <1>7, <1>1, <1>2, CachedCount DEF Shrinks
      <4>3. Water(b.cur) = 0  BY <4>2, <1>2
      <4>4. mark = b.cur  BY <3>1
      <4> HIDE DEF mark, b
      <4>5. QED  BY <4>1, <4>3, <4>4, <1>2
    <3>2. CASE f.upto # None  BY <3>2, <1>2, <1>3, <1>4
    <3>3. QED  BY <3>1, <3>2
  <2>3. B \in Bundles(n)
    <3> HIDE DEF mark
    <3>1. QED  BY <2>2, <1>3, BundleMade
  <2>4. taken \in ServerStates(n)
    <3> HIDE DEF B
    <3>1. QED  BY <2>3 DEF ServerStates
  <2> HIDE DEF taken
  <2>5. QED  BY <2>1, <2>4
<1>8. QED  BY <1>5, <1>6, <1>7

\* apply_history_frame keeps the cache a prefix that reaches its mark.
LEMMA ApplyGood ==
  ASSUME NEW n \in Nat, n <= MaxLines, NEW s \in ServerStates(n), NEW f \in GoodFrames(n)
  PROVE  /\ Apply(s, f).s \in ServerStates(n)
         /\ Apply(s, f).ok \in BOOLEAN
         /\ Apply(s, f).rejected \in BOOLEAN
<1>1. CASE ~s.bundle.held /\ s.cold
  <2>1. Apply(s, f) = [s |-> s, ok |-> FALSE, rejected |-> FALSE]
    BY <1>1 DEF Apply, Outcome
  <2>2. QED  BY <2>1
<1>2. CASE ~(~s.bundle.held /\ s.cold) /\ f.full
  BY <1>2, ApplyFullGood DEF Apply
<1>3. CASE ~(~s.bundle.held /\ s.cold) /\ ~f.full
  BY <1>3, ApplyAppendGood DEF Apply
<1>4. QED  BY <1>1, <1>2, <1>3

-----------------------------------------------------------------------------
(* The server's accounting keeps to its kinds of state.                    *)

Deliveries == {"none", "open", "stalled"}

LEMMA NoteGood ==
  ASSUME NEW d \in Deliveries, NEW said, NEW p \in BOOLEAN, NEW t \in BOOLEAN
  PROVE  Note(d, said, p, t) \in Deliveries
BY DEF Note, Deliveries

\* A nonempty set of positions has a first one.
LEMMA FirstPosition ==
  ASSUME NEW k \in Nat, NEW S \in SUBSET (1..k), S # {}
  PROVE  (CHOOSE i \in S : \A j \in S : i <= j) \in S
<1> DEFINE R == OpToRel(<, Nat)
<1>1. IsWellFoundedOn(R, Nat)  BY NatLessThanWellFounded
<1>2. \A i, j \in Nat : i < j => <<i, j>> \in R  BY DEF OpToRel
<1>3. S \subseteq Nat  OBVIOUS
<1> HIDE DEF R
<1>4. \E i \in S : \A j \in S : ~ (<<j, i>> \in R)  BY <1>1, <1>3, WFMin
<1>5. PICK i \in S : \A j \in S : ~ (<<j, i>> \in R)  BY <1>4
<1>6. ASSUME NEW j \in S PROVE i <= j
  <2>1. ~ (j < i) /\ i \in Nat /\ j \in Nat  BY <1>2, <1>3, <1>5
  <2>2. QED  BY ONLY <2>1
<1>7. \E h \in S : \A j \in S : h <= j  BY <1>6
<1>8. QED  BY <1>7, Zenon

\* A reply promoted to the head of the queue leaves a queue of cursors.
LEMMA Joined ==
  ASSUME NEW S, NEW a \in Seq(S), NEW b \in Seq(S), Len(a) >= 1
  PROVE  a \o b \in Seq(S) /\ Len(a \o b) >= 1
<1>1. a \o b \in Seq(S) /\ Len(a \o b) = Len(a) + Len(b)  OBVIOUS
<1>2. Len(a) \in Nat /\ Len(b) \in Nat  OBVIOUS
<1>3. QED  BY <1>1, <1>2

LEMMA PromoteGood ==
  ASSUME NEW S, NEW q \in Seq(S), NEW i \in 1..Len(q)
  PROVE  Promote(q, i) \in Seq(S) /\ Promote(q, i) # <<>>
<1> DEFINE a == <<q[i]>>
           b == SubSeq(q, 1, i - 1)
           c == SubSeq(q, i + 1, Len(q))
           d == a \o b
<1>1. Promote(q, i) = d \o c  BY DEF Promote
<1>2. q[i] \in S  OBVIOUS
<1>3. a \in Seq(S) /\ Len(a) >= 1  BY <1>2
<1>4. b \in Seq(S) /\ c \in Seq(S)  OBVIOUS
<1> HIDE DEF a, b, c
<1>5. d \in Seq(S) /\ Len(d) >= 1  BY ONLY <1>3, <1>4, Joined, Zenon
<1> HIDE DEF d
<1>6. d \o c \in Seq(S) /\ Len(d \o c) >= 1  BY <1>4, <1>5, Joined
<1> DEFINE e == Promote(q, i)
<1>7. e \in Seq(S) /\ Len(e) >= 1  BY <1>1, <1>6
<1> HIDE DEF e
<1>8. e # <<>>  BY <1>7
<1>9. QED  BY <1>7, <1>8 DEF e

LEMMA VerdictGood ==
  ASSUME NEW n \in Nat, n <= MaxLines, NEW s \in ServerStates(n),
         NEW f \in GoodFrames(n), NEW taken \in BOOLEAN
  PROVE  Verdict(s, f, taken) \in ServerStates(n)
<1> DEFINE said == IF f.final THEN "done" ELSE "more"
           heads == Heads(s, f)
           first == CHOOSE i \in heads : \A j \in heads : i <= j
           pulls == IF s.replaying THEN s.pulls ELSE Promote(s.pulls, first)
           after == IF f.final THEN Tail(pulls) ELSE pulls
<1>1. s.delivery \in Deliveries /\ s.pulls \in Seq(Marks(n)) /\ s.replaying \in BOOLEAN
  BY DEF ServerStates, Deliveries
<1>2. f.final \in BOOLEAN  BY FrameFields
<1>3. CASE s.pulls = <<>>
  <2> DEFINE d == Note(s.delivery, said, FALSE, taken)
  <2>1. Verdict(s, f, taken) = [s EXCEPT !.delivery = d]
    BY <1>3 DEF Verdict
  <2>2. d \in Deliveries  BY <1>1, NoteGood
  <2> HIDE DEF d
  <2>3. QED  BY <2>1, <2>2 DEF ServerStates, Deliveries
<1>4. CASE s.pulls # <<>> /\ Unstated(s, f)
  <2> DEFINE d == Note(s.delivery, IF f.final THEN "unstated" ELSE "more", FALSE, taken)
  <2>1. Verdict(s, f, taken) = [s EXCEPT !.delivery = d]
    BY <1>4 DEF Verdict
  <2>2. d \in Deliveries  BY <1>1, NoteGood
  <2> HIDE DEF d
  <2>3. QED  BY <2>1, <2>2 DEF ServerStates, Deliveries
<1>5. CASE s.pulls # <<>> /\ ~Unstated(s, f)
  <2> DEFINE d == Note(s.delivery, said, TRUE, taken)
  <2>1. Verdict(s, f, taken) = [s EXCEPT !.delivery = d, !.replaying = ~f.final, !.pulls = after]
    BY <1>5 DEF Verdict
  <2>2. d \in Deliveries  BY <1>1, NoteGood
  <2>3. pulls \in Seq(Marks(n)) /\ pulls # <<>>
    <3>1. CASE s.replaying  BY <3>1, <1>1, <1>5
    <3>2. CASE ~s.replaying
      <4>1. heads # {}  BY <3>2, <1>5 DEF Unstated
      <4>2. heads \in SUBSET (1..Len(s.pulls)) /\ Len(s.pulls) \in Nat
        BY <1>1 DEF Heads
      <4> HIDE DEF heads
      <4>3. first \in 1..Len(s.pulls)  BY <4>1, <4>2, FirstPosition
      <4> HIDE DEF first
      <4>4. Promote(s.pulls, first) \in Seq(Marks(n)) /\ Promote(s.pulls, first) # <<>>
        BY <4>3, <1>1, PromoteGood
      <4>5. QED  BY <3>2, <4>4
    <3>3. QED  BY <3>1, <3>2
  <2>4. after \in Seq(Marks(n))
    <3> HIDE DEF pulls
    <3>1. QED  BY <2>3
  <2> HIDE DEF d, after
  <2>5. QED  BY <2>1, <2>2, <2>4, <1>2 DEF ServerStates, Deliveries
<1>6. QED  BY <1>3, <1>4, <1>5

LEMMA PlanGood ==
  ASSUME NEW n \in Nat, NEW s \in ServerStates(n) PROVE PlanCursor(s) \in Marks(n)
<1>1. s.bundle.cur \in Marks(n)
  <2>1. s.bundle \in Bundles(n)  BY DEF ServerStates
  <2>2. QED  BY <2>1, BundleFields
<1>2. None \in Marks(n)  BY DEF Marks
<1>3. QED  BY <1>1, <1>2 DEF PlanCursor

LEMMA AskGood ==
  ASSUME NEW n \in Nat, NEW s \in ServerStates(n), NEW c \in Marks(n)
  PROVE  Ask(s, c) \in ServerStates(n)
<1> DEFINE q == Append(s.pulls, c)
<1>1. q \in Seq(Marks(n))  BY DEF ServerStates
<1>2. Ask(s, c) = [s EXCEPT !.pulls = q]  BY DEF Ask
<1> HIDE DEF q
<1>3. QED  BY <1>1, <1>2 DEF ServerStates

LEMMA RecoverGood ==
  ASSUME NEW n \in Nat, NEW s \in ServerStates(n) PROVE Recover(s) \in ServerStates(n)
<1> DEFINE t == [s EXCEPT !.inflight = TRUE, !.reqFull = ~Reusable(s)]
<1>1. t \in ServerStates(n)
  <2>1. (~Reusable(s)) \in BOOLEAN  BY DEF Reusable
  <2> HIDE DEF Reusable
  <2>2. QED  BY <2>1 DEF ServerStates
<1>2. Recover(s) = Ask(t, PlanCursor(s))  BY DEF Recover
<1> HIDE DEF t
<1>3. QED  BY <1>1, <1>2, PlanGood, AskGood

-----------------------------------------------------------------------------
(* The inductive invariant.                                                *)

\* Lines, and the versions that so many rewrites account for.
FileInv ==
  /\ file \in LineSeqs /\ seen \in LineSeqs
  /\ spent \in [rewrites : Nat, faults : Nat]
  /\ spent.rewrites + spent.faults <= MaxTroubles
  /\ \A i \in 1..Len(file) : file[i] <= spent.rewrites + 1

\* Everything in flight is about the file as it is.  The terminator needs the
\* last two parts: a delivery stays open only for a flow that has lines, and a
\* flow that a tick did not list has a cursor or nothing to close.
SyncInv ==
  /\ FileInv
  /\ flow \in [status : {"active", "failed", "archived"}, worktree : BOOLEAN]
  /\ open \in BOOLEAN /\ conn \in BOOLEAN
  /\ cur \in Marks(Len(file)) \cup {Absent}
  /\ push \in PushStates(Len(file))
  /\ drain \in DrainStates(Len(file))
  /\ up \in Seq(GoodFrames(Len(file))) /\ down \in Seq(Marks(Len(file)))
  /\ srv \in ServerStates(Len(file))
  /\ open => file # <<>>
  /\ push.pc = "read" => (open /\ ~push.listed => cur # None)

\* Facts that follow from the invariant at once.
LEMMA FileFacts ==
  ASSUME SyncInv
  PROVE  /\ file \in LineSeqs /\ seen \in LineSeqs
         /\ Len(file) \in Nat /\ Len(file) <= MaxLines
BY FileLength DEF SyncInv, FileInv

\* The states of the daemon's tasks, taken apart and put together.
LEMMA IdlePush ==
  ASSUME NEW n \in Nat PROVE Idle \in PushStates(n) /\ Idle \in DrainStates(n) /\ Idle.pc = "idle"
BY DEF PushStates, DrainStates, Idle

LEMMA PushCases ==
  ASSUME NEW n, NEW p \in PushStates(n)
  PROVE  /\ p.pc \in {"idle", "read", "planned"}
         /\ p.pc = "idle" => p = Idle
         /\ p.pc = "read" => p.read \in GoodFrames(n) /\ p.listed \in BOOLEAN
         /\ p.pc = "planned" =>
              /\ p \in [pc : {"planned"}, frame : {q \in Seq(GoodFrames(n)) : Len(q) <= 1},
                        prev : Marks(n) \cup {Absent}, commit : Marks(n) \cup {Absent},
                        held : BOOLEAN]
              /\ p.frame \in Seq(GoodFrames(n)) /\ Len(p.frame) <= 1
              /\ p.prev \in Marks(n) \cup {Absent} /\ p.commit \in Marks(n) \cup {Absent}
              /\ p.held \in BOOLEAN
<1> DEFINE G == GoodFrames(n)
           Q == {q \in Seq(G) : Len(q) <= 1}
           M == Marks(n) \cup {Absent}
<1>1. \A q \in Q : q \in Seq(G) /\ Len(q) <= 1  OBVIOUS
<1>2. p \in {Idle} \cup [pc : {"read"}, read : G, listed : BOOLEAN]
             \cup [pc : {"planned"}, frame : Q, prev : M, commit : M, held : BOOLEAN]
  BY DEF PushStates
<1> HIDE DEF G, Q, M
<1>3. CASE p = Idle  BY <1>3 DEF Idle
<1>4. CASE p \in [pc : {"read"}, read : G, listed : BOOLEAN]  BY <1>4 DEF G
<1>5. CASE p \in [pc : {"planned"}, frame : Q, prev : M, commit : M, held : BOOLEAN]
  <2>1. p.pc = "planned" /\ p.frame \in Q /\ p.prev \in M /\ p.commit \in M /\ p.held \in BOOLEAN
    BY <1>5
  <2>2. QED  BY <1>5, <2>1, <1>1 DEF G, M, Q
<1>6. QED  BY <1>2, <1>3, <1>4, <1>5

LEMMA DrainCases ==
  ASSUME NEW n, NEW p \in DrainStates(n)
  PROVE  /\ p.pc \in {"idle", "read", "send"}
         /\ p.pc = "read" => p.from \in Marks(n)
         /\ p.pc = "send" => p.from \in Marks(n) /\ p.read \in GoodFrames(n)
BY DEF DrainStates, Idle

LEMMA Plan ==
  ASSUME NEW n \in Nat, NEW q \in Seq(GoodFrames(n)), Len(q) <= 1,
         NEW a \in Marks(n) \cup {Absent}, NEW c \in Marks(n) \cup {Absent}, NEW h \in BOOLEAN
  PROVE  [pc |-> "planned", frame |-> q, prev |-> a, commit |-> c, held |-> h] \in PushStates(n)
<1> DEFINE Q == {r \in Seq(GoodFrames(n)) : Len(r) <= 1}
           M == Marks(n) \cup {Absent}
           p == [pc |-> "planned", frame |-> q, prev |-> a, commit |-> c, held |-> h]
<1>1. q \in Q /\ a \in M /\ c \in M  OBVIOUS
<1> HIDE DEF Q, M
<1>2. p \in [pc : {"planned"}, frame : Q, prev : M, commit : M, held : BOOLEAN]
  BY <1>1
<1> HIDE DEF p
<1>3. p \in PushStates(n)  BY <1>2 DEF PushStates, Q, M
<1>4. QED  BY <1>3 DEF p

\* What a read leaves as consumed.
LEMMA ConsumedGood ==
  ASSUME SyncInv, NEW c \in Marks(Len(file)) \cup {Absent}
  PROVE  Consumed(ReadFlow(c)) \in LineSeqs
<1>1. /\ file \in LineSeqs /\ seen \in LineSeqs
      /\ Len(file) \in Nat /\ Len(file) <= MaxLines
  BY FileFacts
<1> DEFINE u == ReadFlow(c).upto
<1>2. file # <<>> => u \in 1..Len(file)
  BY <1>1, ReadGood
<1>3. Consumed(ReadFlow(c)) = IF file = <<>> THEN seen ELSE SubSeq(file, 1, u)
  BY DEF Consumed
<1> HIDE DEF u
<1>4. file # <<>> => SubSeq(file, 0 + 1, u) \in LineSeqs
  BY <1>1, <1>2, SubLines
<1>5. file # <<>> => SubSeq(file, 1, u) \in LineSeqs
  BY <1>4
<1>6. QED  BY <1>1, <1>3, <1>5

-----------------------------------------------------------------------------
(* The invariant holds at first, and the engine's steps keep it.           *)

LEMMA InitSync == Init => SyncInv
<1> SUFFICES ASSUME Init PROVE SyncInv
  OBVIOUS
<1>1. Len(file) = 0 /\ file = <<>>  BY DEF Init
<1>2. FileInv  BY <1>1, EmptyLines, Constants DEF Init, FileInv
<1>3. <<>> \in Seq(GoodFrames(0)) /\ <<>> \in Seq(Marks(0))  OBVIOUS
<1>4. ServerInit \in ServerStates(0)
  <2>1. NoBundle \in Bundles(0)
    <3>1. None \in Marks(0) /\ Water(None) = 0 /\ Len(<<>>) = 0
      BY Constants DEF Marks, Water
    <3>2. NoBundle \in [recs : LineSeqs, cur : Marks(0), held : BOOLEAN]
      BY <3>1, EmptyLines DEF NoBundle
    <3>3. NoBundle.recs = <<>> /\ NoBundle.cur = None  BY DEF NoBundle
    <3>4. QED  BY ONLY <3>1, <3>2, <3>3 DEF Bundles
  <2> HIDE DEF NoBundle
  <2>2. QED  BY <2>1, <1>3 DEF ServerInit, ServerStates
<1>5. QED
  BY <1>1, <1>2, <1>3, <1>4, IdlePush DEF Init, SyncInv

LEMMA WriteStep == SyncInv /\ Write => SyncInv'
<1> SUFFICES ASSUME SyncInv, Write PROVE SyncInv'
  OBVIOUS
<1> DEFINE n == Len(file)
<1>1. /\ file \in LineSeqs /\ seen \in LineSeqs /\ n \in Nat /\ n <= MaxLines
  BY FileFacts
<1>2. /\ file \in Seq(Versions) /\ n < MaxLines /\ file' = Append(file, 1)
      /\ UNCHANGED <<flow, seen, cur, open, push, drain, conn, up, down, srv, spent>>
  BY <1>1, FileLength DEF Write, daemonVars
<1>3. 1 \in Versions  BY Constants DEF Versions
<1>4. /\ file' \in Seq(Versions) /\ Len(file') = n + 1
      /\ \A i \in 1..Len(file') : file'[i] = IF i <= n THEN file[i] ELSE 1
  BY <1>2, <1>3, <1>1
<1>5. file' \in LineSeqs /\ n <= Len(file') /\ Len(file') \in Nat /\ file' # <<>>
  BY <1>1, <1>2, <1>4, LineSeqsAreSeqs, Constants
<1>6. FileInv'
  <2>1. \A i \in 1..Len(file') : file'[i] <= spent.rewrites + 1
    BY <1>1, <1>4 DEF SyncInv, FileInv
  <2>2. QED  BY <2>1, <1>1, <1>2, <1>5 DEF SyncInv, FileInv
<1> DEFINE m == Len(file')
<1> HIDE DEF m, n
<1>7. /\ Marks(n) \subseteq Marks(m) /\ PushStates(n) \subseteq PushStates(m)
      /\ DrainStates(n) \subseteq DrainStates(m) /\ ServerStates(n) \subseteq ServerStates(m)
      /\ GoodFrames(n) \subseteq GoodFrames(m)
  BY <1>1, <1>5, MarksGrow, PushGrows, DrainGrows, ServerGrows, FramesGrow DEF m, n
<1>8. Seq(Marks(n)) \subseteq Seq(Marks(m)) /\ Seq(GoodFrames(n)) \subseteq Seq(GoodFrames(m))
  BY <1>7, SeqsGrow
<1>9. /\ cur \in Marks(m) \cup {Absent} /\ push \in PushStates(m) /\ drain \in DrainStates(m)
      /\ up \in Seq(GoodFrames(m)) /\ down \in Seq(Marks(m)) /\ srv \in ServerStates(m)
  BY <1>7, <1>8 DEF SyncInv, n
<1>10. QED  BY <1>2, <1>5, <1>6, <1>9 DEF SyncInv, m

LEMMA SpendStep ==
  ASSUME SyncInv, NEW what \in {"rewrites", "faults"}, Spend(what)
  PROVE  /\ spent' \in [rewrites : Nat, faults : Nat]
         /\ spent'.rewrites + spent'.faults <= MaxTroubles
         /\ what = "rewrites" => spent'.rewrites = spent.rewrites + 1
         /\ spent'.rewrites >= spent.rewrites
<1>1. /\ spent \in [rewrites : Nat, faults : Nat]
      /\ spent.rewrites + spent.faults < MaxTroubles
      /\ spent' = [spent EXCEPT ![what] = @ + 1]
  BY DEF Spend, SyncInv, FileInv
<1>2. CASE what = "rewrites"
  <2>1. spent'.rewrites = spent.rewrites + 1 /\ spent'.faults = spent.faults
    BY <1>1, <1>2
  <2>2. QED  BY <1>1, <1>2, <2>1, Constants
<1>3. CASE what = "faults"
  <2>1. spent'.rewrites = spent.rewrites /\ spent'.faults = spent.faults + 1
    BY <1>1, <1>3
  <2>2. QED  BY <1>1, <1>3, <2>1, Constants
<1>4. QED  BY <1>2, <1>3

LEMMA RewriteStep == ASSUME SyncInv, NEW i \in 1..Len(file), Rewrite(i) PROVE SyncInv'
<1> DEFINE n == Len(file)
<1>1. /\ file \in LineSeqs /\ seen \in LineSeqs /\ n \in Nat /\ n <= MaxLines
  BY FileFacts
<1>2. /\ file \in Seq(Versions) /\ file' = [file EXCEPT ![i] = @ + 1]
      /\ UNCHANGED <<flow, seen, cur, open, push, drain, conn, up, down, srv>>
      /\ Spend("rewrites")
  BY <1>1, FileLength DEF Rewrite, daemonVars
<1>3. /\ spent' \in [rewrites : Nat, faults : Nat]
      /\ spent'.rewrites + spent'.faults <= MaxTroubles
      /\ spent'.rewrites = spent.rewrites + 1
  BY <1>2, SpendStep
<1>4. /\ spent.rewrites \in Nat
      /\ \A j \in 1..n : file[j] \in Nat /\ file[j] >= 1 /\ file[j] <= spent.rewrites + 1
  <2>1. FileInv  BY DEF SyncInv
  <2>2. spent.rewrites \in Nat /\ \A j \in 1..n : file[j] <= spent.rewrites + 1
    BY <2>1 DEF FileInv
  <2>3. \A j \in 1..n : file[j] \in Versions  BY <1>1, LineAt
  <2>4. QED  BY <2>2, <2>3, Constants DEF Versions
<1>5. spent.rewrites + 1 <= MaxTroubles
  BY <1>3, <1>4, Constants
<1>6. file[i] + 1 \in Versions
  BY <1>4, <1>5, Constants DEF Versions
<1>7. /\ file' \in Seq(Versions) /\ Len(file') = n
      /\ \A j \in 1..n : file'[j] = IF j = i THEN file[i] + 1 ELSE file[j]
  BY <1>2, <1>6, <1>1
<1>8. file' \in LineSeqs /\ (file = <<>> <=> file' = <<>>)
  BY <1>1, <1>2, <1>7, LineSeqsAreSeqs
<1>9. ASSUME NEW j \in 1..n PROVE file'[j] <= spent'.rewrites + 1
  <2>1. file'[j] = file[i] + 1 \/ file'[j] = file[j]  BY <1>7
  <2>2. /\ file[i] \in Nat /\ file[i] <= spent.rewrites + 1
        /\ file[j] \in Nat /\ file[j] <= spent.rewrites + 1
    BY <1>4
  <2>3. spent.rewrites \in Nat /\ spent'.rewrites = spent.rewrites + 1  BY <1>3, <1>4
  <2>4. QED  BY ONLY <2>1, <2>2, <2>3
<1>10. FileInv'
  BY <1>1, <1>2, <1>3, <1>7, <1>8, <1>9 DEF FileInv
<1> HIDE DEF n
<1>11. QED  BY <1>2, <1>7, <1>8, <1>10 DEF SyncInv, n

LEMMA SettleStep == ASSUME SyncInv, NEW to \in {"failed", "archived"}, Settle(to) PROVE SyncInv'
<1>1. /\ UNCHANGED <<file, seen, cur, open, push, drain, conn, up, down, srv, spent>>
      /\ flow' = [flow EXCEPT !.status = to]
  BY DEF Settle, daemonVars
<1>2. flow' \in [status : {"active", "failed", "archived"}, worktree : BOOLEAN]
  BY <1>1 DEF SyncInv
<1>3. QED  BY <1>1, <1>2 DEF SyncInv, FileInv

-----------------------------------------------------------------------------
(* Steps that leave the file alone.                                        *)

SpentGrows ==
  /\ spent' \in [rewrites : Nat, faults : Nat]
  /\ spent'.rewrites + spent'.faults <= MaxTroubles
  /\ spent'.rewrites >= spent.rewrites

\* A step that leaves the file and the flow alone keeps the invariant if what it
\* sets is of its kind.
LEMMA Moved ==
  ASSUME SyncInv, UNCHANGED <<file, flow>>, seen' \in LineSeqs, SpentGrows \/ UNCHANGED spent,
         open' \in BOOLEAN, conn' \in BOOLEAN,
         cur' \in Marks(Len(file)) \cup {Absent},
         push' \in PushStates(Len(file)), drain' \in DrainStates(Len(file)),
         up' \in Seq(GoodFrames(Len(file))), down' \in Seq(Marks(Len(file))),
         srv' \in ServerStates(Len(file)),
         open' => file # <<>>,
         push'.pc = "read" => (open' /\ ~push'.listed => cur' # None)
  PROVE  SyncInv'
<1>1. /\ file \in LineSeqs
      /\ spent \in [rewrites : Nat, faults : Nat]
      /\ spent.rewrites + spent.faults <= MaxTroubles
      /\ \A i \in 1..Len(file) : file[i] <= spent.rewrites + 1
      /\ flow \in [status : {"active", "failed", "archived"}, worktree : BOOLEAN]
  BY DEF SyncInv, FileInv
<1>2. /\ spent' \in [rewrites : Nat, faults : Nat]
      /\ spent'.rewrites + spent'.faults <= MaxTroubles
      /\ spent'.rewrites \in Nat /\ spent.rewrites \in Nat
      /\ spent'.rewrites >= spent.rewrites
  BY <1>1 DEF SpentGrows
<1>3. \A i \in 1..Len(file) : file[i] \in Nat
  BY <1>1, LineAt, Constants DEF Versions
<1>4. \A i \in 1..Len(file) : file[i] <= spent'.rewrites + 1
  BY <1>1, <1>2, <1>3
<1>5. FileInv'  BY <1>1, <1>2, <1>4 DEF FileInv
<1>6. QED  BY <1>1, <1>5 DEF SyncInv

\* The invariant, taken apart.
LEMMA Parts ==
  ASSUME SyncInv
  PROVE  /\ seen \in LineSeqs /\ open \in BOOLEAN /\ conn \in BOOLEAN
         /\ cur \in Marks(Len(file)) \cup {Absent}
         /\ push \in PushStates(Len(file)) /\ drain \in DrainStates(Len(file))
         /\ up \in Seq(GoodFrames(Len(file))) /\ down \in Seq(Marks(Len(file)))
         /\ srv \in ServerStates(Len(file))
         /\ open => file # <<>>
         /\ push.pc = "read" => (open /\ ~push.listed => cur # None)
         /\ file \in LineSeqs /\ Len(file) \in Nat /\ Len(file) <= MaxLines
BY FileFacts DEF SyncInv, FileInv

\* What the server's steps leave alone.
LEMMA ServerMoved ==
  ASSUME SyncInv, UNCHANGED <<file, flow, daemonVars, conn>>, SpentGrows \/ UNCHANGED spent,
         up' \in Seq(GoodFrames(Len(file))), down' \in Seq(Marks(Len(file))),
         srv' \in ServerStates(Len(file))
  PROVE  SyncInv'
BY Parts, Moved DEF daemonVars

-----------------------------------------------------------------------------
(* The push tick.                                                          *)

LEMMA PushReadStep == SyncInv /\ PushRead => SyncInv'
<1> SUFFICES ASSUME SyncInv, PushRead PROVE SyncInv'
  OBVIOUS
<1> DEFINE n == Len(file)
           read == ReadFlow(cur)
<1>1. /\ seen \in LineSeqs /\ open \in BOOLEAN /\ conn \in BOOLEAN
      /\ cur \in Marks(n) \cup {Absent} /\ drain \in DrainStates(n)
      /\ up \in Seq(GoodFrames(n)) /\ down \in Seq(Marks(n)) /\ srv \in ServerStates(n)
      /\ open => file # <<>>
      /\ file \in LineSeqs /\ n \in Nat /\ n <= MaxLines
  BY Parts
<1>2. UNCHANGED <<file, flow, cur, open, drain, conn, up, down, srv, spent>>
  BY DEF PushRead
<1>3. read \in GoodFrames(n) /\ (read.lines = <<>> /\ cur \in {None, Absent} => file = <<>>)
  BY <1>1, ReadGood
<1>4. Consumed(read) \in LineSeqs  BY <1>1, ConsumedGood
<1>5. PICK l \in BOOLEAN : /\ push' = [pc |-> "read", read |-> read, listed |-> l]
                           /\ l => TRUE
                           /\ ~l /\ open => cur # None
                           /\ seen' \in LineSeqs
  <2>1. CASE Live \/ cur # Absent
    <3> DEFINE l == (Live \/ read.lines # <<>>)
    <3>1. push' = [pc |-> "read", read |-> read, listed |-> l] /\ seen' = Consumed(read)
      BY <2>1 DEF PushRead
    <3>2. l \in BOOLEAN  BY DEF Live
    <3>3. ~l /\ open => cur # None  BY <1>1, <1>3
    <3> HIDE DEF l, read
    <3>4. QED  BY <3>1, <3>2, <3>3, <1>4
  <2>2. CASE ~(Live \/ cur # Absent)
    <3>1. push' = [pc |-> "read", read |-> read, listed |-> FALSE] /\ seen' = seen
      BY <2>2 DEF PushRead
    <3>2. cur # None  BY <2>2, Constants
    <3> HIDE DEF read
    <3>3. QED  BY <3>1, <3>2, <1>1
  <2>3. QED  BY <2>1, <2>2
<1>6. push' \in PushStates(n)
  <2> HIDE DEF n, read
  <2>1. [pc |-> "read", read |-> read, listed |-> l] \in [pc : {"read"}, read : GoodFrames(n), listed : BOOLEAN]
    BY <1>3, <1>5
  <2>2. QED  BY <2>1, <1>5 DEF PushStates
<1>7. push'.listed = l  BY <1>5
<1> HIDE DEF n, read
<1>8. QED  BY <1>1, <1>2, <1>5, <1>6, <1>7, Moved DEF n

LEMMA PushPlanStep == SyncInv /\ PushPlan => SyncInv'
<1> SUFFICES ASSUME SyncInv, PushPlan PROVE SyncInv'
  OBVIOUS
<1> DEFINE n == Len(file)
           M == Marks(n) \cup {Absent}
           read == push.read
           draining == drain # Idle
<1>1. /\ seen \in LineSeqs /\ open \in BOOLEAN /\ conn \in BOOLEAN
      /\ cur \in M /\ drain \in DrainStates(n) /\ push \in PushStates(n)
      /\ up \in Seq(GoodFrames(n)) /\ down \in Seq(Marks(n)) /\ srv \in ServerStates(n)
      /\ open => file # <<>>
      /\ push.pc = "read" => (open /\ ~push.listed => cur # None)
      /\ n \in Nat /\ n <= MaxLines
  BY Parts
<1>2. push.pc = "read" /\ UNCHANGED <<file, flow, seen, cur, drain, conn, up, down, srv, spent>>
  BY DEF PushPlan
<1>3. read \in GoodFrames(n) /\ push.listed \in BOOLEAN
  BY <1>1, <1>2, PushCases
<1>4. read.upto \in M  BY <1>1, <1>3, FrameFields
<1>5. Tracked(cur) \in M  BY <1>1 DEF Tracked
<1>6. <<>> \in Seq(GoodFrames(n)) /\ Len(<<>>) <= 1  OBVIOUS
<1>7. <<read>> \in Seq(GoodFrames(n)) /\ Len(<<read>>) <= 1  BY <1>3
<1>8. ~push.listed /\ open /\ cur # Absent =>
        <<Terminator(cur)>> \in Seq(GoodFrames(n)) /\ Len(<<Terminator(cur)>>) <= 1
  <2>1. SUFFICES ASSUME ~push.listed, open, cur # Absent
                 PROVE  <<Terminator(cur)>> \in Seq(GoodFrames(n)) /\ Len(<<Terminator(cur)>>) <= 1
    OBVIOUS
  <2>2. cur \in 1..n  BY <2>1, <1>1, <1>2 DEF Marks
  <2>3. Terminator(cur) \in GoodFrames(n)  BY <2>2, <1>1, TerminatorGood
  <2>4. QED  BY <2>3
<1>9. \A q \in Seq(GoodFrames(n)), c \in M, h \in BOOLEAN :
        Len(q) <= 1 => Planned(q, c, h) \in PushStates(n) /\ Planned(q, c, h).pc = "planned"
  BY <1>1, Plan DEF Planned
<1> HIDE DEF n, M, read
<1>10. push' \in PushStates(n) /\ push'.pc = "planned"
  <2>1. CASE push.listed /\ draining
    <3>1. push' = Planned(<<>>, cur, TRUE)  BY <2>1, <1>2 DEF PushPlan
    <3>2. QED  BY <3>1, <1>1, <1>6, <1>9
  <2>2. CASE push.listed /\ ~draining /\ (read.lines # <<>> \/ open)
    <3>1. push' = Planned(<<read>>, cur, FALSE)  BY <2>2, <1>2 DEF PushPlan, read
    <3>2. QED  BY <3>1, <1>1, <1>7, <1>9
  <2>3. CASE push.listed /\ ~draining /\ read.lines = <<>> /\ ~open
    <3>1. push' = Planned(<<>>, read.upto, FALSE)  BY <2>3, <1>2 DEF PushPlan, read
    <3>2. QED  BY <3>1, <1>4, <1>6, <1>9
  <2>4. CASE ~push.listed /\ open /\ cur # Absent
    <3>1. push' = Planned(<<Terminator(cur)>>, Tracked(cur), FALSE)
      BY <2>4, <1>2 DEF PushPlan
    <3>2. QED  BY <3>1, <2>4, <1>5, <1>8, <1>9
  <2>5. CASE ~push.listed /\ ~(open /\ cur # Absent)
    <3>1. push' = Planned(<<>>, Tracked(cur), FALSE)
      BY <2>5, <1>2 DEF PushPlan
    <3>2. QED  BY <3>1, <1>5, <1>6, <1>9
  <2>6. QED  BY <2>1, <2>2, <2>3, <2>4, <2>5
<1>11. open' = (open /\ (push.listed \/ cur # Absent))  BY DEF PushPlan
<1>12. open' \in BOOLEAN /\ (open' => file # <<>>)  BY <1>1, <1>3, <1>11
<1>13. QED  BY <1>1, <1>2, <1>10, <1>12, Moved DEF n, M

LEMMA PushSendStep == SyncInv /\ PushSend => SyncInv'
<1> SUFFICES ASSUME SyncInv, PushSend PROVE SyncInv'
  OBVIOUS
<1> DEFINE n == Len(file)
           f == push.frame[1]
           G == GoodFrames(n)
           M == Marks(n) \cup {Absent}
           Q == {q \in Seq(G) : Len(q) <= 1}
           P == [pc : {"planned"}, frame : Q, prev : M, commit : M, held : BOOLEAN]
<1>1. /\ seen \in LineSeqs /\ open \in BOOLEAN /\ conn \in BOOLEAN
      /\ cur \in M /\ drain \in DrainStates(n) /\ push \in PushStates(n)
      /\ up \in Seq(G) /\ down \in Seq(Marks(n)) /\ srv \in ServerStates(n)
      /\ open => file # <<>>
      /\ n \in Nat /\ n <= MaxLines /\ file \in LineSeqs
  BY Parts
<1>2. /\ push.pc = "planned" /\ push.frame # <<>>
      /\ UNCHANGED <<file, flow, seen, cur, drain, conn, down, srv, spent>>
  BY DEF PushSend
<1>3. push \in P /\ push.frame \in Seq(G) /\ push.prev \in M
  BY <1>1, <1>2, PushCases
<1>4. f \in G  BY <1>2, <1>3
<1>5. f.upto \in M /\ f.final \in BOOLEAN /\ (~f.final => file # <<>>)
  <2>1. /\ f.upto \in Marks(n) /\ f.final \in BOOLEAN
        /\ f.upto = None => f.final
        /\ f.upto # None => f.upto \in 1..n
    BY <1>1, <1>4, FrameFields
  <2>2. ~f.final => n # 0  BY <2>1, <1>1
  <2>3. file = <<>> => n = 0  OBVIOUS
  <2>4. QED  BY <2>1, <2>2, <2>3
<1>6. <<>> \in Q  OBVIOUS
<1>7. P \subseteq PushStates(n)  BY DEF PushStates
<1> HIDE DEF G, Q, M, n
<1>8. CASE drain # Idle
  <2>1. /\ push' = [push EXCEPT !.frame = <<>>, !.held = TRUE, !.commit = push.prev]
        /\ up' = up /\ open' = open
    BY <1>8 DEF PushSend
  <2>2. push' \in P /\ push'.pc = "planned"  BY <2>1, <1>3, <1>6
  <2>3. push' \in PushStates(n)  BY <2>2, <1>7
  <2>4. QED  BY <1>1, <1>2, <2>1, <2>2, <2>3, Moved DEF n, M, G
<1>9. CASE ~(drain # Idle)
  <2>1. /\ up' = Append(up, f) /\ open' = ~f.final
        /\ push' = [push EXCEPT !.frame = <<>>, !.commit = f.upto]
    BY <1>9 DEF PushSend
  <2> HIDE DEF f
  <2>2. push' \in P /\ push'.pc = "planned"  BY <2>1, <1>3, <1>5, <1>6
  <2>3. push' \in PushStates(n)  BY <2>2, <1>7
  <2>4. up' \in Seq(G)  BY <2>1, <1>1, <1>4
  <2>5. open' \in BOOLEAN /\ (open' => file # <<>>)  BY <2>1, <1>5
  <2>6. QED  BY <1>1, <1>2, <2>2, <2>3, <2>4, <2>5, Moved DEF n, M, G
<1>10. QED  BY <1>8, <1>9

LEMMA PushCommitStep == SyncInv /\ PushCommit => SyncInv'
<1> SUFFICES ASSUME SyncInv, PushCommit PROVE SyncInv'
  OBVIOUS
<1>1. /\ push.pc = "planned" /\ push' = Idle
      /\ UNCHANGED <<file, flow, seen, open, drain, conn, up, down, srv, spent>>
      /\ cur' = cur \/ cur' = push.commit
  BY DEF PushCommit
<1>2. push.commit \in Marks(Len(file)) \cup {Absent}
  BY <1>1, Parts, PushCases
<1>3. push' \in PushStates(Len(file)) /\ push'.pc = "idle"
  BY <1>1, Parts, IdlePush
<1>4. cur' \in Marks(Len(file)) \cup {Absent}  BY <1>1, <1>2, Parts
<1>5. QED  BY <1>1, <1>3, <1>4, Parts, Moved

-----------------------------------------------------------------------------
(* The reply to a pull.                                                    *)

LEMMA DrainStartStep == SyncInv /\ DrainStart => SyncInv'
<1> SUFFICES ASSUME SyncInv, DrainStart PROVE SyncInv'
  OBVIOUS
<1> DEFINE n == Len(file)
           A == Marks(n)
<1>1. /\ down # <<>> /\ down' = Tail(down) /\ drain' = [pc |-> "read", from |-> Head(down)]
      /\ UNCHANGED <<file, flow, seen, cur, open, push, conn, up, srv, spent>>
  BY DEF DrainStart
<1>2. down \in Seq(A)  BY Parts
<1> HIDE DEF A
<1>3. Head(down) \in A /\ down' \in Seq(A)  BY <1>1, <1>2
<1>4. drain' \in [pc : {"read"}, from : A]  BY <1>1, <1>3
<1>5. drain' \in DrainStates(n)  BY <1>4 DEF DrainStates, A
<1>6. QED  BY <1>1, <1>3, <1>5, Parts, Moved DEF A

LEMMA DrainReadStep == SyncInv /\ DrainRead => SyncInv'
<1> SUFFICES ASSUME SyncInv, DrainRead PROVE SyncInv'
  OBVIOUS
<1> DEFINE n == Len(file)
           A == Marks(n)
           G == GoodFrames(n)
           c == drain.from
           read == ReadFlow(c)
<1>1. /\ drain.pc = "read" /\ drain' = [pc |-> "send", from |-> c, read |-> read]
      /\ seen' = Consumed(read)
      /\ UNCHANGED <<file, flow, cur, open, push, conn, up, down, srv, spent>>
  BY DEF DrainRead
<1>2. c \in A  BY <1>1, Parts, DrainCases
<1> HIDE DEF c
<1>3. c \in Marks(Len(file)) \cup {Absent}  BY <1>2
<1>4. read \in G /\ Consumed(read) \in LineSeqs
  BY <1>3, Parts, ReadGood, ConsumedGood
<1> HIDE DEF A, G, read
<1>5. drain' \in [pc : {"send"}, from : A, read : G]  BY <1>1, <1>2, <1>4
<1>6. drain' \in DrainStates(n)  BY <1>5 DEF DrainStates, A, G
<1>7. QED  BY <1>1, <1>4, <1>6, Parts, Moved

LEMMA DrainSendStep == SyncInv /\ DrainSend => SyncInv'
<1> SUFFICES ASSUME SyncInv, DrainSend PROVE SyncInv'
  OBVIOUS
<1> DEFINE n == Len(file)
           A == Marks(n)
           G == GoodFrames(n)
           r == drain.read
<1>1. /\ drain.pc = "send" /\ up' = Append(up, r)
      /\ UNCHANGED <<file, flow, seen, push, conn, down, srv, spent>>
  BY DEF DrainSend
<1>2. r \in G  BY <1>1, Parts, DrainCases
<1>3. r.upto \in A  BY <1>2, Parts, FrameFields
<1> HIDE DEF r
<1>4. up' \in Seq(G)
  <2>1. up \in Seq(G)  BY Parts
  <2> HIDE DEF G
  <2>2. QED  BY <1>1, <1>2, <2>1
<1>5. CASE r.final \/ r.upto = drain.from
  <2>1. cur' = r.upto /\ open' = FALSE /\ drain' = Idle
    BY <1>5 DEF DrainSend, r
  <2>2. drain' \in DrainStates(n)  BY <2>1, Parts, IdlePush
  <2>3. cur' \in A \cup {Absent}  BY <1>3, <2>1
  <2>4. QED  BY <1>1, <1>4, <2>1, <2>2, <2>3, Parts, Moved
<1>6. CASE ~(r.final \/ r.upto = drain.from)
  <2>1. cur' = cur /\ open' = open /\ drain' = [pc |-> "read", from |-> r.upto]
    BY <1>6 DEF DrainSend, r
  <2>2. drain' \in [pc : {"read"}, from : A]
    <3> HIDE DEF A
    <3>1. QED  BY <2>1, <1>3
  <2>3. drain' \in DrainStates(n)  BY <2>2 DEF DrainStates
  <2>4. QED  BY <1>1, <1>4, <2>1, <2>3, Parts, Moved
<1>7. QED  BY <1>5, <1>6

-----------------------------------------------------------------------------
(* The server and the console.                                             *)

LEMMA ReceiveStep == SyncInv /\ Receive => SyncInv'
<1> SUFFICES ASSUME SyncInv, Receive PROVE SyncInv'
  OBVIOUS
<1> DEFINE n == Len(file)
           A == Marks(n)
           G == GoodFrames(n)
           S == ServerStates(n)
           f == Head(up)
           a == Apply(srv, f)
           taken == a.ok /\ ~a.rejected
           v == Verdict(a.s, f, taken)
           w == [v EXCEPT !.rest = @ /\ ~a.ok]
           recover == ~a.ok /\ ~f.full /\ w.reqFull /\ ~w.inflight
<1>1. /\ up # <<>> /\ up' = Tail(up)
      /\ srv' = IF recover THEN Recover(w) ELSE w
      /\ down' = IF recover THEN Append(down, PlanCursor(w)) ELSE down
      /\ UNCHANGED <<file, flow, daemonVars, conn, spent>>
  BY DEF Receive
<1>2. up \in Seq(G) /\ down \in Seq(A) /\ srv \in S /\ n \in Nat /\ n <= MaxLines
  BY Parts
<1>3. f \in G /\ up' \in Seq(G)
  <2> HIDE DEF G
  <2>1. QED  BY <1>1, <1>2
<1> HIDE DEF f
<1>4. a.s \in S /\ a.ok \in BOOLEAN /\ a.rejected \in BOOLEAN
  BY <1>2, <1>3, ApplyGood
<1> HIDE DEF a
<1>5. taken \in BOOLEAN  BY <1>4
<1> HIDE DEF taken
<1>6. v \in S  BY <1>2, <1>3, <1>4, <1>5, VerdictGood
<1> HIDE DEF v
<1>7. w \in S
  <2>1. v.rest \in BOOLEAN  BY <1>6 DEF ServerStates
  <2> DEFINE q == (v.rest /\ ~a.ok)
  <2>2. q \in BOOLEAN  BY <2>1, <1>4
  <2>3. w = [v EXCEPT !.rest = q]  OBVIOUS
  <2> HIDE DEF q, w
  <2>4. QED  BY <1>6, <2>2, <2>3 DEF ServerStates
<1> HIDE DEF w
<1>8. Recover(w) \in S /\ PlanCursor(w) \in A  BY <1>2, <1>7, RecoverGood, PlanGood
<1> HIDE DEF recover, S
<1>9. srv' \in S  BY <1>1, <1>7, <1>8
<1>10. down' \in Seq(A)
  <2> HIDE DEF A
  <2>1. QED  BY <1>1, <1>2, <1>8
<1>11. QED  BY <1>1, <1>3, <1>9, <1>10, ServerMoved DEF S

\* A pull leaves the server and is queued.
LEMMA Asked ==
  ASSUME SyncInv, NEW s \in ServerStates(Len(file)), NEW c \in Marks(Len(file)),
         UNCHANGED <<file, flow, daemonVars, conn, up, spent>>,
         srv' = Ask(s, c), down' = Append(down, c)
  PROVE  SyncInv'
<1> DEFINE A == Marks(Len(file))
<1>1. up \in Seq(GoodFrames(Len(file))) /\ down \in Seq(A) /\ Len(file) \in Nat  BY Parts
<1>2. down' \in Seq(A)
  <2>1. c \in A  OBVIOUS
  <2> HIDE DEF A
  <2>2. QED  BY <1>1, <2>1
<1>3. srv' \in ServerStates(Len(file))  BY <1>1, AskGood
<1>4. QED  BY <1>1, <1>2, <1>3, ServerMoved

LEMMA PullMissingStep == SyncInv /\ PullMissing => SyncInv'
<1> SUFFICES ASSUME SyncInv, PullMissing PROVE SyncInv'
  OBVIOUS
<1> DEFINE s == [srv EXCEPT !.cold = FALSE, !.rest = TRUE]
<1>1. /\ srv' = Ask(s, None) /\ down' = Append(down, None)
      /\ UNCHANGED <<file, flow, daemonVars, conn, up, spent>>
  BY DEF PullMissing
<1>2. s \in ServerStates(Len(file))  BY Parts DEF ServerStates
<1>3. None \in Marks(Len(file))  BY DEF Marks
<1> HIDE DEF s
<1>4. QED  BY <1>1, <1>2, <1>3, Asked

LEMMA PollReconcileStep == SyncInv /\ PollReconcile => SyncInv'
<1> SUFFICES ASSUME SyncInv, PollReconcile PROVE SyncInv'
  OBVIOUS
<1> DEFINE s == [srv EXCEPT !.rest = TRUE]
<1>1. /\ srv' = Ask(s, None) /\ down' = Append(down, None)
      /\ UNCHANGED <<file, flow, daemonVars, conn, up, spent>>
  BY DEF PollReconcile
<1>2. s \in ServerStates(Len(file))  BY Parts DEF ServerStates
<1>3. None \in Marks(Len(file))  BY DEF Marks
<1> HIDE DEF s
<1>4. QED  BY <1>1, <1>2, <1>3, Asked

LEMMA PollRepairStep == SyncInv /\ PollRepair => SyncInv'
<1> SUFFICES ASSUME SyncInv, PollRepair PROVE SyncInv'
  OBVIOUS
<1> DEFINE n == Len(file)
           A == Marks(n)
           s == [srv EXCEPT !.rest = TRUE, !.reqFull = TRUE]
<1>1. /\ srv' = Recover(s) /\ down' = Append(down, PlanCursor(srv))
      /\ UNCHANGED <<file, flow, daemonVars, conn, up, spent>>
  BY DEF PollRepair
<1>2. s \in ServerStates(n)  BY Parts DEF ServerStates
<1> HIDE DEF s
<1>3. n \in Nat /\ up \in Seq(GoodFrames(n)) /\ down \in Seq(A)  BY Parts
<1>4. srv' \in ServerStates(n)  BY <1>1, <1>2, <1>3, RecoverGood
<1>5. PlanCursor(srv) \in A  BY Parts, PlanGood
<1>6. down' \in Seq(A)
  <2> HIDE DEF A
  <2>1. QED  BY <1>1, <1>3, <1>5
<1>7. QED  BY <1>1, <1>3, <1>4, <1>6, ServerMoved

LEMMA ServeFullStep == SyncInv /\ ServeFull => SyncInv'
<1> SUFFICES ASSUME SyncInv, ServeFull PROVE SyncInv'
  OBVIOUS
<1>1. /\ srv' = [srv EXCEPT !.reqFull = FALSE]
      /\ UNCHANGED <<file, flow, daemonVars, conn, up, down, spent>>
  BY DEF ServeFull
<1>2. srv' \in ServerStates(Len(file))  BY <1>1, Parts DEF ServerStates
<1>3. QED  BY <1>1, <1>2, Parts, ServerMoved

\* The server forgets the replies it waits for.
LEMMA Forgotten ==
  ASSUME NEW n, NEW s \in ServerStates(n)
  PROVE  /\ [s EXCEPT !.pulls = <<>>, !.replaying = FALSE] \in ServerStates(n)
         /\ [s EXCEPT !.ended = FALSE, !.delivery = "stalled", !.pulls = <<>>,
                      !.replaying = FALSE, !.reqFull = TRUE, !.inflight = FALSE]
              \in ServerStates(n)
<1> DEFINE Q == Seq(Marks(n))
<1>1. <<>> \in Q  OBVIOUS
<1> HIDE DEF Q
<1>2. QED  BY <1>1 DEF ServerStates, Q

LEMMA ExpireStep == ASSUME SyncInv, NEW timer \in Timers, Expire(timer) PROVE SyncInv'
<1>1. /\ srv' = CASE timer = "rest" -> [srv EXCEPT !.rest = FALSE]
                  [] timer = "recovery" -> [srv EXCEPT !.inflight = FALSE]
                  [] timer = "replay" -> [srv EXCEPT !.pulls = <<>>, !.replaying = FALSE]
      /\ UNCHANGED <<file, flow, daemonVars, conn, up, down, spent>>
  BY DEF Expire
<1>2. srv \in ServerStates(Len(file))  BY Parts
<1>3. srv' \in ServerStates(Len(file))
  <2>1. CASE timer = "rest"  BY <1>1, <1>2, <2>1 DEF ServerStates
  <2>2. CASE timer = "recovery"  BY <1>1, <1>2, <2>2 DEF ServerStates
  <2>3. CASE timer = "replay"  BY <1>1, <1>2, <2>3, Forgotten
  <2>4. QED  BY <2>1, <2>2, <2>3 DEF Timers
<1>4. QED  BY <1>1, <1>3, Parts, ServerMoved

LEMMA NoteInterruptedStep == SyncInv /\ NoteInterrupted => SyncInv'
<1> SUFFICES ASSUME SyncInv, NoteInterrupted PROVE SyncInv'
  OBVIOUS
<1>1. /\ srv' = IF srv.delivery = "none" THEN [srv EXCEPT !.ended = FALSE]
                ELSE [srv EXCEPT !.ended = FALSE, !.delivery = "stalled",
                                 !.pulls = <<>>, !.replaying = FALSE,
                                 !.reqFull = TRUE, !.inflight = FALSE]
      /\ UNCHANGED <<file, flow, daemonVars, conn, up, down, spent>>
  BY DEF NoteInterrupted
<1>2. srv \in ServerStates(Len(file))  BY Parts
<1>3. srv' \in ServerStates(Len(file))
  <2>1. CASE srv.delivery = "none"  BY <1>1, <1>2, <2>1 DEF ServerStates
  <2>2. CASE srv.delivery # "none"  BY <1>1, <1>2, <2>2, Forgotten
  <2>3. QED  BY <2>1, <2>2
<1>4. QED  BY <1>1, <1>3, Parts, ServerMoved

LEMMA EmptyBundle == ASSUME NEW n \in Nat PROVE NoBundle \in Bundles(n)
<1>1. None \in Marks(n) /\ Water(None) = 0 /\ Len(<<>>) = 0
  BY Constants DEF Marks, Water
<1>2. NoBundle \in [recs : LineSeqs, cur : Marks(n), held : BOOLEAN]
  BY <1>1, EmptyLines DEF NoBundle
<1>3. NoBundle.recs = <<>> /\ NoBundle.cur = None  BY DEF NoBundle
<1>4. QED  BY ONLY <1>1, <1>2, <1>3, n \in Nat DEF Bundles

LEMMA EvictStep == ASSUME SyncInv, NEW b \in BOOLEAN, Evict(b) PROVE SyncInv'
<1>1. /\ srv' = [srv EXCEPT !.bundle = NoBundle, !.cold = b, !.reqFull = FALSE,
                            !.inflight = FALSE, !.delivery = "none"]
      /\ Spend("faults")
      /\ UNCHANGED <<file, flow, daemonVars, conn, up, down>>
  BY DEF Evict
<1>2. SpentGrows  BY <1>1, SpendStep DEF SpentGrows
<1>3. NoBundle \in Bundles(Len(file))  BY Parts, EmptyBundle
<1>4. srv' \in ServerStates(Len(file))
  <2> HIDE DEF NoBundle
  <2>1. QED  BY <1>1, <1>3, Parts DEF ServerStates
<1>5. QED  BY <1>1, <1>2, <1>4, Parts, ServerMoved

-----------------------------------------------------------------------------
\* The socket dies: what is left of the daemon's tasks and of the wire.
LEMMA CutStep ==
  ASSUME SyncInv, CutSocket, UNCHANGED <<file, flow>>, Spend("faults"),
         seen' \in LineSeqs, cur' \in Marks(Len(file)) \cup {Absent},
         open' = FALSE \/ UNCHANGED open, srv' \in ServerStates(Len(file))
  PROVE  SyncInv'
<1>1. conn' = FALSE /\ up' = <<>> /\ down' = <<>> /\ push' = Idle /\ drain' = Idle
  BY DEF CutSocket
<1>2. SpentGrows  BY SpendStep DEF SpentGrows
<1>3. push' \in PushStates(Len(file)) /\ drain' \in DrainStates(Len(file)) /\ push'.pc = "idle"
  BY <1>1, Parts, IdlePush
<1>4. up' \in Seq(GoodFrames(Len(file))) /\ down' \in Seq(Marks(Len(file)))  BY <1>1
<1>5. open' \in BOOLEAN /\ (open' => file # <<>>)
  <2>1. CASE open' = FALSE  BY <2>1
  <2>2. CASE open' = open
    <3>1. open \in BOOLEAN /\ (open => file # <<>>)  BY Parts
    <3>2. QED  BY ONLY <2>2, <3>1, Zenon
  <2>3. QED  BY <2>1, <2>2
<1>6. QED  BY <1>1, <1>2, <1>3, <1>4, <1>5, Parts, Moved

LEMMA DropStep == SyncInv /\ Drop => SyncInv'
<1> SUFFICES ASSUME SyncInv, Drop PROVE SyncInv'
  OBVIOUS
<1>1. /\ CutSocket /\ Spend("faults") /\ UNCHANGED <<file, flow, seen, open>>
      /\ srv' = [srv EXCEPT !.ended = TRUE]
      /\ cur' = cur \/ (push.pc = "planned" /\ cur' = push.prev)
  BY DEF Drop
<1>2. cur' \in Marks(Len(file)) \cup {Absent}  BY <1>1, Parts, PushCases
<1>3. srv' \in ServerStates(Len(file))  BY <1>1, Parts DEF ServerStates
<1>4. QED  BY <1>1, <1>2, <1>3, Parts, CutStep

LEMMA DaemonRestartStep == SyncInv /\ DaemonRestart => SyncInv'
<1> SUFFICES ASSUME SyncInv, DaemonRestart PROVE SyncInv'
  OBVIOUS
<1>1. /\ CutSocket /\ Spend("faults") /\ UNCHANGED <<file, flow>>
      /\ srv' = [srv EXCEPT !.ended = TRUE]
      /\ cur' = Absent /\ seen' = <<>> /\ open' = FALSE
  BY DEF DaemonRestart
<1>2. srv' \in ServerStates(Len(file))  BY <1>1, Parts DEF ServerStates
<1>3. QED  BY <1>1, <1>2, EmptyLines, CutStep

LEMMA FreshServer == ASSUME NEW n \in Nat PROVE ServerInit \in ServerStates(n)
<1>1. NoBundle \in Bundles(n) /\ <<>> \in Seq(Marks(n))  BY EmptyBundle
<1> HIDE DEF NoBundle
<1>2. QED  BY <1>1 DEF ServerInit, ServerStates

LEMMA ServerRestartStep == SyncInv /\ ServerRestart => SyncInv'
<1> SUFFICES ASSUME SyncInv, ServerRestart PROVE SyncInv'
  OBVIOUS
<1>1. /\ CutSocket /\ Spend("faults") /\ UNCHANGED <<file, flow, seen, cur, open>>
      /\ srv' = ServerInit
  BY DEF ServerRestart
<1>2. srv' \in ServerStates(Len(file))  BY <1>1, Parts, FreshServer
<1>3. QED  BY <1>1, <1>2, Parts, CutStep

LEMMA ReconnectStep == SyncInv /\ Reconnect => SyncInv'
<1> SUFFICES ASSUME SyncInv, Reconnect PROVE SyncInv'
  OBVIOUS
<1>1. conn' = TRUE /\ UNCHANGED <<file, flow, seen, cur, open, push, drain, up, down, srv, spent>>
  BY DEF Reconnect, daemonVars
<1>2. QED  BY <1>1, Parts, Moved

LEMMA StutterStep == SyncInv /\ UNCHANGED vars => SyncInv'
BY Parts, Moved DEF vars, daemonVars

LEMMA NextSync == SyncInv /\ [Next]_vars => SyncInv'
<1> SUFFICES ASSUME SyncInv, [Next]_vars PROVE SyncInv'
  OBVIOUS
<1>1. ASSUME Daemon PROVE SyncInv'
  BY <1>1, PushReadStep, PushPlanStep, PushSendStep, PushCommitStep, DrainStartStep,
     DrainReadStep, DrainSendStep DEF Daemon
<1>2. ASSUME Server PROVE SyncInv'
  BY <1>2, ReceiveStep, NoteInterruptedStep, ExpireStep DEF Server
<1>3. ASSUME Console PROVE SyncInv'
  BY <1>3, PullMissingStep, PollRepairStep, PollReconcileStep, ServeFullStep DEF Console
<1>4. ASSUME Engine PROVE SyncInv'
  BY <1>4, WriteStep, RewriteStep, SettleStep DEF Engine
<1>5. ASSUME Fault PROVE SyncInv'
  BY <1>5, DropStep, DaemonRestartStep, ServerRestartStep, EvictStep DEF Fault
<1>6. QED  BY <1>1, <1>2, <1>3, <1>4, <1>5, ReconnectStep, StutterStep DEF Next

-----------------------------------------------------------------------------
\* In every reachable state, all that the daemon and the wire carry are windows
\* of the file and the cache is a prefix of it that reaches its mark.
THEOREM SyncInvariant == Spec => []SyncInv
<1>1. SyncInv /\ [Next]_vars => SyncInv'  BY NextSync
<1>2. QED  BY <1>1, InitSync, PTL DEF Spec

\* The cache of apply_history_frame never has a hole, however pushes, pulls,
\* lost sockets, restarts, evictions and rewrites interleave.
THEOREM WholePrefix == Spec => []NoHole
<1>1. SyncInv => NoHole
  <2> SUFFICES ASSUME SyncInv PROVE NoHole
    OBVIOUS
  <2>1. srv.bundle \in Bundles(Len(file)) /\ Len(file) \in Nat  BY Parts DEF ServerStates
  <2>2. /\ Len(srv.bundle.recs) \in 0..Len(file) /\ Cached = 1..Len(srv.bundle.recs)
        /\ Water(srv.bundle.cur) \in Nat /\ Water(srv.bundle.cur) <= Len(srv.bundle.recs)
    BY <2>1, BundleFields DEF Cached
  <2>3. \E k \in 0..Len(file) : Cached = 1..k  BY <2>2, Zenon
  <2>4. 1..Water(srv.bundle.cur) \subseteq Cached  BY <2>2
  <2>5. QED  BY <2>3, <2>4 DEF NoHole
<1>2. QED  BY <1>1, SyncInvariant, PTL

\* The state keeps its types; so a terminator is only ever made for a flow that
\* has a cursor.
THEOREM TypeCorrect == Spec => []TypeOK
<1>1. SyncInv => TypeOK
  <2> SUFFICES ASSUME SyncInv PROVE TypeOK
    OBVIOUS
  <2> DEFINE n == Len(file)
  <2>1. Marks(n) \subseteq Cursors  BY Parts, Constants DEF Marks
  <2>2. cur \in Cursors \cup {Absent}  BY <2>1, Parts
  <2>3. {open, conn} \subseteq BOOLEAN  BY Parts
  <2>4. push.pc \in {"idle", "read", "planned"}  BY Parts, PushCases
  <2>5. drain.pc \in {"idle", "read", "send"}  BY Parts, DrainCases
  <2>6. \A i \in 1..Len(up) : up[i] \in Frames
    <3>1. up \in Seq(GoodFrames(n))  BY Parts
    <3>2. GoodFrames(n) \subseteq Frames  BY DEF GoodFrames
    <3> HIDE DEF n
    <3>3. QED  BY <3>1, <3>2
  <2>7. down \in Seq(Cursors)
    <3>1. down \in Seq(Marks(n))  BY Parts
    <3>2. Seq(Marks(n)) \subseteq Seq(Cursors)  BY <2>1, SeqsGrow
    <3>3. QED  BY <3>1, <3>2
  <2>8. srv.bundle.cur \in Cursors
    <3>1. srv.bundle \in Bundles(n)  BY Parts DEF ServerStates
    <3>2. QED  BY <2>1, <3>1, Parts, BundleFields
  <2>9. srv.delivery \in {"none", "open", "stalled"} /\ srv.pulls \in Seq(Cursors)
    <3>1. srv.delivery \in {"none", "open", "stalled"} /\ srv.pulls \in Seq(Marks(n))
      BY Parts DEF ServerStates
    <3>2. Seq(Marks(n)) \subseteq Seq(Cursors)  BY <2>1, SeqsGrow
    <3>3. QED  BY <3>1, <3>2
  <2>10. flow \in [status : {"active", "failed", "archived"}, worktree : BOOLEAN]
    BY DEF SyncInv
  <2>11. QED
    BY <2>2, <2>3, <2>4, <2>5, <2>6, <2>7, <2>8, <2>9, <2>10, Parts DEF TypeOK
<1>2. QED  BY <1>1, SyncInvariant, PTL
=============================================================================
