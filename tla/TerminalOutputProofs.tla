------------------------ MODULE TerminalOutputProofs ------------------------
EXTENDS TerminalOutput, SequenceTheorems, FiniteSetTheorems, WellFoundedInduction, TLAPS

(***************************************************************************)
(* What the text of a terminal promises the phone, for any length of the   *)
(* stream, of the buffer and of the queues.  The invariant IInv says of    *)
(* every piece and of every baseline under way what it may still do to the *)
(* pane: which request it answers, the moment its cut was taken, the order *)
(* of what is on the wire and of what is held, and what the pane already   *)
(* shows.  Every theorem below is read off it.                             *)
(***************************************************************************)

----------------------------------------------------------------------------
(* The inductive invariant. *)

Texts == Seq(Positions) \ {<<>>}
UpTo(s, n) == \A i \in 1..Len(s) : s[i] <= n

CountersOK ==
    /\ history \in 0..MaxChars
    /\ announced \in 0..history
    /\ history <= announced + 1
    /\ outputSeq \in Nat
    /\ lastRequest \in Nat
    /\ request \in 0..lastRequest
    /\ asks \subseteq 0..lastRequest
    /\ link \in {"gone", "back", "bound"}
    /\ mishaps \subseteq {"lost", "overtaken", "gaveUp", "overflow", "torn"}

BatchOK == batch \in Seq(Positions) /\ UpTo(batch, announced)

FlushesOK == \A f \in flushes :
    /\ f = [data |-> f.data, seq |-> f.seq]
    /\ f.data \in Texts
    /\ UpTo(f.data, announced)
    /\ f.seq \in 0..outputSeq

RepliesOK == \A r \in replies :
    /\ r = Reply(r.id, r.step, r.seq, r.end)
    /\ r.id \in 1..lastRequest
    /\ r.step \in {"sequence", "snapshot", "send"}
    /\ r.seq \in 0..outputSeq
    /\ r.end \in 0..history

Envelopes == [kind : {"live", "baseline"}, id : Nat, data : Seq(Positions),
              end : Nat, seq : Nat]

LiveOK(m) ==
    /\ m \in Envelopes
    /\ m.kind = "live"
    /\ m.data \in Texts
    /\ m.end = Last(m.data)
    /\ m.end \in 1..history
    /\ m.seq \in 1..outputSeq

BaselineOK(m) ==
    /\ m \in Envelopes
    /\ m.kind = "baseline"
    /\ m.id \in 1..lastRequest
    /\ m.end \in 0..history
    /\ m.data = Newest(Printed(0, m.end), Window)
    /\ m.seq \in 0..outputSeq

WireOK ==
    /\ wire \in Seq(Envelopes)
    /\ \A i \in 1..Len(wire) : LiveOK(wire[i]) \/ BaselineOK(wire[i])

HeldOK ==
    /\ \A m \in held : LiveOK(m)
    /\ IsFiniteSet(held)
    /\ Cardinality(held) <= MaxHeld
    /\ held # {} => awaiting

PaneOK(p) ==
    /\ p.content \in Seq(Positions)
    /\ p.end \in 0..history
    /\ p.seq \in 0..outputSeq

TypeInv ==
    CountersOK /\ BatchOK /\ FlushesOK /\ RepliesOK /\ WireOK /\ HeldOK /\ PaneOK(pane)

\* A stretch of output.
Run(s) == \A i \in 1..Len(s) : s[i] + Len(s) = Last(s) + i

\* The batch goes up to what was announced last, unless it is left over from an
\* earlier subscription.
BatchRuns == batch # <<>> => Run(batch) /\ (viewer => Last(batch) = announced)

FlushesRun == \A f \in flushes : Run(f.data)

WireRuns == \A i \in 1..Len(wire) : wire[i].kind = "live" => Run(wire[i].data)

HeldRuns == \A m \in held : Run(m.data)

Rising(s) == \A i \in 1..(Len(s) - 1) : s[i + 1] > s[i]

\* What a pane shows rises and ends at its watermark.
Sound(p) ==
    /\ Rising(p.content)
    /\ p.end = IF p.content = <<>> THEN 0 ELSE Last(p.content)

Waits == request # 0 <=> awaiting

\* The answer to the active request is no older than what the pane shows: that
\* stays as it is until the answer is there.
FreshReply == \A r \in replies :
    request # 0 /\ r.id = request /\ r.step = "send" => r.end >= pane.end

FreshBaseline == \A i \in 1..Len(wire) :
    request # 0 /\ wire[i].kind = "baseline" /\ wire[i].id = request => wire[i].end >= pane.end

OrderInv ==
    BatchRuns /\ FlushesRun /\ WireRuns /\ HeldRuns /\ Sound(pane) /\ Waits
      /\ FreshReply /\ FreshBaseline

IInv == TypeInv /\ (Untorn => OrderInv)
----------------------------------------------------------------------------
(* Induction. *)

LEMMA LeastElement ==
  ASSUME NEW T \in SUBSET Nat, T # {}
  PROVE  \E n \in T : \A m \in T : n <= m
  <1> DEFINE R == OpToRel(<, Nat)
  <1>1. IsWellFoundedOn(R, Nat)
    BY NatLessThanWellFounded
  <1>2. \A x, y \in Nat : <<x, y>> \in R <=> x < y
    BY DEF OpToRel
  <1> HIDE DEF R
  <1>3. PICK n \in T : \A m \in T : ~(<<m, n>> \in R)
    BY <1>1, WFMin
  <1>4. ASSUME NEW m \in T PROVE n <= m
    <2>1. m \in Nat /\ n \in Nat
      OBVIOUS
    <2>2. ~(m < n)
      BY <1>2, <1>3, <2>1, Zenon
    <2> QED
      BY <2>1, <2>2
  <1> QED
    BY <1>4

LEMMA GreatestElement ==
  ASSUME NEW N \in Nat, NEW T, \A n \in T : n \in 0..N, T # {}
  PROVE  Max(T) \in T /\ \A n \in T : Max(T) >= n
  <1> DEFINE D == {N - n : n \in T}
  <1>1. D \in SUBSET Nat /\ D # {}
    OBVIOUS
  <1>2. PICK d \in D : \A e \in D : d <= e
    BY <1>1, LeastElement
  <1>3. PICK n \in T : d = N - n
    BY <1>2
  <1>4. \A m \in T : n >= m
    BY <1>2, <1>3
  <1> QED
    BY <1>4 DEF Max

\* Induction over the numbers, with a set in the place of a property.
LEMMA Induct ==
  ASSUME NEW S, 0 \in S, \A n \in Nat : n \in S => n + 1 \in S
  PROVE  Nat \subseteq S
  <1> SUFFICES ASSUME Nat \ S # {} PROVE FALSE
    OBVIOUS
  <1>1. PICK n \in Nat \ S : \A m \in Nat \ S : n <= m
    BY LeastElement
  <1>2. n - 1 \in Nat /\ n - 1 \in S
    BY <1>1
  <1>3. (n - 1) + 1 = n
    BY <1>1
  <1> QED
    BY <1>1, <1>2, <1>3

----------------------------------------------------------------------------
(* Lemmas about the operators. *)

LEMMA PositionsCount ==
  /\ Positions \subseteq Nat \ {0}
  /\ \A s \in Seq(Positions) : Len(s) \in Nat /\ \A i \in 1..Len(s) : s[i] \in Nat \ {0}
  <1>1. Positions \subseteq Nat \ {0}
    BY OutputAssumption DEF Positions
  <1>2. ASSUME NEW s \in Seq(Positions)
        PROVE  Len(s) \in Nat /\ \A i \in 1..Len(s) : s[i] \in Nat \ {0}
    <2>1. ASSUME NEW i \in 1..Len(s) PROVE s[i] \in Positions
      BY ElementOfSeq, <2>1
    <2>2. Len(s) \in Nat
      BY LenProperties
    <2> QED
      BY <1>1, <2>1, <2>2
  <1> QED
    BY <1>1, <1>2

LEMMA NonEmptyText ==
  ASSUME NEW s \in Seq(Positions)
  PROVE  s # <<>> <=> Len(s) > 0
  BY EmptySeq

LEMMA MaxOfTwo ==
  ASSUME NEW a \in Nat, NEW b \in Nat
  PROVE  Max({a, b}) = IF a >= b THEN a ELSE b
  BY DEF Max

LEMMA MinOfTwo ==
  ASSUME NEW a \in Nat, NEW b \in Nat
  PROVE  Min({a, b}) = IF a <= b THEN a ELSE b
  BY DEF Min

\* The end of a text.
LEMMA NewestShape ==
  ASSUME NEW S, NEW s \in Seq(S), NEW n \in Nat \ {0}
  PROVE  /\ Newest(s, n) \in Seq(S)
         /\ Len(Newest(s, n)) = IF Len(s) > n THEN n ELSE Len(s)
         /\ \E d \in Nat :
               /\ Len(s) = Len(Newest(s, n)) + d
               /\ \A i \in 1..Len(Newest(s, n)) : Newest(s, n)[i] = s[i + d]
  <1> DEFINE a == IF Len(s) > n THEN Len(s) - n + 1 ELSE 1
  <1>1. a \in 1..(Len(s) + 1) /\ Len(s) \in Nat
    OBVIOUS
  <1>2. Newest(s, n) = SubSeq(s, a, Len(s))
    BY DEF Newest
  <1>3. Len(s) - a + 1 = IF Len(s) > n THEN n ELSE Len(s)
    OBVIOUS
  <1> HIDE DEF a
  <1>4. /\ SubSeq(s, a, Len(s)) \in Seq(S)
        /\ Len(SubSeq(s, a, Len(s))) = Len(s) - a + 1
        /\ \A i \in 1..(Len(s) - a + 1) : SubSeq(s, a, Len(s))[i] = s[a + i - 1]
    BY <1>1
  <1>5. a - 1 \in Nat /\ Len(s) = (Len(s) - a + 1) + (a - 1)
        /\ \A i \in 1..(Len(s) - a + 1) : a + i - 1 = i + (a - 1)
    BY <1>1
  <1> QED
    BY <1>1, <1>2, <1>3, <1>4, <1>5

LEMMA NewestKeeps ==
  ASSUME NEW s \in Seq(Positions), NEW n \in Nat \ {0}
  PROVE  /\ Newest(s, n) \in Seq(Positions)
         /\ s # <<>> => Newest(s, n) # <<>> /\ Last(Newest(s, n)) = Last(s)
         /\ s = <<>> => Newest(s, n) = <<>>
         /\ Rising(s) => Rising(Newest(s, n))
         /\ Run(s) => Run(Newest(s, n))
  <1> DEFINE t == Newest(s, n)
  <1>1. /\ t \in Seq(Positions) /\ Len(t) \in Nat /\ Len(s) \in Nat
        /\ Len(t) = IF Len(s) > n THEN n ELSE Len(s)
        /\ \E d \in Nat : Len(s) = Len(t) + d /\ \A i \in 1..Len(t) : t[i] = s[i + d]
    <2>1. /\ t \in Seq(Positions)
          /\ Len(t) = IF Len(s) > n THEN n ELSE Len(s)
          /\ \E d \in Nat : Len(s) = Len(t) + d /\ \A i \in 1..Len(t) : t[i] = s[i + d]
      BY NewestShape, Zenon
    <2>2. Len(t) \in Nat /\ Len(s) \in Nat
      BY <2>1, PositionsCount
    <2> QED
      BY <2>1, <2>2
  <1>2. \A i \in 1..Len(s) : s[i] \in Nat
    BY PositionsCount
  <1>0. (s # <<>> <=> Len(s) > 0) /\ (t # <<>> <=> Len(t) > 0)
    BY <1>1, NonEmptyText
  <1> HIDE DEF t
  <1>d. PICK d \in Nat : Len(s) = Len(t) + d /\ \A i \in 1..Len(t) : t[i] = s[i + d]
    BY <1>1
  <1>3. s # <<>> => t # <<>> /\ Last(t) = Last(s)
    <2> SUFFICES ASSUME s # <<>> PROVE Len(t) > 0 /\ t[Len(t)] = s[Len(s)]
      BY <1>0 DEF Last
    <2>1. Len(t) > 0
      BY <1>0, <1>1
    <2>2. t[Len(t)] = s[Len(t) + d] /\ Len(t) + d = Len(s)
      BY <1>1, <1>d, <2>1
    <2> QED
      BY <2>1, <2>2
  <1>4. s = <<>> => t = <<>>
    BY <1>0, <1>1
  <1>5. ASSUME Rising(s) PROVE Rising(t)
    <2> SUFFICES ASSUME NEW i \in 1..(Len(t) - 1) PROVE t[i + 1] > t[i]
      BY DEF Rising
    <2>1. t[i] = s[i + d] /\ t[i + 1] = s[(i + d) + 1] /\ i + d \in 1..(Len(s) - 1)
      BY <1>1, <1>d
    <2> QED
      BY <1>5, <2>1 DEF Rising
  <1>6. ASSUME Run(s) PROVE Run(t)
    <2> SUFFICES ASSUME NEW i \in 1..Len(t) PROVE t[i] + Len(t) = Last(t) + i
      BY DEF Run
    <2>1. t[i] = s[i + d] /\ i + d \in 1..Len(s) /\ s # <<>>
      BY <1>0, <1>1, <1>d
    <2>4. Len(s) = Len(t) + d
      BY <1>d
    <2>2. s[i + d] + Len(s) = Last(s) + (i + d)
      BY <1>6, <2>1 DEF Run
    <2>3. Last(t) = Last(s) /\ Last(s) \in Nat /\ s[i + d] \in Nat
      BY <1>2, <1>3, <2>1 DEF Last
    <2> QED
      <3>1. Len(t) \in Nat /\ i \in Nat
        BY <1>1
      <3> HIDE <1>1
      <3>2. s[i + d] + (Len(t) + d) = Last(s) + (i + d)
        BY <2>2, <2>4
      <3>3. s[i + d] + Len(t) = Last(s) + i
        BY <2>3, <3>1, <3>2
      <3> QED
        BY <2>1, <2>3, <3>3
  <1> QED
    BY <1>1, <1>3, <1>4, <1>5, <1>6 DEF t

\* Two rising texts, the second above the first.
LEMMA JoinRising ==
  ASSUME NEW s \in Seq(Positions), NEW t \in Seq(Positions), Rising(s), Rising(t),
         s # <<>> /\ t # <<>> => Last(s) < t[1]
  PROVE  /\ s \o t \in Seq(Positions)
         /\ Rising(s \o t)
         /\ t # <<>> => s \o t # <<>> /\ Last(s \o t) = Last(t)
         /\ t = <<>> => s \o t = s
  <1> DEFINE u == s \o t
  <1>1. /\ u \in Seq(Positions) /\ Len(u) = Len(s) + Len(t)
        /\ Len(s) \in Nat /\ Len(t) \in Nat
        /\ \A i \in 1..Len(u) : u[i] = IF i <= Len(s) THEN s[i] ELSE t[i - Len(s)]
    OBVIOUS
  <1>2. t = <<>> => u = s
    OBVIOUS
  <1> HIDE DEF u
  <1>3. t # <<>> => u # <<>> /\ Last(u) = Last(t)
    BY <1>1 DEF Last
  <1>4. Rising(u)
    <2> SUFFICES ASSUME NEW i \in 1..(Len(u) - 1) PROVE u[i + 1] > u[i]
      BY DEF Rising
    <2>1. CASE i < Len(s)
      BY <1>1, <2>1 DEF Rising
    <2>2. CASE i = Len(s)
      <3>1. t # <<>> /\ s # <<>>
        BY <1>1, <2>2
      <3>2. u[i] = Last(s) /\ u[i + 1] = t[1]
        BY <1>1, <2>2 DEF Last
      <3>3. Last(s) \in Nat /\ t[1] \in Nat
        BY <3>1, PositionsCount, NonEmptyText DEF Last
      <3> QED
        BY <3>1, <3>2, <3>3
    <2>3. CASE i > Len(s)
      <3>1. u[i] = t[i - Len(s)] /\ u[i + 1] = t[(i - Len(s)) + 1]
            /\ i - Len(s) \in 1..(Len(t) - 1)
        BY <1>1, <2>3
      <3> QED
        BY <3>1 DEF Rising
    <2> QED
      BY <1>1, <2>1, <2>2, <2>3
  <1> QED
    BY <1>1, <1>2, <1>3, <1>4 DEF u

LEMMA RunRises ==
  ASSUME NEW s \in Seq(Positions), Run(s)
  PROVE  Rising(s) /\ Len(s) <= (IF s = <<>> THEN 0 ELSE Last(s))
  <1>1. \A i \in 1..Len(s) : s[i] \in Nat \ {0}
    BY PositionsCount
  <1>2. s # <<>> => Last(s) \in Nat /\ s[1] + Len(s) = Last(s) + 1
    BY <1>1 DEF Run, Last
  <1> QED
    BY <1>1, <1>2 DEF Run, Rising

\* What is left of a text when its first c characters are cut off.
LEMMA SuffixShape ==
  ASSUME NEW s \in Seq(Positions), NEW c \in Nat
  PROVE  /\ SubSeq(s, c + 1, Len(s)) \in Seq(Positions)
         /\ c >= Len(s) => SubSeq(s, c + 1, Len(s)) = <<>>
         /\ c < Len(s) =>
              /\ SubSeq(s, c + 1, Len(s)) # <<>>
              /\ Len(SubSeq(s, c + 1, Len(s))) = Len(s) - c
              /\ \A i \in 1..(Len(s) - c) : SubSeq(s, c + 1, Len(s))[i] = s[i + c]
              /\ Last(SubSeq(s, c + 1, Len(s))) = Last(s)
  <1> DEFINE t == SubSeq(s, c + 1, Len(s))
  <1>1. Len(s) \in Nat
    BY PositionsCount
  <1>2. t \in Seq(Positions)
    BY <1>1, SubSeqProperties
  <1>3. CASE c >= Len(s)
    <2>1. Len(t) = 0
      BY <1>1, <1>3
    <2> QED
      BY <1>1, <1>2, <1>3, <2>1, NonEmptyText
  <1>4. CASE c < Len(s)
    <2>1. Len(t) = Len(s) - c /\ \A i \in 1..(Len(s) - c) : t[i] = s[i + c]
      BY <1>1, <1>4
    <2>2. Len(s) - c \in Nat \ {0} /\ (Len(s) - c) + c = Len(s)
      BY <1>1, <1>4
    <2>3. t # <<>>
      BY <1>2, <2>1, <2>2, NonEmptyText
    <2> HIDE DEF t
    <2>6. PICK k \in Nat \ {0} : k = Len(s) - c
      BY <2>2
    <2>8. k \in 1..k
      BY <2>6
    <2>7. k + c = Len(s)
      BY <1>1, <2>6
    <2>4. t[Len(s) - c] = s[Len(s)]
      BY <2>1, <2>6, <2>7, <2>8
    <2>5. Last(t) = Last(s)
      BY <2>1, <2>4 DEF Last
    <2> QED
      BY <1>1, <1>2, <1>4, <2>1, <2>3, <2>5 DEF t
  <1> QED
    BY <1>1, <1>3, <1>4

LEMMA SuffixRises ==
  ASSUME NEW s \in Seq(Positions), Run(s), NEW c \in Nat, c < Len(s)
  PROVE  /\ Rising(SubSeq(s, c + 1, Len(s)))
         /\ SubSeq(s, c + 1, Len(s))[1] + Len(s) = Last(s) + (c + 1)
  <1> DEFINE t == SubSeq(s, c + 1, Len(s))
  <1>1. Len(s) \in Nat /\ Len(t) = Len(s) - c /\ \A i \in 1..(Len(s) - c) : t[i] = s[i + c]
    BY SuffixShape, PositionsCount
  <1>2. Rising(s)
    BY RunRises
  <1> HIDE DEF t
  <1>3. t[1] = s[1 + c] /\ 1 + c \in 1..Len(s) /\ 1 + c = c + 1
    BY <1>1
  <1>4. s[1 + c] + Len(s) = Last(s) + (1 + c)
    BY <1>3 DEF Run
  <1>5. Rising(t)
    <2> SUFFICES ASSUME NEW i \in 1..(Len(t) - 1) PROVE t[i + 1] > t[i]
      BY DEF Rising
    <2>1. t[i] = s[i + c] /\ t[i + 1] = s[(i + c) + 1] /\ i + c \in 1..(Len(s) - 1)
      BY <1>1
    <2> QED
      BY <1>2, <2>1 DEF Rising
  <1> QED
    BY <1>3, <1>4, <1>5 DEF t

\* What a live batch adds to the screen: nothing, or text that lies above what
\* is shown and ends where the batch ends.
LEMMA UncoveredShape ==
  ASSUME NEW p, NEW m, p.end \in Nat, m.data \in Texts, m.end = Last(m.data)
  PROVE  /\ Uncovered(p, m) \in Seq(Positions)
         /\ Run(m.data) =>
              /\ Rising(Uncovered(p, m))
              /\ p.end >= m.end => Uncovered(p, m) = <<>>
              /\ p.end < m.end => /\ Uncovered(p, m) # <<>>
                                  /\ Last(Uncovered(p, m)) = m.end
                                  /\ p.end < Uncovered(p, m)[1]
  <1> DEFINE s == m.data
             start == Minus(m.end, Len(s))
             c == Min({Minus(p.end, start), Len(s)})
  <1>1. s \in Seq(Positions) /\ s # <<>> /\ Len(s) \in Nat \ {0} /\ m.end \in Nat
    BY PositionsCount, NonEmptyText DEF Texts, Last
  <1>2. start \in Nat /\ Minus(p.end, start) \in Nat
    BY <1>1 DEF Minus
  <1>3. c = (IF Minus(p.end, start) <= Len(s) THEN Minus(p.end, start) ELSE Len(s)) /\ c \in Nat
    BY <1>1, <1>2, MinOfTwo
  <1>4. Uncovered(p, m) = SubSeq(s, c + 1, Len(s))
    BY DEF Uncovered
  <1>5. ASSUME Run(s)
        PROVE  m.end = start + Len(s)
    BY <1>1, <1>5, RunRises DEF Minus
  <1> HIDE DEF s
  <1>8. Uncovered(p, m) \in Seq(Positions)
    BY <1>1, <1>3, <1>4, SuffixShape
  <1>6. ASSUME Run(s), p.end >= m.end
        PROVE  Uncovered(p, m) = <<>> /\ Rising(Uncovered(p, m))
    <2>1. c >= Len(s)
      BY <1>1, <1>2, <1>3, <1>5, <1>6 DEF Minus
    <2>2. Uncovered(p, m) = <<>>
      BY <1>1, <1>3, <1>4, <2>1, SuffixShape
    <2> QED
      BY <2>2 DEF Rising
  <1>7. ASSUME Run(s), p.end < m.end
        PROVE  /\ Rising(Uncovered(p, m)) /\ Uncovered(p, m) # <<>>
               /\ Last(Uncovered(p, m)) = m.end /\ p.end < Uncovered(p, m)[1]
    <2>1. c < Len(s) /\ start + c >= p.end
      BY <1>1, <1>2, <1>3, <1>5, <1>7 DEF Minus
    <2>2. /\ Uncovered(p, m) # <<>> /\ Last(Uncovered(p, m)) = Last(s)
          /\ Rising(Uncovered(p, m))
          /\ Uncovered(p, m)[1] + Len(s) = Last(s) + (c + 1)
      BY <1>1, <1>3, <1>4, <1>7, <2>1, SuffixShape, SuffixRises
    <2>3. Uncovered(p, m)[1] \in Nat
      <3>1. Len(Uncovered(p, m)) > 0 /\ Len(Uncovered(p, m)) \in Nat
        BY <1>8, <2>2, NonEmptyText, PositionsCount
      <3> QED
        BY <1>8, <3>1, PositionsCount
    <2>4. Last(s) = m.end
      BY DEF s
    <2> QED
      BY <1>1, <1>2, <1>3, <1>5, <1>7, <2>1, <2>2, <2>3, <2>4
  <1> QED
    BY <1>1, <1>6, <1>7, <1>8 DEF s

LEMMA AcceptLiveOK ==
  ASSUME NEW p, NEW m, PaneOK(p), LiveOK(m), history \in Nat, outputSeq \in Nat
  PROVE  LET q == AcceptLive(p, m)
         IN  /\ PaneOK(q)
             /\ q.end >= p.end
             /\ Sound(p) /\ Run(m.data) => Sound(q)
  <1> DEFINE q == AcceptLive(p, m)
             t == Uncovered(p, m)
  <1>1. /\ p.content \in Seq(Positions) /\ p.end \in Nat /\ p.end <= history
        /\ p.seq \in Nat /\ outputSeq \in Nat /\ history \in Nat
        /\ m.data \in Texts /\ m.end = Last(m.data) /\ m.end \in Nat /\ m.end <= history
        /\ m.seq \in 0..outputSeq
    BY DEF PaneOK, LiveOK
  <1>2. CASE m.seq <= p.seq
    <2>1. q = p
      BY <1>2 DEF AcceptLive
    <2> QED
      BY <1>1, <2>1
  <1>3. CASE ~(m.seq <= p.seq)
    <2>1. /\ q.content = Newest(p.content \o t, Cache)
          /\ q.end = Max({p.end, m.end})
          /\ q.seq = m.seq
      BY <1>3 DEF AcceptLive
    <2>2. q.end = IF p.end >= m.end THEN p.end ELSE m.end
      BY <1>1, <2>1, MaxOfTwo
    <2>3. t \in Seq(Positions) /\ Cache \in Nat \ {0}
      BY <1>1, UncoveredShape, OutputAssumption
    <2> HIDE DEF q, t
    <2>4. p.content \o t \in Seq(Positions)
      BY <1>1, <2>3
    <2>5. PaneOK(q)
      <3>1. q.content \in Seq(Positions)
        BY <2>1, <2>3, <2>4, NewestKeeps
      <3>2. q.end \in 0..history
        BY <1>1, <2>2
      <3>3. q.seq \in 0..outputSeq
        BY <1>1, <2>1
      <3> QED
        BY <3>1, <3>2, <3>3 DEF PaneOK
    <2>6. ASSUME Sound(p), Run(m.data) PROVE Sound(q)
      <3>0. Rising(p.content) /\ p.end = IF p.content = <<>> THEN 0 ELSE Last(p.content)
        BY <2>6 DEF Sound
      <3>1. /\ Rising(t)
            /\ p.end >= m.end => t = <<>>
            /\ p.end < m.end => t # <<>> /\ Last(t) = m.end /\ p.end < t[1]
        BY <1>1, <2>6, UncoveredShape DEF t
      <3>2. CASE p.end >= m.end
        <4>1. p.content \o t = p.content
          BY <1>1, <3>1, <3>2
        <4> QED
          <5>1. q.content = Newest(p.content, Cache) /\ q.end = p.end
            BY <2>1, <2>2, <3>2, <4>1
          <5>2. /\ p.content # <<>> => q.content # <<>> /\ Last(q.content) = Last(p.content)
                /\ p.content = <<>> => q.content = <<>>
                /\ Rising(q.content)
            BY <1>1, <2>3, <3>0, <5>1, NewestKeeps
          <5> QED
            BY <3>0, <5>1, <5>2 DEF Sound
      <3>3. CASE p.end < m.end
        <4>1. /\ Rising(p.content \o t) /\ p.content \o t # <<>>
              /\ Last(p.content \o t) = m.end
          BY <1>1, <2>3, <3>0, <3>1, <3>3, JoinRising
        <4>2. q.end = m.end
          BY <1>1, <2>2, <3>3
        <4> QED
          BY <2>1, <2>3, <2>4, <4>1, <4>2, NewestKeeps DEF Sound
      <3> QED
        BY <1>1, <3>2, <3>3
    <2> QED
      BY <1>1, <2>2, <2>5, <2>6 DEF q
  <1> QED
    BY <1>2, <1>3

LEMMA ReplayIsDefined ==
  ASSUME NEW p, NEW batches, p.seq \in Nat
  PROVE  ReplayUpTo(p, batches) =
           [n \in Nat |-> IF n <= p.seq THEN p
                          ELSE ReplayOne(ReplayUpTo(p, batches)[n - 1], batches, n)]
  <1> DEFINE Body(f, n) == IF n <= p.seq THEN p ELSE ReplayOne(f[n - 1], batches, n)
             Good(f, N) == f = [n \in 0..N |-> Body(f, n)]
             S == {N \in Nat : \E f : Good(f, N)}
  <1>1. 0 \in S
    <2> DEFINE f == [n \in 0..0 |-> p]
    <2>1. Good(f, 0)
      OBVIOUS
    <2> QED
      BY <2>1
  <1>2. ASSUME NEW N \in Nat, N \in S PROVE N + 1 \in S
    <2>1. PICK f : Good(f, N)
      BY <1>2
    <2> DEFINE g == [n \in 0..(N + 1) |-> IF n <= N THEN f[n] ELSE Body(f, n)]
    <2>2. ASSUME NEW n \in 0..(N + 1) PROVE g[n] = Body(g, n)
      <3>1. CASE n <= N
        <4>1. g[n] = Body(f, n)
          BY <2>1, <3>1
        <4>2. n > p.seq => g[n - 1] = f[n - 1]
          BY <3>1
        <4> QED
          BY <4>1, <4>2
      <3>2. CASE n = N + 1
        <4>1. g[n] = Body(f, n)
          BY <3>2
        <4>2. n > p.seq => g[n - 1] = f[n - 1]
          BY <3>2
        <4> QED
          BY <4>1, <4>2
      <3> QED
        BY <3>1, <3>2
    <2>3. g = [n \in 0..(N + 1) |-> Body(g, n)]
      <3>1. [n \in 0..(N + 1) |-> IF n <= N THEN f[n] ELSE Body(f, n)]
              = [n \in 0..(N + 1) |-> Body(g, n)]
        BY <2>2
      <3> QED
        BY <3>1
    <2>4. Good(g, N + 1)
      BY <2>3
    <2> HIDE DEF g, Body
    <2>5. \E h : Good(h, N + 1)
      BY <2>4
    <2> QED
      BY <2>5
  <1>3. \A N \in Nat : \E f : Good(f, N)
    <2> HIDE DEF S
    <2>1. Nat \subseteq S
      BY <1>1, <1>2, Induct
    <2> QED
      BY <2>1 DEF S
  <1> DEFINE F(N) == CHOOSE f : Good(f, N)
  <1>4. \A N \in Nat : Good(F(N), N)
    BY <1>3
  <1>5. \A N \in Nat : \A n \in 0..N : F(N)[n] = Body(F(N), n)
    <2> HIDE DEF F, Body
    <2> QED BY <1>4
  \* All of them agree where they are defined.
  <1> DEFINE T == {n \in Nat : \A N \in Nat : n <= N => F(N)[n] = F(n)[n]}
  <1>6. 0 \in T
    <2> SUFFICES ASSUME NEW N \in Nat PROVE F(N)[0] = F(0)[0]
      OBVIOUS
    <2> HIDE DEF F
    <2> QED
      BY <1>5
  <1>7. ASSUME NEW n \in Nat, n \in T PROVE n + 1 \in T
    <2> SUFFICES ASSUME NEW N \in Nat, n + 1 <= N PROVE F(N)[n + 1] = F(n + 1)[n + 1]
      OBVIOUS
    <2>1. F(N)[n] = F(n)[n] /\ F(n + 1)[n] = F(n)[n]
      BY <1>7
    <2> HIDE DEF F
    <2>2. F(N)[n + 1] = Body(F(N), n + 1) /\ F(n + 1)[n + 1] = Body(F(n + 1), n + 1)
      <3> HIDE DEF Body
      <3> QED BY <1>5
    <2>3. (n + 1) - 1 = n
      OBVIOUS
    <2> QED
      BY <2>1, <2>2, <2>3
  <1>8. \A n \in Nat, N \in Nat : n <= N => F(N)[n] = F(n)[n]
    <2> HIDE DEF T
    <2>1. Nat \subseteq T
      BY <1>6, <1>7, Induct
    <2> QED
      BY <2>1 DEF T
  <1> DEFINE G == [n \in Nat |-> F(n)[n]]
  <1>9. G = [n \in Nat |-> Body(G, n)]
    <2>1. ASSUME NEW n \in Nat PROVE F(n)[n] = Body(G, n)
      <3>1. F(n)[n] = Body(F(n), n)
        <4> HIDE DEF F, Body
        <4> QED BY <1>5
      <3>2. n > p.seq => n - 1 \in Nat /\ F(n)[n - 1] = F(n - 1)[n - 1]
        <4> HIDE DEF F
        <4> QED BY <1>8
      <3> HIDE DEF F
      <3>3. n > p.seq => G[n - 1] = F(n)[n - 1]
        BY <3>2
      <3> QED
        BY <3>1, <3>3
    <2> HIDE DEF F, Body
    <2>2. [n \in Nat |-> F(n)[n]] = [n \in Nat |-> Body(G, n)]
      BY <2>1
    <2> QED
      BY <2>2
  <1> HIDE DEF G, F
  <1>10. \E f : f = [n \in Nat |-> Body(f, n)]
    BY <1>9
  <1>11. ReplayUpTo(p, batches) = CHOOSE f : f = [n \in Nat |-> Body(f, n)]
    BY DEF ReplayUpTo
  <1> DEFINE U == CHOOSE f : f = [n \in Nat |-> Body(f, n)]
  <1>12. U = [n \in Nat |-> Body(U, n)]
    BY <1>10
  <1> HIDE DEF U
  <1> QED
    BY <1>11, <1>12 DEF U

\* The held batches, one after the other.
LEMMA ReplayOK ==
  ASSUME NEW p, NEW batches, PaneOK(p), history \in Nat, outputSeq \in Nat,
         \A m \in batches : LiveOK(m)
  PROVE  LET q == Replay(p, batches)
         IN  /\ PaneOK(q)
             /\ q.end >= p.end
             /\ Sound(p) /\ (\A m \in batches : Run(m.data)) => Sound(q)
  <1> DEFINE Runs == \A m \in batches : Run(m.data)
             U == ReplayUpTo(p, batches)
             Fine(q) == PaneOK(q) /\ q.end >= p.end /\ (Sound(p) /\ Runs => Sound(q))
             S == {n \in Nat : Fine(U[n])}
             newer == {m.seq : m \in batches} \ 0..p.seq
  <1>1. p.seq \in Nat /\ p.end \in Nat
    BY DEF PaneOK
  <1>2. Fine(p)
    BY <1>1
  <1>3. U = [n \in Nat |-> IF n <= p.seq THEN p ELSE ReplayOne(U[n - 1], batches, n)]
    BY <1>1, ReplayIsDefined
  <1>4. ASSUME NEW q, NEW n \in Nat, Fine(q)
        PROVE  Fine(ReplayOne(q, batches, n))
    <2>1. CASE \E m \in batches : m.seq = n
      <3> DEFINE b == CHOOSE m \in batches : m.seq = n
      <3>1. b \in batches
        BY <2>1
      <3>2. ReplayOne(q, batches, n) = AcceptLive(q, b)
        BY <2>1 DEF ReplayOne
      <3> HIDE DEF b
      <3>3. LiveOK(b) /\ (Runs => Run(b.data))
        BY <3>1
      <3>4. /\ PaneOK(AcceptLive(q, b)) /\ AcceptLive(q, b).end >= q.end
            /\ Sound(q) /\ Run(b.data) => Sound(AcceptLive(q, b))
        BY <1>4, <3>3, AcceptLiveOK
      <3>5. AcceptLive(q, b).end \in Nat /\ q.end \in Nat
        BY <1>4, <3>4 DEF PaneOK
      <3>6. AcceptLive(q, b).end >= p.end
        BY <1>1, <1>4, <3>4, <3>5
      <3> QED
        BY <1>4, <3>2, <3>3, <3>4, <3>6
    <2>2. CASE ~(\E m \in batches : m.seq = n)
      BY <1>4, <2>2 DEF ReplayOne
    <2> QED
      BY <2>1, <2>2
  <1> HIDE DEF U, Fine
  <1>5. 0 \in S
    BY <1>1, <1>2, <1>3
  <1>6. ASSUME NEW n \in Nat, n \in S PROVE n + 1 \in S
    <2>1. U[n + 1] = IF n + 1 <= p.seq THEN p ELSE ReplayOne(U[n], batches, n + 1)
      <3>1. n + 1 \in Nat /\ (n + 1) - 1 = n
        OBVIOUS
      <3> QED
        BY <1>3, <3>1
    <2> QED
      BY <1>2, <1>4, <1>6, <2>1
  <1>7. \A n \in Nat : Fine(U[n])
    <2> HIDE DEF S
    <2>1. Nat \subseteq S
      BY <1>5, <1>6, Induct
    <2> QED
      BY <2>1 DEF S
  <1>8. CASE newer = {}
    BY <1>2, <1>8 DEF Replay, Fine
  <1>9. CASE newer # {}
    <2>1. \A n \in newer : n \in 0..outputSeq
      BY DEF LiveOK
    <2>2. Max(newer) \in newer
      BY <1>9, <2>1, GreatestElement
    <2>3. Replay(p, batches) = U[Max(newer)]
      BY <1>9 DEF Replay, U
    <2> QED
      BY <1>7, <2>1, <2>2, <2>3 DEF Fine
  <1> QED
    BY <1>8, <1>9

LEMMA BaselineShape ==
  ASSUME NEW e \in 0..MaxChars
  PROVE  LET s == Newest(Printed(0, e), Window)
         IN  /\ s \in Seq(Positions)
             /\ Run(s)
             /\ s = <<>> <=> e = 0
             /\ s # <<>> => Last(s) = e
  <1> DEFINE t == Printed(0, e)
             s == Newest(t, Window)
  <1>1. MaxChars \in Nat /\ Window \in Nat \ {0} /\ e \in Nat
    BY OutputAssumption
  <1>2. t = [i \in 1..e |-> i]
    BY <1>1 DEF Printed
  <1>3. t \in Seq(Positions) /\ Len(t) = e
    BY <1>1, <1>2 DEF Positions
  <1>4. e > 0 => Last(t) = e
    BY <1>1, <1>2, <1>3 DEF Last
  <1>5. Run(t)
    BY <1>1, <1>2, <1>3, <1>4 DEF Run
  <1>6. t = <<>> <=> e = 0
    BY <1>1, <1>3, NonEmptyText
  <1> HIDE DEF t
  <1> QED
    <2>1. /\ s \in Seq(Positions) /\ Run(s)
          /\ t # <<>> => s # <<>> /\ Last(s) = Last(t)
          /\ t = <<>> => s = <<>>
      BY <1>1, <1>3, <1>5, NewestKeeps
    <2> QED
      BY <1>1, <1>4, <1>6, <2>1 DEF t

\* Two windows are joined, or one of them is taken.
LEMMA MergeCases ==
  ASSUME NEW old \in Seq(Positions), NEW oldEnd \in Nat,
         NEW new \in Seq(Positions), NEW newEnd \in Nat
  PROVE  LET s == Merge(old, oldEnd, new, newEnd)
             Within == Minus(oldEnd, Len(old)) <= Minus(newEnd, Len(new))
         IN  \/ s = new
             \/ s = old /\ old # <<>> /\ newEnd <= oldEnd /\ Within
             \/ \E n \in Nat : /\ s = old \o SubSeq(new, n + 1, Len(new))
                               /\ Minus(newEnd, Len(new)) + n = oldEnd
                               /\ newEnd > oldEnd /\ Within
             \/ \E n \in Nat : /\ s = new \o SubSeq(old, n + 1, Len(old))
                               /\ newEnd >= oldEnd => n >= Len(old)
  <1> DEFINE oldStart == Minus(oldEnd, Len(old))
             newStart == Minus(newEnd, Len(new))
             s == Merge(old, oldEnd, new, newEnd)
             Join(a, b, n) == IF Newest(a, n) = SubSeq(b, 1, n)
                              THEN a \o SubSeq(b, n + 1, Len(b)) ELSE new
  <1>1. Len(old) \in Nat /\ Len(new) \in Nat
    BY PositionsCount
  <1>2. /\ oldStart \in Nat /\ newStart \in Nat
        /\ oldStart > 0 => oldStart + Len(old) = oldEnd
    BY <1>1 DEF Minus
  <1>3. CASE old = <<>> \/ oldEnd = 0
    BY <1>3 DEF Merge
  <1>4. CASE ~(old = <<>> \/ oldEnd = 0) /\ newStart >= oldStart /\ newEnd <= oldEnd
    BY <1>4 DEF Merge
  <1>5. CASE /\ ~(old = <<>> \/ oldEnd = 0) /\ ~(newStart >= oldStart /\ newEnd <= oldEnd)
             /\ newEnd < oldStart \/ oldEnd < newStart
    BY <1>5 DEF Merge
  <1>6. CASE /\ ~(old = <<>> \/ oldEnd = 0) /\ ~(newEnd < oldStart \/ oldEnd < newStart)
             /\ newStart >= oldStart /\ newEnd > oldEnd
    <2>1. s = Join(old, new, oldEnd - newStart)
      BY <1>2, <1>6 DEF Merge
    <2> HIDE DEF s, newStart
    <2>2. PICK n \in Nat : n = oldEnd - newStart
      BY <1>2, <1>6
    <2>3. s = new \/ s = old \o SubSeq(new, n + 1, Len(new))
      BY <2>1, <2>2
    <2>4. newStart + n = oldEnd
      BY <1>2, <2>2
    <2> QED
      BY <1>6, <2>3, <2>4 DEF s, newStart
  <1>7. CASE /\ ~(old = <<>> \/ oldEnd = 0) /\ ~(newEnd < oldStart \/ oldEnd < newStart)
             /\ ~(newStart >= oldStart)
    <2>1. s = Join(new, old, Min({newEnd - oldStart, Len(old)}))
      BY <1>2, <1>7 DEF Merge
    <2> HIDE DEF s, newStart, oldStart
    <2>2. newEnd - oldStart \in Nat
      BY <1>2, <1>7
    <2>3. PICK n \in Nat : n = Min({newEnd - oldStart, Len(old)})
      BY <1>1, <2>2, MinOfTwo
    <2>4. s = new \/ s = new \o SubSeq(old, n + 1, Len(old))
      BY <2>1, <2>3
    <2>5. n = IF newEnd - oldStart <= Len(old) THEN newEnd - oldStart ELSE Len(old)
      BY <1>1, <2>2, <2>3, MinOfTwo
    <2>6. newEnd >= oldEnd => n >= Len(old)
      BY <1>1, <1>2, <1>7, <2>5
    <2> QED
      BY <2>4, <2>6 DEF s
  <1>8. \/ newStart >= oldStart /\ newEnd <= oldEnd
        \/ newEnd < oldStart \/ oldEnd < newStart
        \/ newStart >= oldStart /\ newEnd > oldEnd
        \/ ~(newStart >= oldStart)
    BY <1>2
  <1> QED
    BY <1>3, <1>4, <1>5, <1>6, <1>7, <1>8, Zenon

LEMMA MergeType ==
  ASSUME NEW old \in Seq(Positions), NEW oldEnd \in Nat,
         NEW new \in Seq(Positions), NEW newEnd \in Nat
  PROVE  Merge(old, oldEnd, new, newEnd) \in Seq(Positions)
  <1> DEFINE s == Merge(old, oldEnd, new, newEnd)
  <1>1. ASSUME NEW a \in Seq(Positions), NEW b \in Seq(Positions), NEW n \in Nat
        PROVE  a \o SubSeq(b, n + 1, Len(b)) \in Seq(Positions)
    <2>1. SubSeq(b, n + 1, Len(b)) \in Seq(Positions)
      BY SuffixShape
    <2> QED
      BY <2>1
  <1>2. \/ s = new \/ s = old
        \/ \E n \in Nat : s = old \o SubSeq(new, n + 1, Len(new))
        \/ \E n \in Nat : s = new \o SubSeq(old, n + 1, Len(old))
    <2>1. \/ s = new
          \/ s = old /\ old # <<>> /\ newEnd <= oldEnd
             /\ Minus(oldEnd, Len(old)) <= Minus(newEnd, Len(new))
          \/ \E n \in Nat : /\ s = old \o SubSeq(new, n + 1, Len(new))
                            /\ Minus(newEnd, Len(new)) + n = oldEnd
                            /\ newEnd > oldEnd
                            /\ Minus(oldEnd, Len(old)) <= Minus(newEnd, Len(new))
          \/ \E n \in Nat : /\ s = new \o SubSeq(old, n + 1, Len(old))
                            /\ newEnd >= oldEnd => n >= Len(old)
      BY MergeCases, Zenon
    <2> QED
      BY <2>1, Zenon
  <1> QED
    <2> HIDE DEF s
    <2>1. s \in Seq(Positions)
      BY <1>1, <1>2, Zenon
    <2> QED
      BY <2>1 DEF s

\* A baseline that is no older than the screen: merged or put in its place, what
\* is shown rises and ends where the baseline ends.
LEMMA MergeOK ==
  ASSUME NEW old \in Seq(Positions), NEW oldEnd \in Nat,
         NEW new \in Seq(Positions), NEW newEnd \in Nat
  PROVE  LET s == Merge(old, oldEnd, new, newEnd)
         IN  /\ Rising(old) /\ oldEnd = IF old = <<>> THEN 0 ELSE Last(old)
             /\ Run(new) /\ new # <<>> /\ Last(new) = newEnd /\ newEnd >= oldEnd
             => Rising(s) /\ s # <<>> /\ Last(s) = newEnd
  <1> DEFINE oldStart == Minus(oldEnd, Len(old))
             newStart == Minus(newEnd, Len(new))
             s == Merge(old, oldEnd, new, newEnd)
  <1>8. \/ s = new
        \/ s = old /\ old # <<>> /\ newEnd <= oldEnd /\ oldStart <= newStart
        \/ \E n \in Nat : /\ s = old \o SubSeq(new, n + 1, Len(new))
                          /\ newStart + n = oldEnd
                          /\ newEnd > oldEnd /\ oldStart <= newStart
        \/ \E n \in Nat : /\ s = new \o SubSeq(old, n + 1, Len(old))
                          /\ newEnd >= oldEnd => n >= Len(old)
    BY MergeCases, Zenon
  <1> SUFFICES ASSUME Rising(old), oldEnd = IF old = <<>> THEN 0 ELSE Last(old),
                      Run(new), new # <<>>, Last(new) = newEnd, newEnd >= oldEnd
               PROVE  Rising(s) /\ s # <<>> /\ Last(s) = newEnd
    OBVIOUS
  <1>1. Len(old) \in Nat /\ Len(new) \in Nat
    BY PositionsCount
  <1>2. newStart \in Nat /\ newStart + Len(new) = newEnd
    BY <1>1, RunRises DEF Minus
  <1>3. Rising(new)
    BY RunRises
  <1> HIDE DEF s, newStart, oldStart
  <1>4. CASE s = new
    BY <1>3, <1>4 DEF s
  <1>5. CASE s = old /\ old # <<>> /\ newEnd <= oldEnd
    BY <1>5 DEF s
  <1>6. ASSUME NEW n \in Nat, s = old \o SubSeq(new, n + 1, Len(new)),
               newStart + n = oldEnd, newEnd > oldEnd
        PROVE  Rising(s) /\ s # <<>> /\ Last(s) = newEnd
    <2> DEFINE t == SubSeq(new, n + 1, Len(new))
    <2>1. n < Len(new)
      BY <1>1, <1>2, <1>6
    <2>2. /\ t \in Seq(Positions) /\ t # <<>> /\ Last(t) = newEnd /\ Rising(t)
          /\ t[1] + Len(new) = newEnd + (n + 1)
      BY <2>1, SuffixShape, SuffixRises
    <2> HIDE DEF t
    <2>3. t[1] \in Nat
      <3>1. Len(t) > 0 /\ Len(t) \in Nat
        BY <2>2, NonEmptyText, PositionsCount
      <3> QED
        BY <2>2, <3>1, PositionsCount
    <2>4. t[1] > oldEnd
      BY <1>1, <1>2, <1>6, <2>2, <2>3
    <2>5. s = old \o t
      BY <1>6 DEF t
    <2>6. old # <<>> /\ t # <<>> => Last(old) < t[1]
      BY <2>3, <2>4
    <2>7. Rising(old \o t) /\ old \o t # <<>> /\ Last(old \o t) = Last(t)
      BY <2>2, <2>6, JoinRising
    <2> QED
      BY <2>2, <2>5, <2>7
  <1>7. ASSUME NEW n \in Nat, s = new \o SubSeq(old, n + 1, Len(old)), n >= Len(old)
        PROVE  Rising(s) /\ s # <<>> /\ Last(s) = newEnd
    <2>1. SubSeq(old, n + 1, Len(old)) = <<>>
      BY <1>1, <1>7, SuffixShape
    <2>2. s = new \o <<>>
      BY <1>7, <2>1
    <2>3. new \o <<>> = new
      OBVIOUS
    <2> QED
      BY <1>3, <2>2, <2>3
  <1> QED
    <2>1. Rising(s) /\ s # <<>> /\ Last(s) = newEnd
      <3>1. CASE \E n \in Nat : /\ s = old \o SubSeq(new, n + 1, Len(new))
                                /\ newStart + n = oldEnd
                                /\ newEnd > oldEnd /\ oldStart <= newStart
        BY <1>6, <3>1, Zenon
      <3>2. CASE \E n \in Nat : /\ s = new \o SubSeq(old, n + 1, Len(old))
                                /\ newEnd >= oldEnd => n >= Len(old)
        BY <1>7, <3>2, Zenon
      <3> QED
        BY <1>4, <1>5, <1>8, <3>1, <3>2, Zenon
    <2> QED
      BY <2>1 DEF s

LEMMA AcceptBaselineOK ==
  ASSUME NEW p, NEW m, PaneOK(p), BaselineOK(m), history \in 0..MaxChars, outputSeq \in Nat
  PROVE  LET q == AcceptBaseline(p, m)
         IN  /\ PaneOK(q)
             /\ Sound(p) /\ m.end >= p.end => Sound(q) /\ q.end >= p.end
  <1> DEFINE q == AcceptBaseline(p, m)
             t == Merge(p.content, p.end, m.data, m.end)
  <1>1. /\ p.content \in Seq(Positions) /\ p.end \in 0..history /\ p.seq \in 0..outputSeq
        /\ m.end \in 0..history /\ m.seq \in 0..outputSeq
        /\ MaxChars \in Nat /\ history \in Nat /\ Cache \in Nat \ {0}
    BY OutputAssumption DEF PaneOK, BaselineOK
  <1>2. /\ m.data \in Seq(Positions) /\ Run(m.data)
        /\ m.data # <<>> => Last(m.data) = m.end
    BY <1>1, BaselineShape DEF BaselineOK
  <1>3. /\ q.content = IF m.data = <<>> THEN p.content ELSE Newest(t, Cache)
        /\ q.end = IF m.data = <<>> THEN p.end ELSE m.end
        /\ q.seq = m.seq
    BY DEF AcceptBaseline
  <1>4. t \in Seq(Positions)
    <2>1. p.end \in Nat /\ m.end \in Nat
      BY <1>1
    <2> QED
      BY <1>1, <1>2, <2>1, MergeType
  <1> HIDE DEF q
  <1>5. PaneOK(q)
    <2>1. q.content \in Seq(Positions)
      BY <1>1, <1>3, <1>4, NewestKeeps
    <2> QED
      BY <1>1, <1>3, <2>1 DEF PaneOK
  <1>6. ASSUME Sound(p), m.end >= p.end PROVE Sound(q) /\ q.end >= p.end
    <2>1. CASE m.data = <<>>
      BY <1>1, <1>3, <1>6, <2>1 DEF Sound
    <2>2. CASE m.data # <<>>
      <3>1. Rising(t) /\ t # <<>> /\ Last(t) = m.end
        BY <1>1, <1>2, <1>6, <2>2, MergeOK DEF Sound
      <3>2. /\ Rising(q.content) /\ q.content # <<>> /\ Last(q.content) = m.end
        BY <1>1, <1>3, <1>4, <2>2, <3>1, NewestKeeps
      <3> QED
        BY <1>1, <1>3, <1>6, <2>2, <3>2 DEF Sound
    <2> QED
      BY <2>1, <2>2
  <1> QED
    BY <1>5, <1>6 DEF q

\* What a pane shows is not taken back.
LEMMA PaneForward ==
  ASSUME NEW p, NEW q, PaneOK(p), PaneOK(q), Sound(p), Sound(q), p.end <= q.end,
         p.content # <<>>, history \in Nat
  PROVE  q.content # <<>> /\ Last(q.content) >= Last(p.content)
  <1>1. p.content \in Seq(Positions) /\ p.end \in Nat /\ q.end \in Nat
    BY DEF PaneOK
  <1>2. Len(p.content) \in Nat /\ Len(p.content) > 0
    BY <1>1, NonEmptyText, PositionsCount
  <1>3. p.end = Last(p.content) /\ p.end > 0
    BY <1>1, <1>2, PositionsCount DEF Sound, Last
  <1>4. q.content # <<>>
    BY <1>1, <1>3 DEF Sound
  <1>5. q.end = Last(q.content)
    BY <1>4 DEF Sound
  <1> QED
    BY <1>3, <1>4, <1>5

\* What a baseline and the batches held for it make of the pane.
LEMMA RestoredPane ==
  ASSUME CountersOK, PaneOK(pane), \A h \in held : LiveOK(h), NEW m, BaselineOK(m)
  PROVE  LET q == Replay(AcceptBaseline(pane, m), held)
         IN  /\ PaneOK(q)
             /\ Sound(pane) /\ HeldRuns /\ m.end >= pane.end => Sound(q) /\ q.end >= pane.end
  <1> DEFINE p == AcceptBaseline(pane, m)
             q == Replay(p, held)
  <1>1. history \in 0..MaxChars /\ history \in Nat /\ outputSeq \in Nat
    BY OutputAssumption DEF CountersOK
  <1>2. /\ PaneOK(p)
        /\ Sound(pane) /\ m.end >= pane.end => Sound(p) /\ p.end >= pane.end
    BY <1>1, AcceptBaselineOK
  <1> HIDE DEF p
  <1>3. /\ PaneOK(q) /\ q.end >= p.end
        /\ Sound(p) /\ HeldRuns => Sound(q)
    BY <1>1, <1>2, ReplayOK DEF HeldRuns
  <1> HIDE DEF q
  <1>4. pane.end \in Nat /\ p.end \in Nat /\ q.end \in Nat
    BY <1>2, <1>3 DEF PaneOK
  <1>5. PaneOK(q) /\ (Sound(pane) /\ HeldRuns /\ m.end >= pane.end => Sound(q) /\ q.end >= pane.end)
    BY <1>2, <1>3, <1>4
  <1> QED
    BY <1>5 DEF p, q

----------------------------------------------------------------------------
(* Types. *)

LEMMA InitOK == Init => IInv
  <1> SUFFICES ASSUME Init PROVE IInv
    OBVIOUS
  <1> USE OutputAssumption DEF Init
  <1>1. CountersOK
    BY DEF CountersOK
  <1>2. BatchOK /\ BatchRuns
    BY DEF BatchOK, BatchRuns, UpTo
  <1>3. FlushesOK /\ RepliesOK /\ FlushesRun /\ FreshReply
    BY DEF FlushesOK, RepliesOK, FlushesRun, FreshReply
  <1>4. WireOK /\ WireRuns /\ FreshBaseline
    BY DEF WireOK, WireRuns, FreshBaseline
  <1>5. HeldOK /\ HeldRuns
    BY FS_EmptySet DEF HeldOK, HeldRuns
  <1>6. PaneOK(pane)
    BY DEF PaneOK, Unordered
  <1>7. Sound(pane) /\ Waits
    BY DEF Sound, Rising, Waits, Unordered
  <1> QED
    BY <1>1, <1>2, <1>3, <1>4, <1>5, <1>6, <1>7 DEF IInv, TypeInv, OrderInv

Grows ==
    /\ TypeInv /\ CountersOK'
    /\ history <= history' /\ announced <= announced'
    /\ outputSeq <= outputSeq' /\ lastRequest <= lastRequest'

\* What does not change stays well typed: numbers only grow.
LEMMA MessagesKept ==
  ASSUME Grows, NEW m
  PROVE  (LiveOK(m) => LiveOK(m)') /\ (BaselineOK(m) => BaselineOK(m)')
  <1>1. /\ history \in Nat /\ history' \in Nat /\ history <= history'
        /\ outputSeq \in Nat /\ outputSeq' \in Nat /\ outputSeq <= outputSeq'
        /\ lastRequest \in Nat /\ lastRequest' \in Nat /\ lastRequest <= lastRequest'
    BY OutputAssumption DEF Grows, TypeInv, CountersOK
  <1>2. \A n : /\ n \in 0..history => n \in 0..history'
               /\ n \in 1..history => n \in 1..history'
               /\ n \in 0..outputSeq => n \in 0..outputSeq'
               /\ n \in 1..outputSeq => n \in 1..outputSeq'
               /\ n \in 1..lastRequest => n \in 1..lastRequest'
    BY <1>1
  <1> QED
    BY <1>2, Zenon DEF LiveOK, BaselineOK

LEMMA TypeKept ==
  ASSUME Grows
  PROVE  /\ batch' = batch => BatchOK'
         /\ flushes' \subseteq flushes => FlushesOK'
         /\ replies' \subseteq replies => RepliesOK'
         /\ wire' = wire => WireOK'
         /\ held' = held /\ awaiting' = awaiting => HeldOK'
         /\ held' = {} => HeldOK'
         /\ pane' = pane => PaneOK(pane)'
  <1>1. /\ history \in Nat /\ history' \in Nat /\ history <= history'
        /\ announced \in Nat /\ announced' \in Nat /\ announced <= announced'
        /\ outputSeq \in Nat /\ outputSeq' \in Nat /\ outputSeq <= outputSeq'
        /\ lastRequest \in Nat /\ lastRequest' \in Nat /\ lastRequest <= lastRequest'
    BY OutputAssumption DEF Grows, TypeInv, CountersOK
  <1>2. ASSUME NEW s \in Seq(Positions), UpTo(s, announced)
        PROVE  UpTo(s, announced')
    BY <1>1, <1>2, PositionsCount DEF UpTo
  <1>3. ASSUME batch' = batch PROVE BatchOK'
    BY <1>2, <1>3 DEF Grows, TypeInv, BatchOK
  <1>4. ASSUME flushes' \subseteq flushes PROVE FlushesOK'
    <2> SUFFICES ASSUME NEW f \in flushes'
                 PROVE  /\ f = [data |-> f.data, seq |-> f.seq]
                        /\ f.data \in Texts
                        /\ UpTo(f.data, announced')
                        /\ f.seq \in 0..outputSeq'
      BY DEF FlushesOK
    <2>1. /\ f = [data |-> f.data, seq |-> f.seq] /\ f.data \in Texts
          /\ UpTo(f.data, announced) /\ f.seq \in 0..outputSeq
      BY <1>4 DEF Grows, TypeInv, FlushesOK
    <2>2. f.data \in Seq(Positions)
      BY <2>1 DEF Texts
    <2> QED
      BY <1>1, <1>2, <2>1, <2>2
  <1>5. ASSUME replies' \subseteq replies PROVE RepliesOK'
    <2> SUFFICES ASSUME NEW r \in replies'
                 PROVE  /\ r = Reply(r.id, r.step, r.seq, r.end)
                        /\ r.id \in 1..lastRequest'
                        /\ r.step \in {"sequence", "snapshot", "send"}
                        /\ r.seq \in 0..outputSeq'
                        /\ r.end \in 0..history'
      BY DEF RepliesOK
    <2>1. /\ r = Reply(r.id, r.step, r.seq, r.end)
          /\ r.id \in 1..lastRequest
          /\ r.step \in {"sequence", "snapshot", "send"}
          /\ r.seq \in 0..outputSeq
          /\ r.end \in 0..history
      BY <1>5 DEF Grows, TypeInv, RepliesOK
    <2>2. r.id \in 1..lastRequest' /\ r.seq \in 0..outputSeq' /\ r.end \in 0..history'
      BY <1>1, <2>1
    <2> QED
      BY <2>1, <2>2
  <1>6. ASSUME wire' = wire PROVE WireOK'
    <2>1. /\ wire \in Seq(Envelopes)
          /\ \A i \in 1..Len(wire) : LiveOK(wire[i]) \/ BaselineOK(wire[i])
      BY DEF Grows, TypeInv, WireOK
    <2>2. \A m : (LiveOK(m) => LiveOK(m)') /\ (BaselineOK(m) => BaselineOK(m)')
      BY MessagesKept
    <2> QED
      BY <1>6, <2>1, <2>2 DEF WireOK, LiveOK, BaselineOK
  <1>7. ASSUME held' = held, awaiting' = awaiting PROVE HeldOK'
    <2>1. \A m : LiveOK(m) => LiveOK(m)'
      BY MessagesKept
    <2>2. HeldOK
      BY DEF Grows, TypeInv
    <2> QED
      BY <1>7, <2>1, <2>2, Zenon DEF HeldOK
  <1>8. ASSUME held' = {} PROVE HeldOK'
    BY <1>8, FS_EmptySet, OutputAssumption DEF HeldOK
  <1>9. ASSUME pane' = pane PROVE PaneOK(pane)'
    <2>1. PaneOK(pane)
      BY DEF Grows, TypeInv
    <2>2. pane.end \in 0..history' /\ pane.seq \in 0..outputSeq'
      BY <1>1, <2>1 DEF PaneOK
    <2> QED
      BY <1>9, <2>1, <2>2 DEF PaneOK
  <1> QED
    BY <1>3, <1>4, <1>5, <1>6, <1>7, <1>8, <1>9

Names == {"lost", "overtaken", "gaveUp", "overflow", "torn"}

\* A message is the last on its way, or is not on its way at all.
LEMMA SendKeeps ==
  ASSUME WireOK, NEW m, NEW happened, LiveOK(m) \/ BaselineOK(m), Send(m, happened),
         UNCHANGED <<history, outputSeq, lastRequest>>
  PROVE  /\ WireOK'
         /\ \A i \in 1..Len(wire') : wire'[i] = m \/ (i \in 1..Len(wire) /\ wire'[i] = wire[i])
         /\ mishaps \subseteq mishaps' /\ mishaps' \subseteq mishaps \cup happened \cup {"lost"}
  <1>1. wire \in Seq(Envelopes) /\ Len(wire) \in Nat /\ m \in Envelopes
    BY DEF WireOK, LiveOK, BaselineOK
  <1>2. wire' = wire \/ wire' = Append(wire, m)
    BY DEF Send
  <1>3. /\ wire' \in Seq(Envelopes)
        /\ \A i \in 1..Len(wire') : wire'[i] = m \/ (i \in 1..Len(wire) /\ wire'[i] = wire[i])
    BY <1>1, <1>2
  <1>4. \A i \in 1..Len(wire') : LiveOK(wire'[i]) \/ BaselineOK(wire'[i])
    BY <1>3 DEF WireOK
  <1>5. WireOK'
    BY <1>3, <1>4 DEF WireOK, LiveOK, BaselineOK
  <1>6. mishaps \subseteq mishaps' /\ mishaps' \subseteq mishaps \cup happened \cup {"lost"}
    BY DEF Send
  <1> QED
    BY <1>3, <1>5, <1>6

LEMMA CommitType == TypeInv /\ Commit => TypeInv'
  <1> SUFFICES ASSUME TypeInv, Commit PROVE TypeInv'
    OBVIOUS
  <1> USE DEF Commit, phoneVars
  <1>1. CountersOK'
    BY OutputAssumption DEF TypeInv, CountersOK
  <1>2. Grows
    BY <1>1, OutputAssumption DEF Grows, TypeInv, CountersOK
  <1> QED
    BY <1>1, <1>2, TypeKept DEF TypeInv

LEMMA AnnounceType == TypeInv /\ Announce => TypeInv'
  <1> SUFFICES ASSUME TypeInv, Announce PROVE TypeInv'
    OBVIOUS
  <1> USE DEF Announce, phoneVars
  <1>0. /\ history \in Nat /\ announced \in Nat /\ history \in Positions
        /\ announced' = history /\ announced <= history /\ batch \in Seq(Positions)
    BY OutputAssumption DEF TypeInv, CountersOK, BatchOK, Positions
  <1>1. CountersOK'
    BY OutputAssumption DEF TypeInv, CountersOK
  <1>2. Grows
    BY <1>1, <1>0 DEF Grows, TypeInv, CountersOK
  <1>3. BatchOK'
    <2>1. \A i \in 1..Len(batch) : batch[i] <= history /\ batch[i] \in Nat
      BY <1>0, PositionsCount DEF TypeInv, BatchOK, UpTo
    <2>2. Append(batch, history) \in Seq(Positions) /\ UpTo(Append(batch, history), history)
      BY <1>0, <2>1 DEF UpTo
    <2>3. UpTo(batch, history)
      BY <2>1 DEF UpTo
    <2> QED
      BY <1>0, <2>2, <2>3 DEF BatchOK
  <1> QED
    BY <1>1, <1>2, <1>3, TypeKept DEF TypeInv

LEMMA TakeBatchType == TypeInv /\ TakeBatch => TypeInv'
  <1> SUFFICES ASSUME TypeInv, TakeBatch PROVE TypeInv'
    OBVIOUS
  <1> USE DEF TakeBatch, phoneVars
  <1>1. CountersOK'
    BY DEF TypeInv, CountersOK
  <1>2. Grows
    BY <1>1, OutputAssumption DEF Grows, TypeInv, CountersOK
  <1>3. BatchOK'
    BY DEF BatchOK, UpTo
  <1>4. FlushesOK'
    <2> DEFINE g == [data |-> batch, seq |-> 0]
    <2>1. g = [data |-> g.data, seq |-> g.seq] /\ g.data \in Texts
          /\ UpTo(g.data, announced) /\ g.seq \in 0..outputSeq
      BY DEF TypeInv, BatchOK, Texts, CountersOK
    <2> HIDE DEF g
    <2>2. flushes' = flushes \cup {g} /\ announced' = announced /\ outputSeq' = outputSeq
      BY DEF g
    <2> QED
      BY <2>1, <2>2 DEF FlushesOK, TypeInv
  <1> QED
    BY <1>1, <1>2, <1>3, <1>4, TypeKept DEF TypeInv

LEMMA NumberBatchType ==
  ASSUME TypeInv, NEW f \in flushes, NumberBatch(f)
  PROVE  TypeInv'
  <1> USE DEF NumberBatch, phoneVars
  <1>0. outputSeq \in Nat /\ outputSeq' = outputSeq + 1
    BY DEF TypeInv, CountersOK
  <1>1. CountersOK'
    BY DEF TypeInv, CountersOK, Overtaking
  <1>2. Grows
    BY <1>0, <1>1, OutputAssumption DEF Grows, TypeInv, CountersOK
  <1>3. FlushesOK'
    <2> DEFINE g == [data |-> f.data, seq |-> outputSeq']
    <2>1. g = [data |-> g.data, seq |-> g.seq] /\ g.data \in Texts
          /\ UpTo(g.data, announced) /\ g.seq \in 0..outputSeq'
      BY <1>0 DEF TypeInv, FlushesOK
    <2>2. \A h \in flushes : h.seq \in 0..outputSeq'
      BY <1>0 DEF TypeInv, FlushesOK
    <2> HIDE DEF g
    <2>3. flushes' = (flushes \ {f}) \cup {g} /\ announced' = announced
      BY DEF g
    <2> QED
      BY <2>1, <2>2, <2>3 DEF FlushesOK, TypeInv
  <1> QED
    BY <1>1, <1>2, <1>3, TypeKept DEF TypeInv

\* What a flush sends is a live batch.
LEMMA FlushIsLive ==
  ASSUME TypeInv, NEW f \in flushes, f.seq > 0
  PROVE  LiveOK(Live(f.data, f.seq))
  <1>1. /\ f.data \in Texts /\ UpTo(f.data, announced) /\ f.seq \in 1..outputSeq
        /\ announced \in Nat /\ history \in Nat /\ announced <= history /\ outputSeq \in Nat
    BY OutputAssumption DEF TypeInv, FlushesOK, CountersOK
  <1>2. f.data \in Seq(Positions) /\ Len(f.data) \in Nat /\ Len(f.data) > 0
    BY <1>1, NonEmptyText, PositionsCount DEF Texts
  <1>3. f.data[Len(f.data)] \in Nat \ {0} /\ f.data[Len(f.data)] <= announced
    BY <1>1, <1>2, PositionsCount DEF UpTo
  <1>4. Last(f.data) \in 1..history
    BY <1>1, <1>3 DEF Last
  <1>5. f.seq \in Nat /\ Last(f.data) \in Nat
    BY <1>1, <1>4
  <1> QED
    BY <1>1, <1>2, <1>4, <1>5 DEF LiveOK, Live, Envelopes

LEMMA SendBatchType ==
  ASSUME TypeInv, NEW f \in flushes, SendBatch(f)
  PROVE  TypeInv'
  <1> USE DEF SendBatch, phoneVars
  <1>1. LiveOK(Live(f.data, f.seq))
    BY FlushIsLive
  <1>2. WireOK' /\ mishaps' \subseteq mishaps \cup Overtaking(f, flushes) \cup {"lost"}
    <2>1. Send(Live(f.data, f.seq), Overtaking(f, flushes))
          /\ UNCHANGED <<history, outputSeq, lastRequest>> /\ WireOK
      BY DEF TypeInv
    <2> QED
      BY <1>1, <2>1, SendKeeps
  <1>3. CountersOK'
    BY <1>2 DEF TypeInv, CountersOK, Overtaking
  <1>4. Grows
    BY <1>3, OutputAssumption DEF Grows, TypeInv, CountersOK
  <1> QED
    BY <1>2, <1>3, <1>4, TypeKept DEF TypeInv

LEMMA SubscribeType ==
  ASSUME TypeInv, NEW id \in asks, Subscribe(id)
  PROVE  TypeInv'
  <1> USE DEF Subscribe, phoneVars
  <1>1. CountersOK'
    BY DEF TypeInv, CountersOK
  <1>2. Grows
    BY <1>1, OutputAssumption DEF Grows, TypeInv, CountersOK
  <1>3. RepliesOK'
    <2> DEFINE s == Reply(id, "sequence", 0, 0)
    <2>1. id # 0 => id \in 1..lastRequest
      BY DEF TypeInv, CountersOK
    <2>2. id # 0 => /\ s = Reply(s.id, s.step, s.seq, s.end)
                    /\ s.id \in 1..lastRequest
                    /\ s.step \in {"sequence", "snapshot", "send"}
                    /\ s.seq \in 0..outputSeq
                    /\ s.end \in 0..history
      BY <2>1, OutputAssumption DEF Reply, TypeInv, CountersOK
    <2>3. replies' \subseteq replies \cup (IF id = 0 THEN {} ELSE {s})
      OBVIOUS
    <2> HIDE DEF s
    <2> QED
      BY <2>2, <2>3 DEF RepliesOK, TypeInv
  <1> QED
    BY <1>1, <1>2, <1>3, TypeKept DEF TypeInv

LEMMA PrepareType ==
  ASSUME TypeInv, NEW r \in replies, Prepare(r)
  PROVE  TypeInv'
  <1> USE DEF Prepare, phoneVars
  <1>1. CountersOK'
    BY DEF TypeInv, CountersOK
  <1>2. Grows
    BY <1>1, OutputAssumption DEF Grows, TypeInv, CountersOK
  <1>3. RepliesOK'
    <2>1. /\ r.id \in 1..lastRequest /\ r.seq \in 0..outputSeq /\ r.end \in 0..history
          /\ history \in 0..history /\ outputSeq \in 0..outputSeq
      BY OutputAssumption DEF TypeInv, RepliesOK, CountersOK
    <2>2. PICK s : /\ replies' = (replies \ {r}) \cup {s}
                   /\ \/ s = Reply(r.id, "snapshot", outputSeq, r.end)
                      \/ s = Reply(r.id, "send", r.seq, history)
      BY DEF ReadBaseline
    <2>3. /\ s = Reply(s.id, s.step, s.seq, s.end)
          /\ s.id \in 1..lastRequest
          /\ s.step \in {"sequence", "snapshot", "send"}
          /\ s.seq \in 0..outputSeq
          /\ s.end \in 0..history
      BY <2>1, <2>2 DEF Reply
    <2> QED
      BY <2>2, <2>3 DEF RepliesOK, TypeInv
  <1> QED
    BY <1>1, <1>2, <1>3, TypeKept DEF TypeInv

\* What a request is answered with is a baseline.
LEMMA AnswerIsBaseline ==
  ASSUME TypeInv, NEW r \in replies
  PROVE  BaselineOK(Baseline(r))
  <1>1. /\ r.id \in 1..lastRequest /\ r.seq \in 0..outputSeq /\ r.end \in 0..history
        /\ history \in 0..MaxChars /\ lastRequest \in Nat /\ outputSeq \in Nat
    BY DEF TypeInv, RepliesOK, CountersOK
  <1>2. r.end \in 0..MaxChars /\ r.id \in Nat /\ r.seq \in Nat /\ r.end \in Nat
    BY <1>1, OutputAssumption
  <1>3. Newest(Printed(0, r.end), Window) \in Seq(Positions)
    BY <1>2, BaselineShape
  <1> QED
    BY <1>1, <1>2, <1>3 DEF BaselineOK, Baseline, Envelopes

LEMMA AnswerType ==
  ASSUME TypeInv, NEW r \in replies, Answer(r)
  PROVE  TypeInv'
  <1> USE DEF Answer, phoneVars
  <1>1. BaselineOK(Baseline(r))
    BY AnswerIsBaseline
  <1>2. WireOK' /\ mishaps' \subseteq mishaps \cup {} \cup {"lost"}
    <2>1. Send(Baseline(r), {}) /\ UNCHANGED <<history, outputSeq, lastRequest>> /\ WireOK
      BY DEF TypeInv
    <2> QED
      BY <1>1, <2>1, SendKeeps
  <1>3. CountersOK'
    BY <1>2 DEF TypeInv, CountersOK
  <1>4. Grows
    BY <1>3, OutputAssumption DEF Grows, TypeInv, CountersOK
  <1> QED
    BY <1>2, <1>3, <1>4, TypeKept DEF TypeInv

LEMMA RequestCounts ==
  ASSUME CountersOK, Request
  PROVE  /\ lastRequest' = lastRequest + 1 /\ lastRequest' \in Nat /\ lastRequest <= lastRequest'
         /\ request' \in 0..lastRequest' /\ asks' \subseteq 0..lastRequest'
         /\ held' = {} /\ awaiting' = TRUE /\ request' = lastRequest'
  BY DEF CountersOK, Request

\* The phone's own record, and nothing of the host's, changes.
PhoneOnly ==
    /\ UNCHANGED hostVars
    /\ lastRequest' \in Nat /\ lastRequest <= lastRequest'
    /\ request' \in 0..lastRequest' /\ asks' \subseteq 0..lastRequest'
    /\ link' \in {"gone", "back", "bound"}
    /\ mishaps' \subseteq Names

LEMMA PhoneGrows ==
  ASSUME TypeInv, PhoneOnly
  PROVE  Grows
  <1>1. CountersOK'
    BY DEF TypeInv, CountersOK, PhoneOnly, Names, hostVars
  <1> QED
    BY <1>1, OutputAssumption DEF Grows, TypeInv, CountersOK, PhoneOnly, hostVars

LEMMA PhoneOnlyType ==
  ASSUME TypeInv, PhoneOnly, WireOK', HeldOK', PaneOK(pane)'
  PROVE  TypeInv'
  <1>1. Grows
    BY PhoneGrows
  <1>2. BatchOK' /\ FlushesOK' /\ RepliesOK'
    BY <1>1, TypeKept DEF PhoneOnly, hostVars
  <1> QED
    BY <1>1, <1>2 DEF TypeInv, Grows

LEMMA RefreshType == TypeInv /\ Refresh => TypeInv'
  <1> SUFFICES ASSUME TypeInv, Refresh PROVE TypeInv'
    OBVIOUS
  <1>1. PhoneOnly
    BY RequestCounts DEF PhoneOnly, Refresh, TypeInv, CountersOK, Names
  <1>2. held' = {}
    BY DEF Refresh, Request
  <1>3. WireOK' /\ HeldOK' /\ PaneOK(pane)'
    BY <1>1, <1>2, PhoneGrows, TypeKept DEF Refresh
  <1> QED
    BY <1>1, <1>3, PhoneOnlyType

LEMMA GiveUpType == TypeInv /\ GiveUp => TypeInv'
  <1> SUFFICES ASSUME TypeInv, GiveUp PROVE TypeInv'
    OBVIOUS
  <1>1. PhoneOnly
    BY DEF PhoneOnly, GiveUp, TypeInv, CountersOK, Names
  <1>2. WireOK' /\ HeldOK'
    BY <1>1, PhoneGrows, TypeKept DEF GiveUp
  <1>3. PaneOK(pane)'
    BY OutputAssumption DEF GiveUp, TypeInv, CountersOK, PaneOK, Unordered, hostVars
  <1> QED
    BY <1>1, <1>2, <1>3, PhoneOnlyType

LEMMA DisconnectType == TypeInv /\ Disconnect => TypeInv'
  <1> SUFFICES ASSUME TypeInv, Disconnect PROVE TypeInv'
    OBVIOUS
  <1>1. PhoneOnly
    BY DEF PhoneOnly, Disconnect, TypeInv, CountersOK, Names
  <1>2. HeldOK' /\ PaneOK(pane)'
    BY <1>1, PhoneGrows, TypeKept DEF Disconnect
  <1>3. WireOK'
    BY DEF Disconnect, WireOK
  <1> QED
    BY <1>1, <1>2, <1>3, PhoneOnlyType

LEMMA ForgetType == TypeInv /\ Forget => TypeInv'
  <1> SUFFICES ASSUME TypeInv, Forget PROVE TypeInv'
    OBVIOUS
  <1> USE DEF Forget, phoneVars
  <1>1. CountersOK'
    BY DEF TypeInv, CountersOK
  <1>2. Grows
    BY <1>1, OutputAssumption DEF Grows, TypeInv, CountersOK
  <1> QED
    BY <1>1, <1>2, TypeKept DEF TypeInv

LEMMA ReconnectType == TypeInv /\ Reconnect => TypeInv'
  <1> SUFFICES ASSUME TypeInv, Reconnect PROVE TypeInv'
    OBVIOUS
  <1>1. PhoneOnly
    BY DEF PhoneOnly, Reconnect, TypeInv, CountersOK, Names
  <1>2. WireOK' /\ HeldOK' /\ PaneOK(pane)'
    BY <1>1, PhoneGrows, TypeKept DEF Reconnect
  <1> QED
    BY <1>1, <1>2, PhoneOnlyType

LEMMA ResubscribeType == TypeInv /\ Resubscribe => TypeInv'
  <1> SUFFICES ASSUME TypeInv, Resubscribe PROVE TypeInv'
    OBVIOUS
  <1>1. UNCHANGED hostVars /\ link' = "bound" /\ wire' = wire /\ mishaps' = mishaps
    BY DEF Resubscribe
  <1>2. CASE request = 0
    <2>1. Request /\ pane' = Unordered(pane.content, pane.end)
      BY <1>2 DEF Resubscribe
    <2>2. PhoneOnly
      BY <1>1, <2>1, RequestCounts DEF PhoneOnly, TypeInv, CountersOK, Names
    <2>3. WireOK' /\ HeldOK'
      BY <1>1, <2>1, <2>2, PhoneGrows, TypeKept DEF Request
    <2>4. PaneOK(pane)'
      BY <1>1, <2>1 DEF TypeInv, CountersOK, PaneOK, Unordered, hostVars
    <2> QED
      BY <2>2, <2>3, <2>4, PhoneOnlyType
  <1>3. CASE request # 0
    <2>1. asks' = asks \cup {0} /\ UNCHANGED <<pane, awaiting, held, request, lastRequest>>
      BY <1>3 DEF Resubscribe
    <2>2. PhoneOnly
      BY <1>1, <2>1 DEF PhoneOnly, TypeInv, CountersOK, Names
    <2>3. WireOK' /\ HeldOK' /\ PaneOK(pane)'
      BY <1>1, <2>1, <2>2, PhoneGrows, TypeKept
    <2> QED
      BY <2>2, <2>3, PhoneOnlyType
  <1> QED
    BY <1>2, <1>3

\* The message received is a batch or a baseline; the others stay.
LEMMA HeadIsMessage ==
  ASSUME WireOK, wire # <<>>
  PROVE  /\ LiveOK(Head(wire)) \/ BaselineOK(Head(wire))
         /\ Len(wire) \in Nat \ {0} /\ Head(wire) = wire[1]
         /\ Tail(wire) \in Seq(Envelopes)
         /\ \A i \in 1..Len(Tail(wire)) : i + 1 \in 1..Len(wire) /\ Tail(wire)[i] = wire[i + 1]
  <1>1. wire \in Seq(Envelopes)
    BY DEF WireOK
  <1>2. /\ Len(wire) \in Nat \ {0} /\ Head(wire) = wire[1]
        /\ Tail(wire) \in Seq(Envelopes)
        /\ \A i \in 1..Len(Tail(wire)) : i + 1 \in 1..Len(wire) /\ Tail(wire)[i] = wire[i + 1]
    BY <1>1
  <1> QED
    BY <1>2 DEF WireOK

\* Among the held batches there is an oldest, and without it there is room.
LEMMA HeldNewestOK ==
  ASSUME HeldOK, CountersOK, NEW m, LiveOK(m)
  PROVE  /\ HeldNewest(m) \subseteq held \cup {m}
         /\ IsFiniteSet(HeldNewest(m))
         /\ Cardinality(HeldNewest(m)) <= MaxHeld
  <1> DEFINE all == HeldWith(m)
             oldest == CHOOSE h \in all : \A g \in all : h.seq <= g.seq
  <1>1. MaxHeld \in Nat /\ outputSeq \in Nat
    BY OutputAssumption DEF CountersOK
  <1>2. IsFiniteSet(held) /\ Cardinality(held) \in Nat /\ Cardinality(held) <= MaxHeld
    BY FS_CardinalityType DEF HeldOK
  <1>3. /\ all \subseteq held \cup {m} /\ IsFiniteSet(all)
        /\ Cardinality(all) \in Nat /\ Cardinality(all) <= MaxHeld + 1
    <2>1. /\ IsFiniteSet(held \cup {m})
          /\ Cardinality(held \cup {m}) = IF m \in held THEN Cardinality(held) ELSE Cardinality(held) + 1
      BY <1>2, FS_AddElement
    <2>2. all = held \/ all = held \cup {m}
      BY DEF HeldWith
    <2> QED
      BY <1>1, <1>2, <2>1, <2>2
  <1>4. \A h \in all : h.seq \in Nat
    BY <1>1, <1>3 DEF HeldOK, LiveOK
  <1>5. HeldNewest(m) = IF Cardinality(all) > MaxHeld THEN all \ {oldest} ELSE all
    BY DEF HeldNewest
  <1> HIDE DEF all
  <1>6. CASE Cardinality(all) > MaxHeld
    <2>1. all # {}
      <3>1. Cardinality({}) = 0
        BY FS_EmptySet
      <3> QED
        BY <1>1, <1>3, <1>6, <3>1
    <2>2. \E h \in all : \A g \in all : h.seq <= g.seq
      <3> DEFINE T == {h.seq : h \in all}
      <3>1. T \in SUBSET Nat /\ T # {}
        BY <1>4, <2>1
      <3>2. PICK n \in T : \A k \in T : n <= k
        BY <3>1, LeastElement
      <3>3. PICK h \in all : h.seq = n
        BY <3>2
      <3> QED
        BY <3>2, <3>3
    <2>3. oldest \in all
      BY <2>2
    <2> HIDE DEF oldest
    <2>4. IsFiniteSet(all \ {oldest}) /\ Cardinality(all \ {oldest}) = Cardinality(all) - 1
      BY <1>3, <2>3, FS_RemoveElement
    <2> QED
      BY <1>1, <1>3, <1>5, <1>6, <2>4
  <1>7. CASE ~(Cardinality(all) > MaxHeld)
    BY <1>1, <1>3, <1>5, <1>7
  <1> QED
    BY <1>6, <1>7

LEMMA ReceiveType == TypeInv /\ Receive => TypeInv'
  <1> SUFFICES ASSUME TypeInv, Receive PROVE TypeInv'
    OBVIOUS
  <1> DEFINE m == Head(wire)
  <1>0. /\ wire # <<>> /\ wire' = Tail(wire) /\ UNCHANGED hostVars /\ link' = link
        /\ IF m.kind = "live" THEN Hold(m) \/ Show(m) ELSE Restore(m) \/ Ignore(m)
    BY DEF Receive
  <1>1. /\ LiveOK(m) \/ BaselineOK(m)
        /\ Tail(wire) \in Seq(Envelopes)
        /\ \A i \in 1..Len(Tail(wire)) : i + 1 \in 1..Len(wire) /\ Tail(wire)[i] = wire[i + 1]
    BY <1>0, HeadIsMessage DEF TypeInv
  <1> HIDE DEF m
  <1>2. /\ CountersOK /\ WireOK /\ HeldOK /\ PaneOK(pane)
        /\ history \in Nat /\ outputSeq \in Nat /\ history' = history /\ outputSeq' = outputSeq
        /\ lastRequest \in Nat /\ request \in 0..lastRequest /\ asks \subseteq 0..lastRequest
        /\ mishaps \subseteq Names /\ link \in {"gone", "back", "bound"}
    BY <1>0, OutputAssumption DEF TypeInv, CountersOK, hostVars, Names
  <1>w. ASSUME PhoneOnly PROVE WireOK'
    <2>1. \A i \in 1..Len(Tail(wire)) : LiveOK(Tail(wire)[i]) \/ BaselineOK(Tail(wire)[i])
      BY <1>1, <1>2 DEF WireOK
    <2>2. \A n : (LiveOK(n) => LiveOK(n)') /\ (BaselineOK(n) => BaselineOK(n)')
      BY <1>w, PhoneGrows, MessagesKept
    <2> QED
      BY <1>0, <1>1, <2>1, <2>2 DEF WireOK, LiveOK, BaselineOK
  <1>3. CASE Hold(m) /\ m.kind = "live"
    <2>1. /\ awaiting /\ awaiting' = awaiting /\ held' = HeldNewest(m)
          /\ mishaps' \subseteq mishaps \cup {"overflow"}
          /\ UNCHANGED <<pane, request, lastRequest, asks>>
      BY <1>3 DEF Hold
    <2>2. PhoneOnly
      BY <1>0, <1>2, <2>1 DEF PhoneOnly, Names
    <2>3. PaneOK(pane)'
      BY <2>1, <2>2, PhoneGrows, TypeKept
    <2>4. LiveOK(m)
      BY <1>1, <1>3 DEF BaselineOK
    <2>5. HeldOK'
      <3>1. /\ held' \subseteq held \cup {m} /\ IsFiniteSet(held')
            /\ Cardinality(held') <= MaxHeld /\ awaiting'
        BY <1>2, <2>1, <2>4, HeldNewestOK
      <3>2. \A h \in held' : LiveOK(h)
        BY <1>2, <2>4, <3>1 DEF HeldOK
      <3> QED
        BY <1>2, <3>1, <3>2 DEF HeldOK, LiveOK
    <2> QED
      BY <1>w, <2>2, <2>3, <2>5, PhoneOnlyType
  <1>4. CASE Show(m) /\ m.kind = "live"
    <2>0. LiveOK(m)
      BY <1>1, <1>4 DEF BaselineOK
    <2>1. pane' = AcceptLive(pane, m) /\ mishaps' = mishaps
      BY <1>4 DEF Show
    <2>2. PaneOK(pane)'
      <3>1. PaneOK(AcceptLive(pane, m))
        BY <1>2, <2>0, AcceptLiveOK
      <3> QED
        BY <1>2, <2>1, <3>1 DEF PaneOK
    <2>3. Request \/ UNCHANGED <<awaiting, held, request, lastRequest, asks>>
      BY <1>4 DEF Show
    <2>4. PhoneOnly
      <3>1. CASE Request
        BY <1>0, <1>2, <2>1, <3>1, RequestCounts DEF PhoneOnly
      <3>2. CASE UNCHANGED <<awaiting, held, request, lastRequest, asks>>
        BY <1>0, <1>2, <2>1, <3>2 DEF PhoneOnly
      <3> QED
        BY <2>3, <3>1, <3>2
    <2>5. HeldOK'
      BY <2>3, <2>4, PhoneGrows, TypeKept DEF Request
    <2> QED
      BY <1>w, <2>2, <2>4, <2>5, PhoneOnlyType
  <1>5. CASE Restore(m) /\ m.kind # "live"
    <2>0. BaselineOK(m) /\ \A h \in held : LiveOK(h)
      BY <1>1, <1>2, <1>5 DEF LiveOK, HeldOK
    <2>1. pane' = Replay(AcceptBaseline(pane, m), held) /\ mishaps' = mishaps
      BY <1>5 DEF Restore
    <2>2. PaneOK(pane)'
      <3>1. PaneOK(Replay(AcceptBaseline(pane, m), held))
        BY <1>2, <2>0, RestoredPane
      <3> QED
        BY <1>2, <2>1, <3>1 DEF PaneOK
    <2>3. Request \/ (request' = 0 /\ held' = {} /\ lastRequest' = lastRequest /\ asks' = asks)
      BY <1>5, Zenon DEF Restore
    <2>4. PhoneOnly
      <3>1. CASE Request
        BY <1>0, <1>2, <2>1, <3>1, RequestCounts DEF PhoneOnly
      <3>2. CASE request' = 0 /\ lastRequest' = lastRequest /\ asks' = asks
        BY <1>0, <1>2, <2>1, <3>2 DEF PhoneOnly
      <3> QED
        BY <2>3, <3>1, <3>2
    <2>5. HeldOK'
      BY <2>3, <2>4, PhoneGrows, TypeKept DEF Request
    <2> QED
      BY <1>w, <2>2, <2>4, <2>5, PhoneOnlyType
  <1>6. CASE Ignore(m)
    <2>1. UNCHANGED <<pane, awaiting, held, request, lastRequest, asks, mishaps>>
      BY <1>6 DEF Ignore
    <2>2. PhoneOnly
      BY <1>0, <1>2, <2>1 DEF PhoneOnly
    <2>3. HeldOK' /\ PaneOK(pane)'
      BY <2>1, <2>2, PhoneGrows, TypeKept
    <2> QED
      BY <1>w, <2>2, <2>3, PhoneOnlyType
  <1> QED
    BY <1>0, <1>3, <1>4, <1>5, <1>6

LEMMA NextType == TypeInv /\ [Next]_vars => TypeInv'
  <1> SUFFICES ASSUME TypeInv, [Next]_vars PROVE TypeInv'
    OBVIOUS
  <1>1. CASE HostStep
    BY <1>1, CommitType, AnnounceType, TakeBatchType, NumberBatchType, SendBatchType,
       SubscribeType, PrepareType, AnswerType, ForgetType DEF HostStep
  <1>2. CASE PhoneStep
    BY <1>2, ReceiveType, RefreshType, GiveUpType, DisconnectType, ReconnectType,
       ResubscribeType DEF PhoneStep
  <1>3. CASE UNCHANGED vars
    <2>1. CountersOK'
      BY <1>3 DEF TypeInv, CountersOK, vars, hostVars, phoneVars
    <2>2. Grows
      BY <1>3, <2>1, OutputAssumption DEF Grows, TypeInv, CountersOK, vars, hostVars, phoneVars
    <2> QED
      BY <1>3, <2>1, <2>2, TypeKept DEF TypeInv, vars, hostVars, phoneVars
  <1> QED
    BY <1>1, <1>2, <1>3 DEF Next

----------------------------------------------------------------------------
(* The order. *)

\* What has happened has happened.
LEMMA MishapsStay == TypeInv /\ [Next]_vars => mishaps \subseteq mishaps'
  <1> SUFFICES ASSUME TypeInv, [Next]_vars PROVE mishaps \subseteq mishaps'
    OBVIOUS
  <1>1. ASSUME NEW m, NEW h, Send(m, h) PROVE mishaps \subseteq mishaps'
    BY <1>1 DEF Send
  <1>2. CASE HostStep
    BY <1>1, <1>2 DEF HostStep, Commit, Announce, TakeBatch, NumberBatch, SendBatch,
       Subscribe, Prepare, Answer, Forget, phoneVars
  <1>3. CASE Receive
    BY <1>3 DEF Receive, Hold, Show, Restore, Ignore
  <1>4. CASE Refresh \/ GiveUp \/ Disconnect \/ Reconnect \/ Resubscribe
    BY <1>4 DEF Refresh, GiveUp, Disconnect, Reconnect, Resubscribe
  <1>5. CASE UNCHANGED vars
    BY <1>5 DEF vars
  <1> QED
    BY <1>2, <1>3, <1>4, <1>5 DEF Next, PhoneStep

LEMMA OrderKept ==
  ASSUME OrderInv
  PROVE  /\ batch' = batch /\ viewer' = viewer /\ announced' = announced => BatchRuns'
         /\ flushes' \subseteq flushes => FlushesRun'
         /\ wire' = wire => WireRuns'
         /\ held' \subseteq held => HeldRuns'
         /\ pane' = pane => Sound(pane)'
         /\ request' = request /\ awaiting' = awaiting => Waits'
         /\ replies' \subseteq replies /\ request' = request /\ pane' = pane => FreshReply'
         /\ wire' = wire /\ request' = request /\ pane' = pane => FreshBaseline'
         /\ request' = 0 => FreshReply' /\ FreshBaseline'
  <1>1. /\ BatchRuns /\ FlushesRun /\ WireRuns /\ HeldRuns /\ Sound(pane) /\ Waits
        /\ FreshReply /\ FreshBaseline
    BY DEF OrderInv
  <1>2. batch' = batch /\ viewer' = viewer /\ announced' = announced => BatchRuns'
    BY <1>1 DEF BatchRuns
  <1>3. flushes' \subseteq flushes => FlushesRun'
    BY <1>1 DEF FlushesRun
  <1>4. wire' = wire => WireRuns'
    BY <1>1 DEF WireRuns
  <1>5. held' \subseteq held => HeldRuns'
    BY <1>1 DEF HeldRuns
  <1>6. pane' = pane => Sound(pane)'
    BY <1>1 DEF Sound
  <1>7. request' = request /\ awaiting' = awaiting => Waits'
    BY <1>1 DEF Waits
  <1>8. replies' \subseteq replies /\ request' = request /\ pane' = pane => FreshReply'
    BY <1>1 DEF FreshReply
  <1>9. wire' = wire /\ request' = request /\ pane' = pane => FreshBaseline'
    BY <1>1 DEF FreshBaseline
  <1>10. request' = 0 => FreshReply' /\ FreshBaseline'
    BY DEF FreshReply, FreshBaseline
  <1> QED
    BY <1>2, <1>3, <1>4, <1>5, <1>6, <1>7, <1>8, <1>9, <1>10

\* Nothing on its way answers a request that is just made.
LEMMA RequestIsNew ==
  ASSUME TypeInv, Request, replies' = replies,
         \A i \in 1..Len(wire') : \E j \in 1..Len(wire) : wire'[i] = wire[j]
  PROVE  Waits' /\ FreshReply' /\ FreshBaseline' /\ held' = {}
  <1>1. lastRequest \in Nat /\ request' = lastRequest + 1 /\ awaiting' = TRUE /\ held' = {}
    BY DEF TypeInv, CountersOK, Request
  <1>2. Waits'
    BY <1>1 DEF Waits
  <1>3. \A r \in replies : r.id # request'
    BY <1>1 DEF TypeInv, RepliesOK
  <1>4. \A j \in 1..Len(wire) : wire[j].kind = "baseline" => wire[j].id # request'
    BY <1>1 DEF TypeInv, WireOK, LiveOK, BaselineOK
  <1>5. FreshReply'
    BY <1>3 DEF FreshReply
  <1>6. FreshBaseline'
    BY <1>4 DEF FreshBaseline
  <1> QED
    BY <1>1, <1>2, <1>5, <1>6

\* A stretch of output grows by the next character.
LEMMA RunGrows ==
  ASSUME NEW s \in Seq(Positions), NEW n \in Nat, NEW h \in Positions, h = n + 1,
         s # <<>> => Run(s) /\ Last(s) = n
  PROVE  /\ Append(s, h) # <<>>
         /\ Run(Append(s, h))
         /\ Last(Append(s, h)) = h
  <1> DEFINE b == Append(s, h)
  <1>1. Len(s) \in Nat /\ \A i \in 1..Len(s) : s[i] \in Nat
    BY PositionsCount
  <1>2. /\ b \in Seq(Positions) /\ Len(b) = Len(s) + 1 /\ b[Len(b)] = h
        /\ \A i \in 1..Len(s) : b[i] = s[i]
    OBVIOUS
  <1>3. Last(b) = h
    BY <1>2 DEF Last
  <1> HIDE DEF b
  <1>4. ASSUME NEW i \in 1..Len(b) PROVE b[i] + Len(b) = h + i
    <2>1. CASE i = Len(b)
      BY <1>1, <1>2, <2>1
    <2>2. CASE i # Len(b)
      <3>1. i \in 1..Len(s) /\ s # <<>>
        BY <1>1, <1>2, <2>2, NonEmptyText
      <3>2. s[i] + Len(s) = n + i /\ s[i] \in Nat /\ i \in Nat
        BY <1>1, <3>1 DEF Run
      <3>4. \A x, y \in Nat : x + y = n + i => x + (y + 1) = (n + 1) + i
        BY <3>2
      <3>3. s[i] + (Len(s) + 1) = h + i
        BY <1>1, <3>2, <3>4, Zenon
      <3> QED
        BY <1>2, <3>1, <3>3
    <2> QED
      BY <2>1, <2>2
  <1>5. b # <<>>
    BY <1>1, <1>2, NonEmptyText
  <1>6. Run(b)
    BY <1>3, <1>4 DEF Run
  <1> QED
    BY <1>3, <1>5, <1>6 DEF b

LEMMA AnnounceOrder == TypeInv /\ OrderInv /\ Announce => OrderInv'
  <1> SUFFICES ASSUME TypeInv, OrderInv, Announce PROVE OrderInv'
    OBVIOUS
  <1> USE DEF Announce, phoneVars
  <1>1. /\ history \in Nat /\ announced \in Nat /\ history \in Positions
        /\ history = announced + 1 /\ announced' = history /\ viewer' = viewer
        /\ batch' = IF viewer THEN Append(batch, history) ELSE batch
    BY OutputAssumption DEF TypeInv, CountersOK, Positions
  <1>2. batch \in Seq(Positions) /\ (batch # <<>> => Run(batch) /\ (viewer => Last(batch) = announced))
    BY DEF TypeInv, BatchOK, OrderInv, BatchRuns
  <1>3. BatchRuns'
    <2>1. CASE viewer
      <3>1. batch' # <<>> /\ Run(batch') /\ Last(batch') = history
        BY <1>1, <1>2, <2>1, RunGrows
      <3> QED
        BY <1>1, <3>1 DEF BatchRuns
    <2>2. CASE ~viewer
      BY <1>1, <1>2, <2>2 DEF BatchRuns
    <2> QED
      BY <2>1, <2>2
  <1> QED
    BY <1>3, OrderKept DEF OrderInv

LEMMA BatchOrder ==
  ASSUME TypeInv, OrderInv
  PROVE  /\ TakeBatch => OrderInv'
         /\ \A f \in flushes : NumberBatch(f) => OrderInv'
  <1>1. ASSUME TakeBatch PROVE OrderInv'
    <2>1. BatchRuns'
      BY <1>1 DEF TakeBatch, BatchRuns
    <2>2. FlushesRun'
      BY <1>1 DEF TakeBatch, FlushesRun, OrderInv, BatchRuns
    <2> QED
      BY <1>1, <2>1, <2>2, OrderKept DEF OrderInv, TakeBatch, phoneVars
  <1>2. ASSUME NEW f \in flushes, NumberBatch(f) PROVE OrderInv'
    <2>1. FlushesRun'
      BY <1>2 DEF NumberBatch, FlushesRun, OrderInv
    <2> QED
      BY <1>2, <2>1, OrderKept DEF OrderInv, NumberBatch, phoneVars
  <1> QED
    BY <1>1, <1>2

LEMMA SendBatchOrder ==
  ASSUME TypeInv, OrderInv, NEW f \in flushes, SendBatch(f)
  PROVE  OrderInv'
  <1> USE DEF SendBatch, phoneVars
  <1> DEFINE m == Live(f.data, f.seq)
  <1>1. m.kind = "live" /\ Run(m.data) /\ LiveOK(m)
    BY FlushIsLive DEF Live, OrderInv, FlushesRun
  <1>2. \A i \in 1..Len(wire') : wire'[i] = m \/ (i \in 1..Len(wire) /\ wire'[i] = wire[i])
    <2>1. Send(m, Overtaking(f, flushes)) /\ UNCHANGED <<history, outputSeq, lastRequest>> /\ WireOK
      BY DEF TypeInv
    <2> QED
      BY <1>1, <2>1, SendKeeps
  <1> HIDE DEF m
  <1>3. WireRuns'
    BY <1>1, <1>2 DEF WireRuns, OrderInv
  <1>4. FreshBaseline'
    BY <1>1, <1>2 DEF FreshBaseline, OrderInv
  <1> QED
    BY <1>3, <1>4, OrderKept DEF OrderInv

LEMMA SubscribeOrder ==
  ASSUME TypeInv, OrderInv, NEW id \in asks, Subscribe(id), Untorn'
  PROVE  OrderInv'
  <1> USE DEF Subscribe, phoneVars
  <1>1. viewer \/ batch = <<>>
    BY DEF Untorn
  <1>2. BatchRuns'
    BY <1>1 DEF OrderInv, BatchRuns
  <1>3. FreshReply'
    BY DEF FreshReply, OrderInv, Reply
  <1> QED
    BY <1>2, <1>3, OrderKept DEF OrderInv

\* The snapshot is taken after the request: it is no older than the screen.
LEMMA PrepareOrder ==
  ASSUME TypeInv, OrderInv, NEW r \in replies, Prepare(r)
  PROVE  OrderInv'
  <1> USE DEF Prepare, phoneVars
  <1>1. history >= pane.end
    BY DEF TypeInv, PaneOK
  <1>2. FreshReply'
    <2>1. PICK s : /\ replies' = (replies \ {r}) \cup {s}
                   /\ \/ s = Reply(r.id, "snapshot", outputSeq, r.end)
                      \/ s = Reply(r.id, "send", r.seq, history)
      BY DEF ReadBaseline
    <2>2. s.step = "send" => s.end >= pane.end
      BY <1>1, <2>1 DEF Reply
    <2> QED
      BY <2>1, <2>2 DEF FreshReply, OrderInv
  <1> QED
    BY <1>2, OrderKept DEF OrderInv

LEMMA AnswerOrder ==
  ASSUME TypeInv, OrderInv, NEW r \in replies, Answer(r)
  PROVE  OrderInv'
  <1> USE DEF Answer, phoneVars
  <1> DEFINE m == Baseline(r)
  <1>1. m.kind = "baseline" /\ m.id = r.id /\ m.end = r.end /\ BaselineOK(m)
    BY AnswerIsBaseline DEF Baseline
  <1>2. \A i \in 1..Len(wire') : wire'[i] = m \/ (i \in 1..Len(wire) /\ wire'[i] = wire[i])
    <2>1. Send(m, {}) /\ UNCHANGED <<history, outputSeq, lastRequest>> /\ WireOK
      BY DEF TypeInv
    <2> QED
      BY <1>1, <2>1, SendKeeps
  <1> HIDE DEF m
  <1>3. WireRuns'
    BY <1>1, <1>2 DEF WireRuns, OrderInv
  <1>4. request # 0 /\ r.id = request => r.end >= pane.end
    BY DEF OrderInv, FreshReply
  <1>5. FreshBaseline'
    BY <1>1, <1>2, <1>4 DEF FreshBaseline, OrderInv
  <1> QED
    BY <1>3, <1>5, OrderKept DEF OrderInv

\* What the phone receives takes the pane forward.
LEMMA ReceiveForward ==
  ASSUME TypeInv, OrderInv, Receive
  PROVE  PaneOK(pane') /\ Sound(pane') /\ pane'.end >= pane.end
  <1> DEFINE m == Head(wire)
  <1>0. /\ wire # <<>> /\ Len(wire) \in Nat \ {0} /\ m = wire[1] /\ (LiveOK(m) \/ BaselineOK(m))
        /\ IF m.kind = "live" THEN Hold(m) \/ Show(m) ELSE Restore(m) \/ Ignore(m)
    BY HeadIsMessage DEF Receive, TypeInv
  <1>1. /\ CountersOK /\ PaneOK(pane) /\ Sound(pane) /\ HeldRuns /\ pane.end \in Nat
        /\ history \in Nat /\ outputSeq \in Nat /\ \A h \in held : LiveOK(h)
    BY OutputAssumption DEF TypeInv, CountersOK, OrderInv, PaneOK, HeldOK
  <1>2. /\ m.kind = "live" => LiveOK(m) /\ Run(m.data)
        /\ m.kind # "live" => BaselineOK(m)
        /\ request # 0 /\ m.kind = "baseline" /\ m.id = request => m.end >= pane.end
    BY <1>0 DEF LiveOK, BaselineOK, OrderInv, WireRuns, FreshBaseline
  <1> HIDE DEF m
  <1>3. CASE Hold(m) \/ Ignore(m)
    BY <1>1, <1>3 DEF Hold, Ignore
  <1>4. CASE Show(m) /\ m.kind = "live"
    <2>1. pane' = AcceptLive(pane, m)
      BY <1>4 DEF Show
    <2> QED
      BY <1>1, <1>2, <1>4, <2>1, AcceptLiveOK
  <1>5. CASE Restore(m) /\ m.kind # "live"
    <2>1. pane' = Replay(AcceptBaseline(pane, m), held) /\ Answers(m)
      BY <1>5 DEF Restore
    <2>2. BaselineOK(m) /\ m.kind = "baseline" /\ m.end \in Nat
      BY <1>2, <1>5 DEF BaselineOK
    <2>3. m.end >= pane.end
      <3>1. CASE request = 0
        <4>1. pane.end = 0
          BY <1>1, <2>1, <3>1 DEF Answers, Sound
        <4> QED
          BY <2>2, <4>1
      <3>2. CASE request # 0
        BY <1>2, <2>1, <2>2, <3>2 DEF Answers
      <3> QED
        BY <3>1, <3>2
    <2> QED
      BY <1>1, <2>1, <2>2, <2>3, RestoredPane
  <1> QED
    BY <1>0, <1>3, <1>4, <1>5

LEMMA ReceiveOrder == TypeInv /\ OrderInv /\ Receive => OrderInv'
  <1> SUFFICES ASSUME TypeInv, OrderInv, Receive PROVE OrderInv'
    OBVIOUS
  <1> DEFINE m == Head(wire)
  <1>0. /\ wire' = Tail(wire) /\ UNCHANGED hostVars
        /\ IF m.kind = "live" THEN Hold(m) \/ Show(m) ELSE Restore(m) \/ Ignore(m)
    BY DEF Receive
  <1>1. /\ (LiveOK(m) \/ BaselineOK(m)) /\ Len(wire) \in Nat \ {0} /\ m = wire[1]
        /\ \A i \in 1..Len(wire') : i + 1 \in 1..Len(wire) /\ wire'[i] = wire[i + 1]
    BY <1>0, HeadIsMessage DEF Receive, TypeInv
  <1>2. m.kind = "live" => LiveOK(m) /\ Run(m.data)
    BY <1>1 DEF LiveOK, BaselineOK, OrderInv, WireRuns
  <1> HIDE DEF m
  <1>3. BatchRuns' /\ FlushesRun'
    BY <1>0, OrderKept DEF hostVars
  <1>4. WireRuns'
    BY <1>1 DEF WireRuns, OrderInv
  <1>5. Sound(pane)'
    <2>1. Sound(pane')
      BY ReceiveForward
    <2> QED
      BY <2>1 DEF Sound
  <1>6. replies' = replies /\ \A i \in 1..Len(wire') : \E j \in 1..Len(wire) : wire'[i] = wire[j]
    BY <1>0, <1>1 DEF hostVars
  <1>7. ASSUME Request PROVE HeldRuns' /\ Waits' /\ FreshReply' /\ FreshBaseline'
    BY <1>6, <1>7, RequestIsNew, OrderKept
  <1>8. ASSUME UNCHANGED <<awaiting, request, pane>>
        PROVE  Waits' /\ FreshReply' /\ FreshBaseline'
    <2>1. FreshBaseline'
      BY <1>1, <1>8 DEF FreshBaseline, OrderInv
    <2> QED
      BY <1>6, <1>8, <2>1, OrderKept
  <1>9. HeldRuns' /\ Waits' /\ FreshReply' /\ FreshBaseline'
    <2>1. CASE Hold(m) /\ m.kind = "live"
      <3>1. held' = HeldNewest(m) /\ UNCHANGED <<awaiting, request, pane>>
        BY <2>1 DEF Hold
      <3>2. HeldNewest(m) \subseteq held \cup {m}
        BY <1>2, <2>1, HeldNewestOK DEF TypeInv
      <3>3. HeldRuns'
        BY <1>2, <2>1, <3>1, <3>2 DEF HeldRuns, OrderInv
      <3> QED
        BY <1>8, <3>1, <3>3
    <2>2. CASE Show(m)
      <3>1. CASE Request
        BY <1>7, <3>1
      <3>2. CASE UNCHANGED <<awaiting, held, request, lastRequest, asks>>
        <4>1. request' = 0
          BY <2>2, <3>2 DEF Show, OrderInv, Waits
        <4> QED
          BY <3>2, <4>1, OrderKept
      <3> QED
        BY <2>2, <3>1, <3>2 DEF Show
    <2>3. CASE Restore(m)
      <3>1. CASE Request
        BY <1>7, <3>1
      <3>2. CASE request' = 0 /\ awaiting' = FALSE /\ held' = {}
        <4>1. Waits' /\ HeldRuns'
          BY <3>2, OrderKept DEF Waits
        <4> QED
          BY <3>2, <4>1, OrderKept
      <3> QED
        BY <2>3, <3>1, <3>2, Zenon DEF Restore
    <2>4. CASE Ignore(m)
      BY <1>8, <2>4, OrderKept DEF Ignore
    <2> QED
      BY <1>0, <2>1, <2>2, <2>3, <2>4
  <1> QED
    BY <1>3, <1>4, <1>5, <1>9 DEF OrderInv

LEMMA PhoneOrder ==
  ASSUME TypeInv, OrderInv, Refresh \/ Disconnect \/ Reconnect \/ Resubscribe
  PROVE  OrderInv'
  <1>1. CASE Refresh
    <2>1. Request /\ wire' = wire /\ pane' = pane /\ UNCHANGED hostVars
      BY <1>1 DEF Refresh
    <2>2. HeldRuns' /\ Waits' /\ FreshReply' /\ FreshBaseline'
      BY <2>1, RequestIsNew, OrderKept DEF hostVars
    <2> QED
      BY <2>1, <2>2, OrderKept DEF OrderInv, hostVars
  <1>2. CASE Disconnect
    <2>1. WireRuns' /\ Waits' /\ request' = 0 /\ held' = {}
      BY <1>2 DEF Disconnect, WireRuns, Waits
    <2> QED
      BY <1>2, <2>1, OrderKept DEF OrderInv, Disconnect, hostVars
  <1>3. CASE Reconnect
    BY <1>3, OrderKept DEF OrderInv, Reconnect, hostVars
  <1>4. CASE Resubscribe
    <2>1. wire' = wire /\ UNCHANGED hostVars
      BY <1>4 DEF Resubscribe
    <2>2. CASE request = 0
      <3>1. Request /\ pane' = Unordered(pane.content, pane.end)
        BY <1>4, <2>2 DEF Resubscribe
      <3>2. Sound(pane)'
        BY <3>1 DEF Sound, OrderInv, Unordered
      <3>3. HeldRuns' /\ Waits' /\ FreshReply' /\ FreshBaseline'
        BY <2>1, <3>1, RequestIsNew, OrderKept DEF hostVars
      <3> QED
        BY <2>1, <3>2, <3>3, OrderKept DEF OrderInv, hostVars
    <2>3. CASE request # 0
      BY <1>4, <2>1, <2>3, OrderKept DEF OrderInv, Resubscribe, hostVars
    <2> QED
      BY <2>2, <2>3
  <1> QED
    BY <1>1, <1>2, <1>3, <1>4

----------------------------------------------------------------------------
(* The theorems. *)

LEMMA OutputInvariant == Spec => []IInv
  <1>1. ASSUME IInv, [Next]_vars PROVE IInv'
    <2>1. TypeInv /\ TypeInv'
      BY <1>1, NextType DEF IInv
    <2>2. ASSUME Untorn' PROVE OrderInv'
      <3>1. TypeInv /\ OrderInv
        BY <1>1, <2>1, <2>2, MishapsStay DEF IInv, Untorn
      <3>2. CASE HostStep
        <4>1. CASE Commit
          BY <3>1, <4>1, OrderKept DEF OrderInv, Commit, phoneVars
        <4>2. CASE Forget
          <5>1. BatchRuns'
            BY <3>1, <4>2 DEF OrderInv, BatchRuns, Forget
          <5> QED
            BY <3>1, <4>2, <5>1, OrderKept DEF OrderInv, Forget, phoneVars
        <4> QED
          BY <2>2, <3>1, <3>2, <4>1, <4>2, AnnounceOrder, BatchOrder, SendBatchOrder,
             SubscribeOrder, PrepareOrder, AnswerOrder DEF HostStep
      <3>3. CASE PhoneStep
        <4>1. CASE GiveUp
          BY <2>2, <4>1 DEF GiveUp, Untorn
        <4> QED
          BY <3>1, <3>3, <4>1, ReceiveOrder, PhoneOrder DEF PhoneStep
      <3>4. CASE UNCHANGED vars
        BY <3>1, <3>4, OrderKept DEF OrderInv, vars, hostVars, phoneVars
      <3> QED
        BY <1>1, <3>2, <3>3, <3>4 DEF Next
    <2> QED
      BY <2>1, <2>2 DEF IInv
  <1> QED
    BY <1>1, InitOK, PTL DEF Spec

\* The types of the host's tables, the messages and the pane: no number is ahead
\* of the host's, and no more batches are held than there is room for.
THEOREM OutputTypeCorrect == Spec => []TypeOK
  <1>1. IInv => TypeOK
    <2> SUFFICES ASSUME IInv PROVE TypeOK
      OBVIOUS
    <2> USE DEF IInv, TypeInv
    <2>1. /\ announced \in 0..history /\ history \in 0..MaxChars
          /\ asks \subseteq 0..lastRequest /\ request \in 0..lastRequest
          /\ link \in {"gone", "back", "bound"}
          /\ mishaps \subseteq {"lost", "overtaken", "gaveUp", "overflow", "torn"}
      BY DEF CountersOK
    <2>2. batch \in Seq(Positions)
      BY DEF BatchOK
    <2>3. \A f \in flushes : f.data \in Seq(Positions) /\ f.seq \in 0..outputSeq
      BY DEF FlushesOK, Texts
    <2>4. \A r \in replies : r.seq \in 0..outputSeq /\ r.end \in 0..history
      BY DEF RepliesOK
    <2>5. /\ pane.content \in Seq(Positions) /\ pane.end \in 0..history
          /\ pane.seq \in 0..outputSeq
      BY DEF PaneOK
    <2>6. /\ held # {} => awaiting
          /\ Cardinality(held) <= MaxHeld
          /\ \A m \in held : m.kind = "live"
      BY DEF HeldOK, LiveOK
    <2> QED
      BY <2>1, <2>2, <2>3, <2>4, <2>5, <2>6, Zenon DEF TypeOK
  <1> QED
    BY <1>1, OutputInvariant, PTL

\* Nothing is shown twice and nothing before what came earlier, whatever is lost,
\* late or overtaken and however often the phone comes back: append_live cuts
\* what the watermark covers, a batch is one stretch of output, and the baseline
\* that is accepted is no older than the screen.
THEOREM OutputOrdered == Spec => []Ordered
  <1>1. IInv => Ordered
    BY DEF IInv, OrderInv, Sound, Rising, Ordered
  <1> QED
    BY <1>1, OutputInvariant, PTL

\* No step takes back the end of what is shown: of the baselines only the one
\* asked for is taken, and its snapshot was read after the request, when the
\* screen could show no more than the history held.
THEOREM OutputNeverBack == Spec => NeverBack
  <1> DEFINE Back == pane.content # <<>> /\ Untorn =>
                       pane'.content # <<>> /\ Last(pane'.content) >= Last(pane.content)
  <1>1. ASSUME IInv, [Next]_vars PROVE [Back]_vars
    <2> SUFFICES ASSUME pane.content # <<>>, Untorn
                 PROVE  pane'.content # <<>> /\ Last(pane'.content) >= Last(pane.content)
      OBVIOUS
    <2>1. TypeInv /\ OrderInv /\ PaneOK(pane) /\ Sound(pane) /\ history \in Nat
      BY <1>1, OutputAssumption DEF IInv, TypeInv, OrderInv, CountersOK
    <2>2. CASE pane'.content = pane.content
      <3>1. Last(pane.content) \in Nat
        <4>1. Len(pane.content) \in Nat /\ Len(pane.content) > 0
          BY <2>1, NonEmptyText, PositionsCount DEF PaneOK
        <4> QED
          BY <2>1, <4>1, PositionsCount DEF PaneOK, Last
      <3> QED
        BY <2>2, <3>1
    <2>3. CASE Receive
      <3>1. PaneOK(pane') /\ Sound(pane') /\ pane'.end >= pane.end
        BY <2>1, <2>3, ReceiveForward
      <3>2. pane.end <= pane'.end
        BY <2>1, <3>1 DEF PaneOK
      <3> QED
        BY <2>1, <3>1, <3>2, PaneForward
    <2>4. CASE HostStep \/ UNCHANGED vars
      <3>1. pane' = pane
        BY <2>4 DEF HostStep, Commit, Announce, TakeBatch, NumberBatch, SendBatch,
           Subscribe, Prepare, Answer, Forget, vars, phoneVars
      <3> QED
        BY <2>2, <3>1
    <2>5. CASE Refresh \/ GiveUp \/ Disconnect \/ Reconnect \/ Resubscribe
      <3>1. pane'.content = pane.content
        BY <2>5 DEF Refresh, GiveUp, Disconnect, Reconnect, Resubscribe, Unordered
      <3> QED
        BY <2>2, <3>1
    <2> QED
      BY <1>1, <2>3, <2>4, <2>5 DEF Next, PhoneStep
  <1>2. IInv /\ [Next]_vars => [Back]_vars
    BY <1>1
  <1> HIDE DEF Back
  <1>3. Spec => [][Back]_vars
    BY <1>2, OutputInvariant, PTL DEF Spec
  <1> QED
    BY <1>3, Zenon DEF Back, NeverBack

----------------------------------------------------------------------------
(***************************************************************************)
(* What has to come.  As long as nothing is lost, overtaken, given up or   *)
(* dropped, what the phone does not show is held, on the wire, being       *)
(* flushed or in the batch, in that order, or in the answer it waits for.  *)
(***************************************************************************)

LEMMA SuffixRuns ==
  ASSUME NEW s \in Seq(Positions), Run(s), NEW c \in Nat
  PROVE  Run(SubSeq(s, c + 1, Len(s)))
  <1> DEFINE t == SubSeq(s, c + 1, Len(s))
  <1>1. Len(s) \in Nat /\ \A i \in 1..Len(s) : s[i] \in Nat
    BY PositionsCount
  <1>2. CASE c >= Len(s)
    <2>1. t = <<>>
      BY <1>2, SuffixShape
    <2>2. Run(<<>>)
      BY DEF Run
    <2> QED
      BY <2>1, <2>2
  <1>3. CASE c < Len(s)
    <2>1. /\ Len(t) = Len(s) - c /\ Last(t) = Last(s)
          /\ \A i \in 1..(Len(s) - c) : t[i] = s[i + c]
      BY <1>3, SuffixShape
    <2>2. Last(s) \in Nat
      BY <1>1, <1>3 DEF Last
    <2> HIDE DEF t
    <2>3. ASSUME NEW i \in 1..Len(t) PROVE t[i] + Len(t) = Last(t) + i
      <3>1. i + c \in 1..Len(s) /\ t[i] = s[i + c] /\ i \in Nat
        BY <1>1, <1>3, <2>1
      <3>2. s[i + c] + Len(s) = Last(s) + (i + c) /\ s[i + c] \in Nat
        BY <1>1, <3>1 DEF Run
      <3>3. \A x, y \in Nat : x + Len(s) = y + (i + c) => x + (Len(s) - c) = y + i
        BY <1>1, <1>3, <3>1
      <3> QED
        BY <2>1, <2>2, <3>1, <3>2, <3>3
    <2>4. Run(t)
      BY <2>3 DEF Run
    <2> QED
      BY <2>4 DEF t
  <1> QED
    BY <1>1, <1>2, <1>3

LEMMA JoinRuns ==
  ASSUME NEW s \in Seq(Positions), NEW t \in Seq(Positions), Run(s), Run(t),
         t # <<>> => t[1] = (IF s = <<>> THEN t[1] ELSE Last(s) + 1)
  PROVE  Run(s \o t)
  <1> DEFINE u == s \o t
  <1>1. /\ u \in Seq(Positions) /\ Len(u) = Len(s) + Len(t)
        /\ Len(s) \in Nat /\ Len(t) \in Nat
        /\ \A i \in 1..Len(u) : u[i] = IF i <= Len(s) THEN s[i] ELSE t[i - Len(s)]
    OBVIOUS
  <1>2. (s = <<>> => u = t) /\ (t = <<>> => u = s)
    OBVIOUS
  <1>l. Len(s) \in Nat /\ Len(t) \in Nat
    OBVIOUS
  <1>n. (\A i \in 1..Len(s) : s[i] \in Nat) /\ (\A i \in 1..Len(t) : t[i] \in Nat)
    BY PositionsCount
  <1> HIDE DEF u
  <1>3. CASE s = <<>> \/ t = <<>>
    BY <1>2, <1>3 DEF u
  <1>4. CASE s # <<>> /\ t # <<>>
    <2>1. Len(s) > 0 /\ Len(t) > 0
      BY <1>1, <1>4, NonEmptyText
    <2>2. Last(u) = Last(t)
      BY <1>1, <2>1 DEF Last
    <2>3. t[1] = Last(s) + 1 /\ Last(s) \in Nat /\ Last(t) \in Nat
      BY <1>n, <1>1, <1>4, <2>1 DEF Last
    <2>4. t[1] + Len(t) = Last(t) + 1
      BY <1>1, <2>1 DEF Run
    <2>5. Last(t) = Last(s) + Len(t)
      <3>1. \A x, y, n \in Nat : (x + 1) + n = y + 1 => y = x + n
        OBVIOUS
      <3>2. (Last(s) + 1) + Len(t) = Last(t) + 1
        BY <2>3, <2>4
      <3> QED
        BY <1>l, <2>3, <3>1, <3>2, Zenon
    <2>6. ASSUME NEW i \in 1..Len(u) PROVE u[i] + Len(u) = Last(u) + i
      <3>1. CASE i <= Len(s)
        <4>1. i \in 1..Len(s) /\ u[i] = s[i] /\ s[i] \in Nat /\ i \in Nat
          BY <1>1, <1>n, <3>1
        <4>2. s[i] + Len(s) = Last(s) + i
          BY <4>1 DEF Run
        <4>4. s[i] + (Len(s) + Len(t)) = (Last(s) + Len(t)) + i
          <5> DEFINE a == Len(s)
                     b == Len(t)
                     x == s[i]
                     y == Last(s)
          <5>1. a \in Nat /\ b \in Nat /\ x \in Nat /\ y \in Nat /\ i \in Nat /\ x + a = y + i
            BY <1>l, <2>3, <4>1, <4>2
          <5> HIDE DEF a, b, x, y
          <5>2. x + (a + b) = (y + b) + i
            BY <5>1
          <5> QED
            BY <5>2 DEF a, b, x, y
        <4> QED
          BY <1>1, <2>2, <2>5, <4>1, <4>4
      <3>2. CASE i > Len(s)
        <4> DEFINE j == i - Len(s)
        <4>1. j \in 1..Len(t) /\ u[i] = t[j] /\ i = j + Len(s)
          BY <1>1, <3>2
        <4> HIDE DEF j
        <4>2. t[j] + Len(t) = Last(t) + j /\ t[j] \in Nat /\ j \in Nat
          BY <1>n, <4>1 DEF Run
        <4>4. t[j] + (Len(s) + Len(t)) = Last(t) + (j + Len(s))
          <5> DEFINE a == Len(s)
                     b == Len(t)
                     x == t[j]
                     y == Last(t)
          <5>1. a \in Nat /\ b \in Nat /\ x \in Nat /\ y \in Nat /\ j \in Nat /\ x + b = y + j
            BY <1>l, <2>3, <4>2
          <5> HIDE DEF a, b, x, y
          <5>2. x + (a + b) = y + (j + a)
            BY <5>1
          <5> QED
            BY <5>2 DEF a, b, x, y
        <4> QED
          BY <1>1, <2>2, <4>1, <4>4
      <3> QED
        BY <1>1, <3>1, <3>2
    <2>7. Run(u)
      BY <2>6 DEF Run
    <2> QED
      BY <2>7 DEF u
  <1> QED
    BY <1>3, <1>4

\* A rising text with as many characters as positions up to its last one is all
\* of them.
LEMMA FullRuns ==
  ASSUME NEW s \in Seq(Positions), Rising(s), s # <<>> => Len(s) >= Last(s)
  PROVE  Run(s)
  <1>1. Len(s) \in Nat /\ \A i \in 1..Len(s) : s[i] \in Nat \ {0}
    BY PositionsCount
  <1>2. \A i \in 1..(Len(s) - 1) : s[i + 1] > s[i]
    BY DEF Rising
  <1> SUFFICES ASSUME Len(s) > 0 PROVE Run(s)
    BY <1>1 DEF Run
  <1>3. s # <<>> /\ Last(s) = s[Len(s)] /\ s[Len(s)] <= Len(s)
    BY <1>1, NonEmptyText DEF Last
  <1> DEFINE U == {n \in Nat : n \in 1..Len(s) => s[n] >= n}
             D == {n \in Nat : n < Len(s) => s[Len(s) - n] + n <= s[Len(s)]}
  <1>4. ASSUME NEW i \in 1..Len(s) PROVE s[i] >= i
    <2>1. 0 \in U
      OBVIOUS
    <2>2. ASSUME NEW n \in Nat, n \in U PROVE n + 1 \in U
      <3> SUFFICES ASSUME n + 1 \in 1..Len(s) PROVE s[n + 1] >= n + 1
        OBVIOUS
      <3>1. CASE n = 0
        BY <1>1, <3>1
      <3>2. CASE n # 0
        <4>1. n \in 1..(Len(s) - 1) /\ n \in 1..Len(s)
          BY <1>1, <3>2
        <4>2. s[n + 1] > s[n] /\ s[n] >= n /\ s[n + 1] \in Nat /\ s[n] \in Nat
          BY <1>1, <1>2, <2>2, <4>1
        <4> QED
          BY <4>2
      <3> QED
        BY <3>1, <3>2
    <2> HIDE DEF U
    <2>3. i \in U
      BY <1>1, <2>1, <2>2, Induct
    <2> QED
      BY <2>3 DEF U
  <1>5. ASSUME NEW i \in 1..Len(s) PROVE s[i] + (Len(s) - i) <= s[Len(s)]
    <2>1. 0 \in D
      BY <1>1
    <2>2. ASSUME NEW n \in Nat, n \in D PROVE n + 1 \in D
      <3> SUFFICES ASSUME n + 1 < Len(s) PROVE s[Len(s) - (n + 1)] + (n + 1) <= s[Len(s)]
        OBVIOUS
      <3> DEFINE k == Len(s) - (n + 1)
      <3>1. k \in 1..(Len(s) - 1) /\ k \in 1..Len(s) /\ k + 1 = Len(s) - n /\ k + 1 \in 1..Len(s)
        BY <1>1
      <3>2. s[Len(s) - n] + n <= s[Len(s)]
        BY <1>1, <2>2
      <3> HIDE DEF k
      <3>3. s[k + 1] > s[k] /\ s[k] \in Nat /\ s[k + 1] \in Nat /\ s[Len(s)] \in Nat
        BY <1>1, <1>2, <3>1
      <3>4. s[k + 1] + n <= s[Len(s)]
        BY <3>1, <3>2
      <3>5. s[k] + (n + 1) <= s[Len(s)]
        BY <3>3, <3>4
      <3> QED
        BY <3>5 DEF k
    <2> HIDE DEF D
    <2>3. Len(s) - i \in Nat
      BY <1>1
    <2>4. Len(s) - i \in D
      BY <2>1, <2>2, <2>3, Induct
    <2>5. Len(s) - i < Len(s) /\ Len(s) - (Len(s) - i) = i
      BY <1>1
    <2> QED
      BY <2>4, <2>5 DEF D
  <1>6. ASSUME NEW i \in 1..Len(s) PROVE s[i] + Len(s) = Last(s) + i
    <2>1. s[i] >= i /\ s[i] + (Len(s) - i) <= s[Len(s)] /\ s[i] \in Nat
          /\ s[Len(s)] \in Nat /\ Len(s) <= s[Len(s)]
      <3>1. Len(s) \in 1..Len(s)
        BY <1>1
      <3> QED
        BY <1>1, <1>4, <1>5, <3>1
    <2> QED
      BY <1>1, <1>3, <2>1
  <1> QED
    BY <1>6 DEF Run

LEMMA RunIsWhole ==
  ASSUME NEW s \in Seq(Positions), Run(s)
  PROVE  Whole(s)
  <1>1. Len(s) \in Nat /\ \A i \in 1..Len(s) : s[i] \in Nat
    BY PositionsCount
  <1>2. ASSUME NEW i \in 1..(Len(s) - 1) PROVE s[i + 1] = s[i] + 1
    <2>1. i \in 1..Len(s) /\ i + 1 \in 1..Len(s)
      BY <1>1
    <2>2. s[i] + Len(s) = Last(s) + i /\ s[i + 1] + Len(s) = Last(s) + (i + 1)
      BY <2>1 DEF Run
    <2>3. Last(s) \in Nat /\ s[i] \in Nat /\ s[i + 1] \in Nat
      BY <1>1, <2>1 DEF Last
    <2> QED
      BY <1>1, <2>1, <2>2, <2>3
  <1> QED
    BY <1>2 DEF Whole

\* A baseline that holds all of the output leaves one stretch of it.
LEMMA MergeRuns ==
  ASSUME NEW old \in Seq(Positions), NEW oldEnd \in Nat,
         NEW new \in Seq(Positions), NEW newEnd \in Nat
  PROVE  /\ Rising(old) /\ oldEnd = IF old = <<>> THEN 0 ELSE Last(old)
         /\ Run(new) /\ new # <<>> /\ Last(new) = newEnd /\ Len(new) >= newEnd
         /\ newEnd >= oldEnd
         => Run(Merge(old, oldEnd, new, newEnd))
  <1> DEFINE oldStart == Minus(oldEnd, Len(old))
             newStart == Minus(newEnd, Len(new))
             s == Merge(old, oldEnd, new, newEnd)
  <1>1. \/ s = new
        \/ s = old /\ old # <<>> /\ newEnd <= oldEnd /\ oldStart <= newStart
        \/ \E n \in Nat : /\ s = old \o SubSeq(new, n + 1, Len(new))
                          /\ newStart + n = oldEnd
                          /\ newEnd > oldEnd /\ oldStart <= newStart
        \/ \E n \in Nat : /\ s = new \o SubSeq(old, n + 1, Len(old))
                          /\ newEnd >= oldEnd => n >= Len(old)
    BY MergeCases, Zenon
  <1> SUFFICES ASSUME Rising(old), oldEnd = IF old = <<>> THEN 0 ELSE Last(old),
                      Run(new), new # <<>>, Last(new) = newEnd, Len(new) >= newEnd,
                      newEnd >= oldEnd
               PROVE  Run(s)
    OBVIOUS
  <1>2. Len(old) \in Nat /\ Len(new) \in Nat
    BY PositionsCount
  <1>3. newStart = 0 /\ oldStart \in Nat
    BY <1>2 DEF Minus
  <1>4. ASSUME oldStart <= newStart PROVE Run(old)
    <2>1. Len(old) >= oldEnd
      BY <1>2, <1>3, <1>4 DEF Minus
    <2> QED
      BY <2>1, FullRuns
  <1>5. Len(new) = newEnd
    BY <1>2, RunRises
  <1> HIDE DEF s, newStart, oldStart
  <1>6. ASSUME NEW n \in Nat, s = old \o SubSeq(new, n + 1, Len(new)),
               newStart + n = oldEnd, newEnd > oldEnd, oldStart <= newStart
        PROVE  Run(s)
    <2> DEFINE t == SubSeq(new, n + 1, Len(new))
    <2>1. n = oldEnd /\ n < Len(new)
      BY <1>2, <1>3, <1>5, <1>6
    <2>2. t \in Seq(Positions) /\ Run(t) /\ t[1] + Len(new) = newEnd + (n + 1)
      BY <2>1, SuffixShape, SuffixRuns, SuffixRises
    <2>3. t[1] \in Nat
      <3>1. t # <<>>
        BY <2>1, SuffixShape
      <3>2. Len(t) > 0 /\ Len(t) \in Nat
        BY <2>2, <3>1, NonEmptyText, PositionsCount
      <3> QED
        BY <2>2, <3>2, PositionsCount
    <2> HIDE DEF t
    <2>4. t[1] = oldEnd + 1
      BY <1>5, <2>1, <2>2, <2>3
    <2>5. t # <<>> => t[1] = IF old = <<>> THEN t[1] ELSE Last(old) + 1
      BY <2>4
    <2>6. Run(old \o t)
      BY <1>4, <1>6, <2>2, <2>5, JoinRuns
    <2> QED
      BY <1>6, <2>6 DEF t
  <1>7. ASSUME NEW n \in Nat, s = new \o SubSeq(old, n + 1, Len(old)), n >= Len(old)
        PROVE  Run(s)
    <2>1. SubSeq(old, n + 1, Len(old)) = <<>>
      BY <1>2, <1>7, SuffixShape
    <2>2. s = new \o <<>>
      BY <1>7, <2>1
    <2>3. new \o <<>> = new
      OBVIOUS
    <2> QED
      BY <2>2, <2>3
  <1>8. Run(s)
    <2>1. CASE \E n \in Nat : /\ s = old \o SubSeq(new, n + 1, Len(new))
                              /\ newStart + n = oldEnd
                              /\ newEnd > oldEnd /\ oldStart <= newStart
      BY <1>6, <2>1, Zenon
    <2>2. CASE \E n \in Nat : /\ s = new \o SubSeq(old, n + 1, Len(old))
                              /\ newEnd >= oldEnd => n >= Len(old)
      BY <1>7, <2>2, Zenon
    <2>3. CASE s = old /\ old # <<>> /\ newEnd <= oldEnd /\ oldStart <= newStart
      BY <1>4, <2>3
    <2> QED
      BY <1>1, <2>1, <2>2, <2>3, Zenon
  <1> QED
    BY <1>8 DEF s

\* A baseline that is no older than the screen sets the watermark, and with all
\* of the output in it the screen is one stretch.
LEMMA AcceptBaselineRuns ==
  ASSUME NEW p, NEW m, PaneOK(p), BaselineOK(m), history \in 0..MaxChars, outputSeq \in Nat,
         Sound(p), m.end >= p.end
  PROVE  LET q == AcceptBaseline(p, m)
         IN  /\ q.end = m.end /\ q.seq = m.seq
             /\ m.end <= Window => Run(q.content)
  <1> DEFINE q == AcceptBaseline(p, m)
             t == Merge(p.content, p.end, m.data, m.end)
  <1>1. /\ p.content \in Seq(Positions) /\ p.end \in Nat
        /\ m.end \in 0..MaxChars /\ m.end \in Nat
        /\ Cache \in Nat \ {0} /\ Window \in Nat \ {0} /\ MaxChars \in Nat
        /\ m.data = Newest(Printed(0, m.end), Window)
    BY OutputAssumption DEF PaneOK, BaselineOK
  <1>2. /\ m.data \in Seq(Positions) /\ Run(m.data)
        /\ m.data = <<>> <=> m.end = 0
        /\ m.data # <<>> => Last(m.data) = m.end
    BY <1>1, BaselineShape
  <1>3. /\ q.content = IF m.data = <<>> THEN p.content ELSE Newest(t, Cache)
        /\ q.end = IF m.data = <<>> THEN p.end ELSE m.end
        /\ q.seq = m.seq
    BY DEF AcceptBaseline
  <1>4. q.end = m.end
    BY <1>1, <1>2, <1>3
  <1>5. ASSUME m.end <= Window PROVE Run(q.content)
    <2>1. CASE m.data = <<>>
      <3>1. p.end = 0
        BY <1>1, <1>2, <2>1
      <3>2. p.content = <<>>
        <4>1. CASE p.content # <<>>
          <5>1. Len(p.content) \in Nat /\ Len(p.content) > 0
            BY <1>1, <4>1, NonEmptyText, PositionsCount
          <5>2. Last(p.content) \in Nat \ {0}
            BY <1>1, <5>1, PositionsCount DEF Last
          <5> QED
            BY <3>1, <4>1, <5>2 DEF Sound
        <4> QED
          BY <4>1
      <3> QED
        BY <1>3, <2>1, <3>2 DEF Run
    <2>2. CASE m.data # <<>>
      <3>1. Len(m.data) >= m.end
        <4> DEFINE u == Printed(0, m.end)
        <4>1. u \in Seq(Positions) /\ Len(u) = m.end
          BY <1>1 DEF Printed, Positions
        <4> HIDE DEF u
        <4>2. Len(Newest(u, Window)) = IF Len(u) > Window THEN Window ELSE Len(u)
          BY <1>1, <4>1, NewestShape
        <4> QED
          BY <1>1, <1>5, <4>1, <4>2 DEF u
      <3>2. Run(t)
        BY <1>1, <1>2, <2>2, <3>1, MergeRuns DEF Sound
      <3>3. t \in Seq(Positions)
        BY <1>1, <1>2, MergeType
      <3> HIDE DEF t
      <3> QED
        BY <1>1, <1>3, <2>2, <3>2, <3>3, NewestKeeps
    <2> QED
      BY <2>1, <2>2
  <1> QED
    BY <1>3, <1>4, <1>5

\* A live batch that leaves no hole continues the stretch.
LEMMA AcceptLiveRuns ==
  ASSUME NEW p, NEW m, PaneOK(p), LiveOK(m), history \in Nat, outputSeq \in Nat,
         Sound(p), Run(m.data), Run(p.content),
         m.data[1] <= p.end + 1 \/ m.end <= p.end
  PROVE  Run(AcceptLive(p, m).content)
  <1> DEFINE q == AcceptLive(p, m)
             t == Uncovered(p, m)
             s == m.data
             start == Minus(m.end, Len(s))
             c == Min({Minus(p.end, start), Len(s)})
  <1>1. /\ p.content \in Seq(Positions) /\ p.end \in Nat /\ Cache \in Nat \ {0}
        /\ s \in Texts /\ s \in Seq(Positions) /\ s # <<>> /\ m.end = Last(s) /\ m.end \in Nat
    BY OutputAssumption DEF PaneOK, LiveOK, Texts
  <1>2. Len(s) \in Nat \ {0} /\ s[1] \in Nat /\ s[1] + Len(s) = m.end + 1
    BY <1>1, NonEmptyText, PositionsCount DEF Run
  <1>3. start \in Nat /\ Minus(p.end, start) \in Nat /\ m.end = start + Len(s)
    BY <1>1, <1>2, RunRises DEF Minus
  <1>4. c = (IF Minus(p.end, start) <= Len(s) THEN Minus(p.end, start) ELSE Len(s)) /\ c \in Nat
    BY <1>2, <1>3, MinOfTwo
  <1>5. t = SubSeq(s, c + 1, Len(s))
    BY DEF Uncovered
  <1>6. t \in Seq(Positions) /\ Run(t)
    BY <1>1, <1>4, <1>5, SuffixShape, SuffixRuns
  <1>7. /\ p.end >= m.end => t = <<>>
        /\ p.end < m.end => t # <<>>
    BY <1>1, UncoveredShape DEF LiveOK
  <1>8. ASSUME p.end < m.end PROVE t[1] = p.end + 1
    <2>1. start <= p.end /\ c = p.end - start /\ c < Len(s)
      BY <1>1, <1>2, <1>3, <1>4, <1>8 DEF Minus
    <2>2. t[1] + Len(s) = Last(s) + (c + 1)
      BY <1>1, <1>4, <1>5, <2>1, SuffixRises
    <2>3. t[1] \in Nat
      <3>1. Len(t) > 0 /\ Len(t) \in Nat
        BY <1>6, <1>7, <1>8, NonEmptyText, PositionsCount
      <3> QED
        BY <1>6, <3>1, PositionsCount
    <2> DEFINE x == t[1]
               n == Len(s)
               e == m.end
    <2>4. /\ x \in Nat /\ n \in Nat /\ e \in Nat /\ p.end \in Nat /\ start \in Nat
          /\ x + n = e + (c + 1) /\ e = start + n /\ c = p.end - start
      BY <1>1, <1>2, <1>3, <2>1, <2>2, <2>3
    <2> HIDE DEF t, c, start, x, n, e
    <2>5. x = p.end + 1
      BY <2>4
    <2> QED
      BY <2>5 DEF x
  <1> HIDE DEF t, c, start
  <1>9. Run(p.content \o t)
    <2>1. t # <<>> => t[1] = IF p.content = <<>> THEN t[1] ELSE Last(p.content) + 1
      BY <1>1, <1>7, <1>8 DEF Sound
    <2> QED
      BY <1>1, <1>6, <2>1, JoinRuns
  <1>10. p.content \o t \in Seq(Positions)
    BY <1>1, <1>6
  <1>11. q.content = p.content \/ q.content = Newest(p.content \o t, Cache)
    BY DEF AcceptLive, t
  <1> HIDE DEF q
  <1>12. Run(q.content)
    BY <1>1, <1>9, <1>10, <1>11, NewestKeeps
  <1> QED
    BY <1>12 DEF q

----------------------------------------------------------------------------
(* Pieces of output, in an order. *)

\* A piece of output under way: a batch that is held, on the wire, being flushed
\* or still filling (it has no number before its flush gives it one).
PieceOK(a) == a.data \in Texts /\ a.seq \in Nat
Has(a, x) == a.data[1] <= x /\ x <= Last(a.data)
Before(a, b) == Last(a.data) < b.data[1] /\ (b.seq # 0 => a.seq # 0 /\ a.seq < b.seq)
InOrder(S) == \A a, b \in S : a = b \/ Before(a, b) \/ Before(b, a)
Precede(S, T) == \A a \in S, b \in T : Before(a, b)

\* A snapshot, or a pane, has all that carries its number or an earlier one, ...
Knows(b, S) == \A a \in S : a.seq # 0 /\ a.seq <= b.seq => Last(a.data) <= b.end

\* ... and what it does not have is under way.
Reaches(b, S, last) == \A x \in 1..last : b.end < x => \E a \in S : Has(a, x)

LEMMA PieceNumbers ==
  ASSUME NEW a, a.data \in Texts
  PROVE  /\ a.data[1] \in Nat \ {0} /\ Last(a.data) \in Nat \ {0}
         /\ Run(a.data) => a.data[1] <= Last(a.data)
  <1>1. a.data \in Seq(Positions) /\ Len(a.data) \in Nat /\ Len(a.data) > 0
    BY NonEmptyText, PositionsCount DEF Texts
  <1>2. a.data[1] \in Nat \ {0} /\ Last(a.data) \in Nat \ {0}
    BY <1>1, PositionsCount DEF Last
  <1>3. ASSUME Run(a.data) PROVE a.data[1] <= Last(a.data)
    <2>1. a.data[1] + Len(a.data) = Last(a.data) + 1
      BY <1>1, <1>3 DEF Run
    <2> QED
      BY <1>1, <1>2, <2>1
  <1> QED
    BY <1>2, <1>3

LEMMA LiveIsPiece ==
  ASSUME NEW m, LiveOK(m), outputSeq \in Nat, history \in Nat
  PROVE  PieceOK(m) /\ m.seq \in Nat \ {0} /\ m.seq <= outputSeq /\ m.end = Last(m.data)
  BY DEF LiveOK, PieceOK

\* The next piece in the order is shown.
LEMMA AcceptCovers ==
  ASSUME NEW p, NEW m, NEW S, NEW last \in Nat, history \in Nat, outputSeq \in Nat,
         PaneOK(p), Sound(p), LiveOK(m), Run(m.data), m.end <= last,
         m \in S, \A a \in S : PieceOK(a),
         \A a \in S : a = m \/ Before(m, a) \/ Last(a.data) <= p.end,
         Knows(p, S), Reaches(p, S, last)
  PROVE  LET q == AcceptLive(p, m)
         IN  /\ q.end >= p.end /\ m.end <= q.end
             /\ Knows(q, S) /\ Reaches(q, S, last)
             /\ Run(p.content) => Run(q.content)
  <1> DEFINE q == AcceptLive(p, m)
  <1>1. /\ p.end \in Nat /\ p.seq \in Nat /\ m.end \in Nat \ {0} /\ m.seq \in Nat \ {0}
        /\ m.end = Last(m.data)
    BY LiveIsPiece DEF PaneOK, LiveOK
  <1>2. \A a \in S : a.seq \in Nat /\ Last(a.data) \in Nat /\ a.data[1] \in Nat
    BY PieceNumbers DEF PieceOK
  <1>3. /\ m.seq <= p.seq => q = p
        /\ m.seq > p.seq => q.seq = m.seq /\ q.end = (IF p.end >= m.end THEN p.end ELSE m.end)
    BY <1>1, MaxOfTwo DEF AcceptLive
  <1>4. ASSUME m.seq <= p.seq PROVE m.end <= p.end
    BY <1>1, <1>4 DEF Knows
  <1>5. q.end \in Nat /\ q.end >= p.end /\ m.end <= q.end
    BY <1>1, <1>3, <1>4
  <1>6. ASSUME Run(p.content) PROVE Run(q.content)
    <2>1. m.data[1] <= p.end + 1 \/ m.end <= p.end
      <3>1. CASE p.end < last
        <4>1. p.end + 1 \in 1..last /\ p.end < p.end + 1
          BY <1>1, <3>1
        <4>2. PICK a \in S : Has(a, p.end + 1)
          BY <4>1 DEF Reaches
        <4>3. a.data[1] <= p.end + 1 /\ p.end + 1 <= Last(a.data)
          BY <4>2 DEF Has
        <4>4. CASE a = m
          BY <4>3, <4>4
        <4>5. CASE Before(m, a)
          BY <1>1, <1>2, <4>3, <4>5 DEF Before
        <4>6. ~(Last(a.data) <= p.end)
          BY <1>1, <1>2, <4>3
        <4> QED
          BY <4>4, <4>5, <4>6
      <3>2. CASE ~(p.end < last)
        BY <1>1, <3>2
      <3> QED
        BY <3>1, <3>2
    <2> QED
      BY <1>6, <2>1, AcceptLiveRuns
  <1> HIDE DEF q
  <1>7. Knows(q, S)
    <2> SUFFICES ASSUME NEW a \in S, a.seq # 0, a.seq <= q.seq PROVE Last(a.data) <= q.end
      BY DEF Knows
    <2>1. CASE m.seq <= p.seq
      BY <1>3, <2>1 DEF Knows
    <2>2. CASE m.seq > p.seq
      <3>1. a.seq <= m.seq
        BY <1>3, <2>2
      <3>2. ~Before(m, a)
        BY <1>1, <1>2, <3>1 DEF Before
      <3> QED
        BY <1>1, <1>2, <1>5, <3>2
    <2> QED
      BY <1>1, <2>1, <2>2
  <1>8. Reaches(q, S, last)
    <2> SUFFICES ASSUME NEW x \in 1..last, q.end < x PROVE \E a \in S : Has(a, x)
      BY DEF Reaches
    <2>1. p.end < x
      BY <1>1, <1>5
    <2> QED
      BY <2>1 DEF Reaches
  <1> QED
    BY <1>5, <1>6, <1>7, <1>8 DEF q

\* With the held batches shown, what is missing is on its way behind them.
LEMMA ReplayCovers ==
  ASSUME NEW p, NEW H, NEW R, NEW last \in Nat, history \in Nat, outputSeq \in Nat,
         PaneOK(p), Sound(p),
         \A h \in H : LiveOK(h) /\ Run(h.data) /\ h.end <= last,
         \A a \in R : PieceOK(a),
         InOrder(H), Precede(H, R), Knows(p, H \cup R), Reaches(p, H \cup R, last)
  PROVE  LET q == Replay(p, H)
         IN  /\ Knows(q, R) /\ Reaches(q, R, last)
             /\ Run(p.content) => Run(q.content)
  <1> DEFINE U == ReplayUpTo(p, H)
             A == H \cup R
             Shown(u, n) == \A h \in H : h.seq <= n => h.end <= u.end
             Fine(u, n) == /\ PaneOK(u) /\ Sound(u) /\ u.end >= p.end
                           /\ Shown(u, n) /\ Knows(u, A) /\ Reaches(u, A, last)
                           /\ Run(p.content) => Run(u.content)
             Done(u) == /\ \A h \in H : h.end <= u.end
                        /\ Knows(u, A) /\ Reaches(u, A, last)
                        /\ Run(p.content) => Run(u.content)
             S == {n \in Nat : Fine(U[n], n)}
             newer == {h.seq : h \in H} \ 0..p.seq
  <1>1. p.seq \in Nat /\ p.end \in Nat
    BY DEF PaneOK
  <1>2. \A h \in H : PieceOK(h) /\ h.seq \in Nat \ {0} /\ h.seq <= outputSeq
                     /\ h.end = Last(h.data) /\ h.end \in Nat /\ h.data[1] \in Nat
    BY LiveIsPiece, PieceNumbers DEF PieceOK
  <1>3. \A a \in A : PieceOK(a)
    BY <1>2
  <1>4. \A h \in H : h.seq <= p.seq => h.end <= p.end
    BY <1>2 DEF Knows
  <1>5. U = [n \in Nat |-> IF n <= p.seq THEN p ELSE ReplayOne(U[n - 1], H, n)]
    BY <1>1, ReplayIsDefined
  <1>6. ASSUME NEW n \in Nat, n <= p.seq PROVE Fine(p, n)
    BY <1>1, <1>2, <1>4, <1>6
  <1>7. ASSUME NEW u, NEW n \in Nat, Fine(u, n)
        PROVE  Fine(ReplayOne(u, H, n + 1), n + 1)
    <2>0. u.end \in Nat
      BY <1>7 DEF PaneOK
    <2>1. CASE \E m \in H : m.seq = n + 1
      <3> DEFINE b == CHOOSE m \in H : m.seq = n + 1
                 v == AcceptLive(u, b)
      <3>1. b \in H /\ b.seq = n + 1
        BY <2>1
      <3>2. ReplayOne(u, H, n + 1) = v
        BY <2>1 DEF ReplayOne
      <3> HIDE DEF b
      <3>3. LiveOK(b) /\ Run(b.data) /\ b.end <= last /\ b \in A
        BY <3>1
      <3>4. \A a \in A : a = b \/ Before(b, a) \/ Last(a.data) <= u.end
        <4> SUFFICES ASSUME NEW a \in A, a # b, ~Before(b, a) PROVE Last(a.data) <= u.end
          OBVIOUS
        <4>1. a \in H /\ Before(a, b)
          BY <3>1 DEF InOrder, Precede
        <4>2. a.seq <= n
          BY <1>2, <3>1, <4>1 DEF Before
        <4> QED
          BY <1>2, <1>7, <4>1, <4>2
      <3> HIDE DEF A
      <3>5. /\ PaneOK(v) /\ Sound(v)
        BY <1>7, <3>3, AcceptLiveOK
      <3>6. /\ v.end >= u.end /\ b.end <= v.end
            /\ Knows(v, A) /\ Reaches(v, A, last)
            /\ Run(u.content) => Run(v.content)
        BY <1>3, <1>7, <3>3, <3>4, AcceptCovers
      <3> HIDE DEF v
      <3>7. v.end \in Nat
        BY <3>5 DEF PaneOK
      <3>8. Shown(v, n + 1)
        <4> SUFFICES ASSUME NEW h \in H, h.seq <= n + 1 PROVE h.end <= v.end
          OBVIOUS
        <4>1. CASE h.seq <= n
          BY <1>2, <1>7, <2>0, <3>6, <3>7, <4>1
        <4>2. CASE h.seq = n + 1
          <5>1. h = b
            BY <1>2, <3>1, <4>2 DEF InOrder, Before
          <5> QED
            BY <3>6, <5>1
        <4> QED
          BY <1>2, <4>1, <4>2
      <3>9. v.end >= p.end
        BY <1>1, <1>7, <2>0, <3>6, <3>7
      <3> QED
        BY <1>7, <3>2, <3>5, <3>6, <3>8, <3>9
    <2>2. CASE ~(\E m \in H : m.seq = n + 1)
      <3>1. ReplayOne(u, H, n + 1) = u
        BY <2>2 DEF ReplayOne
      <3>2. Shown(u, n + 1)
        <4> SUFFICES ASSUME NEW h \in H, h.seq <= n + 1 PROVE h.end <= u.end
          OBVIOUS
        <4>1. h.seq <= n
          BY <1>2, <2>2
        <4> QED
          BY <1>7, <4>1
      <3> QED
        BY <1>7, <3>1, <3>2
    <2> QED
      BY <2>1, <2>2
  <1> HIDE DEF U, Fine
  <1>8. 0 \in S
    BY <1>1, <1>5, <1>6
  <1>9. ASSUME NEW n \in Nat, n \in S PROVE n + 1 \in S
    <2>1. U[n + 1] = IF n + 1 <= p.seq THEN p ELSE ReplayOne(U[n], H, n + 1)
      <3>1. n + 1 \in Nat /\ (n + 1) - 1 = n
        OBVIOUS
      <3> QED
        BY <1>5, <3>1
    <2> QED
      BY <1>6, <1>7, <1>9, <2>1
  <1>10. \A n \in Nat : Fine(U[n], n)
    <2> HIDE DEF S
    <2>1. Nat \subseteq S
      BY <1>8, <1>9, Induct
    <2> QED
      BY <2>1 DEF S
  <1>11. Done(Replay(p, H))
    <2>1. CASE newer = {}
      <3>1. Replay(p, H) = p
        BY <2>1 DEF Replay
      <3>2. \A h \in H : h.seq <= p.seq
        BY <1>1, <1>2, <2>1
      <3> QED
        BY <1>4, <3>1, <3>2
    <2>2. CASE newer # {}
      <3> DEFINE N == Max(newer)
      <3>1. \A n \in newer : n \in 0..outputSeq
        BY <1>2
      <3>2. N \in newer /\ \A n \in newer : N >= n
        BY <2>2, <3>1, GreatestElement
      <3>3. Replay(p, H) = U[N]
        BY <2>2 DEF Replay, U
      <3>4. N \in Nat
        BY <3>1, <3>2
      <3> HIDE DEF N
      <3>5. Fine(U[N], N)
        BY <1>10, <3>4
      <3>6. ASSUME NEW h \in H PROVE h.end <= U[N].end
        <4>1. CASE h.seq <= p.seq
          <5>1. U[N].end \in Nat /\ U[N].end >= p.end
            BY <3>5 DEF Fine, PaneOK
          <5> QED
            BY <1>1, <1>2, <1>4, <4>1, <5>1
        <4>2. CASE ~(h.seq <= p.seq)
          <5>1. h.seq \in newer
            BY <1>1, <1>2, <4>2
          <5>2. h.seq <= N
            BY <1>2, <3>2, <3>4, <5>1
          <5> QED
            BY <3>5, <5>2 DEF Fine
        <4> QED
          BY <4>1, <4>2
      <3> QED
        BY <3>3, <3>5, <3>6 DEF Fine
    <2> QED
      BY <2>1, <2>2
  <1> DEFINE q == Replay(p, H)
  <1> HIDE DEF q
  <1>12. Done(q)
    BY <1>11 DEF q
  <1>13. Knows(q, R)
    BY <1>12 DEF Knows
  <1>14. Reaches(q, R, last)
    <2> SUFFICES ASSUME NEW x \in 1..last, q.end < x PROVE \E a \in R : Has(a, x)
      BY DEF Reaches
    <2>1. PICK a \in A : Has(a, x)
      BY <1>12 DEF Reaches
    <2>2. q.end \in Nat
      <3>1. PaneOK(Replay(p, H))
        BY ReplayOK
      <3> QED
        BY <3>1 DEF PaneOK, q
    <2>3. a \notin H
      BY <1>2, <1>12, <2>1, <2>2 DEF Has
    <2> QED
      BY <2>1, <2>3
  <1> QED
    BY <1>12, <1>13, <1>14 DEF q

----------------------------------------------------------------------------
(* The invariant: where each piece is. *)

\* The live batches and the baselines on the wire, ...
Sent == {wire[i] : i \in {k \in 1..Len(wire) : wire[k].kind = "live"}}
Baselines == {wire[i] : i \in {k \in 1..Len(wire) : wire[k].kind = "baseline"}}

\* ... what is read for a baseline, ...
Prepared == {r \in replies : r.step = "send"} \cup Baselines

\* ... what the host still fills, and all the pieces that are to come.
Rest == IF batch = <<>> THEN {} ELSE {[data |-> batch, seq |-> 0]}
Coming == Sent \cup flushes \cup Rest
Pieces == held \cup Coming

SentInOrder == \A i, j \in 1..Len(wire) :
    i < j /\ wire[i].kind = "live" /\ wire[j].kind = "live" => Before(wire[i], wire[j])

\* No piece is ahead of one that was announced before it.
StreamInOrder ==
    /\ SentInOrder /\ InOrder(held) /\ InOrder(flushes)
    /\ Precede(held, Coming)
    /\ Precede(Sent, flushes \cup Rest)
    /\ Precede(flushes, Rest)
    /\ \A a \in Pieces : Last(a.data) <= announced

AnswersKnow == \A b \in Prepared : Knows(b, Pieces)

\* The answer to the active request and the pieces to come leave nothing out, ...
AnswerReaches == \A b \in Prepared :
    request # 0 /\ b.id = request => Reaches(b, Pieces, announced)

\* ... for the phone has been a viewer since the request was heard.
Viewed == request # 0 /\ request \notin asks => viewer

AskedOnce == \A b \in replies \cup Baselines : b.id \notin asks

GoneIsIdle == link = "gone" => request = 0 /\ wire = <<>>

\* The pane of a phone that is bound and waits for nothing.
Shows == link = "bound" /\ request = 0 =>
    /\ viewer
    /\ Knows(pane, Pieces)
    /\ Reaches(pane, Pieces, announced)
    /\ history <= Window => Run(pane.content)

CoverInv ==
    /\ StreamInOrder /\ AnswersKnow /\ AnswerReaches
    /\ Viewed /\ AskedOnce /\ GoneIsIdle /\ Shows

LEMMA PieceFacts ==
  ASSUME TypeInv, OrderInv
  PROVE  /\ \A a \in held \cup Sent : LiveOK(a)
         /\ \A a \in Pieces : PieceOK(a) /\ Run(a.data) /\ a.seq <= outputSeq
         /\ \A b \in Baselines : BaselineOK(b)
         /\ announced \in Nat /\ history \in Nat /\ outputSeq \in Nat
  <1>1. announced \in Nat /\ history \in Nat /\ outputSeq \in Nat
    BY OutputAssumption DEF TypeInv, CountersOK
  <1>2. ASSUME NEW a \in held PROVE LiveOK(a) /\ Run(a.data)
    BY DEF TypeInv, HeldOK, OrderInv, HeldRuns
  <1>3. ASSUME NEW a \in Sent PROVE LiveOK(a) /\ Run(a.data)
    BY DEF Sent, TypeInv, WireOK, OrderInv, WireRuns, BaselineOK
  <1>4. ASSUME NEW b \in Baselines PROVE BaselineOK(b)
    BY DEF Baselines, TypeInv, WireOK, LiveOK
  <1>5. ASSUME NEW a \in held \cup Sent PROVE PieceOK(a) /\ Run(a.data) /\ a.seq <= outputSeq
    BY <1>1, <1>2, <1>3, LiveIsPiece
  <1>6. ASSUME NEW a \in flushes PROVE PieceOK(a) /\ Run(a.data) /\ a.seq <= outputSeq
    BY <1>1 DEF PieceOK, TypeInv, FlushesOK, OrderInv, FlushesRun
  <1>7. ASSUME NEW a \in Rest PROVE PieceOK(a) /\ Run(a.data) /\ a.seq <= outputSeq
    BY <1>1 DEF Rest, PieceOK, Texts, TypeInv, BatchOK, OrderInv, BatchRuns
  <1> QED
    BY <1>1, <1>2, <1>3, <1>4, <1>5, <1>6, <1>7 DEF Pieces, Coming

\* A message goes to the end of the wire, ...
LEMMA WireGrows ==
  ASSUME NEW m, m \in Envelopes, wire \in Seq(Envelopes), wire' = Append(wire, m)
  PROVE  /\ m.kind = "live" => /\ Sent' = Sent \cup {m} /\ Baselines' = Baselines
                               /\ SentInOrder /\ Precede(Sent, {m}) => SentInOrder'
         /\ m.kind = "baseline" => /\ Sent' = Sent /\ Baselines' = Baselines \cup {m}
                                   /\ SentInOrder => SentInOrder'
  <1>1. /\ Len(wire) \in Nat /\ Len(wire') = Len(wire) + 1 /\ wire'[Len(wire) + 1] = m
        /\ \A i \in 1..Len(wire) : wire'[i] = wire[i]
    OBVIOUS
  <1>2. \A i \in 1..Len(wire') : i \in 1..Len(wire) \/ i = Len(wire) + 1
    BY <1>1
  <1>3. 1..Len(wire) \subseteq 1..Len(wire') /\ Len(wire) + 1 \in 1..Len(wire')
    BY <1>1
  <1>4. ASSUME m.kind = "live" PROVE Sent' = Sent \cup {m} /\ Baselines' = Baselines
    BY <1>1, <1>2, <1>3, <1>4, Zenon DEF Sent, Baselines
  <1>5. ASSUME m.kind = "baseline" PROVE Sent' = Sent /\ Baselines' = Baselines \cup {m}
    BY <1>1, <1>2, <1>3, <1>5, Zenon DEF Sent, Baselines
  <1>6. ASSUME SentInOrder, m.kind = "live" => Precede(Sent, {m}) PROVE SentInOrder'
    <2> SUFFICES ASSUME NEW i \in 1..Len(wire'), NEW j \in 1..Len(wire'), i < j,
                        wire'[i].kind = "live", wire'[j].kind = "live"
                 PROVE  Before(wire'[i], wire'[j])
      BY DEF SentInOrder
    <2>1. i \in 1..Len(wire)
      BY <1>1, <1>2
    <2>2. CASE j \in 1..Len(wire)
      BY <1>1, <1>6, <2>1, <2>2 DEF SentInOrder
    <2>3. CASE j = Len(wire) + 1
      <3>1. wire[i] \in Sent /\ wire'[i] = wire[i] /\ wire'[j] = m
        BY <1>1, <2>1, <2>3 DEF Sent
      <3> QED
        BY <1>6, <3>1 DEF Precede
    <2> QED
      BY <1>2, <2>2, <2>3
  <1> QED
    BY <1>4, <1>5, <1>6

\* ... and is received from its front.
LEMMA WireShrinks ==
  ASSUME WireOK, wire # <<>>, wire' = Tail(wire)
  PROVE  /\ Sent' \subseteq Sent /\ Baselines' \subseteq Baselines
         /\ SentInOrder => SentInOrder'
         /\ Head(wire).kind = "live" =>
              /\ Sent = Sent' \cup {Head(wire)}
              /\ SentInOrder => Precede({Head(wire)}, Sent')
         /\ Head(wire).kind # "live" => Sent' = Sent /\ Head(wire) \in Baselines
  <1> DEFINE m == Head(wire)
  <1>1. /\ LiveOK(m) \/ BaselineOK(m)
        /\ Len(wire) \in Nat \ {0} /\ m = wire[1]
        /\ \A i \in 1..Len(wire') : i + 1 \in 1..Len(wire) /\ wire'[i] = wire[i + 1]
    BY HeadIsMessage
  <1>2. \A j \in 1..Len(wire) : j = 1 \/ (j - 1 \in 1..Len(wire') /\ wire[j] = wire'[j - 1])
    BY DEF WireOK
  <1>3. 1 \in 1..Len(wire)
    BY <1>1
  <1>4. m.kind # "live" => m.kind = "baseline"
    BY <1>1 DEF LiveOK, BaselineOK
  <1> HIDE DEF m
  <1>5. Sent' \subseteq Sent /\ Baselines' \subseteq Baselines
    BY <1>1 DEF Sent, Baselines
  <1>6. ASSUME SentInOrder PROVE SentInOrder'
    BY <1>1, <1>6 DEF SentInOrder
  <1>7. ASSUME NEW a \in Sent PROVE a = m \/ a \in Sent'
    <2>1. PICK j \in 1..Len(wire) : a = wire[j] /\ wire[j].kind = "live"
      BY DEF Sent
    <2>2. CASE j - 1 \in 1..Len(wire') /\ wire[j] = wire'[j - 1]
      BY <2>1, <2>2 DEF Sent
    <2> QED
      BY <1>1, <1>2, <2>1, <2>2
  <1>8. (m.kind = "live" => m \in Sent) /\ (m.kind # "live" => m \in Baselines /\ m \notin Sent)
    BY <1>1, <1>3, <1>4 DEF Sent, Baselines
  <1>9. ASSUME SentInOrder, m.kind = "live" PROVE Precede({m}, Sent')
    <2> SUFFICES ASSUME NEW a \in Sent' PROVE Before(m, a)
      BY DEF Precede
    <2>1. PICK i \in 1..Len(wire') : a = wire'[i] /\ wire'[i].kind = "live"
      BY DEF Sent
    <2>2. i + 1 \in 1..Len(wire) /\ a = wire[i + 1] /\ 1 < i + 1 /\ wire[i + 1].kind = "live"
      BY <1>1, <2>1
    <2> QED
      BY <1>1, <1>3, <1>9, <2>2 DEF SentInOrder
  <1> QED
    BY <1>5, <1>6, <1>7, <1>8, <1>9 DEF m

\* What was known or under way still is.
Carried == \A b : b.seq \in 0..outputSeq =>
    /\ Knows(b, Pieces) => Knows(b, Pieces')
    /\ Reaches(b, Pieces, announced) => Reaches(b, Pieces', announced')

\* What the parts of the invariant depend on.
LEMMA CoverKept ==
  ASSUME TypeInv, CoverInv
  PROVE  /\ Carried /\ Prepared' \subseteq Prepared => AnswersKnow'
         /\ Carried /\ Prepared' \subseteq Prepared /\ request' = request => AnswerReaches'
         /\ replies' \subseteq replies /\ Baselines' \subseteq Baselines /\ asks' \subseteq asks
            => AskedOnce'
         /\ request' = request /\ asks \subseteq asks' /\ (viewer => viewer') => Viewed'
         /\ /\ Carried /\ link' = link /\ request' = request /\ pane' = pane
            /\ viewer => viewer'
            /\ history' <= Window => history <= Window
            => Shows'
         /\ link' = link /\ request' = request /\ wire' = wire => GoneIsIdle'
         /\ request' = 0 => AnswerReaches' /\ Viewed'
         /\ ~(link' = "bound" /\ request' = 0) => Shows'
  <1>0. /\ \A b \in Prepared : b.seq \in 0..outputSeq
        /\ pane.seq \in 0..outputSeq
    BY DEF TypeInv, PaneOK, RepliesOK, WireOK, Prepared, Baselines, BaselineOK, LiveOK
  <1>1. ASSUME Carried, Prepared' \subseteq Prepared PROVE AnswersKnow'
    BY <1>0, <1>1 DEF CoverInv, AnswersKnow, Carried
  <1>2. ASSUME Carried, Prepared' \subseteq Prepared, request' = request
        PROVE  AnswerReaches'
    BY <1>0, <1>2 DEF CoverInv, AnswerReaches, Carried
  <1>3. ASSUME replies' \subseteq replies, Baselines' \subseteq Baselines, asks' \subseteq asks
        PROVE  AskedOnce'
    BY <1>3 DEF CoverInv, AskedOnce
  <1>4. ASSUME request' = request, asks \subseteq asks', viewer => viewer'
        PROVE  Viewed'
    BY <1>4 DEF CoverInv, Viewed
  <1>5. ASSUME Carried, link' = link, request' = request, viewer => viewer', pane' = pane,
               history' <= Window => history <= Window
        PROVE  Shows'
    BY <1>0, <1>5 DEF CoverInv, Shows, Carried
  <1>6. ASSUME link' = link, request' = request, wire' = wire PROVE GoneIsIdle'
    BY <1>6 DEF CoverInv, GoneIsIdle
  <1>7. ASSUME request' = 0 PROVE AnswerReaches' /\ Viewed'
    BY <1>7 DEF AnswerReaches, Viewed
  <1>8. ASSUME ~(link' = "bound" /\ request' = 0) PROVE Shows'
    BY <1>8 DEF Shows
  <1> QED
    BY <1>1, <1>2, <1>3, <1>4, <1>5, <1>6, <1>7, <1>8

LEMMA CarriedOver ==
  /\ Pieces' = Pieces /\ announced' = announced => Carried
  /\ /\ announced' = announced
     /\ \A a \in Pieces : \E c \in Pieces' : c.data = a.data
     /\ \A c \in Pieces' : c.seq > outputSeq \/ \E a \in Pieces : a.data = c.data /\ a.seq = c.seq
     /\ outputSeq \in Nat /\ \A c \in Pieces' : c.seq \in Nat
     => Carried
  <1>1. Pieces' = Pieces /\ announced' = announced => Carried
    BY DEF Carried
  <1>2. ASSUME announced' = announced,
               \A a \in Pieces : \E c \in Pieces' : c.data = a.data,
               \A c \in Pieces' : c.seq > outputSeq
                                  \/ \E a \in Pieces : a.data = c.data /\ a.seq = c.seq,
               outputSeq \in Nat, \A c \in Pieces' : c.seq \in Nat
        PROVE  Carried
    <2> SUFFICES ASSUME NEW b, b.seq \in 0..outputSeq
                 PROVE  /\ Knows(b, Pieces) => Knows(b, Pieces')
                        /\ Reaches(b, Pieces, announced) => Reaches(b, Pieces', announced)
      BY <1>2 DEF Carried
    <2>1. ASSUME Knows(b, Pieces), NEW c \in Pieces', c.seq # 0, c.seq <= b.seq
          PROVE  Last(c.data) <= b.end
      <3>1. ~(c.seq > outputSeq)
        BY <1>2, <2>1
      <3>2. PICK a \in Pieces : a.data = c.data /\ a.seq = c.seq
        BY <1>2, <3>1
      <3> QED
        BY <2>1, <3>2 DEF Knows
    <2>2. ASSUME Reaches(b, Pieces, announced), NEW x \in 1..announced, b.end < x
          PROVE  \E c \in Pieces' : Has(c, x)
      <3>1. PICK a \in Pieces : Has(a, x)
        BY <2>2 DEF Reaches
      <3>2. PICK c \in Pieces' : c.data = a.data
        BY <1>2
      <3> QED
        BY <3>1, <3>2 DEF Has
    <2> QED
      BY <2>1, <2>2 DEF Knows, Reaches
  <1> QED
    BY <1>1, <1>2

LEMMA SameStream ==
  ASSUME wire' = wire
  PROVE  /\ Sent' = Sent /\ Baselines' = Baselines
         /\ replies' = replies => Prepared' = Prepared
         /\ held' = held /\ flushes' = flushes /\ batch' = batch =>
              /\ Coming' = Coming /\ Pieces' = Pieces
              /\ StreamInOrder /\ announced' = announced => StreamInOrder'
  <1>1. Sent' = Sent /\ Baselines' = Baselines
    BY DEF Sent, Baselines
  <1>2. replies' = replies => Prepared' = Prepared
    BY <1>1 DEF Prepared
  <1>3. ASSUME held' = held, flushes' = flushes, batch' = batch
        PROVE  Rest' = Rest /\ Coming' = Coming /\ Pieces' = Pieces
    BY <1>1, <1>3 DEF Rest, Coming, Pieces
  <1>4. ASSUME held' = held, flushes' = flushes, batch' = batch, StreamInOrder,
               announced' = announced
        PROVE  StreamInOrder'
    <2>1. SentInOrder'
      BY <1>4 DEF StreamInOrder, SentInOrder
    <2> QED
      BY <1>1, <1>3, <1>4, <2>1 DEF StreamInOrder
  <1> QED
    BY <1>1, <1>2, <1>3, <1>4

----------------------------------------------------------------------------
(* The host. *)

LEMMA CommitCover == TypeInv /\ CoverInv /\ Commit => CoverInv'
  <1> SUFFICES ASSUME TypeInv, CoverInv, Commit PROVE CoverInv'
    OBVIOUS
  <1> USE DEF Commit, phoneVars
  <1>1. history' <= Window => history <= Window
    BY OutputAssumption DEF TypeInv, CountersOK
  <1> QED
    BY <1>1, SameStream, CarriedOver, CoverKept DEF CoverInv

LEMMA AnnounceCover == TypeInv /\ OrderInv /\ CoverInv /\ Announce => CoverInv'
  <1> SUFFICES ASSUME TypeInv, OrderInv, CoverInv, Announce PROVE CoverInv'
    OBVIOUS
  <1> USE DEF Announce, phoneVars
  <1>0. /\ announced \in Nat /\ history \in Nat /\ announced' = history /\ history = announced + 1
        /\ history \in Positions /\ wire' = wire /\ Sent' = Sent /\ Baselines' = Baselines
        /\ Prepared' = Prepared
    BY SameStream, OutputAssumption DEF TypeInv, CountersOK, Positions
  <1>1. \A a \in Pieces : PieceOK(a) /\ a.data[1] \in Nat /\ Last(a.data) \in Nat /\ a.seq \in Nat
                          /\ Last(a.data) <= announced
    BY PieceFacts, PieceNumbers DEF PieceOK, CoverInv, StreamInOrder
  <1>2. CASE ~viewer
    <2>1. Rest' = Rest /\ Coming' = Coming /\ Pieces' = Pieces
      BY <1>0, <1>2 DEF Rest, Coming, Pieces
    <2>2. StreamInOrder'
      <3>1. SentInOrder'
        BY DEF CoverInv, StreamInOrder, SentInOrder
      <3>2. \A a \in Pieces : Last(a.data) <= history
        BY <1>0, <1>1
      <3> QED
        BY <1>0, <2>1, <3>1, <3>2 DEF CoverInv, StreamInOrder
    <2>3. AnswersKnow'
      BY <1>0, <2>1 DEF CoverInv, AnswersKnow
    <2>4. ~(request # 0 /\ request \notin asks)
      BY <1>2 DEF CoverInv, Viewed
    <2>5. AnswerReaches'
      <3>1. \A b \in Prepared : b.id \notin asks
        BY DEF CoverInv, AskedOnce, Prepared
      <3> QED
        BY <1>0, <2>4, <3>1 DEF AnswerReaches
    <2>6. Shows'
      BY <1>2 DEF CoverInv, Shows
    <2> QED
      BY <1>0, <2>2, <2>3, <2>5, <2>6, CoverKept DEF CoverInv
  <1>3. CASE viewer
    <2> DEFINE g == [data |-> Append(batch, history), seq |-> 0]
    <2>1. batch' = g.data /\ g.seq = 0
      BY <1>3
    <2>2. g.data \in Seq(Positions) /\ g.data # <<>> /\ Run(g.data) /\ Last(g.data) = history
      BY <1>0, <1>3, RunGrows DEF TypeInv, BatchOK, OrderInv, BatchRuns
    <2>3. batch # <<>> => g.data[1] = batch[1]
      BY DEF TypeInv, BatchOK
    <2>4. batch = <<>> => g.data[1] = history
      OBVIOUS
    <2>5. Rest' = {g}
      BY <2>1, <2>2 DEF Rest
    <2> HIDE DEF g
    <2>6. g.data \in Texts /\ g.data[1] \in Nat /\ g.data[1] <= history
      BY <2>2, PieceNumbers DEF Texts
    <2>7. \A a \in held \cup Sent \cup flushes : Before(a, g)
      <3> SUFFICES ASSUME NEW a \in held \cup Sent \cup flushes PROVE Last(a.data) < g.data[1]
        BY <2>1 DEF Before
      <3>1. a \in Pieces
        BY DEF Pieces, Coming
      <3>2. CASE batch = <<>>
        BY <1>0, <1>1, <2>4, <3>1, <3>2
      <3>3. CASE batch # <<>>
        <4> DEFINE c == [data |-> batch, seq |-> 0]
        <4>1. c \in Rest
          BY <3>3 DEF Rest
        <4>2. Before(a, c)
          BY <4>1 DEF CoverInv, StreamInOrder, Precede, Coming
        <4> QED
          BY <2>3, <3>3, <4>2 DEF Before
      <3> QED
        BY <3>2, <3>3
    <2>8. Coming' = Sent \cup flushes \cup {g} /\ Pieces' = held \cup Sent \cup flushes \cup {g}
      BY <1>0, <2>5 DEF Coming, Pieces
    <2>9. StreamInOrder'
      <3>1. SentInOrder'
        BY DEF CoverInv, StreamInOrder, SentInOrder
      <3>2. InOrder(held') /\ InOrder(flushes')
        BY DEF CoverInv, StreamInOrder
      <3>3. Precede(held', Coming') /\ Precede(Sent', flushes' \cup Rest') /\ Precede(flushes', Rest')
        BY <1>0, <2>5, <2>7, <2>8 DEF CoverInv, StreamInOrder, Precede, Coming
      <3>4. \A a \in Pieces' : Last(a.data) <= history
        <4>1. \A a \in held \cup Sent \cup flushes : a \in Pieces
          BY DEF Pieces, Coming
        <4> QED
          BY <1>0, <1>1, <2>2, <2>8, <4>1
      <3> QED
        BY <1>0, <3>1, <3>2, <3>3, <3>4 DEF StreamInOrder
    <2>10. Carried
      <3> SUFFICES ASSUME NEW b, b.seq \in 0..outputSeq
                   PROVE  /\ Knows(b, Pieces) => Knows(b, Pieces')
                          /\ Reaches(b, Pieces, announced) => Reaches(b, Pieces', history)
        BY <1>0 DEF Carried
      <3>1. Knows(b, Pieces) => Knows(b, Pieces')
        BY <2>1, <2>8 DEF Knows, Pieces, Coming
      <3>2. ASSUME Reaches(b, Pieces, announced), NEW x \in 1..history, b.end < x
            PROVE  \E c \in Pieces' : Has(c, x)
        <4>1. CASE x = history
          BY <2>2, <2>6, <2>8, <4>1 DEF Has
        <4>2. CASE x # history
          <5>1. x \in 1..announced
            BY <1>0, <4>2
          <5>2. PICK a \in Pieces : Has(a, x)
            BY <3>2, <5>1 DEF Reaches
          <5>3. CASE a \in Rest
            <6>1. a.data = batch /\ batch # <<>>
              BY <5>3 DEF Rest
            <6>2. g.data[1] <= x /\ x <= Last(g.data)
              BY <1>0, <2>2, <2>3, <5>1, <5>2, <6>1 DEF Has
            <6> QED
              BY <2>8, <6>2 DEF Has
          <5>4. CASE a \notin Rest
            BY <2>8, <5>2, <5>4 DEF Pieces, Coming
          <5> QED
            BY <5>3, <5>4
        <4> QED
          BY <4>1, <4>2
      <3> QED
        BY <3>1, <3>2 DEF Reaches
    <2> QED
      BY <1>0, <2>9, <2>10, CoverKept DEF CoverInv
  <1> QED
    BY <1>2, <1>3

LEMMA TakeBatchCover == TypeInv /\ CoverInv /\ TakeBatch => CoverInv'
  <1> SUFFICES ASSUME TypeInv, CoverInv, TakeBatch PROVE CoverInv'
    OBVIOUS
  <1> USE DEF TakeBatch, phoneVars
  <1>1. flushes' = flushes \cup Rest /\ Rest' = {}
    BY DEF Rest
  <1>2. Sent' = Sent /\ Baselines' = Baselines /\ Prepared' = Prepared
    BY SameStream
  <1>3. Coming' = Coming /\ Pieces' = Pieces
    BY <1>1, <1>2 DEF Coming, Pieces
  <1>4. StreamInOrder'
    <2>1. SentInOrder'
      BY DEF CoverInv, StreamInOrder, SentInOrder
    <2>2. InOrder(flushes \cup Rest)
      <3>1. \A a, b \in Rest : a = b
        BY DEF Rest
      <3> QED
        BY <3>1 DEF CoverInv, StreamInOrder, InOrder, Precede
    <2>3. Precede(flushes \cup Rest, {})
      BY DEF Precede
    <2> QED
      BY <1>1, <1>2, <1>3, <2>1, <2>2, <2>3 DEF CoverInv, StreamInOrder
  <1> QED
    BY <1>2, <1>3, <1>4, CarriedOver, CoverKept DEF CoverInv

\* A flush that overtakes no other is the first of them.
LEMMA FirstFlush ==
  ASSUME TypeInv, OrderInv, NEW f \in flushes, NEW S, S \subseteq flushes,
         InOrder(flushes), Overtaking(f, S) = {}
  PROVE  \A a \in S : a = f \/ Before(f, a)
  <1> SUFFICES ASSUME NEW a \in S, a # f PROVE Before(f, a)
    OBVIOUS
  <1>1. ~(a.data[1] < f.data[1])
    BY DEF Overtaking
  <1>2. /\ a.data[1] \in Nat /\ f.data[1] \in Nat /\ Last(a.data) \in Nat
        /\ a.data[1] <= Last(a.data)
    BY PieceNumbers DEF TypeInv, FlushesOK, OrderInv, FlushesRun
  <1>3. ~Before(a, f)
    BY <1>1, <1>2 DEF Before
  <1> QED
    BY <1>3 DEF InOrder

LEMMA NumberBatchCover ==
  ASSUME TypeInv, OrderInv, CoverInv, NEW f \in flushes, NumberBatch(f), mishaps' = {}
  PROVE  CoverInv'
  <1> USE DEF NumberBatch, phoneVars
  <1> DEFINE g == [data |-> f.data, seq |-> outputSeq + 1]
  <1>1. /\ outputSeq \in Nat /\ flushes' = (flushes \ {f}) \cup {g}
        /\ g.data = f.data /\ g.seq = outputSeq + 1 /\ g.seq # 0
    BY DEF TypeInv, CountersOK
  <1> HIDE DEF g
  <1>2. /\ wire' = wire /\ Sent' = Sent /\ Baselines' = Baselines /\ Prepared' = Prepared
        /\ Rest' = Rest /\ held' = held /\ announced' = announced
    BY SameStream DEF Rest
  <1>3. /\ Pieces = held \cup Sent \cup flushes \cup Rest
        /\ Pieces' = held \cup Sent \cup ((flushes \ {f}) \cup {g}) \cup Rest
        /\ Coming' = Sent \cup ((flushes \ {f}) \cup {g}) \cup Rest
        /\ Coming = Sent \cup flushes \cup Rest
    BY <1>1, <1>2 DEF Pieces, Coming
  <1>4. \A a \in Pieces : a.seq \in Nat /\ a.seq <= outputSeq
    BY PieceFacts DEF PieceOK
  <1>5. \A a \in held \cup Sent : a.seq # 0
    BY PieceFacts, LiveIsPiece
  <1>6. ASSUME NEW a \in flushes, Before(a, f) PROVE a.seq # 0
    <2>1. CASE a.seq = 0
      <3>1. Overtaking(f, {h \in flushes : h.seq = 0}) = {}
        OBVIOUS
      <3>2. a = f \/ Before(f, a)
        BY <2>1, <3>1, FirstFlush DEF CoverInv, StreamInOrder
      <3>3. /\ a.data[1] \in Nat /\ f.data[1] \in Nat /\ Last(a.data) \in Nat /\ Last(f.data) \in Nat
            /\ a.data[1] <= Last(a.data) /\ f.data[1] <= Last(f.data)
        BY PieceNumbers DEF TypeInv, FlushesOK, OrderInv, FlushesRun
      <3> QED
        BY <1>6, <3>2, <3>3 DEF Before
    <2> QED
      BY <2>1
  <1>7. ASSUME NEW a \in held \cup Sent \cup flushes, Before(a, f) PROVE Before(a, g)
    <2>1. a.seq # 0 /\ a.seq < outputSeq + 1
      BY <1>1, <1>3, <1>4, <1>5, <1>6, <1>7
    <2> QED
      BY <1>1, <1>7, <2>1 DEF Before
  <1>8. ASSUME NEW a, Before(f, a) PROVE Before(g, a)
    BY <1>1, <1>8 DEF Before
  <1>9. StreamInOrder'
    <2> USE DEF CoverInv, StreamInOrder
    <2>1. SentInOrder' /\ InOrder(held')
      BY <1>2 DEF SentInOrder
    <2>2. InOrder((flushes \ {f}) \cup {g})
      BY <1>7, <1>8 DEF InOrder
    <2>3. Precede(held, Coming')
      <3>1. \A a \in held : Before(a, f) /\ \A b \in Coming : Before(a, b)
        BY <1>3 DEF Precede
      <3> QED
        BY <1>3, <1>7, <3>1 DEF Precede
    <2>4. Precede(Sent, ((flushes \ {f}) \cup {g}) \cup Rest)
      BY <1>7 DEF Precede
    <2>5. Precede((flushes \ {f}) \cup {g}, Rest)
      BY <1>8 DEF Precede
    <2>6. \A a \in Pieces' : Last(a.data) <= announced
      BY <1>1, <1>3
    <2> QED
      BY <1>1, <1>2, <2>1, <2>2, <2>3, <2>4, <2>5, <2>6
  <1>10. Carried
    <2>1. \A a \in Pieces : \E c \in Pieces' : c.data = a.data
      BY <1>1, <1>3
    <2>2. \A c \in Pieces' : c.seq > outputSeq \/ \E a \in Pieces : a.data = c.data /\ a.seq = c.seq
      BY <1>1, <1>3
    <2>3. \A c \in Pieces' : c.seq \in Nat
      BY <1>1, <1>3, <1>4
    <2> QED
      BY <1>1, <1>2, <2>1, <2>2, <2>3, CarriedOver
  <1> QED
    BY <1>2, <1>9, <1>10, CoverKept DEF CoverInv

LEMMA SendBatchCover ==
  ASSUME TypeInv, OrderInv, CoverInv, NEW f \in flushes, SendBatch(f), mishaps' = {}
  PROVE  CoverInv'
  <1> USE DEF SendBatch, phoneVars
  <1> DEFINE m == Live(f.data, f.seq)
  <1>0. /\ LiveOK(m) /\ m.kind = "live" /\ m.data = f.data /\ m.seq = f.seq
    BY FlushIsLive DEF Live
  <1>1. /\ Send(m, Overtaking(f, flushes)) /\ flushes' = flushes \ {f} /\ Rest' = Rest
        /\ UNCHANGED <<held, announced, replies, asks, request, link, pane, viewer, history>>
    BY DEF Rest
  <1> HIDE DEF m
  <1>2. \/ link # "gone" /\ wire' = Append(wire, m) /\ Overtaking(f, flushes) = {}
        \/ link = "gone" /\ wire' = wire
    BY <1>1 DEF Send
  <1>3. CASE link # "gone" /\ wire' = Append(wire, m) /\ Overtaking(f, flushes) = {}
    <2> USE DEF CoverInv, StreamInOrder
    <2>1. m \in Envelopes /\ wire \in Seq(Envelopes)
      BY <1>0 DEF LiveOK, TypeInv, WireOK
    <2>2. \A a : (Before(a, f) => Before(a, m)) /\ (Before(f, a) => Before(m, a))
      BY <1>0 DEF Before
    <2>3. Precede(Sent, {m})
      BY <2>2 DEF Precede
    <2>4. Sent' = Sent \cup {m} /\ Baselines' = Baselines /\ SentInOrder'
      BY <1>0, <1>3, <2>1, <2>3, WireGrows
    <2>5. \A a \in flushes : a = f \/ Before(f, a)
      BY <1>3, FirstFlush
    <2>6. /\ Pieces = held \cup Sent \cup flushes \cup Rest
          /\ Pieces' = held \cup (Sent \cup {m}) \cup (flushes \ {f}) \cup Rest
          /\ Coming' = (Sent \cup {m}) \cup (flushes \ {f}) \cup Rest
          /\ Coming = Sent \cup flushes \cup Rest
      BY <1>1, <2>4 DEF Pieces, Coming
    <2>7. StreamInOrder'
      <3>1. InOrder(held') /\ InOrder(flushes \ {f})
        BY <1>1 DEF InOrder
      <3>2. Precede(held, Coming')
        <4>1. \A a \in held : Before(a, f) /\ \A b \in Coming : Before(a, b)
          BY <2>6 DEF Precede
        <4> QED
          BY <2>2, <2>6, <4>1 DEF Precede
      <3>3. Precede(Sent \cup {m}, (flushes \ {f}) \cup Rest)
        <4>1. \A b \in (flushes \ {f}) \cup Rest : Before(f, b)
          BY <2>5 DEF Precede
        <4>2. \A b \in (flushes \ {f}) \cup Rest : Before(m, b)
          BY <2>2, <4>1
        <4> QED
          BY <4>2 DEF Precede
      <3>4. Precede(flushes \ {f}, Rest)
        BY DEF Precede
      <3>5. \A a \in Pieces' : Last(a.data) <= announced
        BY <1>0, <2>6
      <3> QED
        BY <1>1, <2>4, <3>1, <3>2, <3>3, <3>4, <3>5
    <2>8. Carried
      <3>1. \A a \in Pieces : \E c \in Pieces' : c.data = a.data
        BY <1>0, <2>6
      <3>2. \A c \in Pieces' : \E a \in Pieces : a.data = c.data /\ a.seq = c.seq
        BY <1>0, <2>6
      <3>3. outputSeq \in Nat /\ \A a \in Pieces : a.seq \in Nat
        BY PieceFacts DEF PieceOK
      <3>4. \A c \in Pieces' : c.seq \in Nat
        BY <3>2, <3>3
      <3> QED
        BY <1>1, <3>1, <3>2, <3>3, <3>4, CarriedOver
    <2>9. Prepared' = Prepared
      BY <1>1, <2>4 DEF Prepared
    <2>10. GoneIsIdle'
      BY <1>1, <1>3 DEF GoneIsIdle
    <2> QED
      BY <1>1, <2>4, <2>7, <2>8, <2>9, <2>10, CoverKept
  <1>4. CASE link = "gone" /\ wire' = wire
    <2>1. Sent' = Sent /\ Baselines' = Baselines /\ Prepared' = Prepared
      BY <1>1, <1>4, SameStream
    <2>2. Coming' \subseteq Coming /\ Pieces' \subseteq Pieces
      BY <1>1, <2>1 DEF Pieces, Coming
    <2>3. StreamInOrder'
      <3>1. SentInOrder'
        BY <1>4 DEF CoverInv, StreamInOrder, SentInOrder
      <3> QED
        BY <1>1, <2>1, <2>2, <3>1 DEF CoverInv, StreamInOrder, InOrder, Precede
    <2>4. AnswersKnow'
      BY <2>1, <2>2 DEF CoverInv, AnswersKnow, Knows
    <2>5. request' = 0 /\ ~(link' = "bound" /\ request' = 0)
      BY <1>1, <1>4 DEF CoverInv, GoneIsIdle
    <2> QED
      BY <1>1, <1>4, <2>1, <2>3, <2>4, <2>5, CoverKept DEF CoverInv
  <1> QED
    BY <1>2, <1>3, <1>4

LEMMA SubscribeCover ==
  ASSUME TypeInv, CoverInv, NEW id \in asks, Subscribe(id)
  PROVE  CoverInv'
  <1> USE DEF Subscribe, phoneVars
  <1>1. /\ Sent' = Sent /\ Baselines' = Baselines /\ Pieces' = Pieces /\ StreamInOrder'
        /\ announced' = announced
    BY SameStream DEF CoverInv
  <1>2. Prepared' = Prepared
    BY <1>1 DEF Prepared, Reply
  <1>3. AskedOnce'
    <2>1. \A b \in replies' : b \in replies \/ b.id = id
      BY DEF Reply
    <2> QED
      BY <1>1, <2>1 DEF CoverInv, AskedOnce
  <1>4. Viewed'
    BY DEF Viewed
  <1> QED
    BY <1>1, <1>2, <1>3, <1>4, CarriedOver, CoverKept DEF CoverInv

\* The snapshot has all that was announced before it.
LEMMA PrepareCover ==
  ASSUME TypeInv, OrderInv, CoverInv, NEW r \in replies, Prepare(r)
  PROVE  CoverInv'
  <1> USE DEF Prepare, phoneVars
  <1>1. /\ Sent' = Sent /\ Baselines' = Baselines /\ Pieces' = Pieces /\ StreamInOrder'
        /\ announced' = announced
    BY SameStream DEF CoverInv
  <1>p. PICK s : /\ replies' = (replies \ {r}) \cup {s}
                 /\ \/ s = Reply(r.id, "snapshot", outputSeq, r.end)
                    \/ s = Reply(r.id, "send", r.seq, history)
    BY DEF ReadBaseline
  <1>2. /\ replies' = (replies \ {r}) \cup {s} /\ s.id = r.id
        /\ s.step = "send" => s.end = history
    BY <1>p DEF Reply
  <1>3. Prepared' \subseteq Prepared \cup (IF s.step = "send" THEN {s} ELSE {})
    BY <1>1, <1>2 DEF Prepared
  <1>4. /\ announced \in Nat /\ history \in Nat /\ announced <= history
        /\ \A a \in Pieces : Last(a.data) <= announced /\ Last(a.data) \in Nat
    BY PieceFacts, PieceNumbers DEF PieceOK, TypeInv, CountersOK, CoverInv, StreamInOrder
  <1>5. ASSUME s.step = "send" PROVE Knows(s, Pieces) /\ Reaches(s, Pieces, announced)
    <2>1. s.end = history
      BY <1>2, <1>5
    <2>2. Knows(s, Pieces)
      BY <1>4, <2>1 DEF Knows
    <2>3. Reaches(s, Pieces, announced)
      BY <1>4, <2>1 DEF Reaches
    <2> QED
      BY <2>2, <2>3
  <1>6. AnswersKnow'
    BY <1>1, <1>3, <1>5 DEF CoverInv, AnswersKnow
  <1>7. AnswerReaches'
    BY <1>1, <1>3, <1>5 DEF CoverInv, AnswerReaches
  <1>8. AskedOnce'
    BY <1>1, <1>2 DEF CoverInv, AskedOnce
  <1> QED
    BY <1>1, <1>6, <1>7, <1>8, CarriedOver, CoverKept DEF CoverInv

LEMMA AnswerCover ==
  ASSUME TypeInv, CoverInv, NEW r \in replies, Answer(r), mishaps' = {}
  PROVE  CoverInv'
  <1> USE DEF Answer, phoneVars
  <1> DEFINE m == Baseline(r)
  <1>0. BaselineOK(m) /\ m.kind = "baseline" /\ m.id = r.id /\ m.end = r.end /\ m.seq = r.seq
    BY AnswerIsBaseline DEF Baseline
  <1>1. /\ Send(m, {}) /\ replies' = replies \ {r} /\ Rest' = Rest /\ r \in Prepared
        /\ UNCHANGED <<held, flushes, batch, announced, asks, request, link, pane, viewer, history>>
    BY DEF Rest, Prepared
  <1> HIDE DEF m
  <1>2. \/ link # "gone" /\ wire' = Append(wire, m)
        \/ link = "gone" /\ wire' = wire
    BY <1>1 DEF Send
  <1>3. /\ Sent' = Sent /\ Baselines' \subseteq Baselines \cup {m} /\ (SentInOrder => SentInOrder')
        /\ GoneIsIdle'
    <2>1. CASE link # "gone" /\ wire' = Append(wire, m)
      <3>1. m \in Envelopes /\ wire \in Seq(Envelopes)
        BY <1>0 DEF BaselineOK, TypeInv, WireOK
      <3>2. GoneIsIdle'
        BY <1>1, <2>1 DEF GoneIsIdle
      <3> QED
        BY <1>0, <2>1, <3>1, <3>2, WireGrows
    <2>2. CASE link = "gone" /\ wire' = wire
      <3>1. SentInOrder => SentInOrder'
        BY <2>2 DEF SentInOrder
      <3> QED
        BY <1>1, <2>2, <3>1, SameStream, CoverKept DEF CoverInv
    <2> QED
      BY <1>2, <2>1, <2>2
  <1>4. Coming' = Coming /\ Pieces' = Pieces
    BY <1>1, <1>3 DEF Coming, Pieces
  <1>5. StreamInOrder'
    BY <1>1, <1>3, <1>4 DEF CoverInv, StreamInOrder
  <1>6. Prepared' \subseteq Prepared \cup {m}
    BY <1>1, <1>3 DEF Prepared
  <1>7. Knows(r, Pieces) => Knows(m, Pieces)
    BY <1>0 DEF Knows
  <1>8. Reaches(r, Pieces, announced) => Reaches(m, Pieces, announced)
    BY <1>0 DEF Reaches
  <1>9. AnswersKnow'
    BY <1>1, <1>4, <1>6, <1>7 DEF CoverInv, AnswersKnow
  <1>10. AnswerReaches'
    BY <1>0, <1>1, <1>4, <1>6, <1>8 DEF CoverInv, AnswerReaches
  <1>11. AskedOnce'
    BY <1>0, <1>1, <1>3 DEF CoverInv, AskedOnce
  <1> QED
    BY <1>1, <1>3, <1>4, <1>5, <1>9, <1>10, <1>11, CarriedOver, CoverKept DEF CoverInv

LEMMA ForgetCover == TypeInv /\ CoverInv /\ Forget => CoverInv'
  <1> SUFFICES ASSUME TypeInv, CoverInv, Forget PROVE CoverInv'
    OBVIOUS
  <1> USE DEF Forget, phoneVars
  <1>1. /\ Sent' = Sent /\ Baselines' = Baselines /\ Pieces' = Pieces /\ StreamInOrder'
        /\ Prepared' = Prepared /\ announced' = announced
    BY SameStream DEF CoverInv
  <1>2. request' = 0 /\ link' = "gone"
    BY DEF CoverInv, GoneIsIdle
  <1> QED
    BY <1>1, <1>2, CarriedOver, CoverKept DEF CoverInv

----------------------------------------------------------------------------
(* The phone. *)

LEMMA StreamShrinks ==
  ASSUME StreamInOrder, held' \subseteq held, Sent' \subseteq Sent, SentInOrder',
         flushes' = flushes, batch' = batch, announced' = announced
  PROVE  StreamInOrder' /\ Pieces' \subseteq Pieces
  <1>1. Rest' = Rest
    BY DEF Rest
  <1>2. Coming' \subseteq Coming /\ Pieces' \subseteq Pieces
    BY <1>1 DEF Coming, Pieces
  <1> QED
    BY <1>1, <1>2 DEF StreamInOrder, InOrder, Precede

\* Nothing that is under way answers a request that is just made.
LEMMA RequestCover ==
  ASSUME TypeInv, CoverInv, Request, UNCHANGED hostVars, link' # "gone",
         Sent' \subseteq Sent, Baselines' \subseteq Baselines, SentInOrder'
  PROVE  CoverInv'
  <1>1. /\ lastRequest \in Nat /\ request' = lastRequest + 1 /\ held' = {}
        /\ asks' = asks \cup {request'}
        /\ flushes' = flushes /\ batch' = batch /\ announced' = announced /\ replies' = replies
    BY DEF TypeInv, CountersOK, Request, hostVars
  <1>2. StreamInOrder' /\ Pieces' \subseteq Pieces
    <2>1. held' \subseteq held
      BY <1>1
    <2> QED
      BY <1>1, <2>1, StreamShrinks DEF CoverInv
  <1>3. Prepared' \subseteq Prepared
    BY <1>1 DEF Prepared
  <1>4. AnswersKnow'
    BY <1>2, <1>3 DEF CoverInv, AnswersKnow, Knows
  <1>5. \A b \in replies \cup Baselines : b.id # request'
    <2>1. \A b \in replies \cup Baselines : b.id \in 1..lastRequest
      BY DEF TypeInv, RepliesOK, WireOK, Baselines, LiveOK, BaselineOK
    <2> QED
      BY <1>1, <2>1
  <1>6. AnswerReaches'
    <2>1. \A b \in Prepared' : b.id # request'
      BY <1>3, <1>5 DEF Prepared
    <2> QED
      BY <2>1 DEF AnswerReaches
  <1>7. AskedOnce'
    BY <1>1, <1>5 DEF CoverInv, AskedOnce
  <1>8. Viewed'
    BY <1>1 DEF Viewed
  <1>9. GoneIsIdle'
    BY DEF GoneIsIdle
  <1>10. Shows'
    BY <1>1 DEF Shows
  <1> QED
    BY <1>2, <1>4, <1>6, <1>7, <1>8, <1>9, <1>10 DEF CoverInv

LEMMA HoldCover ==
  ASSUME TypeInv, OrderInv, CoverInv, Receive, Head(wire).kind = "live", Hold(Head(wire)),
         mishaps' = {}
  PROVE  CoverInv'
  <1> DEFINE m == Head(wire)
  <1>1. /\ wire # <<>> /\ wire' = Tail(wire) /\ UNCHANGED hostVars /\ link' = link
        /\ held' = HeldWith(m) /\ UNCHANGED <<pane, request, asks>>
    BY DEF Receive, Hold
  <1>2. /\ Sent = Sent' \cup {m} /\ Baselines' \subseteq Baselines /\ SentInOrder'
        /\ Precede({m}, Sent')
    BY <1>1, WireShrinks DEF TypeInv, CoverInv, StreamInOrder
  <1> HIDE DEF m
  <1>3. LiveOK(m) /\ m.seq \in Nat /\ m.seq # 0 /\ \A h \in held : h.seq \in Nat
    BY <1>2, PieceFacts, LiveIsPiece
  <1> USE DEF CoverInv, StreamInOrder
  <1>4. \A h \in held : Before(h, m)
    BY <1>2 DEF Precede, Coming
  <1>5. held' = held \cup {m}
    <2>1. \A h \in held : h.seq # m.seq
      BY <1>3, <1>4 DEF Before
    <2> QED
      BY <1>1, <2>1 DEF HeldWith
  <1>6. /\ flushes' = flushes /\ Rest' = Rest /\ announced' = announced /\ replies' = replies
        /\ viewer' = viewer /\ history' = history
    BY <1>1 DEF hostVars, Rest
  <1>7. /\ Coming = Sent \cup flushes \cup Rest /\ Coming' = Sent' \cup flushes \cup Rest
        /\ Pieces' = Pieces
    BY <1>2, <1>5, <1>6 DEF Coming, Pieces
  <1>8. StreamInOrder'
    <2>1. InOrder(held \cup {m})
      BY <1>4 DEF InOrder
    <2>2. Precede(held \cup {m}, Coming')
      BY <1>2, <1>7 DEF Precede
    <2>3. Precede(Sent', flushes \cup Rest)
      BY <1>2 DEF Precede
    <2> QED
      BY <1>2, <1>5, <1>6, <1>7, <2>1, <2>2, <2>3
  <1>9. Prepared' \subseteq Prepared
    BY <1>2, <1>6 DEF Prepared
  <1>10. GoneIsIdle'
    BY <1>1 DEF GoneIsIdle
  <1> QED
    BY <1>1, <1>2, <1>6, <1>7, <1>8, <1>9, <1>10, CarriedOver, CoverKept

\* What is received next is the first of the pieces, and leaves no hole.
LEMMA ShowCover ==
  ASSUME TypeInv, OrderInv, CoverInv, Receive, Head(wire).kind = "live", Show(Head(wire))
  PROVE  CoverInv'
  <1> DEFINE m == Head(wire)
  <1>1. /\ wire # <<>> /\ wire' = Tail(wire) /\ UNCHANGED hostVars /\ link' = link
        /\ ~awaiting /\ pane' = AcceptLive(pane, m)
        /\ Request \/ UNCHANGED <<awaiting, held, request, lastRequest, asks>>
    BY DEF Receive, Show
  <1>2. /\ Sent = Sent' \cup {m} /\ Sent' \subseteq Sent /\ Baselines' \subseteq Baselines
        /\ SentInOrder' /\ Precede({m}, Sent')
    BY <1>1, WireShrinks DEF TypeInv, CoverInv, StreamInOrder
  <1> HIDE DEF m
  <1>3. link' # "gone"
    BY <1>1 DEF CoverInv, GoneIsIdle
  <1>4. CASE Request
    BY <1>1, <1>2, <1>3, <1>4, RequestCover
  <1>5. CASE UNCHANGED <<awaiting, held, request, lastRequest, asks>>
    <2>1. /\ request = 0 /\ request' = 0 /\ held = {} /\ held' = held /\ asks' = asks
          /\ flushes' = flushes /\ Rest' = Rest /\ batch' = batch /\ announced' = announced
          /\ replies' = replies /\ viewer' = viewer /\ history' = history
      BY <1>1, <1>5 DEF OrderInv, Waits, TypeInv, HeldOK, hostVars, Rest
    <2>2. StreamInOrder' /\ Pieces' \subseteq Pieces
      BY <1>2, <2>1, StreamShrinks DEF CoverInv
    <2>3. Pieces = Pieces' \cup {m} /\ m \in Pieces
      BY <1>2, <2>1 DEF Pieces, Coming
    <2>4. \A a \in Pieces : a = m \/ Before(m, a)
      BY <1>2, <2>1 DEF CoverInv, StreamInOrder, Precede, Pieces, Coming
    <2>5. /\ LiveOK(m) /\ Run(m.data) /\ m.end = Last(m.data) /\ m.end <= announced
          /\ \A a \in Pieces : PieceOK(a)
          /\ announced \in Nat /\ history \in Nat /\ outputSeq \in Nat
          /\ PaneOK(pane) /\ Sound(pane)
      BY <1>2, <2>3, PieceFacts, LiveIsPiece DEF CoverInv, StreamInOrder, TypeInv, OrderInv
    <2>6. ASSUME link = "bound" PROVE Shows'
      <3>1. /\ viewer /\ Knows(pane, Pieces) /\ Reaches(pane, Pieces, announced)
            /\ history <= Window => Run(pane.content)
        BY <2>1, <2>6 DEF CoverInv, Shows
      <3> DEFINE q == AcceptLive(pane, m)
      <3>2. /\ m.end <= q.end /\ Knows(q, Pieces) /\ Reaches(q, Pieces, announced)
            /\ Run(pane.content) => Run(q.content)
        <4>1. \A a \in Pieces : a = m \/ Before(m, a) \/ Last(a.data) <= pane.end
          BY <2>4
        <4> QED
          BY <2>3, <2>5, <3>1, <4>1, AcceptCovers
      <3>3. q.end \in Nat
        <4>1. PaneOK(q)
          BY <2>5, AcceptLiveOK
        <4> QED
          BY <4>1 DEF PaneOK
      <3> HIDE DEF q
      <3>4. Knows(q, Pieces')
        BY <2>2, <3>2 DEF Knows
      <3>5. Reaches(q, Pieces', announced)
        <4> SUFFICES ASSUME NEW x \in 1..announced, q.end < x
                     PROVE  \E a \in Pieces' : Has(a, x)
          BY DEF Reaches
        <4>1. PICK a \in Pieces : Has(a, x)
          BY <3>2 DEF Reaches
        <4>2. m.end \in Nat /\ x \in Nat
          BY <2>5 DEF LiveOK, Envelopes
        <4>3. ~Has(m, x)
          BY <2>5, <3>2, <3>3, <4>2 DEF Has
        <4> QED
          BY <2>3, <4>1, <4>3
      <3>6. pane' = q
        BY <1>1 DEF q
      <3> QED
        BY <2>1, <3>1, <3>2, <3>4, <3>5, <3>6 DEF Shows
    <2>7. Prepared' \subseteq Prepared
      BY <1>2, <2>1 DEF Prepared
    <2>8. AnswersKnow'
      BY <2>2, <2>7 DEF CoverInv, AnswersKnow, Knows
    <2>9. GoneIsIdle' /\ (link # "bound" => Shows')
      BY <1>1, <1>3 DEF GoneIsIdle, Shows
    <2> QED
      BY <1>2, <2>1, <2>2, <2>6, <2>8, <2>9, CoverKept DEF CoverInv
  <1> QED
    BY <1>1, <1>4, <1>5

\* With the answer and the batches held for it nothing is missing.
LEMMA RestoreCover ==
  ASSUME TypeInv, OrderInv, CoverInv, Receive, Head(wire).kind # "live", Restore(Head(wire))
  PROVE  CoverInv'
  <1> DEFINE m == Head(wire)
  <1>1. /\ wire # <<>> /\ wire' = Tail(wire) /\ UNCHANGED hostVars /\ link' = link
        /\ Answers(m) /\ pane' = Replay(AcceptBaseline(pane, m), held)
    BY DEF Receive, Restore
  <1>r. Request \/ (request' = 0 /\ held' = {} /\ asks' = asks)
    BY Zenon DEF Restore
  <1>2. /\ Sent' = Sent /\ Baselines' \subseteq Baselines /\ SentInOrder' /\ m \in Baselines
    BY <1>1, WireShrinks DEF TypeInv, CoverInv, StreamInOrder
  <1> HIDE DEF m
  <1>3. link' # "gone"
    BY <1>1 DEF CoverInv, GoneIsIdle
  <1>4. CASE Request
    BY <1>1, <1>2, <1>3, <1>4, RequestCover
  <1>5. CASE request' = 0 /\ held' = {} /\ asks' = asks
    <2>1. /\ flushes' = flushes /\ Rest' = Rest /\ batch' = batch /\ announced' = announced
          /\ replies' = replies /\ viewer' = viewer /\ history' = history
      BY <1>1 DEF hostVars, Rest
    <2>2. StreamInOrder' /\ Pieces' \subseteq Pieces
      <3>1. held' \subseteq held /\ Sent' \subseteq Sent
        BY <1>2, <1>5
      <3> QED
        BY <1>2, <2>1, <3>1, StreamShrinks DEF CoverInv
    <2>3. Pieces' = Coming /\ Pieces = held \cup Coming
      BY <1>2, <1>5, <2>1 DEF Pieces, Coming
    <2>4. /\ \A h \in held : LiveOK(h) /\ Run(h.data) /\ h.end <= announced
          /\ \A a \in Coming : PieceOK(a)
          /\ BaselineOK(m)
          /\ announced \in Nat /\ history \in 0..MaxChars /\ history \in Nat /\ outputSeq \in Nat
          /\ PaneOK(pane) /\ Sound(pane) /\ m.end \in Nat /\ pane.end \in Nat
      BY <1>2, <2>3, PieceFacts, LiveIsPiece
         DEF CoverInv, StreamInOrder, TypeInv, OrderInv, CountersOK, HeldRuns, BaselineOK, PaneOK
    <2>5. Knows(m, Pieces) /\ m \in Prepared
      BY <1>2 DEF CoverInv, AnswersKnow, Prepared
    <2>6. m.end >= pane.end
      <3>1. CASE request = 0
        <4>1. pane.end = 0
          BY <1>1, <2>4, <3>1 DEF Answers, Sound
        <4> QED
          BY <2>4, <4>1
      <3>2. CASE request # 0
        BY <1>1, <1>2, <3>2 DEF Answers, OrderInv, FreshBaseline, Baselines
      <3> QED
        BY <3>1, <3>2
    <2>7. ASSUME link = "bound" PROVE viewer /\ Reaches(m, Pieces, announced)
      <3>1. CASE request = 0
        <4>1. pane.end = 0
          BY <1>1, <2>4, <3>1 DEF Answers, Sound
        <4>2. viewer /\ Reaches(pane, Pieces, announced)
          BY <2>7, <3>1 DEF CoverInv, Shows
        <4>3. Reaches(m, Pieces, announced)
          BY <4>1, <4>2 DEF Reaches
        <4> QED
          BY <4>2, <4>3
      <3>2. CASE request # 0
        <4>1. m.id = request
          BY <1>1, <3>2 DEF Answers
        <4>2. request \notin asks
          BY <1>2, <4>1 DEF CoverInv, AskedOnce
        <4> QED
          BY <2>5, <3>2, <4>1, <4>2 DEF CoverInv, Viewed, AnswerReaches
      <3> QED
        BY <3>1, <3>2
    <2>8. ASSUME link = "bound" PROVE Shows'
      <3> DEFINE p == AcceptBaseline(pane, m)
                 q == Replay(p, held)
      <3>1. PaneOK(p) /\ Sound(p)
        BY <2>4, <2>6, AcceptBaselineOK
      <3>2. p.end = m.end /\ p.seq = m.seq /\ (m.end <= Window => Run(p.content))
        BY <2>4, <2>6, AcceptBaselineRuns
      <3> HIDE DEF p
      <3>3. Knows(p, held \cup Coming) /\ Reaches(p, held \cup Coming, announced)
        BY <2>3, <2>5, <2>7, <2>8, <3>2 DEF Knows, Reaches
      <3>4. InOrder(held) /\ Precede(held, Coming)
        BY DEF CoverInv, StreamInOrder
      <3>5. /\ Knows(q, Coming) /\ Reaches(q, Coming, announced)
            /\ Run(p.content) => Run(q.content)
        BY <2>4, <3>1, <3>3, <3>4, ReplayCovers
      <3> HIDE DEF q
      <3>6. pane' = q
        BY <1>1 DEF p, q
      <3>7. history <= Window => m.end <= Window
        BY <2>4, OutputAssumption DEF BaselineOK
      <3> QED
        BY <2>1, <2>3, <2>7, <2>8, <3>2, <3>5, <3>6, <3>7 DEF Shows
    <2>9. Prepared' \subseteq Prepared
      BY <1>2, <2>1 DEF Prepared
    <2>10. AnswersKnow'
      BY <2>2, <2>9 DEF CoverInv, AnswersKnow, Knows
    <2>11. GoneIsIdle' /\ (link # "bound" => Shows')
      BY <1>1, <1>3 DEF GoneIsIdle, Shows
    <2> QED
      BY <1>2, <1>5, <2>1, <2>2, <2>8, <2>10, <2>11, CoverKept DEF CoverInv
  <1> QED
    BY <1>r, <1>4, <1>5

LEMMA IgnoreCover ==
  ASSUME TypeInv, CoverInv, Receive, Head(wire).kind # "live", Ignore(Head(wire))
  PROVE  CoverInv'
  <1>1. /\ wire # <<>> /\ wire' = Tail(wire) /\ UNCHANGED hostVars
        /\ UNCHANGED <<link, pane, held, request, asks>>
    BY DEF Receive, Ignore
  <1>2. Sent' = Sent /\ Baselines' \subseteq Baselines /\ SentInOrder'
    BY <1>1, WireShrinks DEF TypeInv, CoverInv, StreamInOrder
  <1>3. /\ flushes' = flushes /\ Rest' = Rest /\ batch' = batch /\ announced' = announced
        /\ replies' = replies /\ viewer' = viewer /\ history' = history
    BY <1>1 DEF hostVars, Rest
  <1>4. Coming' = Coming /\ Pieces' = Pieces /\ Prepared' \subseteq Prepared
    BY <1>1, <1>2, <1>3 DEF Coming, Pieces, Prepared
  <1>5. StreamInOrder'
    BY <1>1, <1>2, <1>3, <1>4 DEF CoverInv, StreamInOrder
  <1>6. GoneIsIdle'
    BY <1>1 DEF CoverInv, GoneIsIdle
  <1> QED
    BY <1>1, <1>2, <1>3, <1>4, <1>5, <1>6, CarriedOver, CoverKept DEF CoverInv

LEMMA LinkCover ==
  ASSUME TypeInv, CoverInv, Refresh \/ Disconnect \/ Reconnect \/ Resubscribe
  PROVE  CoverInv'
  <1>1. CASE Refresh
    <2>1. Request /\ wire' = wire /\ UNCHANGED hostVars /\ link' = link
      BY <1>1 DEF Refresh
    <2>2. link' # "gone"
      BY <1>1, <2>1 DEF Refresh, CoverInv, GoneIsIdle
    <2>3. SentInOrder'
      BY <2>1 DEF CoverInv, StreamInOrder, SentInOrder
    <2>4. Sent' \subseteq Sent /\ Baselines' \subseteq Baselines
      BY <2>1, SameStream
    <2> QED
      BY <2>1, <2>2, <2>3, <2>4, RequestCover
  <1>2. CASE Disconnect
    <2>1. /\ wire' = <<>> /\ held' = {} /\ request' = 0 /\ link' = "gone" /\ asks' \subseteq asks
          /\ UNCHANGED hostVars
      BY <1>2 DEF Disconnect
    <2>2. Sent' = {} /\ Baselines' = {} /\ SentInOrder'
      BY <2>1 DEF Sent, Baselines, SentInOrder
    <2>3. /\ flushes' = flushes /\ batch' = batch /\ announced' = announced /\ replies' = replies
      BY <2>1 DEF hostVars
    <2>4. StreamInOrder' /\ Pieces' \subseteq Pieces
      <3>1. held' \subseteq held /\ Sent' \subseteq Sent
        BY <2>1, <2>2
      <3> QED
        BY <2>2, <2>3, <3>1, StreamShrinks DEF CoverInv
    <2>5. Prepared' \subseteq Prepared
      BY <2>2, <2>3 DEF Prepared
    <2>6. AnswersKnow'
      BY <2>4, <2>5 DEF CoverInv, AnswersKnow, Knows
    <2>7. GoneIsIdle'
      BY <2>1 DEF GoneIsIdle
    <2> QED
      BY <2>1, <2>2, <2>3, <2>4, <2>6, <2>7, CoverKept DEF CoverInv
  <1>3. CASE Reconnect
    <2>1. /\ wire' = wire /\ UNCHANGED hostVars /\ link' = "back"
          /\ UNCHANGED <<held, request, asks, pane>>
      BY <1>3 DEF Reconnect
    <2>2. /\ flushes' = flushes /\ batch' = batch /\ announced' = announced /\ replies' = replies
          /\ viewer' = viewer
      BY <2>1 DEF hostVars
    <2>3. GoneIsIdle'
      BY <2>1 DEF GoneIsIdle
    <2> QED
      BY <2>1, <2>2, <2>3, SameStream, CarriedOver, CoverKept DEF CoverInv
  <1>4. CASE Resubscribe
    <2>1. wire' = wire /\ UNCHANGED hostVars /\ link' = "bound"
      BY <1>4 DEF Resubscribe
    <2>2. Sent' = Sent /\ Baselines' = Baselines
      BY <2>1, SameStream
    <2>3. CASE request = 0
      <3>1. Request
        BY <1>4, <2>3 DEF Resubscribe
      <3>2. SentInOrder'
        BY <2>1 DEF CoverInv, StreamInOrder, SentInOrder
      <3> QED
        BY <2>1, <2>2, <3>1, <3>2, RequestCover
    <2>4. CASE request # 0
      <3>1. asks' = asks \cup {0} /\ UNCHANGED <<pane, held, request>>
        BY <1>4, <2>4 DEF Resubscribe
      <3>2. /\ flushes' = flushes /\ batch' = batch /\ announced' = announced
            /\ replies' = replies /\ viewer' = viewer
        BY <2>1 DEF hostVars
      <3>3. AskedOnce'
        <4>1. \A b \in replies \cup Baselines : b.id # 0
          BY DEF TypeInv, RepliesOK, WireOK, Baselines, LiveOK, BaselineOK
        <4> QED
          BY <2>2, <3>1, <3>2, <4>1 DEF CoverInv, AskedOnce
      <3>4. GoneIsIdle'
        BY <2>1 DEF GoneIsIdle
      <3> QED
        BY <2>1, <2>4, <3>1, <3>2, <3>3, <3>4, SameStream, CarriedOver, CoverKept DEF CoverInv
    <2> QED
      BY <2>3, <2>4
  <1> QED
    BY <1>1, <1>2, <1>3, <1>4

----------------------------------------------------------------------------
(* The theorem. *)

LEMMA InitCovers == Init => CoverInv
  <1> SUFFICES ASSUME Init PROVE CoverInv
    OBVIOUS
  <1> USE DEF Init
  <1>1. Sent = {} /\ Baselines = {} /\ Rest = {} /\ SentInOrder
    BY DEF Sent, Baselines, Rest, SentInOrder
  <1>2. Pieces = {} /\ Coming = {} /\ Prepared = {}
    BY <1>1 DEF Pieces, Coming, Prepared
  <1>3. StreamInOrder
    BY <1>1, <1>2 DEF StreamInOrder, InOrder, Precede
  <1>4. AnswersKnow /\ AnswerReaches /\ Viewed /\ AskedOnce
    BY <1>1, <1>2 DEF AnswersKnow, AnswerReaches, Viewed, AskedOnce
  <1>5. GoneIsIdle /\ Shows
    BY DEF GoneIsIdle, Shows
  <1> QED
    BY <1>3, <1>4, <1>5 DEF CoverInv

LEMMA OutputCovered == Spec => [](mishaps = {} => CoverInv)
  <1> DEFINE Covered == mishaps = {} => CoverInv
  <1>1. ASSUME IInv, Covered, [Next]_vars PROVE Covered'
    <2> SUFFICES ASSUME mishaps' = {} PROVE CoverInv'
      OBVIOUS
    <2>1. TypeInv /\ mishaps = {}
      BY <1>1, MishapsStay DEF IInv
    <2>2. OrderInv /\ CoverInv
      BY <1>1, <2>1 DEF IInv, Untorn
    <2>3. CASE HostStep
      BY <2>1, <2>2, <2>3, CommitCover, AnnounceCover, TakeBatchCover, NumberBatchCover,
         SendBatchCover, SubscribeCover, PrepareCover, AnswerCover, ForgetCover DEF HostStep
    <2>4. CASE Receive
      BY <2>1, <2>2, <2>4, HoldCover, ShowCover, RestoreCover, IgnoreCover DEF Receive
    <2>5. CASE Refresh \/ Disconnect \/ Reconnect \/ Resubscribe
      BY <2>1, <2>2, <2>5, LinkCover
    <2>6. ~GiveUp
      BY DEF GiveUp
    <2>7. CASE UNCHANGED vars
      <3>1. /\ UNCHANGED hostVars /\ wire' = wire /\ UNCHANGED phoneVars /\ asks' = asks
        BY <2>7 DEF vars
      <3> QED
        BY <2>1, <2>2, <3>1, SameStream, CarriedOver, CoverKept DEF CoverInv, hostVars, phoneVars
    <2> QED
      BY <1>1, <2>3, <2>4, <2>5, <2>6, <2>7 DEF Next, PhoneStep
  <1>2. Init => Covered
    BY InitCovers
  <1>3. IInv /\ Covered /\ [Next]_vars => Covered'
    BY <1>1
  <1> HIDE DEF Covered
  <1>4. Spec => []Covered
    BY <1>2, <1>3, OutputInvariant, PTL DEF Spec
  <1> QED
    BY <1>4 DEF Covered

\* When all is quiet nothing is under way any more: what the pane does not show
\* would still have to come, so that it shows the end of the output, and all of
\* it while a baseline holds the whole history.  No baseline is read before the
\* number it carries is given, no batch is dropped while a baseline is awaited,
\* and of the held batches none is left out when it is there.
THEOREM OutputCaughtUp == Spec => []CaughtUp
  <1>1. IInv /\ (mishaps = {} => CoverInv) => CaughtUp
    <2> SUFFICES ASSUME IInv, CoverInv, Quiet, mishaps = {}
                 PROVE  /\ history > 0 => pane.content # <<>> /\ Last(pane.content) = history
                        /\ history <= Window => Whole(pane.content)
      BY DEF CaughtUp
    <2>1. TypeInv /\ OrderInv
      BY DEF IInv, Untorn
    <2>2. /\ announced = history /\ history \in Nat /\ request = 0 /\ link = "bound"
          /\ PaneOK(pane) /\ Sound(pane) /\ pane.end \in Nat /\ pane.end <= history
          /\ pane.content \in Seq(Positions)
      BY <2>1, OutputAssumption DEF Quiet, TypeInv, CountersOK, OrderInv, PaneOK
    <2>3. Pieces = {}
      <3>1. held = {}
        BY <2>1, <2>2 DEF TypeInv, HeldOK, OrderInv, Waits
      <3>2. Sent = {} /\ Rest = {} /\ flushes = {}
        BY DEF Quiet, Sent, Rest
      <3> QED
        BY <3>1, <3>2 DEF Pieces, Coming
    <2>4. Reaches(pane, {}, history) /\ (history <= Window => Run(pane.content))
      BY <2>2, <2>3 DEF CoverInv, Shows
    <2>5. pane.end = history
      <3>1. ~(pane.end < history)
        BY <2>2, <2>4 DEF Reaches
      <3> QED
        BY <2>2, <3>1
    <2>6. history > 0 => pane.content # <<>> /\ Last(pane.content) = history
      BY <2>2, <2>5 DEF Sound
    <2> QED
      BY <2>2, <2>4, <2>6, RunIsWhole
  <1> QED
    BY <1>1, OutputInvariant, OutputCovered, PTL
=============================================================================
