------------------------- MODULE StockBatchesProofs ------------------------
(***************************************************************************)
(* Proofs about StockBatches, for every set of rows and transactions, any  *)
(* number of batches and any lists of items: the loops of                  *)
(* mergeAddStockItems and resolveFifoBatches, and the ledger that explains *)
(* every unit of stock and of every batch.                                 *)
(***************************************************************************)
EXTENDS StockBatches, SumTheorems, SequenceTheorems

Touch == [batch : Batch, drawn : Nat, remaining : Int]

\* No batch is in the list twice.
Apart(touched) == \A m, n \in DOMAIN touched : touched[m].batch = touched[n].batch => m = n

\* The batches are finitely many.
LEMMA BatchesAreFinite == IsFiniteSet(Batch)
BY BatchAssumption, FS_Interval DEF Batch

-----------------------------------------------------------------------------
(* What a list of draws takes.                                             *)

\* Of a batch that is not in the list nothing is taken.
LEMMA TakenNone ==
    ASSUME NEW touched \in Seq(Touch), NEW b \in Batch, \A n \in DOMAIN touched : touched[n].batch # b
    PROVE  TakenBy(touched)[b] = 0
<1>1. {n \in DOMAIN touched : touched[n].batch = b} = {}
  OBVIOUS
<1> QED BY <1>1, SumOfNone DEF TakenBy

\* Of a batch that is in it once, what that draw says.
LEMMA TakenOnce ==
    ASSUME NEW touched \in Seq(Touch), Apart(touched), NEW n \in DOMAIN touched
    PROVE  /\ touched[n].batch \in Batch
           /\ TakenBy(touched)[touched[n].batch] = touched[n].drawn
<1> DEFINE b == touched[n].batch
           f == [m \in DOMAIN touched |-> touched[m].drawn]
<1>1. touched[n] \in Touch /\ b \in Batch
  <2>1. touched[n] \in Touch
    OBVIOUS
  <2> QED BY <2>1 DEF Touch
<1>2. {m \in DOMAIN touched : touched[m].batch = b} = {n}
  BY DEF Apart
<1>3. f[n] = touched[n].drawn /\ f[n] \in Int
  BY <1>1 DEF Touch
<1>4. SumFunctionOnSet(f, {n}) = f[n]
  <2> HIDE DEF f
  <2> QED BY <1>3, SumOfOne
<1>5. TakenBy(touched)[b] = SumFunctionOnSet(f, {m \in DOMAIN touched : touched[m].batch = b})
  BY <1>1 DEF TakenBy
<1> QED BY <1>1, <1>2, <1>3, <1>4, <1>5

\* In any case a number of units.
LEMMA TakenIsNat ==
    ASSUME NEW touched \in Seq(Touch), Apart(touched), NEW b \in Batch
    PROVE  TakenBy(touched)[b] \in Nat
<1>1. CASE \A n \in DOMAIN touched : touched[n].batch # b
  BY <1>1, TakenNone
<1>2. CASE \E n \in DOMAIN touched : touched[n].batch = b
  <2>1. PICK n \in DOMAIN touched : touched[n].batch = b
    BY <1>2
  <2>2. touched[n] \in Touch
    OBVIOUS
  <2> QED BY <2>1, <2>2, TakenOnce DEF Touch
<1> QED BY <1>1, <1>2

\* A draw of one more batch, put at the end of the list.
LEMMA TakenAppend ==
    ASSUME NEW touched \in Seq(Touch), Apart(touched), NEW x \in Touch,
           \A n \in DOMAIN touched : touched[n].batch # x.batch
    PROVE  /\ Append(touched, x) \in Seq(Touch)
           /\ Apart(Append(touched, x))
           /\ \A b \in Batch : TakenBy(Append(touched, x))[b] =
                                  IF b = x.batch THEN x.drawn ELSE TakenBy(touched)[b]
<1> DEFINE more == Append(touched, x)
<1>1. /\ more \in Seq(Touch)
      /\ DOMAIN more = DOMAIN touched \cup {Len(touched) + 1}
      /\ more[Len(touched) + 1] = x
      /\ \A n \in DOMAIN touched : more[n] = touched[n]
      /\ Len(touched) + 1 \notin DOMAIN touched
  OBVIOUS
<1> HIDE DEF more
<1>2. Apart(more)
  BY <1>1 DEF Apart
<1>3. ASSUME NEW b \in Batch
      PROVE  TakenBy(more)[b] = IF b = x.batch THEN x.drawn ELSE TakenBy(touched)[b]
  <2>1. CASE b = x.batch
    BY <1>1, <1>2, <2>1, TakenOnce
  <2>2. CASE b # x.batch /\ \E n \in DOMAIN touched : touched[n].batch = b
    <3>1. PICK n \in DOMAIN touched : touched[n].batch = b
      BY <2>2
    <3>2. TakenBy(touched)[b] = touched[n].drawn
      BY <3>1, TakenOnce
    <3>3. TakenBy(more)[b] = more[n].drawn
      BY <1>1, <1>2, <3>1, TakenOnce
    <3> QED BY <1>1, <2>2, <3>2, <3>3
  <2>3. CASE b # x.batch /\ \A n \in DOMAIN touched : touched[n].batch # b
    <3>1. TakenBy(touched)[b] = 0
      BY <2>3, TakenNone
    <3>2. \A n \in DOMAIN more : more[n].batch # b
      BY <1>1, <2>3
    <3>3. TakenBy(more)[b] = 0
      BY <1>1, <3>2, TakenNone
    <3> QED BY <2>3, <3>1, <3>3
  <2> QED BY <2>1, <2>2, <2>3
<1> QED BY <1>1, <1>2, <1>3 DEF more

\* The first draw, taken off the list.
LEMMA TakenTail ==
    ASSUME NEW touched \in Seq(Touch), Apart(touched), touched # <<>>
    PROVE  /\ Head(touched) \in Touch
           /\ Tail(touched) \in Seq(Touch)
           /\ Apart(Tail(touched))
           /\ \A n \in DOMAIN Tail(touched) :
                 Tail(touched)[n] = touched[n + 1] /\ n + 1 \in DOMAIN touched
                 /\ Tail(touched)[n].batch # Head(touched).batch
           /\ TakenBy(touched)[Head(touched).batch] = Head(touched).drawn
           /\ \A b \in Batch : TakenBy(Tail(touched))[b] =
                                  IF b = Head(touched).batch THEN 0 ELSE TakenBy(touched)[b]
<1> DEFINE rest == Tail(touched)
<1>1. /\ rest \in Seq(Touch)
      /\ 1 \in DOMAIN touched /\ Head(touched) = touched[1] /\ touched[1] \in Touch
      /\ \A n \in DOMAIN rest : n \in Nat /\ rest[n] = touched[n + 1] /\ n + 1 \in DOMAIN touched /\ n + 1 # 1
      /\ \A n \in DOMAIN touched : n # 1 => n - 1 \in DOMAIN rest /\ rest[n - 1] = touched[n]
  OBVIOUS
<1> HIDE DEF rest
<1>2. Apart(rest)
  <2> SUFFICES ASSUME NEW m \in DOMAIN rest, NEW n \in DOMAIN rest, rest[m].batch = rest[n].batch
               PROVE  m = n
    BY DEF Apart
  <2>1. /\ m \in Nat /\ rest[m] = touched[m + 1] /\ m + 1 \in DOMAIN touched
        /\ n \in Nat /\ rest[n] = touched[n + 1] /\ n + 1 \in DOMAIN touched
    BY <1>1
  <2>2. m + 1 = n + 1
    <3>1. touched[m + 1].batch = touched[n + 1].batch
      BY <2>1
    <3> QED BY <2>1, <3>1 DEF Apart
  <2> QED BY <2>1, <2>2
<1>3. \A n \in DOMAIN rest : rest[n].batch # touched[1].batch
  BY <1>1 DEF Apart
<1>4. TakenBy(touched)[touched[1].batch] = touched[1].drawn
  BY <1>1, TakenOnce
<1>5. ASSUME NEW b \in Batch
      PROVE  TakenBy(rest)[b] = IF b = touched[1].batch THEN 0 ELSE TakenBy(touched)[b]
  <2>1. CASE b = touched[1].batch
    BY <1>1, <1>3, <2>1, TakenNone
  <2>2. CASE b # touched[1].batch /\ \E n \in DOMAIN touched : touched[n].batch = b
    <3>1. PICK n \in DOMAIN touched : touched[n].batch = b
      BY <2>2
    <3>2. n - 1 \in DOMAIN rest /\ rest[n - 1] = touched[n]
      BY <1>1, <2>2, <3>1
    <3>3. TakenBy(touched)[b] = touched[n].drawn
      BY <3>1, TakenOnce
    <3>4. TakenBy(rest)[b] = rest[n - 1].drawn
      BY <1>1, <1>2, <3>1, <3>2, TakenOnce
    <3> QED BY <2>2, <3>2, <3>3, <3>4
  <2>3. CASE b # touched[1].batch /\ \A n \in DOMAIN touched : touched[n].batch # b
    <3>1. TakenBy(touched)[b] = 0
      BY <2>3, TakenNone
    <3>2. \A n \in DOMAIN rest : rest[n].batch # b
      BY <1>1, <2>3
    <3>3. TakenBy(rest)[b] = 0
      BY <1>1, <3>2, TakenNone
    <3> QED BY <2>3, <3>1, <3>3
  <2> QED BY <2>1, <2>2, <2>3
<1> QED BY <1>1, <1>2, <1>3, <1>4, <1>5 DEF rest

\* A list without draws, and a list of one.
LEMMA TakenShort ==
    /\ <<>> \in Seq(Touch) /\ Apart(<<>>) /\ \A b \in Batch : TakenBy(<<>>)[b] = 0
    /\ \A x \in Touch : /\ <<x>> \in Seq(Touch) /\ Apart(<<x>>)
                        /\ \A b \in Batch : TakenBy(<<x>>)[b] = IF b = x.batch THEN x.drawn ELSE 0
<1>1. <<>> \in Seq(Touch) /\ DOMAIN <<>> = {}
  OBVIOUS
<1>2. Apart(<<>>) /\ \A b \in Batch : TakenBy(<<>>)[b] = 0
  BY <1>1, TakenNone DEF Apart
<1>3. ASSUME NEW x \in Touch
      PROVE  /\ <<x>> \in Seq(Touch) /\ Apart(<<x>>)
             /\ \A b \in Batch : TakenBy(<<x>>)[b] = IF b = x.batch THEN x.drawn ELSE 0
  <2>1. Append(<<>>, x) = <<x>>
    OBVIOUS
  <2>2. \A n \in DOMAIN <<>> : <<>>[n].batch # x.batch
    BY <1>1
  <2>3. /\ Append(<<>>, x) \in Seq(Touch)
        /\ Apart(Append(<<>>, x))
        /\ \A b \in Batch : TakenBy(Append(<<>>, x))[b] = IF b = x.batch THEN x.drawn ELSE TakenBy(<<>>)[b]
    BY <1>1, <1>2, <2>2, TakenAppend
  <2> QED BY <1>2, <2>1, <2>3
<1> QED BY <1>1, <1>2, <1>3
-----------------------------------------------------------------------------
(* The loop of resolveFifoBatches.                                         *)

\* g is what the loop's rounds return, up to round k.
Rounds(g, batches, r, amount, k) ==
    g = [b \in 0..k |-> IF b = 0 THEN Asked(amount) ELSE DrawFrom(batches, r, g[b - 1], b)]

\* The loop has every round.
LEMMA RoundsExist ==
    ASSUME NEW batches, NEW r, NEW amount
    PROVE  \A k \in Nat : \E g : Rounds(g, batches, r, amount, k)
<1> DEFINE Bad == {k \in Nat : ~\E g : Rounds(g, batches, r, amount, k)}
<1> SUFFICES Bad = {}
  OBVIOUS
<1> SUFFICES ASSUME Bad # {}
             PROVE  FALSE
  OBVIOUS
<1>1. PICK k \in Bad : \A m \in Bad : k <= m
  <2>1. Bad \subseteq Nat
    OBVIOUS
  <2> HIDE DEF Bad
  <2> QED BY <2>1, LeastNumber
<1>2. CASE k = 0
  <2> DEFINE g == [b \in 0..0 |-> Asked(amount)]
  <2>1. Rounds(g, batches, r, amount, 0)
    BY DEF Rounds
  <2> QED BY <1>1, <1>2, <2>1
<1>3. CASE k # 0
  <2>1. k \in Nat /\ k - 1 \in Nat /\ k - 1 \notin Bad
    BY <1>1, <1>3
  <2>2. PICK g : Rounds(g, batches, r, amount, k - 1)
    BY <2>1
  <2> DEFINE h == [b \in 0..k |-> IF b = k THEN DrawFrom(batches, r, g[k - 1], k) ELSE g[b]]
  <2>3. Rounds(h, batches, r, amount, k)
    <3>1. \A b \in 0..k : h[b] = IF b = 0 THEN Asked(amount) ELSE DrawFrom(batches, r, h[b - 1], b)
      <4> SUFFICES ASSUME NEW b \in 0..k
                   PROVE  h[b] = IF b = 0 THEN Asked(amount) ELSE DrawFrom(batches, r, h[b - 1], b)
        OBVIOUS
      <4>1. CASE b = k
        BY <1>3, <2>1, <4>1
      <4>2. CASE b # k
        <5>1. b \in 0..(k - 1) /\ (b # 0 => b - 1 \in 0..(k - 1) /\ b - 1 # k)
          BY <2>1, <4>2
        <5>2. g[b] = IF b = 0 THEN Asked(amount) ELSE DrawFrom(batches, r, g[b - 1], b)
          BY <2>2, <5>1 DEF Rounds
        <5>3. h[b] = g[b] /\ (b # 0 => h[b - 1] = g[b - 1])
          BY <2>1, <4>2, <5>1
        <5> HIDE DEF h
        <5> QED BY <5>2, <5>3
      <4> QED BY <4>1, <4>2
    <3> QED BY <3>1 DEF Rounds
  <2> QED BY <1>1, <2>3
<1> QED BY <1>2, <1>3

\* And returns the last one.
LEMMA FifoIsLastRound ==
    ASSUME NEW batches, NEW r, NEW amount
    PROVE  \E g : /\ Rounds(g, batches, r, amount, MaxBatch)
                  /\ FifoDraws(batches, r, amount) = g[MaxBatch]
<1>1. \E g : Rounds(g, batches, r, amount, MaxBatch)
  BY RoundsExist, BatchAssumption
<1>2. FifoDraws(batches, r, amount) = (CHOOSE g : Rounds(g, batches, r, amount, MaxBatch))[MaxBatch]
  BY DEF FifoDraws, Rounds
<1> QED BY <1>1, <1>2
\* One draw of the loop: of a batch of the row, no more than is left in it.
DrawsFrom(batches, r, x) ==
    /\ batches[x.batch].row = r
    /\ x.remaining = batches[x.batch].remaining
    /\ 0 < x.drawn /\ x.drawn <= x.remaining

\* Batch b has nothing for row r that is not taken.
UsedUp(batches, r, took, b) ==
    batches[b].row = r /\ batches[b].remaining > 0 => took[b] = batches[b].remaining

\* What the loop has done after round k, when n units were asked for.
AfterRound(batches, r, n, acc, k) ==
    /\ acc.left \in Nat /\ acc.touched \in Seq(Touch) /\ Apart(acc.touched)
    /\ \A m \in DOMAIN acc.touched :
          acc.touched[m].batch \in 1..k /\ DrawsFrom(batches, r, acc.touched[m])
    /\ SumFunctionOnSet(TakenBy(acc.touched), Batch) + acc.left = n
    /\ acc.left > 0 => \A b \in 1..k : UsedUp(batches, r, TakenBy(acc.touched), b)
    /\ \A m \in DOMAIN acc.touched, b \in 1..k :
          b < acc.touched[m].batch => UsedUp(batches, r, TakenBy(acc.touched), b)

\* Before the first round nothing is done.
LEMMA AfterNoRound ==
    ASSUME NEW batches, NEW r, NEW n \in Nat
    PROVE  AfterRound(batches, r, n, Asked(n), 0)
<1>1. Asked(n).left = n /\ Asked(n).touched = <<>> /\ DOMAIN <<>> = {}
  BY DEF Asked
<1>2. SumFunctionOnSet(TakenBy(<<>>), Batch) = 0
  BY TakenShort, BatchesAreFinite, SumZero
<1>3. 1..0 = {}
  OBVIOUS
<1> QED BY <1>1, <1>2, <1>3, TakenShort DEF AfterRound

\* A round keeps to it.
LEMMA RoundKeepsIt ==
    ASSUME NEW batches \in [Batch -> BatchRow], NEW r, NEW n \in Nat, NEW k \in Batch,
           NEW acc, AfterRound(batches, r, n, acc, k - 1)
    PROVE  AfterRound(batches, r, n, DrawFrom(batches, r, acc, k), k)
<1> DEFINE took == TakenBy(acc.touched)
           new == DrawFrom(batches, r, acc, k)
<1>1. k \in Nat /\ k - 1 \in Nat /\ k \notin 1..(k - 1) /\ 1..k = 1..(k - 1) \cup {k} /\ 1..k \subseteq Batch
  BY BatchAssumption DEF Batch
<1>2. batches[k].remaining \in Int
  BY DEF BatchRow
<1>7. /\ acc.left \in Nat /\ acc.touched \in Seq(Touch) /\ Apart(acc.touched)
      /\ \A m \in DOMAIN acc.touched :
            acc.touched[m].batch \in 1..(k - 1) /\ DrawsFrom(batches, r, acc.touched[m])
      /\ SumFunctionOnSet(took, Batch) + acc.left = n
      /\ acc.left > 0 => \A b \in 1..(k - 1) : UsedUp(batches, r, took, b)
      /\ \A m \in DOMAIN acc.touched, b \in 1..(k - 1) :
            b < acc.touched[m].batch => UsedUp(batches, r, took, b)
  BY DEF AfterRound
<1>3. CASE batches[k].row # r \/ batches[k].remaining <= 0
  <2>1. new = acc
    BY <1>3 DEF DrawFrom
  <2>2. UsedUp(batches, r, took, k)
    BY <1>2, <1>3 DEF UsedUp
  <2>3. \A m \in DOMAIN acc.touched, b \in 1..k :
           b < acc.touched[m].batch => UsedUp(batches, r, took, b)
    BY <1>1, <2>2, <1>7
  <2>4. acc.left > 0 => \A b \in 1..k : UsedUp(batches, r, took, b)
    BY <1>1, <2>2, <1>7
  <2>5. \A m \in DOMAIN acc.touched :
           acc.touched[m].batch \in 1..k /\ DrawsFrom(batches, r, acc.touched[m])
    BY <1>1, <1>7
  <2> HIDE DEF new
  <2> QED BY <1>7, <2>1, <2>3, <2>4, <2>5 DEF AfterRound, new
<1>4. CASE acc.left <= 0
  <2>1. new = acc /\ acc.left = 0
    BY <1>4, <1>7 DEF DrawFrom
  <2>2. \A m \in DOMAIN acc.touched, b \in 1..k :
           b < acc.touched[m].batch => UsedUp(batches, r, took, b)
    <3>1. \A m \in DOMAIN acc.touched, b \in 1..k : b < acc.touched[m].batch => b \in 1..(k - 1)
      BY <1>1, <1>7
    <3> QED BY <3>1, <1>7
  <2>3. \A m \in DOMAIN acc.touched :
           acc.touched[m].batch \in 1..k /\ DrawsFrom(batches, r, acc.touched[m])
    BY <1>1, <1>7
  <2> HIDE DEF new
  <2> QED BY <1>7, <2>1, <2>2, <2>3 DEF AfterRound, new
<1>5. CASE batches[k].row = r /\ batches[k].remaining > 0 /\ acc.left > 0
  <2> DEFINE drawn == Least(batches[k].remaining, acc.left)
             x == [batch |-> k, drawn |-> drawn, remaining |-> batches[k].remaining]
  <2>1. acc.left \in Nat /\ acc.touched \in Seq(Touch) /\ Apart(acc.touched)
    BY DEF AfterRound
  <2>2. /\ drawn \in Nat /\ 0 < drawn /\ drawn <= batches[k].remaining /\ acc.left - drawn \in Nat
        /\ acc.left - drawn > 0 => drawn = batches[k].remaining
    BY <1>2, <1>5, <2>1 DEF Least
  <2>3. new = Spill(batches, acc, k)
    BY <1>2, <1>5, <2>1 DEF DrawFrom
  <2>4. new.left = acc.left - drawn /\ new.touched = Append(acc.touched, x)
    BY <2>3 DEF Spill
  <2> HIDE DEF new, drawn
  <2>5. x \in Touch /\ x.batch = k /\ x.drawn = drawn /\ x.remaining = batches[k].remaining
    BY <1>2, <2>2 DEF Touch
  <2> HIDE DEF x
  <2>6. \A m \in DOMAIN acc.touched : acc.touched[m].batch # x.batch
    BY <1>1, <2>5 DEF AfterRound
  <2>7. /\ new.touched \in Seq(Touch) /\ Apart(new.touched)
        /\ \A b \in Batch : TakenBy(new.touched)[b] = IF b = k THEN drawn ELSE took[b]
    BY <2>1, <2>4, <2>5, <2>6, TakenAppend
  <2>8. /\ DOMAIN new.touched = DOMAIN acc.touched \cup {Len(acc.touched) + 1}
        /\ new.touched[Len(acc.touched) + 1] = x
        /\ \A m \in DOMAIN acc.touched : new.touched[m] = acc.touched[m]
    BY <2>1, <2>4, <2>5
  <2>9. DrawsFrom(batches, r, x)
    BY <1>5, <2>2, <2>5 DEF DrawsFrom
  <2>10. \A m \in DOMAIN new.touched :
            new.touched[m].batch \in 1..k /\ DrawsFrom(batches, r, new.touched[m])
    BY <1>1, <2>5, <2>8, <2>9 DEF AfterRound
  <2>11. SumFunctionOnSet(TakenBy(new.touched), Batch) + new.left = n
    <3>1. took[k] = 0
      BY <2>1, <2>5, <2>6, TakenNone
    <3>2. \A b \in Batch : took[b] \in Int
      BY <2>1, TakenIsNat
    <3>3. \A b \in Batch : TakenBy(new.touched)[b] \in Int
      BY <2>7, TakenIsNat
    <3>4. \A b \in Batch \ {k} : took[b] = TakenBy(new.touched)[b]
      BY <2>7
    <3>5. /\ SumFunctionOnSet(took, Batch) \in Int
          /\ SumFunctionOnSet(TakenBy(new.touched), Batch) =
                SumFunctionOnSet(took, Batch) - took[k] + TakenBy(new.touched)[k]
      <4> DEFINE f == TakenBy(new.touched)
      <4> HIDE DEF took, f
      <4>1. f = TakenBy(new.touched)
        BY DEF f
      <4>2. \A b \in Batch : took[b] \in Int /\ f[b] \in Int
        BY <3>2, <3>3, <4>1
      <4>3. \A b \in Batch \ {k} : took[b] = f[b]
        BY <3>4, <4>1
      <4>4. /\ SumFunctionOnSet(took, Batch) \in Int
            /\ SumFunctionOnSet(f, Batch) = SumFunctionOnSet(took, Batch) - took[k] + f[k]
        BY <4>2, <4>3, BatchesAreFinite, SumChange
      <4> QED BY <4>1, <4>4
    <3>6. SumFunctionOnSet(took, Batch) + acc.left = n
      BY DEF AfterRound
    <3>7. TakenBy(new.touched)[k] = drawn
      BY <2>7
    <3> HIDE DEF took
    <3> QED BY <2>1, <2>2, <2>4, <3>1, <3>5, <3>6, <3>7
  <2>12. \A b \in 1..(k - 1) : UsedUp(batches, r, TakenBy(new.touched), b)
    <3>1. \A b \in 1..(k - 1) : UsedUp(batches, r, took, b) /\ TakenBy(new.touched)[b] = took[b]
      BY <1>1, <1>5, <2>7 DEF AfterRound
    <3> QED BY <3>1 DEF UsedUp
  <2>13. new.left > 0 => UsedUp(batches, r, TakenBy(new.touched), k)
    BY <2>2, <2>4, <2>7 DEF UsedUp
  <2>14. \A m \in DOMAIN new.touched, b \in 1..k :
            b < new.touched[m].batch => UsedUp(batches, r, TakenBy(new.touched), b)
    <3>1. \A m \in DOMAIN new.touched, b \in 1..k : b < new.touched[m].batch => b \in 1..(k - 1)
      BY <1>1, <2>10
    <3> QED BY <3>1, <2>12
  <2>15. new.left > 0 => \A b \in 1..k : UsedUp(batches, r, TakenBy(new.touched), b)
    BY <1>1, <2>12, <2>13
  <2>16. new.left \in Nat
    BY <2>2, <2>4
  <2> QED BY <2>7, <2>10, <2>11, <2>14, <2>15, <2>16 DEF AfterRound, new
<1> QED BY <1>2, <1>3, <1>4, <1>5, <1>7

\* What resolveFifoBatches returns: a draw that starts a batch only when all
\* older ones of the row are used up, of all that was asked for or of all
\* there is.
LEMMA FifoDrawsRight ==
    ASSUME NEW batches \in [Batch -> BatchRow], NEW r, NEW n \in Nat
    PROVE  AfterRound(batches, r, n, FifoDraws(batches, r, n), MaxBatch)
<1>1. PICK g : Rounds(g, batches, r, n, MaxBatch) /\ FifoDraws(batches, r, n) = g[MaxBatch]
  BY FifoIsLastRound
<1>2. \A b \in 0..MaxBatch : g[b] = IF b = 0 THEN Asked(n) ELSE DrawFrom(batches, r, g[b - 1], b)
  BY <1>1 DEF Rounds
<1> DEFINE Bad == {k \in 0..MaxBatch : ~AfterRound(batches, r, n, g[k], k)}
<1>3. Bad = {}
  <2> SUFFICES ASSUME Bad # {}
               PROVE  FALSE
    OBVIOUS
  <2>1. PICK k \in Bad : \A m \in Bad : k <= m
    <3>1. Bad \subseteq Nat
      OBVIOUS
    <3> HIDE DEF Bad
    <3> QED BY <3>1, LeastNumber
  <2>2. CASE k = 0
    BY <1>2, <2>1, <2>2, AfterNoRound
  <2>3. CASE k # 0
    <3>1. k \in Batch /\ k - 1 \in 0..MaxBatch /\ k - 1 \notin Bad
      BY <2>1, <2>3, BatchAssumption DEF Batch
    <3>2. g[k] = DrawFrom(batches, r, g[k - 1], k)
      BY <1>2, <2>1, <2>3
    <3>3. AfterRound(batches, r, n, g[k - 1], k - 1)
      BY <3>1
    <3> QED BY <2>1, <3>1, <3>2, <3>3, RoundKeepsIt
  <2> QED BY <2>2, <2>3
<1> QED BY <1>1, <1>3, BatchAssumption
\* A row's own batches are those that name it.
LEMMA OwnBatchesNameTheRow ==
    ASSUME BatchAssumption, NEW r \in Row
    PROVE  OwnBatches(r) = {b \in Batch : batch[b].row = r}
BY DEF OwnBatches, Born, Unborn, BatchAssumption

\* Of batches that are not overdrawn the loop takes exactly what was asked or
\* all there is, oldest first, for any request.
LEMMA FifoTakesOldest ==
    ASSUME batch \in [Batch -> BatchRow], \A b \in Batch : batch[b].remaining >= 0,
           NEW r \in Row, NEW n \in Nat
    PROVE  TakesOldest(r, n)
<1> DEFINE draws == FifoDraws(batch, r, n)
           took  == TakenBy(draws.touched)
           held  == [b \in Batch |-> batch[b].remaining]
           own   == OwnBatches(r)
           all   == SumFunctionOnSet(took, own)
<1>1. AfterRound(batch, r, n, draws, MaxBatch)
  BY FifoDrawsRight
<1> HIDE DEF draws
<1>2. /\ draws.left \in Nat /\ draws.touched \in Seq(Touch) /\ Apart(draws.touched)
      /\ \A m \in DOMAIN draws.touched : DrawsFrom(batch, r, draws.touched[m])
      /\ SumFunctionOnSet(took, Batch) + draws.left = n
      /\ draws.left > 0 => \A b \in Batch : UsedUp(batch, r, took, b)
      /\ \A m \in DOMAIN draws.touched, b \in Batch :
            b < draws.touched[m].batch => UsedUp(batch, r, took, b)
  BY <1>1 DEF AfterRound, Batch
<1>3. \A b \in Batch : b \in own <=> batch[b].row = r
  BY OwnBatchesNameTheRow, BatchAssumption
<1>4. own \subseteq Batch
  BY DEF OwnBatches, Born
<1>5. \A b \in Batch : took[b] \in Nat
  BY <1>2, TakenIsNat
<1>6. \A b \in Batch : held[b] = batch[b].remaining /\ held[b] \in Nat
  BY DEF BatchRow
\* What is taken from a batch is what a draw says, if one names it.
<1>7. ASSUME NEW b \in Batch, took[b] # 0
      PROVE  \E m \in DOMAIN draws.touched :
                /\ draws.touched[m].batch = b /\ DrawsFrom(batch, r, draws.touched[m])
                /\ took[b] = draws.touched[m].drawn
  <2>1. PICK m \in DOMAIN draws.touched : draws.touched[m].batch = b
    BY <1>2, <1>7, TakenNone
  <2>2. took[b] = draws.touched[m].drawn
    BY <1>2, <2>1, TakenOnce
  <2> QED BY <1>2, <2>1, <2>2
<1>8. \A b \in Batch : took[b] # 0 => b \in own /\ took[b] <= held[b]
  <2> SUFFICES ASSUME NEW b \in Batch, took[b] # 0
               PROVE  b \in own /\ took[b] <= held[b]
    OBVIOUS
  <2>1. PICK m \in DOMAIN draws.touched :
           /\ draws.touched[m].batch = b /\ DrawsFrom(batch, r, draws.touched[m])
           /\ took[b] = draws.touched[m].drawn
    BY <1>7
  <2>2. batch[b].row = r /\ took[b] <= batch[b].remaining
    <3> HIDE DEF took
    <3> QED BY <2>1 DEF DrawsFrom
  <2> HIDE DEF own, took, held
  <2> QED BY <1>3, <1>6, <2>2
<1>9. \A b \in own : UsedUp(batch, r, took, b) => took[b] = held[b]
  <2> SUFFICES ASSUME NEW b \in own, UsedUp(batch, r, took, b)
               PROVE  took[b] = held[b]
    OBVIOUS
  <2>1. b \in Batch /\ batch[b].row = r
    BY <1>3, <1>4
  <2> HIDE DEF own, took, held
  <2> QED BY <1>5, <1>6, <1>8, <2>1 DEF UsedUp
<1>10. \A a, b \in own : a < b /\ took[b] > 0 => took[a] = held[a]
  <2> SUFFICES ASSUME NEW a \in own, NEW b \in own, a < b, took[b] > 0
               PROVE  took[a] = held[a]
    OBVIOUS
  <2>1. a \in Batch /\ b \in Batch /\ took[b] # 0
    BY <1>4, <1>5
  <2>2. PICK m \in DOMAIN draws.touched : draws.touched[m].batch = b
    BY <1>7, <2>1
  <2>3. UsedUp(batch, r, took, a)
    <3> HIDE DEF took
    <3> QED BY <1>2, <2>1, <2>2
  <2> QED BY <1>9, <2>3
<1>11. IsFiniteSet(own)
  BY <1>4, BatchesAreFinite, FS_Subset
<1> HIDE DEF own, took, held
<1>12. SumFunctionOnSet(took, Batch) = all
  <2>1. \A b \in Batch : took[b] \in Int
    BY <1>5
  <2>2. \A b \in Batch \ own : took[b] = 0
    BY <1>8
  <2> QED BY <1>4, <2>1, <2>2, BatchesAreFinite, SumSupport
<1>13. all \in Int /\ SumFunctionOnSet(held, own) \in Int /\ all <= SumFunctionOnSet(held, own)
  <2>1. \A b \in own : took[b] \in Int /\ held[b] \in Int /\ took[b] <= held[b]
    BY <1>4, <1>5, <1>6, <1>8
  <2>2. all \in Int /\ SumFunctionOnSet(held, own) \in Int
    BY <1>11, <2>1, SumInt
  <2> QED BY <1>11, <2>1, <2>2, SumMonotone
<1>14. draws.left > 0 => all = SumFunctionOnSet(held, own)
  <2>1. draws.left > 0 => \A b \in own : took[b] = held[b]
    BY <1>2, <1>4, <1>9
  <2> QED BY <1>11, <2>1, SumCongruence
<1> HIDE DEF all
<1>15. all + draws.left = n /\ draws.left \in Nat
  BY <1>2, <1>12
<1>16. all = Least(n, SumFunctionOnSet(held, own))
  BY <1>13, <1>14, <1>15 DEF Least
<1>17. draws.left = n - all
  BY <1>13, <1>15
<1>18. \A b \in own : took[b] <= held[b]
  BY <1>4, <1>5, <1>6, <1>8
<1> QED BY <1>10, <1>16, <1>17, <1>18 DEF TakesOldest, draws, took, held, own, all
-----------------------------------------------------------------------------
(* The loop of mergeAddStockItems.                                         *)

\* g is what its rounds return, up to round k.
MergeRounds(g, items, k) == g = [n \in 0..k |-> IF n = 0 THEN <<>> ELSE Merge(g[n - 1], items[n])]

\* A round returns a list of items.
LEMMA MergeKeepsItems ==
    ASSUME NEW merged \in Seq(Item), NEW i \in Item
    PROVE  Merge(merged, i) \in Seq(Item)
<1>1. CASE ~\E k \in DOMAIN merged : SameIntake(merged[k], i)
  BY <1>1 DEF Merge
<1>2. CASE \E k \in DOMAIN merged : SameIntake(merged[k], i)
  <2> DEFINE new == [k \in DOMAIN merged |->
                        IF SameIntake(merged[k], i) THEN [merged[k] EXCEPT !.amount = @ + i.amount]
                        ELSE merged[k]]
  <2>1. Merge(merged, i) = new
    BY <1>2 DEF Merge
  <2>2. DOMAIN merged = 1..Len(merged) /\ Len(merged) \in Nat
    OBVIOUS
  <2>3. ASSUME NEW k \in DOMAIN merged
        PROVE  new[k] \in Item
    <3>1. merged[k] \in Item
      OBVIOUS
    <3> DEFINE j == merged[k]
    <3>2. /\ j \in [row : Row, amount : Nat \ {0}, batch : Nat, cost : Cost \cup {NoCost}]
          /\ j.amount + i.amount \in Nat \ {0}
      BY <3>1 DEF Item
    <3> HIDE DEF j
    <3>3. [j EXCEPT !.amount = @ + i.amount] \in Item
      BY <3>2 DEF Item
    <3>4. [merged[k] EXCEPT !.amount = @ + i.amount] \in Item
      BY <3>3 DEF j
    <3> QED BY <3>1, <3>4
  <2>4. DOMAIN new = 1..Len(merged)
    BY <2>2
  <2> HIDE DEF new
  <2>5. new \in [1..Len(merged) -> Item]
    <3>1. new = [k \in DOMAIN new |-> new[k]]
      BY DEF new
    <3> QED BY <2>2, <2>3, <2>4, <3>1
  <2> QED BY <2>1, <2>2, <2>5
<1> QED BY <1>1, <1>2

\* The loop has every round.
LEMMA MergeRoundsExist ==
    ASSUME NEW items
    PROVE  \A k \in Nat : \E g : MergeRounds(g, items, k)
<1> DEFINE Bad == {k \in Nat : ~\E g : MergeRounds(g, items, k)}
<1> SUFFICES ASSUME Bad # {}
             PROVE  FALSE
  OBVIOUS
<1>1. PICK k \in Bad : \A m \in Bad : k <= m
  <2>1. Bad \subseteq Nat
    OBVIOUS
  <2> HIDE DEF Bad
  <2> QED BY <2>1, LeastNumber
<1>2. CASE k = 0
  <2> DEFINE g == [n \in 0..0 |-> <<>>]
  <2>1. MergeRounds(g, items, 0)
    BY DEF MergeRounds
  <2> QED BY <1>1, <1>2, <2>1
<1>3. CASE k # 0
  <2>1. k \in Nat /\ k - 1 \in Nat /\ k - 1 \notin Bad
    BY <1>1, <1>3
  <2>2. PICK g : MergeRounds(g, items, k - 1)
    BY <2>1
  <2> DEFINE h == [n \in 0..k |-> IF n = k THEN Merge(g[k - 1], items[k]) ELSE g[n]]
  <2>3. MergeRounds(h, items, k)
    <3>1. \A n \in 0..k : h[n] = IF n = 0 THEN <<>> ELSE Merge(h[n - 1], items[n])
      <4> SUFFICES ASSUME NEW n \in 0..k
                   PROVE  h[n] = IF n = 0 THEN <<>> ELSE Merge(h[n - 1], items[n])
        OBVIOUS
      <4>1. CASE n = k
        BY <1>3, <2>1, <4>1
      <4>2. CASE n # k
        <5>1. n \in 0..(k - 1) /\ (n # 0 => n - 1 \in 0..(k - 1) /\ n - 1 # k)
          BY <2>1, <4>2
        <5>2. g[n] = IF n = 0 THEN <<>> ELSE Merge(g[n - 1], items[n])
          BY <2>2, <5>1 DEF MergeRounds
        <5>3. h[n] = g[n] /\ (n # 0 => h[n - 1] = g[n - 1])
          BY <2>1, <4>2, <5>1
        <5> HIDE DEF h
        <5> QED BY <5>2, <5>3
      <4> QED BY <4>1, <4>2
    <3> QED BY <3>1 DEF MergeRounds
  <2> QED BY <1>1, <2>3
<1> QED BY <1>2, <1>3

\* What mergeAddStockItems returns is a list of items again.
LEMMA MergedAreItems ==
    ASSUME NEW items \in Seq(Item)
    PROVE  Merged(items) \in Seq(Item)
<1>1. Len(items) \in Nat /\ \A n \in 1..Len(items) : items[n] \in Item
  OBVIOUS
<1>2. \E h : MergeRounds(h, items, Len(items))
  BY <1>1, MergeRoundsExist
<1>3. Merged(items) = (CHOOSE h : MergeRounds(h, items, Len(items)))[Len(items)]
  BY DEF Merged, MergeRounds
<1>4. PICK g : MergeRounds(g, items, Len(items)) /\ Merged(items) = g[Len(items)]
  BY <1>2, <1>3
<1>5. \A n \in 0..Len(items) : g[n] = IF n = 0 THEN <<>> ELSE Merge(g[n - 1], items[n])
  BY <1>4 DEF MergeRounds
<1> DEFINE Bad == {k \in 0..Len(items) : g[k] \notin Seq(Item)}
<1>6. Bad = {}
  <2> SUFFICES ASSUME Bad # {}
               PROVE  FALSE
    OBVIOUS
  <2>1. PICK k \in Bad : \A m \in Bad : k <= m
    <3>1. Bad \subseteq Nat
      OBVIOUS
    <3> HIDE DEF Bad
    <3> QED BY <3>1, LeastNumber
  <2>2. CASE k = 0
    <3>1. g[k] = <<>>
      BY <1>5, <2>1, <2>2
    <3>2. <<>> \in Seq(Item)
      OBVIOUS
    <3> QED BY <2>1, <3>1, <3>2
  <2>3. CASE k # 0
    <3>1. k \in 1..Len(items) /\ k - 1 \in 0..Len(items) /\ k - 1 \notin Bad
      BY <1>1, <2>1, <2>3
    <3>2. g[k] = Merge(g[k - 1], items[k])
      BY <1>5, <2>1, <2>3
    <3>3. g[k - 1] \in Seq(Item)
      BY <3>1
    <3> QED BY <1>1, <2>1, <3>1, <3>2, <3>3, MergeKeepsItems
  <2> QED BY <2>2, <2>3
<1> QED BY <1>1, <1>4, <1>6
-----------------------------------------------------------------------------
(* Types.                                                                  *)

Movements == [added : [Batch -> Nat], drawn : [Batch -> Nat], sold : [Row -> Nat]]

Request == [op : {"IDLE", "ADD", "REMOVE", "SALE"}, stage : {"NEXT", "WRITE"}, items : Seq(Item),
            touched : Seq(Touch), seen : StockRow, at : 0..MaxBatch]

BatchTypeOK ==
    /\ stock \in [Row -> StockRow] /\ stockDraft \in [Row -> StockRow]
    /\ rowHolder \in [Row -> Tx \cup {NoTx}]
    /\ batch \in [Batch -> BatchRow] /\ batchDraft \in [Batch -> BatchRow]
    /\ batchHolder \in [Batch -> Tx \cup {NoTx}]
    /\ ledger \in Movements /\ wrote \in [Tx -> Movements]
    /\ lastBatch \in 0..MaxBatch
    /\ desk \in [Tx -> Request]

\* Only a removal that is being written has draws, only an intake a batch.
Stages == \A t \in Tx :
    /\ desk[t].stage = "NEXT" \/ desk[t].op = "ADD" => desk[t].touched = <<>>
    /\ desk[t].stage = "WRITE" => desk[t].op \in {"ADD", "REMOVE"} /\ desk[t].items # <<>>
    /\ Stands(t, "ADD", "WRITE") => desk[t].at \in Batch

\* What is written by a movement and by an increment.
LEMMA MovementTyped ==
    ASSUME NEW m \in Movements, NEW x \in Nat
    PROVE  /\ \A b \in Batch : [m EXCEPT !.added[b] = x] \in Movements
           /\ \A b \in Batch : [m EXCEPT !.drawn[b] = @ + x] \in Movements
           /\ \A r \in Row : [m EXCEPT !.sold[r] = @ + x] \in Movements
<1>1. /\ m = [added |-> m.added, drawn |-> m.drawn, sold |-> m.sold]
      /\ m.added \in [Batch -> Nat] /\ m.drawn \in [Batch -> Nat] /\ m.sold \in [Row -> Nat]
  BY DEF Movements
<1>2. ASSUME NEW b \in Batch
      PROVE  [m EXCEPT !.added[b] = x] \in Movements
  <2>1. [m.added EXCEPT ![b] = x] \in [Batch -> Nat]
    BY <1>1
  <2>2. [m EXCEPT !.added[b] = x] = [added |-> [m.added EXCEPT ![b] = x], drawn |-> m.drawn, sold |-> m.sold]
    BY <1>1
  <2> QED BY <1>1, <2>1, <2>2 DEF Movements
<1>3. ASSUME NEW b \in Batch
      PROVE  [m EXCEPT !.drawn[b] = @ + x] \in Movements
  <2>1. [m.drawn EXCEPT ![b] = @ + x] \in [Batch -> Nat]
    BY <1>1
  <2>2. [m EXCEPT !.drawn[b] = @ + x] = [added |-> m.added, drawn |-> [m.drawn EXCEPT ![b] = @ + x], sold |-> m.sold]
    BY <1>1
  <2> QED BY <1>1, <2>1, <2>2 DEF Movements
<1>4. ASSUME NEW r \in Row
      PROVE  [m EXCEPT !.sold[r] = @ + x] \in Movements
  <2>1. [m.sold EXCEPT ![r] = @ + x] \in [Row -> Nat]
    BY <1>1
  <2>2. [m EXCEPT !.sold[r] = @ + x] = [added |-> m.added, drawn |-> m.drawn, sold |-> [m.sold EXCEPT ![r] = @ + x]]
    BY <1>1
  <2> QED BY <1>1, <2>1, <2>2 DEF Movements
<1> QED BY <1>2, <1>3, <1>4

LEMMA VersionTyped ==
    ASSUME NEW version \in StockRow, NEW x \in Int
    PROVE  /\ Shifted(version, x) = [quantity |-> version.quantity + x, basis |-> version.basis]
           /\ Shifted(version, x) \in StockRow
           /\ \A basis \in SUBSET Batch :
                 /\ [Shifted(version, x) EXCEPT !.basis = basis] =
                       [quantity |-> version.quantity + x, basis |-> basis]
                 /\ [Shifted(version, x) EXCEPT !.basis = basis] \in StockRow
<1>1. /\ version = [quantity |-> version.quantity, basis |-> version.basis]
      /\ version.quantity + x \in Int /\ version.basis \in SUBSET Batch
  BY DEF StockRow
<1>2. Shifted(version, x) = [quantity |-> version.quantity + x, basis |-> version.basis]
  BY <1>1 DEF Shifted
<1>3. ASSUME NEW basis \in SUBSET Batch
      PROVE  [Shifted(version, x) EXCEPT !.basis = basis] = [quantity |-> version.quantity + x, basis |-> basis]
  BY <1>2
<1> QED BY <1>1, <1>2, <1>3 DEF StockRow

\* The requests that begin have a list of items.
LEMMA BegunTyped ==
    ASSUME BatchTypeOK, Stages, NEW t \in Tx, NEW op \in {"ADD", "REMOVE", "SALE"}, NEW items \in Seq(Item),
           Begin(t, op, items)
    PROVE  BatchTypeOK' /\ Stages'
<1> DEFINE q == [Idle EXCEPT !.op = op, !.items = items]
<1>1. q \in Request
  <2>1. <<>> \in Seq(Touch) /\ Unread \in StockRow /\ NoBatch \in 0..MaxBatch
    BY BatchAssumption DEF Unread, StockRow, NoBatch
  <2> QED BY <2>1 DEF Idle, Request
<1>2. desk' = [desk EXCEPT ![t] = q]
  BY DEF Begin
<1>3. q.stage = "NEXT" /\ q.touched = <<>>
  BY DEF Idle
<1> HIDE DEF q
<1>4. desk' \in [Tx -> Request]
  BY <1>1, <1>2 DEF BatchTypeOK
<1>5. Stages'
  BY <1>2, <1>3 DEF Stages, Stands, BatchTypeOK
<1> QED BY <1>4, <1>5 DEF Begin, BatchTypeOK, stockTable, batchTable

\* A finished item leaves the request with the rest of its items.
LEMMA FinishedTyped ==
    ASSUME BatchTypeOK, Stages, NEW t \in Tx, desk[t].items # <<>>, NEW version \in StockRow,
           WriteRow(t, version), wrote' \in [Tx -> Movements]
    PROVE  BatchTypeOK' /\ Stages'
<1> DEFINE q == [Idle EXCEPT !.op = desk[t].op, !.items = Tail(desk[t].items)]
<1>1. desk[t] \in Request
  BY DEF BatchTypeOK
<1>2. q \in Request
  <2>1. <<>> \in Seq(Touch) /\ Unread \in StockRow /\ NoBatch \in 0..MaxBatch
    BY BatchAssumption DEF Unread, StockRow, NoBatch
  <2>2. Tail(desk[t].items) \in Seq(Item)
    BY <1>1 DEF Request
  <2> QED BY <1>1, <2>1, <2>2 DEF Idle, Request
<1>3. desk' = [desk EXCEPT ![t] = q]
  BY DEF WriteRow
<1>7. q.stage = "NEXT" /\ q.touched = <<>>
  BY DEF Idle
<1> HIDE DEF q
<1>4. desk' \in [Tx -> Request]
  BY <1>2, <1>3 DEF BatchTypeOK
<1>8. Stages'
  BY <1>3, <1>7 DEF Stages, Stands, BatchTypeOK
<1>5. Current(t) \in Item /\ Current(t).row \in Row
  <2>1. Current(t) \in Item
    BY <1>1 DEF Request, Current
  <2> QED BY <2>1 DEF Item
<1>6. stockDraft' \in [Row -> StockRow] /\ rowHolder' \in [Row -> Tx \cup {NoTx}]
  BY <1>5 DEF WriteRow, Lock, BatchTypeOK
<1> QED BY <1>4, <1>6, <1>8 DEF WriteRow, BatchTypeOK, batchTable

\* The current item of a request that has one.
LEMMA CurrentItem ==
    ASSUME BatchTypeOK, NEW t \in Tx, desk[t].items # <<>>
    PROVE  /\ Current(t) \in Item /\ Current(t).row \in Row
           /\ Current(t).amount \in Nat /\ Current(t).amount > 0
<1>1. desk[t] \in Request
  BY DEF BatchTypeOK
<1>2. Current(t) \in Item
  BY <1>1 DEF Request, Current
<1> QED BY <1>2 DEF Item

\* What t sees of the tables.
LEMMA SeenTyped ==
    ASSUME BatchTypeOK, NEW t \in Tx
    PROVE  SeenStock(t) \in [Row -> StockRow] /\ SeenBatches(t) \in [Batch -> BatchRow]
BY DEF BatchTypeOK, SeenStock, SeenBatches, View

\* A resolved removal keeps its draws.
LEMMA ResolvedTyped ==
    ASSUME BatchTypeOK, Stages, NEW t \in Tx, Stands(t, "REMOVE", "NEXT"), NEW touched \in Seq(Touch),
           Resolve(t, touched)
    PROVE  BatchTypeOK' /\ Stages'
<1> DEFINE q == [desk[t] EXCEPT !.stage = "WRITE", !.touched = touched]
<1>1. desk[t] \in Request
  BY DEF BatchTypeOK
<1>2. q \in Request
  BY <1>1 DEF Request
<1>3. desk' = [desk EXCEPT ![t] = q]
  BY DEF Resolve
<1>5. q.stage = "WRITE" /\ q.op = "REMOVE" /\ q.items # <<>>
  BY <1>1 DEF Stands, Request
<1> HIDE DEF q
<1>4. desk' \in [Tx -> Request]
  BY <1>2, <1>3 DEF BatchTypeOK
<1>6. Stages'
  BY <1>3, <1>5 DEF Stages, Stands, BatchTypeOK
<1> QED BY <1>4, <1>6 DEF Resolve, BatchTypeOK, stockTable, batchTable

\* What either way of resolving a removal returns.
LEMMA PickedTyped ==
    ASSUME BatchTypeOK, NEW t \in Tx, desk[t].items # <<>>, PickAllowed(SeenBatches(t), Current(t))
    PROVE  [batch |-> Current(t).batch, drawn |-> Current(t).amount,
            remaining |-> SeenBatches(t)[Current(t).batch].remaining] \in Touch
<1>1. Current(t).amount \in Nat /\ Current(t).batch \in Batch
  BY CurrentItem DEF PickAllowed
<1>2. SeenBatches(t)[Current(t).batch].remaining \in Int
  BY <1>1, SeenTyped DEF BatchRow
<1> QED BY <1>1, <1>2 DEF Touch

LEMMA FifoTyped ==
    ASSUME BatchTypeOK, NEW t \in Tx, desk[t].items # <<>>
    PROVE  AfterRound(SeenBatches(t), Current(t).row, Current(t).amount,
                      FifoDraws(SeenBatches(t), Current(t).row, Current(t).amount), MaxBatch)
BY CurrentItem, SeenTyped, FifoDrawsRight

\* Every transaction keeps the types.
THEOREM BatchesAreTyped == BatchSpec => [](BatchTypeOK /\ Stages)
<1>1. BatchInit => BatchTypeOK /\ Stages
  <2> SUFFICES ASSUME BatchInit
               PROVE  BatchTypeOK /\ Stages
    OBVIOUS
  <2>1. /\ stock \in [Row -> StockRow] /\ stockDraft \in [Row -> StockRow]
        /\ rowHolder \in [Row -> Tx \cup {NoTx}] /\ batchHolder \in [Batch -> Tx \cup {NoTx}]
    BY BatchAssumption DEF BatchInit, StockRow
  <2>2. batch \in [Batch -> BatchRow] /\ batchDraft \in [Batch -> BatchRow]
    BY DEF BatchInit, BatchRow, Unborn
  <2>3. NoMovements \in Movements
    BY DEF NoMovements, Movements
  <2>4. Idle \in Request
    <3>1. <<>> \in Seq(Touch) /\ <<>> \in Seq(Item) /\ Unread \in StockRow /\ NoBatch \in 0..MaxBatch
      BY BatchAssumption DEF Unread, StockRow, NoBatch
    <3> QED BY <3>1 DEF Idle, Request
  <2>5. lastBatch \in 0..MaxBatch
    BY BatchAssumption DEF BatchInit
  <2>6. Stages
    BY DEF BatchInit, Stages, Stands, Idle
  <2> QED BY <2>1, <2>2, <2>3, <2>4, <2>5, <2>6 DEF BatchInit, BatchTypeOK
<1>2. BatchTypeOK /\ Stages /\ [BatchNext]_batchVars => BatchTypeOK' /\ Stages'
  <2> SUFFICES ASSUME BatchTypeOK, Stages, [BatchNext]_batchVars
               PROVE  BatchTypeOK' /\ Stages'
    OBVIOUS
  <2>1. CASE UNCHANGED batchVars
    BY <2>1 DEF batchVars, BatchTypeOK, Stages, Stands
  <2>2. ASSUME NEW t \in Tx, NEW items \in Intakes, BeginAdd(t, items)
        PROVE  BatchTypeOK' /\ Stages'
    <3>1. items \in Seq(Item)
      BY ItemAssumption
    <3>2. Merged(items) \in Seq(Item)
      BY <3>1, MergedAreItems
    <3> QED BY <2>2, <3>2, BegunTyped DEF BeginAdd
  <2>3. ASSUME NEW t \in Tx, NEW items \in Removals, BeginRemove(t, items)
        PROVE  BatchTypeOK' /\ Stages'
    <3>1. items \in Seq(Item)
      BY ItemAssumption
    <3> QED BY <2>3, <3>1, BegunTyped DEF BeginRemove
  <2>4. ASSUME NEW t \in Tx, NEW i \in Sales, Begin(t, "SALE", <<i>>)
        PROVE  BatchTypeOK' /\ Stages'
    <3>1. i \in Item
      BY ItemAssumption
    <3>2. <<i>> \in Seq(Item)
      BY <3>1
    <3> QED BY <2>4, <3>2, BegunTyped
  <2>5. ASSUME NEW t \in Tx, Receive(t)
        PROVE  BatchTypeOK' /\ Stages'
    <3> DEFINE b == lastBatch + 1
               q == [desk[t] EXCEPT !.stage = "WRITE", !.at = b, !.seen = ReadForCost(t, Current(t).row)]
               row == [row |-> Current(t).row, quantity |-> Current(t).amount, remaining |-> Current(t).amount]
    <3>1. b \in Batch /\ b \in 0..MaxBatch /\ desk[t] \in Request /\ desk[t].items # <<>>
      BY <2>5, BatchAssumption DEF Receive, Stands, BatchTypeOK, Batch
    <3>2. Current(t).row \in Row /\ Current(t).amount \in Nat
      BY <3>1, CurrentItem
    <3>3. ReadForCost(t, Current(t).row) \in StockRow
      BY <3>2, SeenTyped DEF ReadForCost
    <3>4. q \in Request
      BY <3>1, <3>3 DEF Request
    <3>5. row \in BatchRow
      BY <3>2 DEF BatchRow
    <3>6. desk' = [desk EXCEPT ![t] = q] /\ batchDraft' = [batchDraft EXCEPT ![b] = row]
      BY <2>5 DEF Receive
    <3> HIDE DEF q, row
    <3>7. desk' \in [Tx -> Request] /\ batchDraft' \in [Batch -> BatchRow]
      BY <3>4, <3>5, <3>6 DEF BatchTypeOK
    <3>8. batchHolder' \in [Batch -> Tx \cup {NoTx}]
      BY <2>5 DEF Receive, Lock, BatchTypeOK
    <3>9. lastBatch' \in 0..MaxBatch
      BY <2>5, <3>1 DEF Receive
    <3>10. q.stage = "WRITE" /\ q.op = "ADD" /\ q.items # <<>> /\ q.touched = <<>> /\ q.at = b
      BY <2>5, <3>1 DEF Receive, Stands, Stages, Request, q
    <3>11. Stages'
      BY <3>1, <3>6, <3>10 DEF Stages, Stands, BatchTypeOK
    <3> QED BY <2>5, <3>7, <3>8, <3>9, <3>11 DEF Receive, BatchTypeOK, stockTable
  <2>6. ASSUME NEW t \in Tx, Store(t)
        PROVE  BatchTypeOK' /\ Stages'
    <3>1. desk[t] \in Request /\ desk[t].items # <<>>
      BY <2>6 DEF Store, Stands, BatchTypeOK
    <3>2. Current(t).row \in Row /\ Current(t).amount \in Nat
      BY <3>1, CurrentItem
    <3>3. wrote' \in [Tx -> Movements]
      <4> DEFINE w == [wrote[t] EXCEPT !.added[desk[t].at] = Current(t).amount]
      <4>1. w \in Movements
        BY <3>2 DEF BatchTypeOK, Movements
      <4>2. wrote' = [wrote EXCEPT ![t] = w]
        BY <2>6 DEF Store
      <4> HIDE DEF w
      <4> QED BY <4>1, <4>2 DEF BatchTypeOK
    <3>4. Blended(desk[t].seen, desk[t].at) \in SUBSET Batch
      <4>1. desk[t].seen.basis \in SUBSET Batch
        BY <3>1 DEF Request, StockRow
      <4>2. desk[t].at \in Batch
        BY <2>6 DEF Store, Stages
      <4> QED BY <4>1, <4>2 DEF Blended
    <3> DEFINE version == [Shifted(stockDraft[Current(t).row], Current(t).amount)
                             EXCEPT !.basis = Blended(desk[t].seen, desk[t].at)]
    <3>5. version \in StockRow
      <4> DEFINE basis == Blended(desk[t].seen, desk[t].at)
      <4>1. stockDraft[Current(t).row] \in StockRow /\ Current(t).amount \in Int /\ basis \in SUBSET Batch
        BY <3>2, <3>4 DEF BatchTypeOK
      <4> HIDE DEF basis
      <4>2. [Shifted(stockDraft[Current(t).row], Current(t).amount) EXCEPT !.basis = basis] \in StockRow
        BY <4>1, VersionTyped
      <4> QED BY <4>2 DEF basis
    <3>6. WriteRow(t, version)
      BY <2>6 DEF Store
    <3> HIDE DEF version
    <3> QED BY <3>1, <3>3, <3>5, <3>6, FinishedTyped
  <2>7. ASSUME NEW t \in Tx, ResolveSpecificBatch(t)
        PROVE  BatchTypeOK' /\ Stages'
    <3> DEFINE x == [batch |-> Current(t).batch, drawn |-> Current(t).amount,
                     remaining |-> SeenBatches(t)[Current(t).batch].remaining]
    <3>1. Stands(t, "REMOVE", "NEXT") /\ PickAllowed(SeenBatches(t), Current(t)) /\ Resolve(t, <<x>>)
      BY <2>7 DEF ResolveSpecificBatch
    <3>2. x \in Touch
      BY <3>1, PickedTyped DEF Stands
    <3> HIDE DEF x
    <3>3. <<x>> \in Seq(Touch)
      BY <3>2
    <3> QED BY <3>1, <3>3, ResolvedTyped
  <2>8. ASSUME NEW t \in Tx, ResolveFifoBatches(t)
        PROVE  BatchTypeOK' /\ Stages'
    <3> DEFINE draws == FifoDraws(SeenBatches(t), Current(t).row, Current(t).amount)
    <3>1. Stands(t, "REMOVE", "NEXT") /\ Resolve(t, draws.touched)
      BY <2>8 DEF ResolveFifoBatches
    <3>2. draws.touched \in Seq(Touch)
      BY <3>1, FifoTyped DEF Stands, AfterRound
    <3> HIDE DEF draws
    <3> QED BY <3>1, <3>2, ResolvedTyped
  <2>9. ASSUME NEW t \in Tx, Draw(t)
        PROVE  BatchTypeOK' /\ Stages'
    <3> DEFINE x == Head(desk[t].touched)
               q == [desk[t] EXCEPT !.touched = Tail(@)]
               row == [batchDraft[x.batch] EXCEPT !.remaining = Left(x)]
               w == [wrote[t] EXCEPT !.drawn[x.batch] = @ + x.drawn]
    <3>1. desk[t] \in Request /\ desk[t].touched # <<>> /\ Stands(t, "REMOVE", "WRITE")
      BY <2>9 DEF Draw, BatchTypeOK
    <3>2. x \in Touch /\ Tail(desk[t].touched) \in Seq(Touch)
      BY <3>1 DEF Request
    <3>3. q \in Request /\ q.op = "REMOVE" /\ q.stage = "WRITE" /\ q.items # <<>>
      BY <3>1, <3>2 DEF Request, Stands
    <3>4. x.batch \in Batch /\ x.drawn \in Nat /\ Left(x) \in Int
      BY <3>2 DEF Touch, Left
    <3>5. row \in BatchRow
      BY <3>4 DEF BatchRow, BatchTypeOK
    <3>6. w \in Movements
      BY <3>4, MovementTyped DEF BatchTypeOK
    <3>7. /\ desk' = [desk EXCEPT ![t] = q] /\ batchDraft' = [batchDraft EXCEPT ![x.batch] = row]
          /\ wrote' = [wrote EXCEPT ![t] = w]
      BY <2>9 DEF Draw
    <3> HIDE DEF q, row, w, x
    <3>8. desk' \in [Tx -> Request] /\ batchDraft' \in [Batch -> BatchRow] /\ wrote' \in [Tx -> Movements]
      BY <3>3, <3>5, <3>6, <3>7 DEF BatchTypeOK
    <3>9. batchHolder' \in [Batch -> Tx \cup {NoTx}]
      BY <2>9 DEF Draw, Lock, BatchTypeOK
    <3>10. Stages'
      BY <3>3, <3>7 DEF Stages, Stands, BatchTypeOK
    <3> QED BY <2>9, <3>8, <3>9, <3>10 DEF Draw, BatchTypeOK, stockTable
  <2>10. ASSUME NEW t \in Tx, TakeOff(t)
        PROVE  BatchTypeOK' /\ Stages'
    <3>1. desk[t].items # <<>>
      BY <2>10 DEF TakeOff, Stands
    <3>2. Current(t).row \in Row /\ Current(t).amount \in Nat
      BY <3>1, CurrentItem
    <3>3. Shifted(stockDraft[Current(t).row], -Current(t).amount) \in StockRow
      BY <3>2 DEF Shifted, StockRow, BatchTypeOK
    <3> QED BY <2>10, <3>1, <3>3, FinishedTyped DEF TakeOff, BatchTypeOK
  <2>11. ASSUME NEW t \in Tx, Sell(t)
        PROVE  BatchTypeOK' /\ Stages'
    <3> DEFINE w == [wrote[t] EXCEPT !.sold[Current(t).row] = @ + Current(t).amount]
    <3>1. desk[t].items # <<>>
      BY <2>11 DEF Sell, Stands
    <3>2. Current(t).row \in Row /\ Current(t).amount \in Nat
      BY <3>1, CurrentItem
    <3>3. Shifted(stockDraft[Current(t).row], -Current(t).amount) \in StockRow
      BY <3>2 DEF Shifted, StockRow, BatchTypeOK
    <3>4. w \in Movements
      BY <3>2, MovementTyped DEF BatchTypeOK
    <3>5. wrote' = [wrote EXCEPT ![t] = w]
      BY <2>11 DEF Sell
    <3> HIDE DEF w
    <3>6. wrote' \in [Tx -> Movements]
      BY <3>4, <3>5 DEF BatchTypeOK
    <3> QED BY <2>11, <3>1, <3>3, <3>6, FinishedTyped DEF Sell
  <2>12. ASSUME NEW t \in Tx, Close(t), BatchTypeOK
         PROVE  /\ desk' \in [Tx -> Request] /\ wrote' \in [Tx -> Movements] /\ Stages'
                /\ rowHolder' \in [Row -> Tx \cup {NoTx}] /\ batchHolder' \in [Batch -> Tx \cup {NoTx}]
                /\ lastBatch' \in 0..MaxBatch
    <3>1. Idle \in Request /\ Idle.stage = "NEXT" /\ Idle.touched = <<>>
      <4>1. <<>> \in Seq(Touch) /\ <<>> \in Seq(Item) /\ Unread \in StockRow /\ NoBatch \in 0..MaxBatch
        BY BatchAssumption DEF Unread, StockRow, NoBatch
      <4> QED BY <4>1 DEF Idle, Request
    <3>2. NoMovements \in Movements
      BY DEF NoMovements, Movements
    <3>3. desk' \in [Tx -> Request] /\ wrote' \in [Tx -> Movements] /\ lastBatch' \in 0..MaxBatch
      BY <2>12, <3>1, <3>2 DEF Close, BatchTypeOK
    <3>4. rowHolder' \in [Row -> Tx \cup {NoTx}] /\ batchHolder' \in [Batch -> Tx \cup {NoTx}]
      BY <2>12 DEF Close, Unlock, BatchTypeOK
    <3>5. Stages'
      BY <2>12, <3>1 DEF Close, Stages, Stands, BatchTypeOK
    <3> QED BY <3>3, <3>4, <3>5
  <2>13. ASSUME NEW t \in Tx, Commit(t)
         PROVE  BatchTypeOK' /\ Stages'
    <3>1. stock' \in [Row -> StockRow] /\ batch' \in [Batch -> BatchRow]
      BY <2>13, SeenTyped DEF Commit
    <3>2. ledger' \in Movements
      <4>1. /\ ledger = [added |-> ledger.added, drawn |-> ledger.drawn, sold |-> ledger.sold]
            /\ ledger.added \in [Batch -> Nat] /\ ledger.drawn \in [Batch -> Nat] /\ ledger.sold \in [Row -> Nat]
            /\ wrote[t].added \in [Batch -> Nat] /\ wrote[t].drawn \in [Batch -> Nat]
            /\ wrote[t].sold \in [Row -> Nat]
        BY DEF BatchTypeOK, Movements
      <4>2. ledger' = [k \in DOMAIN ledger |-> Sum2(ledger[k], wrote[t][k])]
        BY <2>13 DEF Commit
      <4>3. ledger' = [added |-> Sum2(ledger.added, wrote[t].added), drawn |-> Sum2(ledger.drawn, wrote[t].drawn),
                       sold |-> Sum2(ledger.sold, wrote[t].sold)]
        BY <4>1, <4>2
      <4> QED BY <4>1, <4>3 DEF Sum2, Movements
    <3> QED BY <2>12, <2>13, <3>1, <3>2 DEF Commit, BatchTypeOK
  <2>14. ASSUME NEW t \in Tx, Rollback(t)
         PROVE  BatchTypeOK' /\ Stages'
    <3>1. stockDraft' \in [Row -> StockRow] /\ batchDraft' \in [Batch -> BatchRow]
      BY <2>14 DEF Rollback, Discard, BatchTypeOK
    <3> QED BY <2>12, <2>14, <3>1 DEF Rollback, BatchTypeOK
  <2> QED BY <2>1, <2>2, <2>3, <2>4, <2>5, <2>6, <2>7, <2>8, <2>9, <2>10, <2>11, <2>13, <2>14 DEF BatchNext
<1> QED BY <1>1, <1>2, PTL DEF BatchSpec
-----------------------------------------------------------------------------
(* Whose the batches are.                                                  *)

\* A batch exists once its delivery is committed, and keeps its row; until
\* then it is a draft of the intake that creates it.
Numbered ==
    /\ DraftsAreHeld(stock, stockDraft, rowHolder)
    /\ DraftsAreHeld(batch, batchDraft, batchHolder)
    /\ \A b \in Batch :
          /\ b > lastBatch => batchDraft[b] = Unborn /\ batchHolder[b] = NoTx
          /\ batch[b] # Unborn => batch[b].row \in Row /\ batchDraft[b].row = batch[b].row
          /\ batchDraft[b] # Unborn => batchDraft[b].row \in Row
          /\ batchHolder[b] # NoTx => batchDraft[b] # Unborn
          /\ batch[b] = Unborn => ledger.drawn[b] = 0

\* A request has moved only what it holds; only an intake brings anything.
OwnMoves == \A t \in Tx, b \in Batch :
    /\ batchHolder[b] # t => wrote[t].added[b] = 0 /\ wrote[t].drawn[b] = 0
    /\ batchHolder[b] = t /\ batch[b] = Unborn => desk[t].op = "ADD"
    /\ wrote[t].added[b] # 0 => desk[t].op = "ADD" /\ batch[b] = Unborn

\* An intake that has created its batch has not yet written its movement.
Received(t) == Stands(t, "ADD", "WRITE")

Arrivals == \A t \in Tx : Received(t) =>
    /\ batchHolder[desk[t].at] = t
    /\ batch[desk[t].at] = Unborn
    /\ batchDraft[desk[t].at].row = Current(t).row
    /\ batchDraft[desk[t].at].quantity = Current(t).amount
    /\ wrote[t].added[desk[t].at] = 0

\* The size of a batch is its delivery's movement.
Sized == \A b \in Batch :
    /\ ledger.added[b] = batch[b].quantity
    /\ \A t \in Tx : batchHolder[b] = t /\ ~(Received(t) /\ desk[t].at = b) =>
          batchDraft[b].quantity = batch[b].quantity + wrote[t].added[b]

\* A draw to be written is from a batch of the row of the current item.
Touching == \A t \in Tx : desk[t].touched # <<>> =>
    /\ Apart(desk[t].touched)
    /\ \A n \in DOMAIN desk[t].touched :
          /\ batch[desk[t].touched[n].batch] # Unborn
          /\ batch[desk[t].touched[n].batch].row = Current(t).row

BatchInv == Numbered /\ OwnMoves /\ Arrivals /\ Sized /\ Touching

\* A batch of that size with that much left, of which d units were drawn.
Explained(quantity, remaining, d) == 0 <= remaining /\ remaining <= quantity /\ quantity - remaining <= d

\* The drafts count what their holder has drawn as well.
Shortfalls ==
    /\ \A b \in Batch : Explained(batch[b].quantity, batch[b].remaining, ledger.drawn[b])
    /\ \A t \in Tx, b \in Batch : batchHolder[b] = t =>
          Explained(batchDraft[b].quantity, batchDraft[b].remaining, ledger.drawn[b] + wrote[t].drawn[b])
    /\ \A t \in Tx : \A n \in DOMAIN desk[t].touched :
          LET x == desk[t].touched[n] IN
          /\ x.drawn <= x.remaining
          /\ Explained(batch[x.batch].quantity, x.remaining, ledger.drawn[x.batch] + wrote[t].drawn[x.batch])

\* What movements m leave of row r, when the batches are those of table rows.
Owned(rows, m, r) == [b \in Batch |-> IF rows[b].row = r THEN m.added[b] - m.drawn[b] ELSE 0]
Balance(rows, m, r) == SumFunctionOnSet(Owned(rows, m, r), Batch) - m.sold[r]

\* What a removal has drawn from batches and not yet taken off the row.
Removing(t, r) == Stands(t, "REMOVE", "WRITE") /\ Current(t).row = r
Pending(t, r) ==
    IF Removing(t, r) THEN Current(t).amount - SumFunctionOnSet(TakenBy(desk[t].touched), Batch) ELSE 0

Change(t, r) == IF rowHolder[r] = t THEN stockDraft[r].quantity - stock[r].quantity ELSE 0

Books == \A r \in Row :
    /\ stock[r].quantity = Opening[r] + Balance(batchDraft, ledger, r)
    /\ \A t \in Tx : Change(t, r) = Balance(batchDraft, wrote[t], r) + Pending(t, r)

\* What an intake has brought weighs in the draft of its row.
Weighing ==
    /\ \A r \in Row : stock[r].quantity >= 0 /\ stockDraft[r].quantity >= 0
    /\ \A t \in Tx, b \in Batch : wrote[t].added[b] # 0 =>
          /\ rowHolder[batchDraft[b].row] = t
          /\ b \in stockDraft[batchDraft[b].row].basis
          /\ stockDraft[batchDraft[b].row].quantity > 0
    /\ \A t \in Tx : Received(t) /\ rowHolder[Current(t).row] = t =>
          desk[t].seen = stockDraft[Current(t).row]
\* Unborn rows name no row of the stock.
LEMMA RowsAreBorn == Unborn.row \notin Row /\ Unborn.quantity = 0
BY BatchAssumption DEF Unborn

LEMMA BeginKeepsBatches ==
    ASSUME BatchTypeOK, Stages, BatchInv, NEW t \in Tx, NEW op, NEW items, Begin(t, op, items)
    PROVE  BatchInv'
<1>1. /\ desk[t] = Idle /\ desk'[t].stage = "NEXT" /\ desk'[t].touched = <<>>
      /\ \A u \in Tx : u # t => desk'[u] = desk[u]
      /\ UNCHANGED <<stock, stockDraft, rowHolder, batch, batchDraft, batchHolder, lastBatch, ledger, wrote>>
  BY DEF Begin, stockTable, batchTable, Idle, BatchTypeOK
<1>2. Numbered'
  BY <1>1 DEF Numbered, BatchInv, DraftsAreHeld
<1>3. OwnMoves'
  <2>1. desk[t].op = "IDLE"
    BY <1>1 DEF Idle
  <2> QED BY <1>1, <2>1 DEF OwnMoves, BatchInv
<1>4. ~Received(t) /\ ~Received(t)' /\ \A u \in Tx : u # t => Received(u)' = Received(u) /\ Current(u)' = Current(u)
  BY <1>1 DEF Received, Stands, Idle, Current
<1>5. Arrivals'
  BY <1>1, <1>4 DEF Arrivals, BatchInv
<1>6. Sized'
  BY <1>1, <1>4 DEF Sized, BatchInv
<1>7. Touching'
  BY <1>1, <1>4 DEF Touching, BatchInv
<1> QED BY <1>2, <1>3, <1>5, <1>6, <1>7 DEF BatchInv

\* A row's new version leaves the batches alone; the movement is of a batch
\* that is still unborn, or of none.
LEMMA WriteKeepsBatches ==
    ASSUME BatchTypeOK, Stages, BatchInv, NEW t \in Tx, desk[t].items # <<>>,
           NEW version, WriteRow(t, version),
           \A u \in Tx : u # t => wrote'[u] = wrote[u],
           \A b \in Batch : /\ wrote'[t].drawn[b] = wrote[t].drawn[b]
                            /\ wrote'[t].added[b] = IF Received(t) /\ b = desk[t].at THEN Current(t).amount
                                                    ELSE wrote[t].added[b]
    PROVE  BatchInv'
<1>1. /\ desk'[t].op = desk[t].op /\ desk'[t].stage = "NEXT" /\ desk'[t].touched = <<>>
      /\ \A u \in Tx : u # t => desk'[u] = desk[u]
      /\ UNCHANGED <<stock, batch, batchDraft, batchHolder, lastBatch, ledger>>
  BY DEF WriteRow, batchTable, Idle, BatchTypeOK
<1>2. Numbered'
  <2>1. Current(t).row \in Row /\ t # NoTx
    BY CurrentItem, NoTxAssumption
  <2>2. DraftsAreHeld(stock', stockDraft', rowHolder')
    BY <1>1, <2>1 DEF Numbered, BatchInv, DraftsAreHeld, WriteRow, Lock, BatchTypeOK
  <2> QED BY <1>1, <2>2 DEF Numbered, BatchInv, DraftsAreHeld
<1>3. ~Received(t)' /\ \A u \in Tx : u # t => Received(u)' = Received(u) /\ Current(u)' = Current(u)
  BY <1>1 DEF Received, Stands, Current
<1>4. Received(t) => /\ desk[t].op = "ADD" /\ desk[t].at \in Batch /\ batchHolder[desk[t].at] = t
                     /\ batchDraft[desk[t].at].quantity = Current(t).amount
                     /\ batch[desk[t].at] = Unborn
  BY DEF Received, Arrivals, BatchInv, Stages, Stands
<1>5. OwnMoves'
  <2> SUFFICES ASSUME NEW u \in Tx, NEW b \in Batch
               PROVE  /\ batchHolder[b] # u => wrote'[u].added[b] = 0 /\ wrote'[u].drawn[b] = 0
                      /\ batchHolder[b] = u /\ batch[b] = Unborn => desk'[u].op = "ADD"
                      /\ wrote'[u].added[b] # 0 => desk'[u].op = "ADD" /\ batch[b] = Unborn
    BY <1>1 DEF OwnMoves
  <2>1. /\ batchHolder[b] # u => wrote[u].added[b] = 0 /\ wrote[u].drawn[b] = 0
        /\ batchHolder[b] = u /\ batch[b] = Unborn => desk[u].op = "ADD"
        /\ wrote[u].added[b] # 0 => desk[u].op = "ADD" /\ batch[b] = Unborn
    BY DEF OwnMoves, BatchInv
  <2>2. CASE u # t
    BY <1>1, <2>1, <2>2
  <2>3. CASE u = t
    BY <1>1, <1>4, <2>1, <2>3
  <2> QED BY <2>2, <2>3
<1>6. Arrivals'
  BY <1>1, <1>3 DEF Arrivals, BatchInv
<1>7. Sized'
  <2> SUFFICES ASSUME NEW b \in Batch, NEW u \in Tx, batchHolder[b] = u, ~(Received(u)' /\ desk'[u].at = b)
               PROVE  batchDraft[b].quantity = batch[b].quantity + wrote'[u].added[b]
    BY <1>1 DEF Sized, BatchInv
  <2>1. CASE u # t
    BY <1>1, <1>3, <2>1 DEF Sized, BatchInv
  <2>2. CASE u = t /\ Received(t) /\ desk[t].at = b
    <3>1. wrote'[u].added[b] = Current(t).amount /\ batch[b].quantity = 0 /\ Current(t).amount \in Nat
      BY <1>4, <2>2, RowsAreBorn, CurrentItem
    <3> QED BY <1>4, <2>2, <3>1
  <2>3. CASE u = t /\ ~(Received(t) /\ desk[t].at = b)
    BY <2>3 DEF Sized, BatchInv
  <2> QED BY <2>1, <2>2, <2>3
<1>8. Touching'
  BY <1>1, <1>3 DEF Touching, BatchInv
<1> QED BY <1>2, <1>5, <1>6, <1>7, <1>8 DEF BatchInv
\* A number is drawn for a batch nobody has touched.
LEMMA NextIsFresh ==
    ASSUME BatchTypeOK, BatchInv, lastBatch + 1 \in Batch
    PROVE  LET b == lastBatch + 1 IN
           /\ batch[b] = Unborn /\ batchDraft[b] = Unborn /\ batchHolder[b] = NoTx
           /\ ledger.added[b] = 0 /\ ledger.drawn[b] = 0
           /\ \A t \in Tx : wrote[t].added[b] = 0 /\ wrote[t].drawn[b] = 0
<1> DEFINE b == lastBatch + 1
<1>1. b \in Batch /\ b > lastBatch
  BY DEF BatchTypeOK
<1> HIDE DEF b
<1>2. batchDraft[b] = Unborn /\ batchHolder[b] = NoTx
  BY <1>1 DEF BatchInv, Numbered
<1>3. batch[b] = Unborn
  BY <1>1, <1>2 DEF BatchInv, Numbered, DraftsAreHeld, BatchTypeOK
<1>4. ledger.added[b] = 0 /\ ledger.drawn[b] = 0
  BY <1>1, <1>3, RowsAreBorn DEF BatchInv, Numbered, Sized
<1>5. \A t \in Tx : wrote[t].added[b] = 0 /\ wrote[t].drawn[b] = 0
  BY <1>1, <1>2, NoTxAssumption DEF BatchInv, OwnMoves
<1> QED BY <1>2, <1>3, <1>4, <1>5 DEF b

LEMMA ReceiveKeepsBatches ==
    ASSUME BatchTypeOK, Stages, BatchInv, NEW t \in Tx, Receive(t)
    PROVE  BatchInv'
<1> DEFINE b == lastBatch + 1
<1>1. b \in Batch /\ Stands(t, "ADD", "NEXT")
  BY DEF Receive
<1>2. /\ batch[b] = Unborn /\ batchDraft[b] = Unborn /\ batchHolder[b] = NoTx
      /\ ledger.added[b] = 0 /\ ledger.drawn[b] = 0
      /\ \A u \in Tx : wrote[u].added[b] = 0 /\ wrote[u].drawn[b] = 0
  BY <1>1, NextIsFresh
<1>3. Current(t).row \in Row /\ Current(t).amount \in Nat /\ Current(t).row # NoRow
  BY <1>1, CurrentItem, BatchAssumption DEF Stands
<1>4. /\ lastBatch' = b
      /\ batchDraft'[b].row = Current(t).row /\ batchDraft'[b].quantity = Current(t).amount
      /\ batchDraft'[b] # Unborn
      /\ batchHolder'[b] = t /\ DOMAIN batchHolder' = Batch
      /\ \A c \in Batch : c # b => batchDraft'[c] = batchDraft[c] /\ batchHolder'[c] = batchHolder[c]
      /\ desk'[t].op = "ADD" /\ desk'[t].stage = "WRITE" /\ desk'[t].items = desk[t].items /\ desk'[t].at = b
      /\ desk'[t].touched = desk[t].touched
      /\ \A u \in Tx : u # t => desk'[u] = desk[u]
      /\ UNCHANGED <<stock, stockDraft, rowHolder, batch, ledger, wrote>>
  <2>1. batchDraft'[b] = [row |-> Current(t).row, quantity |-> Current(t).amount, remaining |-> Current(t).amount]
    BY <1>1 DEF Receive, BatchTypeOK
  <2>2. batchDraft'[b] # Unborn
    BY <1>3, <2>1 DEF Unborn
  <2>3. desk'[t] = [desk[t] EXCEPT !.stage = "WRITE", !.at = b, !.seen = ReadForCost(t, Current(t).row)]
    BY DEF Receive, BatchTypeOK
  <2>4. desk[t] \in Request
    BY DEF BatchTypeOK
  <2>5. /\ desk'[t].op = "ADD" /\ desk'[t].stage = "WRITE" /\ desk'[t].items = desk[t].items
        /\ desk'[t].at = b /\ desk'[t].touched = desk[t].touched
    BY <1>1, <2>3, <2>4 DEF Request, Stands
  <2>6. /\ batchHolder'[b] = t /\ DOMAIN batchHolder' = Batch
        /\ \A c \in Batch : c # b => batchDraft'[c] = batchDraft[c] /\ batchHolder'[c] = batchHolder[c]
    BY <1>1 DEF Receive, Lock, BatchTypeOK
  <2> QED BY <2>1, <2>2, <2>5, <2>6 DEF Receive, BatchTypeOK, stockTable
<1>5. /\ Received(t)' /\ ~Received(t) /\ Current(t)' = Current(t) /\ desk[t].touched = <<>>
      /\ \A u \in Tx : u # t => Received(u)' = Received(u) /\ Current(u)' = Current(u)
  BY <1>1, <1>4 DEF Received, Stands, Current, Stages
<1> HIDE DEF b
<1>6. t # NoTx
  BY NoTxAssumption
<1>7. \A c \in Batch : c > b => c > lastBatch
  BY DEF b, BatchTypeOK, Batch
<1>8. Numbered'
  <2>1. DraftsAreHeld(batch', batchDraft', batchHolder')
    BY <1>2, <1>4, <1>6 DEF Numbered, BatchInv, DraftsAreHeld, BatchTypeOK
  <2>2. DraftsAreHeld(stock', stockDraft', rowHolder')
    BY <1>4 DEF Numbered, BatchInv, DraftsAreHeld
  <2>3. \A c \in Batch :
          /\ c > b => batchDraft'[c] = Unborn /\ batchHolder'[c] = NoTx
          /\ batch[c] # Unborn => batch[c].row \in Row /\ batchDraft'[c].row = batch[c].row
          /\ batchDraft'[c] # Unborn => batchDraft'[c].row \in Row
          /\ batchHolder'[c] # NoTx => batchDraft'[c] # Unborn
          /\ batch[c] = Unborn => ledger.drawn[c] = 0
    <3>1. ~(b > b)
      BY DEF b, BatchTypeOK
    <3> QED BY <1>2, <1>3, <1>4, <1>7, <3>1 DEF Numbered, BatchInv
  <2> QED BY <1>4, <2>1, <2>2, <2>3 DEF Numbered
<1>9. OwnMoves'
  <2> SUFFICES ASSUME NEW u \in Tx, NEW c \in Batch
               PROVE  /\ batchHolder'[c] # u => wrote[u].added[c] = 0 /\ wrote[u].drawn[c] = 0
                      /\ batchHolder'[c] = u /\ batch[c] = Unborn => desk'[u].op = "ADD"
                      /\ wrote[u].added[c] # 0 => desk'[u].op = "ADD" /\ batch[c] = Unborn
    BY <1>4 DEF OwnMoves
  <2>1. /\ batchHolder[c] # u => wrote[u].added[c] = 0 /\ wrote[u].drawn[c] = 0
        /\ batchHolder[c] = u /\ batch[c] = Unborn => desk[u].op = "ADD"
        /\ wrote[u].added[c] # 0 => desk[u].op = "ADD" /\ batch[c] = Unborn
    BY DEF OwnMoves, BatchInv
  <2> QED BY <1>2, <1>4, <2>1
<1>10. Arrivals'
  <2> SUFFICES ASSUME NEW u \in Tx, Received(u)'
               PROVE  /\ batchHolder'[desk'[u].at] = u
                      /\ batch[desk'[u].at] = Unborn
                      /\ batchDraft'[desk'[u].at].row = Current(u)'.row
                      /\ batchDraft'[desk'[u].at].quantity = Current(u)'.amount
                      /\ wrote[u].added[desk'[u].at] = 0
    BY <1>4 DEF Arrivals
  <2>1. CASE u = t
    BY <1>1, <1>2, <1>4, <1>5, <2>1
  <2>2. CASE u # t
    <3>1. Received(u) /\ desk[u].at \in Batch /\ desk'[u].at = desk[u].at
      BY <1>4, <1>5, <2>2 DEF Received, Stages
    <3>2. batchHolder[desk[u].at] = u /\ desk[u].at # b
      BY <1>2, <3>1, NoTxAssumption DEF Arrivals, BatchInv
    <3> QED BY <1>4, <1>5, <2>2, <3>1, <3>2 DEF Arrivals, BatchInv
  <2> QED BY <2>1, <2>2
<1>11. Sized'
  <2> SUFFICES ASSUME NEW c \in Batch, NEW u \in Tx, batchHolder'[c] = u, ~(Received(u)' /\ desk'[u].at = c)
               PROVE  batchDraft'[c].quantity = batch[c].quantity + wrote[u].added[c]
    BY <1>4 DEF Sized, BatchInv
  <2>1. c # b
    BY <1>4, <1>5
  <2>2. batchHolder[c] = u /\ ~(Received(u) /\ desk[u].at = c)
    BY <1>4, <1>5, <2>1
  <2> QED BY <1>4, <2>1, <2>2 DEF Sized, BatchInv
<1>12. Touching'
  BY <1>4, <1>5 DEF Touching, BatchInv
<1> QED BY <1>8, <1>9, <1>10, <1>11, <1>12 DEF BatchInv

\* A batch that a removal or a sale sees with a row of the stock is born.
LEMMA SeenIsBorn ==
    ASSUME BatchTypeOK, BatchInv, NEW t \in Tx, desk[t].op # "ADD", NEW b \in Batch,
           SeenBatches(t)[b].row \in Row
    PROVE  batch[b] # Unborn /\ batch[b].row = SeenBatches(t)[b].row
<1>1. SeenBatches(t)[b] = IF batchHolder[b] = t THEN batchDraft[b] ELSE batch[b]
  BY DEF SeenBatches, View, BatchTypeOK
<1>2. CASE batchHolder[b] = t
  <2>1. batch[b] # Unborn
    BY <1>2 DEF OwnMoves, BatchInv
  <2> QED BY <1>1, <1>2, <2>1 DEF Numbered, BatchInv
<1>3. CASE batchHolder[b] # t
  BY <1>1, <1>3, RowsAreBorn
<1> QED BY <1>2, <1>3

LEMMA ResolveKeepsBatches ==
    ASSUME BatchTypeOK, Stages, BatchInv, NEW t \in Tx, Stands(t, "REMOVE", "NEXT"),
           NEW touched \in Seq(Touch), Resolve(t, touched), Apart(touched),
           \A n \in DOMAIN touched : SeenBatches(t)[touched[n].batch].row = Current(t).row
    PROVE  BatchInv'
<1>1. /\ desk'[t].op = "REMOVE" /\ desk'[t].stage = "WRITE" /\ desk'[t].touched = touched
      /\ desk'[t].items = desk[t].items
      /\ \A u \in Tx : u # t => desk'[u] = desk[u]
      /\ UNCHANGED <<stock, stockDraft, rowHolder, batch, batchDraft, batchHolder, lastBatch, ledger, wrote>>
  <2>1. desk'[t] = [desk[t] EXCEPT !.stage = "WRITE", !.touched = touched] /\ desk[t] \in Request
    BY DEF Resolve, BatchTypeOK
  <2>2. /\ desk'[t].op = "REMOVE" /\ desk'[t].stage = "WRITE" /\ desk'[t].touched = touched
        /\ desk'[t].items = desk[t].items
    BY <2>1 DEF Request, Stands
  <2> QED BY <2>2 DEF Resolve, stockTable, batchTable, BatchTypeOK
<1>2. Numbered'
  BY <1>1 DEF Numbered, BatchInv, DraftsAreHeld
<1>3. /\ ~Received(t) /\ ~Received(t)' /\ Current(t)' = Current(t)
      /\ \A u \in Tx : u # t => Received(u)' = Received(u) /\ Current(u)' = Current(u)
  BY <1>1 DEF Received, Stands, Current
<1>4. desk[t].op = "REMOVE" /\ Current(t).row \in Row
  BY CurrentItem DEF Stands
<1>5. OwnMoves'
  BY <1>1, <1>4 DEF OwnMoves, BatchInv
<1>6. Arrivals'
  BY <1>1, <1>3 DEF Arrivals, BatchInv
<1>7. Sized'
  BY <1>1, <1>3 DEF Sized, BatchInv
<1>8. \A n \in DOMAIN touched : batch[touched[n].batch] # Unborn /\ batch[touched[n].batch].row = Current(t).row
  <2> SUFFICES ASSUME NEW n \in DOMAIN touched
               PROVE  batch[touched[n].batch] # Unborn /\ batch[touched[n].batch].row = Current(t).row
    OBVIOUS
  <2>1. touched[n] \in Touch
    OBVIOUS
  <2>2. touched[n].batch \in Batch
    BY <2>1 DEF Touch
  <2> QED BY <1>4, <2>2, SeenIsBorn
<1>9. Touching'
  BY <1>1, <1>3, <1>8 DEF Touching, BatchInv
<1> QED BY <1>2, <1>5, <1>6, <1>7, <1>9 DEF BatchInv
\* What a draw changes.
LEMMA DrawChanges ==
    ASSUME BatchTypeOK, Stages, BatchInv, NEW t \in Tx, Draw(t)
    PROVE  LET x == Head(desk[t].touched) IN
           /\ x \in Touch /\ x.batch \in Batch /\ x.drawn \in Nat /\ x.remaining \in Int
           /\ desk[t].touched # <<>> /\ desk[t].touched \in Seq(Touch) /\ Apart(desk[t].touched)
           /\ x = desk[t].touched[1] /\ 1 \in DOMAIN desk[t].touched
           /\ batchHolder[x.batch] \in {NoTx, t}
           /\ batch[x.batch] # Unborn /\ batch[x.batch].row = Current(t).row
           /\ batchDraft'[x.batch] = [batchDraft[x.batch] EXCEPT !.remaining = x.remaining - x.drawn]
           /\ batchDraft'[x.batch].row = batch[x.batch].row
           /\ batchDraft'[x.batch].quantity = batchDraft[x.batch].quantity
           /\ batchDraft'[x.batch].remaining = x.remaining - x.drawn
           /\ batchHolder'[x.batch] = t /\ DOMAIN batchHolder' = Batch
           /\ \A c \in Batch : c # x.batch => batchDraft'[c] = batchDraft[c] /\ batchHolder'[c] = batchHolder[c]
           /\ \A c \in Batch : batchDraft'[c].row = batchDraft[c].row
           /\ desk'[t].op = "REMOVE" /\ desk'[t].stage = "WRITE" /\ desk'[t].items = desk[t].items
           /\ desk[t].op = "REMOVE" /\ desk[t].stage = "WRITE" /\ desk[t].items # <<>>
           /\ desk'[t].touched = Tail(desk[t].touched)
           /\ \A u \in Tx : u # t => desk'[u] = desk[u] /\ wrote'[u] = wrote[u]
           /\ wrote'[t].added = wrote[t].added /\ wrote'[t].sold = wrote[t].sold
           /\ wrote'[t].drawn = [wrote[t].drawn EXCEPT ![x.batch] = @ + x.drawn]
           /\ UNCHANGED <<stock, stockDraft, rowHolder, batch, lastBatch, ledger>>
<1> DEFINE x == Head(desk[t].touched)
<1>1. /\ desk[t] \in Request /\ desk[t].touched # <<>> /\ desk[t].op = "REMOVE" /\ desk[t].stage = "WRITE"
      /\ desk[t].items # <<>>
  BY DEF Draw, Stands, BatchTypeOK
<1>2. /\ x \in Touch /\ desk[t].touched \in Seq(Touch) /\ x = desk[t].touched[1] /\ 1 \in DOMAIN desk[t].touched
  BY <1>1 DEF Request
<1>3. x.batch \in Batch /\ x.drawn \in Nat /\ x.remaining \in Int
  BY <1>2 DEF Touch
<1>4. Apart(desk[t].touched) /\ batch[x.batch] # Unborn /\ batch[x.batch].row = Current(t).row
  BY <1>1, <1>2 DEF BatchInv, Touching
<1>5. batchDraft[x.batch].row = batch[x.batch].row
  BY <1>3, <1>4 DEF BatchInv, Numbered
<1>6. /\ batchHolder[x.batch] \in {NoTx, t}
      /\ batchDraft' = [batchDraft EXCEPT ![x.batch].remaining = x.remaining - x.drawn]
      /\ batchHolder' = [batchHolder EXCEPT ![x.batch] = t]
      /\ wrote' = [wrote EXCEPT ![t].drawn[x.batch] = @ + x.drawn]
      /\ desk' = [desk EXCEPT ![t].touched = Tail(@)]
      /\ UNCHANGED <<stock, stockDraft, rowHolder, batch, lastBatch, ledger>>
  BY DEF Draw, Free, Lock, Left, stockTable
<1> HIDE DEF x
<1>7. /\ batchDraft'[x.batch] = [batchDraft[x.batch] EXCEPT !.remaining = x.remaining - x.drawn]
      /\ batchHolder'[x.batch] = t /\ DOMAIN batchHolder' = Batch
      /\ \A c \in Batch : c # x.batch => batchDraft'[c] = batchDraft[c] /\ batchHolder'[c] = batchHolder[c]
  BY <1>3, <1>6 DEF BatchTypeOK
<1>8. /\ batchDraft'[x.batch].row = batchDraft[x.batch].row
      /\ batchDraft'[x.batch].quantity = batchDraft[x.batch].quantity
      /\ batchDraft'[x.batch].remaining = x.remaining - x.drawn
  <2>1. batchDraft[x.batch] \in BatchRow
    BY <1>3 DEF BatchTypeOK
  <2> QED BY <1>7, <2>1 DEF BatchRow
<1>9. /\ desk'[t] = [desk[t] EXCEPT !.touched = Tail(@)]
      /\ wrote'[t] = [wrote[t] EXCEPT !.drawn[x.batch] = @ + x.drawn]
      /\ \A u \in Tx : u # t => desk'[u] = desk[u] /\ wrote'[u] = wrote[u]
  BY <1>6 DEF BatchTypeOK
<1>10. /\ desk'[t].op = "REMOVE" /\ desk'[t].stage = "WRITE" /\ desk'[t].items = desk[t].items
       /\ desk'[t].touched = Tail(desk[t].touched)
  BY <1>1, <1>9 DEF Request
<1>11. /\ wrote'[t].added = wrote[t].added /\ wrote'[t].sold = wrote[t].sold
       /\ wrote'[t].drawn = [wrote[t].drawn EXCEPT ![x.batch] = @ + x.drawn]
  <2>1. wrote[t] \in Movements
    BY DEF BatchTypeOK
  <2> QED BY <1>9, <2>1 DEF Movements
<1>12. \A c \in Batch : batchDraft'[c].row = batchDraft[c].row
  BY <1>7, <1>8
<1> QED BY <1>1, <1>2, <1>3, <1>4, <1>5, <1>6, <1>7, <1>8, <1>9, <1>10, <1>11, <1>12 DEF x

LEMMA DrawKeepsBatches ==
    ASSUME BatchTypeOK, Stages, BatchInv, NEW t \in Tx, Draw(t)
    PROVE  BatchInv'
<1> DEFINE x == Head(desk[t].touched)
<1>1. /\ x.batch \in Batch /\ x.drawn \in Nat
      /\ desk[t].touched # <<>> /\ desk[t].touched \in Seq(Touch) /\ Apart(desk[t].touched)
      /\ batchHolder[x.batch] \in {NoTx, t}
      /\ batch[x.batch] # Unborn
      /\ batchDraft'[x.batch].row = batch[x.batch].row
      /\ batchDraft'[x.batch].quantity = batchDraft[x.batch].quantity
      /\ batchHolder'[x.batch] = t /\ DOMAIN batchHolder' = Batch
      /\ \A c \in Batch : c # x.batch => batchDraft'[c] = batchDraft[c] /\ batchHolder'[c] = batchHolder[c]
      /\ desk'[t].op = "REMOVE" /\ desk'[t].items = desk[t].items /\ desk[t].op = "REMOVE"
      /\ desk'[t].touched = Tail(desk[t].touched)
      /\ \A u \in Tx : u # t => desk'[u] = desk[u] /\ wrote'[u] = wrote[u]
      /\ wrote'[t].added = wrote[t].added
      /\ UNCHANGED <<stock, stockDraft, rowHolder, batch, lastBatch, ledger>>
  BY DrawChanges
<1>2. \A c \in Batch : c # x.batch => wrote'[t].drawn[c] = wrote[t].drawn[c]
  <2>1. wrote'[t].drawn = [wrote[t].drawn EXCEPT ![x.batch] = @ + x.drawn]
    BY DrawChanges
  <2>2. wrote[t].drawn \in [Batch -> Nat]
    BY DEF BatchTypeOK, Movements
  <2> QED BY <1>1, <2>1, <2>2
<1> HIDE DEF x
<1>3. batch[x.batch].row \in Row /\ batchDraft'[x.batch] # Unborn
  BY <1>1, RowsAreBorn DEF Numbered, BatchInv
<1>4. /\ ~Received(t) /\ ~Received(t)' /\ Current(t)' = Current(t)
      /\ \A u \in Tx : u # t => Received(u)' = Received(u) /\ Current(u)' = Current(u)
  BY <1>1 DEF Received, Stands, Current
<1>5. t # NoTx
  BY NoTxAssumption
<1>6. Numbered'
  <2>1. DraftsAreHeld(batch', batchDraft', batchHolder')
    BY <1>1, <1>5 DEF Numbered, BatchInv, DraftsAreHeld, BatchTypeOK
  <2>2. DraftsAreHeld(stock', stockDraft', rowHolder')
    BY <1>1 DEF Numbered, BatchInv, DraftsAreHeld
  <2>3. ~(x.batch > lastBatch)
    BY <1>1 DEF Numbered, BatchInv, DraftsAreHeld, BatchTypeOK
  <2>4. \A c \in Batch :
          /\ c > lastBatch => batchDraft'[c] = Unborn /\ batchHolder'[c] = NoTx
          /\ batch[c] # Unborn => batch[c].row \in Row /\ batchDraft'[c].row = batch[c].row
          /\ batchDraft'[c] # Unborn => batchDraft'[c].row \in Row
          /\ batchHolder'[c] # NoTx => batchDraft'[c] # Unborn
          /\ batch[c] = Unborn => ledger.drawn[c] = 0
    BY <1>1, <1>3, <2>3 DEF Numbered, BatchInv
  <2> QED BY <1>1, <2>1, <2>2, <2>4 DEF Numbered
<1>7. OwnMoves'
  <2> SUFFICES ASSUME NEW u \in Tx, NEW c \in Batch
               PROVE  /\ batchHolder'[c] # u => wrote'[u].added[c] = 0 /\ wrote'[u].drawn[c] = 0
                      /\ batchHolder'[c] = u /\ batch[c] = Unborn => desk'[u].op = "ADD"
                      /\ wrote'[u].added[c] # 0 => desk'[u].op = "ADD" /\ batch[c] = Unborn
    BY <1>1 DEF OwnMoves
  <2>1. /\ batchHolder[c] # u => wrote[u].added[c] = 0 /\ wrote[u].drawn[c] = 0
        /\ batchHolder[c] = u /\ batch[c] = Unborn => desk[u].op = "ADD"
        /\ wrote[u].added[c] # 0 => desk[u].op = "ADD" /\ batch[c] = Unborn
    BY DEF OwnMoves, BatchInv
  <2>2. CASE u = t
    BY <1>1, <1>2, <2>1, <2>2
  <2>3. CASE u # t
    BY <1>1, <2>1, <2>3, NoTxAssumption
  <2> QED BY <2>2, <2>3
<1>8. Arrivals'
  <2> SUFFICES ASSUME NEW u \in Tx, Received(u)'
               PROVE  /\ batchHolder'[desk'[u].at] = u
                      /\ batch[desk'[u].at] = Unborn
                      /\ batchDraft'[desk'[u].at].row = Current(u)'.row
                      /\ batchDraft'[desk'[u].at].quantity = Current(u)'.amount
                      /\ wrote'[u].added[desk'[u].at] = 0
    BY <1>1 DEF Arrivals
  <2>1. u # t
    BY <1>4
  <2>2. Received(u) /\ desk[u].at \in Batch /\ desk'[u] = desk[u]
    BY <1>1, <1>4, <2>1 DEF Received, Stages
  <2>3. desk[u].at # x.batch
    BY <1>1, <2>2 DEF Arrivals, BatchInv
  <2> QED BY <1>1, <1>4, <2>1, <2>2, <2>3 DEF Arrivals, BatchInv
<1>9. Sized'
  <2> SUFFICES ASSUME NEW c \in Batch, NEW u \in Tx, batchHolder'[c] = u, ~(Received(u)' /\ desk'[u].at = c)
               PROVE  batchDraft'[c].quantity = batch[c].quantity + wrote'[u].added[c]
    BY <1>1 DEF Sized, BatchInv
  <2>1. CASE c # x.batch
    <3>1. batchHolder[c] = u /\ ~(Received(u) /\ desk[u].at = c) /\ wrote'[u].added[c] = wrote[u].added[c]
      BY <1>1, <1>4, <2>1
    <3> QED BY <1>1, <2>1, <3>1 DEF Sized, BatchInv
  <2>2. CASE c = x.batch /\ batchHolder[c] = t
    BY <1>1, <1>4, <2>2 DEF Sized, BatchInv
  <2>3. CASE c = x.batch /\ batchHolder[c] = NoTx
    <3>1. u = t /\ wrote[t].added[c] = 0 /\ batchDraft[c] = batch[c]
      BY <1>1, <1>5, <2>3 DEF OwnMoves, Numbered, DraftsAreHeld, BatchInv, BatchTypeOK
    <3>2. batch[c].quantity \in Nat
      BY DEF BatchTypeOK, BatchRow
    <3> QED BY <1>1, <2>3, <3>1, <3>2
  <2> QED BY <1>1, <2>1, <2>2, <2>3
<1>10. Touching'
  <2> SUFFICES ASSUME NEW u \in Tx, desk'[u].touched # <<>>
               PROVE  /\ Apart(desk'[u].touched)
                      /\ \A n \in DOMAIN desk'[u].touched :
                            /\ batch[desk'[u].touched[n].batch] # Unborn
                            /\ batch[desk'[u].touched[n].batch].row = Current(u)'.row
    BY <1>1 DEF Touching
  <2>1. CASE u # t
    BY <1>1, <1>4, <2>1 DEF Touching, BatchInv
  <2>2. CASE u = t
    <3>1. /\ Apart(Tail(desk[t].touched))
          /\ \A n \in DOMAIN Tail(desk[t].touched) :
                Tail(desk[t].touched)[n] = desk[t].touched[n + 1] /\ n + 1 \in DOMAIN desk[t].touched
      BY <1>1, TakenTail
    <3>2. \A m \in DOMAIN desk[t].touched :
             /\ batch[desk[t].touched[m].batch] # Unborn
             /\ batch[desk[t].touched[m].batch].row = Current(t).row
      BY <1>1 DEF Touching, BatchInv
    <3> DEFINE rest == Tail(desk[t].touched)
    <3>3. \A n \in DOMAIN rest : batch[rest[n].batch] # Unborn /\ batch[rest[n].batch].row = Current(t).row
      BY <3>1, <3>2
    <3>4. desk'[u].touched = rest /\ Apart(rest)
      BY <1>1, <2>2, <3>1
    <3> HIDE DEF rest
    <3> QED BY <1>4, <2>2, <3>3, <3>4
  <2> QED BY <2>1, <2>2
<1> QED BY <1>6, <1>7, <1>8, <1>9, <1>10 DEF BatchInv

\* What the end of a transaction leaves of it.
LEMMA CloseLeaves ==
    ASSUME BatchTypeOK, NEW t \in Tx, Close(t)
    PROVE  /\ desk'[t] = Idle /\ wrote'[t] = NoMovements
           /\ \A u \in Tx : u # t => desk'[u] = desk[u] /\ wrote'[u] = wrote[u]
           /\ \A b \in Batch : /\ wrote'[t].added[b] = 0 /\ wrote'[t].drawn[b] = 0
                               /\ batchHolder'[b] = IF batchHolder[b] = t THEN NoTx ELSE batchHolder[b]
           /\ \A r \in Row : rowHolder'[r] = IF rowHolder[r] = t THEN NoTx ELSE rowHolder[r]
           /\ DOMAIN batchHolder' = Batch /\ DOMAIN rowHolder' = Row
           /\ ~Received(t)' /\ desk'[t].op = "IDLE" /\ desk'[t].touched = <<>> /\ desk'[t].items = <<>>
           /\ \A u \in Tx : u # t => Received(u)' = Received(u) /\ Current(u)' = Current(u)
           /\ lastBatch' = lastBatch
<1>1. /\ desk'[t] = Idle /\ wrote'[t] = NoMovements
      /\ \A u \in Tx : u # t => desk'[u] = desk[u] /\ wrote'[u] = wrote[u]
      /\ lastBatch' = lastBatch
  BY DEF Close, BatchTypeOK
<1>2. \A b \in Batch : wrote'[t].added[b] = 0 /\ wrote'[t].drawn[b] = 0
  BY <1>1 DEF NoMovements
<1>3. /\ \A b \in Batch : batchHolder'[b] = IF batchHolder[b] = t THEN NoTx ELSE batchHolder[b]
      /\ \A r \in Row : rowHolder'[r] = IF rowHolder[r] = t THEN NoTx ELSE rowHolder[r]
      /\ DOMAIN batchHolder' = Batch /\ DOMAIN rowHolder' = Row
  BY DEF Close, Unlock, BatchTypeOK
<1>4. /\ ~Received(t)' /\ desk'[t].op = "IDLE" /\ desk'[t].touched = <<>> /\ desk'[t].items = <<>>
      /\ \A u \in Tx : u # t => Received(u)' = Received(u) /\ Current(u)' = Current(u)
  BY <1>1 DEF Idle, Received, Stands, Current
<1> QED BY <1>1, <1>2, <1>3, <1>4

\* What a commit makes public.
LEMMA CommitPublishes ==
    ASSUME BatchTypeOK, NEW t \in Tx, Commit(t)
    PROVE  /\ Close(t) /\ desk[t].items = <<>>
           /\ \A b \in Batch : /\ batch'[b] = IF batchHolder[b] = t THEN batchDraft[b] ELSE batch[b]
                               /\ ledger'.added[b] = ledger.added[b] + wrote[t].added[b]
                               /\ ledger'.drawn[b] = ledger.drawn[b] + wrote[t].drawn[b]
           /\ \A r \in Row : /\ stock'[r] = IF rowHolder[r] = t THEN stockDraft[r] ELSE stock[r]
                             /\ ledger'.sold[r] = ledger.sold[r] + wrote[t].sold[r]
           /\ batchDraft' = batchDraft /\ stockDraft' = stockDraft
<1>1. /\ \A b \in Batch : batch'[b] = IF batchHolder[b] = t THEN batchDraft[b] ELSE batch[b]
      /\ \A r \in Row : stock'[r] = IF rowHolder[r] = t THEN stockDraft[r] ELSE stock[r]
  BY DEF Commit, SeenBatches, SeenStock, View, BatchTypeOK
<1>2. /\ ledger = [added |-> ledger.added, drawn |-> ledger.drawn, sold |-> ledger.sold]
      /\ ledger.added \in [Batch -> Nat] /\ ledger.drawn \in [Batch -> Nat] /\ ledger.sold \in [Row -> Nat]
  BY DEF BatchTypeOK, Movements
<1>3. ledger' = [k \in DOMAIN ledger |-> Sum2(ledger[k], wrote[t][k])]
  BY DEF Commit
<1>4. ledger' = [added |-> Sum2(ledger.added, wrote[t].added), drawn |-> Sum2(ledger.drawn, wrote[t].drawn),
                 sold |-> Sum2(ledger.sold, wrote[t].sold)]
  BY <1>2, <1>3
<1>5. /\ ledger'.added = Sum2(ledger.added, wrote[t].added)
      /\ ledger'.drawn = Sum2(ledger.drawn, wrote[t].drawn)
      /\ ledger'.sold = Sum2(ledger.sold, wrote[t].sold)
  BY <1>4
<1>6. /\ \A b \in Batch : /\ ledger'.added[b] = ledger.added[b] + wrote[t].added[b]
                          /\ ledger'.drawn[b] = ledger.drawn[b] + wrote[t].drawn[b]
      /\ \A r \in Row : ledger'.sold[r] = ledger.sold[r] + wrote[t].sold[r]
  BY <1>2, <1>5 DEF Sum2
<1> QED BY <1>1, <1>6 DEF Commit

\* What a rollback takes back.
LEMMA RollbackForgets ==
    ASSUME BatchTypeOK, NEW t \in Tx, Rollback(t)
    PROVE  /\ Close(t)
           /\ \A b \in Batch : batchDraft'[b] = IF batchHolder[b] = t THEN batch[b] ELSE batchDraft[b]
           /\ \A r \in Row : stockDraft'[r] = IF rowHolder[r] = t THEN stock[r] ELSE stockDraft[r]
           /\ UNCHANGED <<stock, batch, ledger>>
BY DEF Rollback, Discard, BatchTypeOK
LEMMA CommitKeepsBatches ==
    ASSUME BatchTypeOK, Stages, BatchInv, NEW t \in Tx, Commit(t)
    PROVE  BatchInv'
<1>1. /\ Close(t) /\ desk[t].items = <<>>
      /\ \A b \in Batch : /\ batch'[b] = IF batchHolder[b] = t THEN batchDraft[b] ELSE batch[b]
                          /\ ledger'.added[b] = ledger.added[b] + wrote[t].added[b]
                          /\ ledger'.drawn[b] = ledger.drawn[b] + wrote[t].drawn[b]
      /\ \A r \in Row : stock'[r] = IF rowHolder[r] = t THEN stockDraft[r] ELSE stock[r]
      /\ batchDraft' = batchDraft /\ stockDraft' = stockDraft
  BY CommitPublishes
<1>2. /\ \A u \in Tx : u # t => desk'[u] = desk[u] /\ wrote'[u] = wrote[u]
      /\ \A b \in Batch : /\ wrote'[t].added[b] = 0 /\ wrote'[t].drawn[b] = 0
                          /\ batchHolder'[b] = IF batchHolder[b] = t THEN NoTx ELSE batchHolder[b]
      /\ \A r \in Row : rowHolder'[r] = IF rowHolder[r] = t THEN NoTx ELSE rowHolder[r]
      /\ DOMAIN batchHolder' = Batch /\ DOMAIN rowHolder' = Row
      /\ ~Received(t)' /\ desk'[t].op = "IDLE" /\ desk'[t].touched = <<>>
      /\ \A u \in Tx : u # t => Received(u)' = Received(u) /\ Current(u)' = Current(u)
      /\ lastBatch' = lastBatch
  BY <1>1, CloseLeaves
<1>3. /\ t # NoTx /\ ~Received(t)
      /\ \A b \in Batch : /\ ledger.added[b] \in Nat /\ ledger.drawn[b] \in Nat
                          /\ wrote[t].added[b] \in Nat /\ wrote[t].drawn[b] \in Nat
  BY <1>1, NoTxAssumption DEF Received, Stands, BatchTypeOK, Movements
<1>4. Numbered'
  <2>1. DraftsAreHeld(batch', batchDraft', batchHolder')
    BY <1>1, <1>2 DEF Numbered, BatchInv, DraftsAreHeld, BatchTypeOK
  <2>2. DraftsAreHeld(stock', stockDraft', rowHolder')
    BY <1>1, <1>2 DEF Numbered, BatchInv, DraftsAreHeld, BatchTypeOK
  <2>3. ASSUME NEW c \in Batch
        PROVE  /\ c > lastBatch => batchDraft[c] = Unborn /\ batchHolder'[c] = NoTx
               /\ batch'[c] # Unborn => batch'[c].row \in Row /\ batchDraft[c].row = batch'[c].row
               /\ batchDraft[c] # Unborn => batchDraft[c].row \in Row
               /\ batchHolder'[c] # NoTx => batchDraft[c] # Unborn
               /\ batch'[c] = Unborn => ledger'.drawn[c] = 0
    <3>1. /\ c > lastBatch => batchDraft[c] = Unborn /\ batchHolder[c] = NoTx
          /\ batch[c] # Unborn => batch[c].row \in Row /\ batchDraft[c].row = batch[c].row
          /\ batchDraft[c] # Unborn => batchDraft[c].row \in Row
          /\ batchHolder[c] # NoTx => batchDraft[c] # Unborn
          /\ batch[c] = Unborn => ledger.drawn[c] = 0
      BY DEF Numbered, BatchInv
    <3>2. batchHolder[c] # t => wrote[t].drawn[c] = 0
      BY DEF OwnMoves, BatchInv
    <3>3. CASE batchHolder[c] = t
      <4>1. batch'[c] = batchDraft[c] /\ batchHolder'[c] = NoTx
        BY <1>1, <1>2, <3>3
      <4> QED BY <1>3, <3>1, <3>3, <4>1
    <3>4. CASE batchHolder[c] # t
      <4>1. batch'[c] = batch[c] /\ batchHolder'[c] = batchHolder[c]
        BY <1>1, <1>2, <3>4
      <4>2. ledger'.drawn[c] = ledger.drawn[c]
        BY <1>1, <1>3, <3>2, <3>4
      <4> QED BY <3>1, <4>1, <4>2
    <3> QED BY <3>3, <3>4
  <2> QED BY <1>1, <1>2, <2>1, <2>2, <2>3 DEF Numbered
<1>5. OwnMoves'
  <2> SUFFICES ASSUME NEW u \in Tx, NEW c \in Batch
               PROVE  /\ batchHolder'[c] # u => wrote'[u].added[c] = 0 /\ wrote'[u].drawn[c] = 0
                      /\ batchHolder'[c] = u /\ batch'[c] = Unborn => desk'[u].op = "ADD"
                      /\ wrote'[u].added[c] # 0 => desk'[u].op = "ADD" /\ batch'[c] = Unborn
    BY DEF OwnMoves
  <2>1. /\ batchHolder[c] # u => wrote[u].added[c] = 0 /\ wrote[u].drawn[c] = 0
        /\ batchHolder[c] = u /\ batch[c] = Unborn => desk[u].op = "ADD"
        /\ wrote[u].added[c] # 0 => desk[u].op = "ADD" /\ batch[c] = Unborn
    BY DEF OwnMoves, BatchInv
  <2>2. u # NoTx
    BY NoTxAssumption
  <2>3. CASE u = t
    BY <1>2, <2>2, <2>3
  <2>4. CASE u # t
    BY <1>1, <1>2, <2>1, <2>2, <2>4
  <2> QED BY <2>3, <2>4
<1>6. Arrivals'
  <2> SUFFICES ASSUME NEW u \in Tx, Received(u)'
               PROVE  /\ batchHolder'[desk'[u].at] = u
                      /\ batch'[desk'[u].at] = Unborn
                      /\ batchDraft'[desk'[u].at].row = Current(u)'.row
                      /\ batchDraft'[desk'[u].at].quantity = Current(u)'.amount
                      /\ wrote'[u].added[desk'[u].at] = 0
    BY DEF Arrivals
  <2>1. u # t
    BY <1>2
  <2>2. Received(u) /\ desk[u].at \in Batch /\ desk'[u] = desk[u]
    BY <1>2, <2>1 DEF Received, Stages
  <2> QED BY <1>1, <1>2, <2>1, <2>2 DEF Arrivals, BatchInv
<1>7. Sized'
  <2>1. ASSUME NEW c \in Batch
        PROVE  ledger'.added[c] = batch'[c].quantity
    <3>1. CASE batchHolder[c] = t
      BY <1>1, <1>3, <3>1 DEF Sized, BatchInv
    <3>2. CASE batchHolder[c] # t
      BY <1>1, <1>3, <3>2 DEF Sized, OwnMoves, BatchInv
    <3> QED BY <3>1, <3>2
  <2>2. ASSUME NEW c \in Batch, NEW u \in Tx, batchHolder'[c] = u, ~(Received(u)' /\ desk'[u].at = c)
        PROVE  batchDraft'[c].quantity = batch'[c].quantity + wrote'[u].added[c]
    <3>1. u # t
      BY <1>2, <1>3, <2>2
    <3>2. batchHolder[c] = u /\ ~(Received(u) /\ desk[u].at = c)
      BY <1>2, <2>2, <3>1, NoTxAssumption
    <3> QED BY <1>1, <1>2, <3>1, <3>2 DEF Sized, BatchInv
  <2> QED BY <2>1, <2>2 DEF Sized
<1>8. Touching'
  <2> SUFFICES ASSUME NEW u \in Tx, desk'[u].touched # <<>>
               PROVE  /\ Apart(desk'[u].touched)
                      /\ \A n \in DOMAIN desk'[u].touched :
                            /\ batch'[desk'[u].touched[n].batch] # Unborn
                            /\ batch'[desk'[u].touched[n].batch].row = Current(u)'.row
    BY DEF Touching
  <2>1. u # t /\ desk'[u] = desk[u] /\ Current(u)' = Current(u)
    BY <1>2
  <2>2. /\ Apart(desk[u].touched)
        /\ \A n \in DOMAIN desk[u].touched :
              /\ batch[desk[u].touched[n].batch] # Unborn
              /\ batch[desk[u].touched[n].batch].row = Current(u).row
    BY <2>1 DEF Touching, BatchInv
  <2>3. \A n \in DOMAIN desk[u].touched : desk[u].touched[n].batch \in Batch
    <3>1. desk[u].touched \in Seq(Touch)
      BY DEF BatchTypeOK, Request
    <3>2. \A n \in DOMAIN desk[u].touched : desk[u].touched[n] \in Touch
      BY <3>1
    <3> QED BY <3>2 DEF Touch
  <2>4. \A c \in Batch : batch[c] # Unborn => batch'[c].row = batch[c].row /\ batch[c].row \in Row
    BY <1>1 DEF Numbered, BatchInv
  <2> QED BY <2>1, <2>2, <2>3, <2>4, RowsAreBorn
<1> QED BY <1>4, <1>5, <1>6, <1>7, <1>8 DEF BatchInv

LEMMA RollbackKeepsBatches ==
    ASSUME BatchTypeOK, Stages, BatchInv, NEW t \in Tx, Rollback(t)
    PROVE  BatchInv'
<1>1. /\ Close(t)
      /\ \A b \in Batch : batchDraft'[b] = IF batchHolder[b] = t THEN batch[b] ELSE batchDraft[b]
      /\ \A r \in Row : stockDraft'[r] = IF rowHolder[r] = t THEN stock[r] ELSE stockDraft[r]
      /\ UNCHANGED <<stock, batch, ledger>>
  BY RollbackForgets
<1>2. /\ \A u \in Tx : u # t => desk'[u] = desk[u] /\ wrote'[u] = wrote[u]
      /\ \A b \in Batch : /\ wrote'[t].added[b] = 0 /\ wrote'[t].drawn[b] = 0
                          /\ batchHolder'[b] = IF batchHolder[b] = t THEN NoTx ELSE batchHolder[b]
      /\ \A r \in Row : rowHolder'[r] = IF rowHolder[r] = t THEN NoTx ELSE rowHolder[r]
      /\ DOMAIN batchHolder' = Batch /\ DOMAIN rowHolder' = Row
      /\ ~Received(t)' /\ desk'[t].op = "IDLE" /\ desk'[t].touched = <<>>
      /\ \A u \in Tx : u # t => Received(u)' = Received(u) /\ Current(u)' = Current(u)
      /\ lastBatch' = lastBatch
  BY <1>1, CloseLeaves
<1>3. t # NoTx
  BY NoTxAssumption
<1>4. Numbered'
  <2>1. DraftsAreHeld(batch', batchDraft', batchHolder')
    BY <1>1, <1>2 DEF Numbered, BatchInv, DraftsAreHeld, BatchTypeOK
  <2>2. DraftsAreHeld(stock', stockDraft', rowHolder')
    BY <1>1, <1>2 DEF Numbered, BatchInv, DraftsAreHeld, BatchTypeOK
  <2>3. ASSUME NEW c \in Batch
        PROVE  /\ c > lastBatch => batchDraft'[c] = Unborn /\ batchHolder'[c] = NoTx
               /\ batch[c] # Unborn => batch[c].row \in Row /\ batchDraft'[c].row = batch[c].row
               /\ batchDraft'[c] # Unborn => batchDraft'[c].row \in Row
               /\ batchHolder'[c] # NoTx => batchDraft'[c] # Unborn
               /\ batch[c] = Unborn => ledger.drawn[c] = 0
    <3>1. /\ c > lastBatch => batchDraft[c] = Unborn /\ batchHolder[c] = NoTx
          /\ batch[c] # Unborn => batch[c].row \in Row /\ batchDraft[c].row = batch[c].row
          /\ batchDraft[c] # Unborn => batchDraft[c].row \in Row
          /\ batchHolder[c] # NoTx => batchDraft[c] # Unborn
          /\ batch[c] = Unborn => ledger.drawn[c] = 0
      BY DEF Numbered, BatchInv
    <3> QED BY <1>1, <1>2, <1>3, <3>1
  <2> QED BY <1>1, <1>2, <2>1, <2>2, <2>3 DEF Numbered
<1>5. OwnMoves'
  <2> SUFFICES ASSUME NEW u \in Tx, NEW c \in Batch
               PROVE  /\ batchHolder'[c] # u => wrote'[u].added[c] = 0 /\ wrote'[u].drawn[c] = 0
                      /\ batchHolder'[c] = u /\ batch[c] = Unborn => desk'[u].op = "ADD"
                      /\ wrote'[u].added[c] # 0 => desk'[u].op = "ADD" /\ batch[c] = Unborn
    BY <1>1 DEF OwnMoves
  <2>1. /\ batchHolder[c] # u => wrote[u].added[c] = 0 /\ wrote[u].drawn[c] = 0
        /\ batchHolder[c] = u /\ batch[c] = Unborn => desk[u].op = "ADD"
        /\ wrote[u].added[c] # 0 => desk[u].op = "ADD" /\ batch[c] = Unborn
    BY DEF OwnMoves, BatchInv
  <2>2. u # NoTx
    BY NoTxAssumption
  <2>3. CASE u = t
    BY <1>2, <2>2, <2>3
  <2>4. CASE u # t
    BY <1>2, <2>1, <2>2, <2>4
  <2> QED BY <2>3, <2>4
<1>6. Arrivals'
  <2> SUFFICES ASSUME NEW u \in Tx, Received(u)'
               PROVE  /\ batchHolder'[desk'[u].at] = u
                      /\ batch[desk'[u].at] = Unborn
                      /\ batchDraft'[desk'[u].at].row = Current(u)'.row
                      /\ batchDraft'[desk'[u].at].quantity = Current(u)'.amount
                      /\ wrote'[u].added[desk'[u].at] = 0
    BY <1>1 DEF Arrivals
  <2>1. u # t
    BY <1>2
  <2>2. Received(u) /\ desk[u].at \in Batch /\ desk'[u] = desk[u]
    BY <1>2, <2>1 DEF Received, Stages
  <2> QED BY <1>1, <1>2, <2>1, <2>2 DEF Arrivals, BatchInv
<1>7. Sized'
  <2>1. ASSUME NEW c \in Batch, NEW u \in Tx, batchHolder'[c] = u, ~(Received(u)' /\ desk'[u].at = c)
        PROVE  batchDraft'[c].quantity = batch[c].quantity + wrote'[u].added[c]
    <3>1. u # t
      BY <1>2, <1>3, <2>1
    <3>2. batchHolder[c] = u /\ ~(Received(u) /\ desk[u].at = c)
      BY <1>2, <2>1, <3>1, NoTxAssumption
    <3> QED BY <1>1, <1>2, <3>1, <3>2 DEF Sized, BatchInv
  <2> QED BY <1>1, <2>1 DEF Sized, BatchInv
<1>8. Touching'
  BY <1>1, <1>2 DEF Touching, BatchInv
<1> QED BY <1>4, <1>5, <1>6, <1>7, <1>8 DEF BatchInv

\* A request that is at an item of its list knows its op.
LEMMA PickIsRight ==
    ASSUME BatchTypeOK, NEW t \in Tx, ResolveSpecificBatch(t)
    PROVE  LET x == [batch |-> Current(t).batch, drawn |-> Current(t).amount,
                     remaining |-> SeenBatches(t)[Current(t).batch].remaining] IN
           /\ x \in Touch /\ Resolve(t, <<x>>) /\ Stands(t, "REMOVE", "NEXT")
           /\ DrawsFrom(SeenBatches(t), Current(t).row, x)
           /\ SumFunctionOnSet(TakenBy(<<x>>), Batch) = Current(t).amount
<1> DEFINE x == [batch |-> Current(t).batch, drawn |-> Current(t).amount,
                 remaining |-> SeenBatches(t)[Current(t).batch].remaining]
<1>1. Stands(t, "REMOVE", "NEXT") /\ PickAllowed(SeenBatches(t), Current(t)) /\ Resolve(t, <<x>>)
  BY DEF ResolveSpecificBatch
<1>2. x \in Touch /\ Current(t).amount \in Nat /\ Current(t).amount > 0
  BY <1>1, PickedTyped, CurrentItem DEF Stands
<1>3. DrawsFrom(SeenBatches(t), Current(t).row, x)
  BY <1>1, <1>2 DEF DrawsFrom, PickAllowed
<1>4. x.batch \in Batch /\ x.drawn = Current(t).amount
  BY <1>1 DEF PickAllowed
<1> HIDE DEF x
<1>5. SumFunctionOnSet(TakenBy(<<x>>), Batch) = x.drawn
  <2>1. \A b \in Batch : TakenBy(<<x>>)[b] = IF b = x.batch THEN x.drawn ELSE 0
    BY <1>2, TakenShort
  <2> DEFINE f == TakenBy(<<x>>)
  <2> HIDE DEF f
  <2>2. f[x.batch] = x.drawn /\ x.drawn \in Int /\ \A b \in Batch : f[b] \in Int
    BY <1>2, <1>4, <2>1 DEF f
  <2>3. \A b \in Batch \ {x.batch} : f[b] = 0
    BY <2>1 DEF f
  <2>4. SumFunctionOnSet(f, Batch) = SumFunctionOnSet(f, {x.batch})
    <3>1. {x.batch} \subseteq Batch
      BY <1>4
    <3> QED BY <2>2, <2>3, <3>1, BatchesAreFinite, SumSupport
  <2>5. SumFunctionOnSet(f, {x.batch}) = f[x.batch]
    BY <2>2, SumOfOne
  <2> QED BY <2>2, <2>4, <2>5 DEF f
<1> QED BY <1>1, <1>2, <1>3, <1>4, <1>5 DEF x

\* Batches are born committed and keep their rows; the ledger's intake of a
\* batch is its size; draws to be written are of the current item's row.
THEOREM BatchesAreOwned == BatchSpec => []BatchInv
<1>1. BatchInit => BatchInv
  <2> SUFFICES ASSUME BatchInit
               PROVE  BatchInv
    OBVIOUS
  <2>1. Numbered
    BY DEF BatchInit, Numbered, DraftsAreHeld, NoMovements
  <2>2. OwnMoves
    BY NoTxAssumption DEF BatchInit, OwnMoves, NoMovements
  <2>3. Arrivals
    BY DEF BatchInit, Arrivals, Received, Stands, Idle
  <2>4. Sized
    BY NoTxAssumption DEF BatchInit, Sized, NoMovements, Unborn
  <2>5. Touching
    BY DEF BatchInit, Touching, Idle
  <2> QED BY <2>1, <2>2, <2>3, <2>4, <2>5 DEF BatchInv
<1>2. BatchTypeOK /\ Stages /\ BatchInv /\ [BatchNext]_batchVars => BatchInv'
  <2> SUFFICES ASSUME BatchTypeOK, Stages, BatchInv, [BatchNext]_batchVars
               PROVE  BatchInv'
    OBVIOUS
  <2>1. CASE UNCHANGED batchVars
    BY <2>1 DEF batchVars, BatchInv, Numbered, OwnMoves, Arrivals, Sized, Touching, DraftsAreHeld,
                Received, Stands, Current
  <2>2. ASSUME NEW t \in Tx, NEW items \in Intakes, BeginAdd(t, items)
        PROVE  BatchInv'
    BY <2>2, BeginKeepsBatches DEF BeginAdd
  <2>3. ASSUME NEW t \in Tx, NEW items \in Removals, BeginRemove(t, items)
        PROVE  BatchInv'
    BY <2>3, BeginKeepsBatches DEF BeginRemove
  <2>4. ASSUME NEW t \in Tx, NEW i \in Sales, Begin(t, "SALE", <<i>>)
        PROVE  BatchInv'
    BY <2>4, BeginKeepsBatches
  <2>5. ASSUME NEW t \in Tx, Receive(t)
        PROVE  BatchInv'
    BY <2>5, ReceiveKeepsBatches
  <2>6. ASSUME NEW t \in Tx, Store(t)
        PROVE  BatchInv'
    <3> DEFINE version == [Shifted(stockDraft[Current(t).row], Current(t).amount)
                             EXCEPT !.basis = Blended(desk[t].seen, desk[t].at)]
    <3>1. WriteRow(t, version) /\ desk[t].items # <<>> /\ Received(t)
      BY <2>6 DEF Store, Stands, Received
    <3>2. \A u \in Tx : u # t => wrote'[u] = wrote[u]
      BY <2>6 DEF Store, BatchTypeOK
    <3>3. \A b \in Batch : /\ wrote'[t].drawn[b] = wrote[t].drawn[b]
                           /\ wrote'[t].added[b] = IF Received(t) /\ b = desk[t].at THEN Current(t).amount
                                                   ELSE wrote[t].added[b]
      BY <2>6, <3>1 DEF Store, BatchTypeOK, Movements
    <3> HIDE DEF version
    <3> QED BY <3>1, <3>2, <3>3, WriteKeepsBatches
  <2>7. ASSUME NEW t \in Tx, ResolveSpecificBatch(t)
        PROVE  BatchInv'
    <3> DEFINE x == [batch |-> Current(t).batch, drawn |-> Current(t).amount,
                     remaining |-> SeenBatches(t)[Current(t).batch].remaining]
    <3>1. /\ x \in Touch /\ Resolve(t, <<x>>) /\ Stands(t, "REMOVE", "NEXT")
          /\ SeenBatches(t)[x.batch].row = Current(t).row
      BY <2>7, PickIsRight DEF DrawsFrom
    <3> HIDE DEF x
    <3>2. /\ <<x>> \in Seq(Touch) /\ Apart(<<x>>)
          /\ \A n \in DOMAIN <<x>> : <<x>>[n] = x
      BY <3>1, TakenShort
    <3> QED BY <3>1, <3>2, ResolveKeepsBatches
  <2>8. ASSUME NEW t \in Tx, ResolveFifoBatches(t)
        PROVE  BatchInv'
    <3> DEFINE draws == FifoDraws(SeenBatches(t), Current(t).row, Current(t).amount)
    <3>1. Stands(t, "REMOVE", "NEXT") /\ Resolve(t, draws.touched)
      BY <2>8 DEF ResolveFifoBatches
    <3>2. /\ draws.touched \in Seq(Touch) /\ Apart(draws.touched)
          /\ \A n \in DOMAIN draws.touched : SeenBatches(t)[draws.touched[n].batch].row = Current(t).row
      BY <3>1, FifoTyped DEF Stands, AfterRound, DrawsFrom
    <3> HIDE DEF draws
    <3> QED BY <3>1, <3>2, ResolveKeepsBatches
  <2>9. ASSUME NEW t \in Tx, Draw(t)
        PROVE  BatchInv'
    BY <2>9, DrawKeepsBatches
  <2>10. ASSUME NEW t \in Tx, TakeOff(t)
         PROVE  BatchInv'
    <3>1. /\ WriteRow(t, Shifted(stockDraft[Current(t).row], -Current(t).amount)) /\ desk[t].items # <<>>
          /\ ~Received(t) /\ wrote' = wrote
      BY <2>10 DEF TakeOff, Stands, Received
    <3> QED BY <3>1, WriteKeepsBatches
  <2>11. ASSUME NEW t \in Tx, Sell(t)
         PROVE  BatchInv'
    <3>1. /\ WriteRow(t, Shifted(stockDraft[Current(t).row], -Current(t).amount)) /\ desk[t].items # <<>>
          /\ ~Received(t)
      BY <2>11 DEF Sell, Stands, Received
    <3>2. \A u \in Tx : u # t => wrote'[u] = wrote[u]
      BY <2>11 DEF Sell, BatchTypeOK
    <3>3. \A b \in Batch : wrote'[t].drawn[b] = wrote[t].drawn[b] /\ wrote'[t].added[b] = wrote[t].added[b]
      <4>1. wrote'[t] = [wrote[t] EXCEPT !.sold[Current(t).row] = @ + Current(t).amount] /\ wrote[t] \in Movements
        BY <2>11 DEF Sell, BatchTypeOK
      <4> QED BY <4>1 DEF Movements
    <3> QED BY <3>1, <3>2, <3>3, WriteKeepsBatches
  <2>12. ASSUME NEW t \in Tx, Commit(t)
         PROVE  BatchInv'
    BY <2>12, CommitKeepsBatches
  <2>13. ASSUME NEW t \in Tx, Rollback(t)
         PROVE  BatchInv'
    BY <2>13, RollbackKeepsBatches
  <2> QED BY <2>1, <2>2, <2>3, <2>4, <2>5, <2>6, <2>7, <2>8, <2>9, <2>10, <2>11, <2>12, <2>13 DEF BatchNext
<1> QED BY <1>1, <1>2, BatchesAreTyped, PTL DEF BatchSpec
-----------------------------------------------------------------------------
(* What batches are short of.                                              *)

\* A batch that a removal holds has the size it had.
LEMMA SizeHeld ==
    ASSUME BatchTypeOK, BatchInv, NEW t \in Tx, desk[t].op = "REMOVE", NEW b \in Batch, batchHolder[b] = t
    PROVE  batchDraft[b].quantity = batch[b].quantity
<1>1. ~Received(t)
  BY DEF Received, Stands
<1>2. wrote[t].added[b] = 0
  BY DEF OwnMoves, BatchInv
<1>3. batch[b].quantity \in Nat
  BY DEF BatchTypeOK, BatchRow
<1> QED BY <1>1, <1>2, <1>3 DEF Sized, BatchInv

\* Removals that were read are numbers.
LEMMA NumbersOf ==
    ASSUME BatchTypeOK
    PROVE  /\ \A b \in Batch : /\ batch[b].quantity \in Nat /\ batch[b].remaining \in Int
                               /\ batchDraft[b].quantity \in Nat /\ batchDraft[b].remaining \in Int
                               /\ ledger.added[b] \in Nat /\ ledger.drawn[b] \in Nat
           /\ \A t \in Tx, b \in Batch : wrote[t].added[b] \in Nat /\ wrote[t].drawn[b] \in Nat
           /\ \A r \in Row : /\ stock[r].quantity \in Int /\ stockDraft[r].quantity \in Int
                             /\ ledger.sold[r] \in Nat
                             /\ \A t \in Tx : wrote[t].sold[r] \in Nat
           /\ \A t \in Tx : /\ desk[t].touched \in Seq(Touch)
                            /\ \A n \in DOMAIN desk[t].touched :
                                  LET x == desk[t].touched[n] IN
                                  x \in Touch /\ x.batch \in Batch /\ x.drawn \in Nat /\ x.remaining \in Int
<1>1. \A b \in Batch : /\ batch[b].quantity \in Nat /\ batch[b].remaining \in Int
                       /\ batchDraft[b].quantity \in Nat /\ batchDraft[b].remaining \in Int
  BY DEF BatchTypeOK, BatchRow
<1>2. /\ \A b \in Batch : ledger.added[b] \in Nat /\ ledger.drawn[b] \in Nat
      /\ \A t \in Tx, b \in Batch : wrote[t].added[b] \in Nat /\ wrote[t].drawn[b] \in Nat
      /\ \A r \in Row : ledger.sold[r] \in Nat /\ \A t \in Tx : wrote[t].sold[r] \in Nat
  BY DEF BatchTypeOK, Movements
<1>3. \A r \in Row : stock[r].quantity \in Int /\ stockDraft[r].quantity \in Int
  BY DEF BatchTypeOK, StockRow
<1>4. \A t \in Tx : desk[t].touched \in Seq(Touch)
  BY DEF BatchTypeOK, Request
<1>5. \A t \in Tx : \A n \in DOMAIN desk[t].touched : desk[t].touched[n] \in Touch
  BY <1>4
<1> QED BY <1>1, <1>2, <1>3, <1>4, <1>5 DEF Touch

\* Steps that leave the batches, the ledger and the draws alone.
LEMMA QuietKeepsShortfalls ==
    ASSUME BatchTypeOK, Shortfalls, UNCHANGED <<batch, batchDraft, batchHolder, ledger>>,
           \A t \in Tx : /\ desk'[t].touched = <<>> \/ desk'[t].touched = desk[t].touched
                         /\ \A b \in Batch : wrote'[t].drawn[b] = wrote[t].drawn[b]
    PROVE  Shortfalls'
<1>1. \A t \in Tx, b \in Batch : batchHolder[b] = t =>
         Explained(batchDraft[b].quantity, batchDraft[b].remaining, ledger.drawn[b] + wrote'[t].drawn[b])
  BY DEF Shortfalls
<1>2. ASSUME NEW t \in Tx, NEW n \in DOMAIN desk'[t].touched
      PROVE  LET x == desk'[t].touched[n] IN
             /\ x.drawn <= x.remaining
             /\ Explained(batch[x.batch].quantity, x.remaining,
                          ledger.drawn[x.batch] + wrote'[t].drawn[x.batch])
  <2>1. desk'[t].touched = desk[t].touched
    BY <1>2
  <2>2. desk[t].touched[n].batch \in Batch
    BY <1>2, <2>1, NumbersOf
  <2> QED BY <1>2, <2>1, <2>2 DEF Shortfalls
<1> QED BY <1>1, <1>2 DEF Shortfalls

LEMMA ReceiveKeepsShortfalls ==
    ASSUME BatchTypeOK, BatchInv, Shortfalls, NEW t \in Tx, Receive(t)
    PROVE  Shortfalls'
<1> DEFINE b == lastBatch + 1
<1>1. b \in Batch /\ desk[t].items # <<>>
  BY DEF Receive, Stands
<1>2. \A u \in Tx : wrote[u].drawn[b] = 0
  BY <1>1, NextIsFresh
<1>3. Current(t).amount \in Nat
  BY <1>1, CurrentItem
<1>4. /\ batchDraft'[b].quantity = Current(t).amount /\ batchDraft'[b].remaining = Current(t).amount
      /\ \A c \in Batch : c # b => batchDraft'[c] = batchDraft[c] /\ batchHolder'[c] = batchHolder[c]
      /\ \A u \in Tx : desk'[u].touched = desk[u].touched
      /\ UNCHANGED <<batch, ledger, wrote>>
  <2>1. \A u \in Tx : desk'[u].touched = desk[u].touched
    BY DEF Receive, BatchTypeOK, Request
  <2>2. batchDraft'[b] = [row |-> Current(t).row, quantity |-> Current(t).amount, remaining |-> Current(t).amount]
    BY <1>1 DEF Receive, BatchTypeOK
  <2>3. \A c \in Batch : c # b => batchDraft'[c] = batchDraft[c] /\ batchHolder'[c] = batchHolder[c]
    BY <1>1 DEF Receive, Lock, BatchTypeOK
  <2>4. UNCHANGED <<batch, ledger, wrote>>
    BY DEF Receive
  <2> QED BY <2>1, <2>2, <2>3, <2>4
<1> HIDE DEF b
<1>5. ASSUME NEW u \in Tx, NEW c \in Batch, batchHolder'[c] = u
      PROVE  Explained(batchDraft'[c].quantity, batchDraft'[c].remaining, ledger.drawn[c] + wrote[u].drawn[c])
  <2>1. CASE c = b
    <3>1. ledger.drawn[c] \in Nat /\ wrote[u].drawn[c] \in Nat
      BY NumbersOf
    <3> QED BY <1>3, <1>4, <2>1, <3>1 DEF Explained
  <2>2. CASE c # b
    BY <1>4, <1>5, <2>2 DEF Shortfalls
  <2> QED BY <2>1, <2>2
<1> QED BY <1>4, <1>5 DEF Shortfalls

\* What a removal reads of a batch is explained by the ledger and its own draws.
LEMMA SeenIsExplained ==
    ASSUME BatchTypeOK, BatchInv, Shortfalls, NEW t \in Tx, desk[t].op = "REMOVE", NEW b \in Batch
    PROVE  Explained(batch[b].quantity, SeenBatches(t)[b].remaining, ledger.drawn[b] + wrote[t].drawn[b])
<1>1. SeenBatches(t)[b] = IF batchHolder[b] = t THEN batchDraft[b] ELSE batch[b]
  BY DEF SeenBatches, View, BatchTypeOK
<1>2. CASE batchHolder[b] = t
  BY <1>1, <1>2, SizeHeld DEF Shortfalls
<1>3. CASE batchHolder[b] # t
  <2>1. /\ ledger.drawn[b] \in Nat /\ wrote[t].drawn[b] \in Nat
        /\ batch[b].quantity \in Nat /\ batch[b].remaining \in Int
    BY NumbersOf
  <2>2. Explained(batch[b].quantity, batch[b].remaining, ledger.drawn[b])
    BY DEF Shortfalls
  <2> QED BY <1>1, <1>3, <2>1, <2>2 DEF Explained
<1> QED BY <1>2, <1>3

LEMMA ResolveKeepsShortfalls ==
    ASSUME BatchTypeOK, BatchInv, Shortfalls, NEW t \in Tx, Stands(t, "REMOVE", "NEXT"),
           NEW touched \in Seq(Touch), Resolve(t, touched),
           \A n \in DOMAIN touched : DrawsFrom(SeenBatches(t), Current(t).row, touched[n])
    PROVE  Shortfalls'
<1>1. /\ desk'[t].touched = touched
      /\ \A u \in Tx : u # t => desk'[u] = desk[u]
      /\ UNCHANGED <<batch, batchDraft, batchHolder, ledger, wrote>>
  <2>1. desk'[t] = [desk[t] EXCEPT !.stage = "WRITE", !.touched = touched] /\ desk[t] \in Request
    BY DEF Resolve, BatchTypeOK
  <2>2. desk'[t].touched = touched
    BY <2>1 DEF Request
  <2> QED BY <2>2 DEF Resolve, batchTable, BatchTypeOK
<1>2. ASSUME NEW n \in DOMAIN touched
      PROVE  LET x == touched[n] IN
             /\ x.drawn <= x.remaining
             /\ Explained(batch[x.batch].quantity, x.remaining, ledger.drawn[x.batch] + wrote[t].drawn[x.batch])
  <2>1. touched[n] \in Touch
    OBVIOUS
  <2>2. touched[n].batch \in Batch
    BY <2>1 DEF Touch
  <2>3. DrawsFrom(SeenBatches(t), Current(t).row, touched[n])
    OBVIOUS
  <2>4. desk[t].op = "REMOVE"
    BY DEF Stands
  <2> QED BY <2>2, <2>3, <2>4, SeenIsExplained DEF DrawsFrom
<1> QED BY <1>1, <1>2 DEF Shortfalls

LEMMA DrawKeepsShortfalls ==
    ASSUME BatchTypeOK, Stages, BatchInv, Shortfalls, NEW t \in Tx, Draw(t)
    PROVE  Shortfalls'
<1> DEFINE x == Head(desk[t].touched)
<1>1. /\ x.batch \in Batch /\ x.drawn \in Nat /\ x.remaining \in Int
      /\ desk[t].touched # <<>> /\ desk[t].touched \in Seq(Touch) /\ Apart(desk[t].touched)
      /\ x = desk[t].touched[1] /\ 1 \in DOMAIN desk[t].touched
      /\ batchHolder[x.batch] \in {NoTx, t}
      /\ batchDraft'[x.batch].quantity = batchDraft[x.batch].quantity
      /\ batchDraft'[x.batch].remaining = x.remaining - x.drawn
      /\ batchHolder'[x.batch] = t
      /\ \A c \in Batch : c # x.batch => batchDraft'[c] = batchDraft[c] /\ batchHolder'[c] = batchHolder[c]
      /\ desk[t].op = "REMOVE"
      /\ desk'[t].touched = Tail(desk[t].touched)
      /\ \A u \in Tx : u # t => desk'[u] = desk[u] /\ wrote'[u] = wrote[u]
      /\ UNCHANGED <<batch, ledger>>
  BY DrawChanges
<1>2. /\ wrote'[t].drawn[x.batch] = wrote[t].drawn[x.batch] + x.drawn
      /\ \A c \in Batch : c # x.batch => wrote'[t].drawn[c] = wrote[t].drawn[c]
  <2>1. wrote'[t].drawn = [wrote[t].drawn EXCEPT ![x.batch] = @ + x.drawn]
    BY DrawChanges
  <2>2. wrote[t].drawn \in [Batch -> Nat]
    BY DEF BatchTypeOK, Movements
  <2> QED BY <1>1, <2>1, <2>2
<1>3. /\ x.drawn <= x.remaining
      /\ Explained(batch[x.batch].quantity, x.remaining, ledger.drawn[x.batch] + wrote[t].drawn[x.batch])
  BY <1>1 DEF Shortfalls
<1> HIDE DEF x
<1>4. batchDraft[x.batch].quantity = batch[x.batch].quantity
  BY <1>1, SizeHeld DEF Numbered, DraftsAreHeld, BatchInv, BatchTypeOK
<1>5. t # NoTx
  BY NoTxAssumption
<1>6. ASSUME NEW u \in Tx, NEW c \in Batch, batchHolder'[c] = u
      PROVE  Explained(batchDraft'[c].quantity, batchDraft'[c].remaining, ledger.drawn[c] + wrote'[u].drawn[c])
  <2>1. CASE c = x.batch
    <3>1. /\ ledger.drawn[c] \in Nat /\ wrote[t].drawn[c] \in Nat /\ batch[c].quantity \in Nat
      BY NumbersOf
    <3>2. u = t
      BY <1>1, <1>6, <2>1
    <3>3. /\ batchDraft'[c].quantity = batch[c].quantity
          /\ batchDraft'[c].remaining = x.remaining - x.drawn
          /\ wrote'[u].drawn[c] = wrote[t].drawn[c] + x.drawn
          /\ x.remaining \in Int /\ x.drawn \in Nat /\ x.drawn <= x.remaining
      BY <1>1, <1>2, <1>3, <1>4, <2>1, <3>2
    <3>4. Explained(batch[c].quantity, x.remaining, ledger.drawn[c] + wrote[t].drawn[c])
      BY <1>3, <2>1
    <3> QED BY <3>1, <3>3, <3>4 DEF Explained
  <2>2. CASE c # x.batch
    <3>1. batchHolder[c] = u /\ batchDraft'[c] = batchDraft[c] /\ wrote'[u].drawn[c] = wrote[u].drawn[c]
      BY <1>1, <1>2, <1>6, <2>2
    <3> QED BY <3>1 DEF Shortfalls
  <2> QED BY <2>1, <2>2
<1>7. ASSUME NEW u \in Tx, NEW n \in DOMAIN desk'[u].touched
      PROVE  LET y == desk'[u].touched[n] IN
             /\ y.drawn <= y.remaining
             /\ Explained(batch[y.batch].quantity, y.remaining, ledger.drawn[y.batch] + wrote'[u].drawn[y.batch])
  <2>1. CASE u # t
    BY <1>1, <1>7, <2>1 DEF Shortfalls
  <2>2. CASE u = t
    <3> DEFINE rest == Tail(desk[t].touched)
    <3>1. /\ rest[n] = desk[t].touched[n + 1] /\ n + 1 \in DOMAIN desk[t].touched
          /\ rest[n].batch # x.batch
      BY <1>1, <1>7, <2>2, TakenTail DEF x
    <3>2. desk'[u].touched = rest
      BY <1>1, <2>2
    <3>3. desk[t].touched[n + 1].batch \in Batch
      BY <3>1, NumbersOf
    <3>4. wrote'[t].drawn[rest[n].batch] = wrote[t].drawn[rest[n].batch]
      BY <1>2, <3>1, <3>3
    <3>5. LET y == desk[t].touched[n + 1] IN
          /\ y.drawn <= y.remaining
          /\ Explained(batch[y.batch].quantity, y.remaining, ledger.drawn[y.batch] + wrote[t].drawn[y.batch])
      BY <3>1 DEF Shortfalls
    <3> HIDE DEF rest
    <3> QED BY <2>2, <3>1, <3>2, <3>4, <3>5
  <2> QED BY <2>1, <2>2
<1> QED BY <1>1, <1>6, <1>7 DEF Shortfalls

LEMMA CommitKeepsShortfalls ==
    ASSUME BatchTypeOK, Stages, BatchInv, Shortfalls, NEW t \in Tx, Commit(t)
    PROVE  Shortfalls'
<1>1. /\ Close(t)
      /\ \A b \in Batch : /\ batch'[b] = IF batchHolder[b] = t THEN batchDraft[b] ELSE batch[b]
                          /\ ledger'.drawn[b] = ledger.drawn[b] + wrote[t].drawn[b]
      /\ batchDraft' = batchDraft
  BY CommitPublishes
<1>2. /\ \A u \in Tx : u # t => desk'[u] = desk[u] /\ wrote'[u] = wrote[u]
      /\ \A b \in Batch : batchHolder'[b] = IF batchHolder[b] = t THEN NoTx ELSE batchHolder[b]
      /\ desk'[t].touched = <<>>
  BY <1>1, CloseLeaves
<1>3. ASSUME NEW b \in Batch
      PROVE  Explained(batch'[b].quantity, batch'[b].remaining, ledger'.drawn[b])
  <2>1. CASE batchHolder[b] = t
    BY <1>1, <2>1 DEF Shortfalls
  <2>2. CASE batchHolder[b] # t
    <3>1. ledger'.drawn[b] = ledger.drawn[b]
      <4>1. ledger.drawn[b] \in Nat /\ wrote[t].drawn[b] = 0
        BY <2>2, NumbersOf DEF OwnMoves, BatchInv
      <4> QED BY <1>1, <4>1
    <3> QED BY <1>1, <2>2, <3>1 DEF Shortfalls
  <2> QED BY <2>1, <2>2
<1>4. ASSUME NEW u \in Tx, NEW b \in Batch, batchHolder'[b] = u
      PROVE  Explained(batchDraft'[b].quantity, batchDraft'[b].remaining, ledger'.drawn[b] + wrote'[u].drawn[b])
  <2>1. batchHolder[b] = u /\ u # t
    BY <1>2, <1>4, NoTxAssumption
  <2>2. /\ ledger.drawn[b] \in Nat /\ wrote[t].drawn[b] \in Nat /\ wrote[u].drawn[b] \in Nat
        /\ batchDraft[b].quantity \in Nat /\ batchDraft[b].remaining \in Int
    BY NumbersOf
  <2>3. Explained(batchDraft[b].quantity, batchDraft[b].remaining, ledger.drawn[b] + wrote[u].drawn[b])
    BY <2>1 DEF Shortfalls
  <2>4. wrote'[u] = wrote[u] /\ ledger'.drawn[b] = ledger.drawn[b] + wrote[t].drawn[b] /\ batchDraft' = batchDraft
    BY <1>1, <1>2, <2>1
  <2> QED BY <2>2, <2>3, <2>4 DEF Explained
<1>5. ASSUME NEW u \in Tx, NEW n \in DOMAIN desk'[u].touched
      PROVE  LET x == desk'[u].touched[n] IN
             /\ x.drawn <= x.remaining
             /\ Explained(batch'[x.batch].quantity, x.remaining, ledger'.drawn[x.batch] + wrote'[u].drawn[x.batch])
  <2> DEFINE x == desk[u].touched[n]
             c == x.batch
  <2>1. u # t /\ desk'[u] = desk[u] /\ wrote'[u] = wrote[u]
    BY <1>2, <1>5
  <2>2. /\ c \in Batch /\ x.remaining \in Int /\ n \in DOMAIN desk[u].touched /\ batch[c] # Unborn
        /\ x.drawn <= x.remaining
        /\ Explained(batch[c].quantity, x.remaining, ledger.drawn[c] + wrote[u].drawn[c])
    <3>1. n \in DOMAIN desk[u].touched /\ desk[u].touched # <<>>
      BY <1>5, <2>1
    <3> QED BY <3>1, NumbersOf DEF Shortfalls, Touching, BatchInv
  <2>3. desk'[u].touched[n] = x
    BY <2>1
  <2> HIDE DEF x
  <2>4. /\ ledger.drawn[c] \in Nat /\ wrote[t].drawn[c] \in Nat /\ wrote[u].drawn[c] \in Nat
        /\ batch[c].quantity \in Nat
    BY <2>2, NumbersOf
  <2>5. batch'[c].quantity = batch[c].quantity
    <3>1. CASE batchHolder[c] = t
      <4>1. wrote[t].added[c] = 0
        BY <2>2 DEF OwnMoves, BatchInv
      <4>2. ~Received(t)
        BY DEF Commit, Received, Stands
      <4>3. batchDraft[c].quantity = batch[c].quantity
        BY <2>2, <2>4, <3>1, <4>1, <4>2 DEF Sized, BatchInv
      <4> QED BY <1>1, <2>2, <3>1, <4>3
    <3>2. CASE batchHolder[c] # t
      BY <1>1, <2>2, <3>2
    <3> QED BY <3>1, <3>2
  <2>6. ledger'.drawn[c] = ledger.drawn[c] + wrote[t].drawn[c]
    BY <1>1, <2>2
  <2>7. Explained(batch'[c].quantity, x.remaining, ledger'.drawn[c] + wrote'[u].drawn[c])
    BY <2>1, <2>2, <2>4, <2>5, <2>6 DEF Explained
  <2> QED BY <2>2, <2>3, <2>7
<1> QED BY <1>3, <1>4, <1>5 DEF Shortfalls

LEMMA RollbackKeepsShortfalls ==
    ASSUME BatchTypeOK, Shortfalls, NEW t \in Tx, Rollback(t)
    PROVE  Shortfalls'
<1>1. /\ Close(t)
      /\ \A b \in Batch : batchDraft'[b] = IF batchHolder[b] = t THEN batch[b] ELSE batchDraft[b]
      /\ UNCHANGED <<batch, ledger>>
  BY RollbackForgets
<1>2. /\ \A u \in Tx : u # t => desk'[u] = desk[u] /\ wrote'[u] = wrote[u]
      /\ \A b \in Batch : batchHolder'[b] = IF batchHolder[b] = t THEN NoTx ELSE batchHolder[b]
      /\ desk'[t].touched = <<>>
  BY <1>1, CloseLeaves
<1>3. ASSUME NEW u \in Tx, NEW b \in Batch, batchHolder'[b] = u
      PROVE  Explained(batchDraft'[b].quantity, batchDraft'[b].remaining, ledger'.drawn[b] + wrote'[u].drawn[b])
  <2>1. batchHolder[b] = u /\ u # t
    BY <1>2, <1>3, NoTxAssumption
  <2> QED BY <1>1, <1>2, <2>1 DEF Shortfalls
<1>4. ASSUME NEW u \in Tx, NEW n \in DOMAIN desk'[u].touched
      PROVE  LET x == desk'[u].touched[n] IN
             /\ x.drawn <= x.remaining
             /\ Explained(batch'[x.batch].quantity, x.remaining, ledger'.drawn[x.batch] + wrote'[u].drawn[x.batch])
  <2>1. u # t
    BY <1>2, <1>4
  <2> QED BY <1>1, <1>2, <1>4, <2>1 DEF Shortfalls
<1> QED BY <1>1, <1>3, <1>4 DEF Shortfalls
\* Whatever removals race, the ledger explains what a batch is short of.
THEOREM ShortfallsAreExplained == BatchSpec => []Shortfalls
<1>1. BatchInit => Shortfalls
  BY NoTxAssumption DEF BatchInit, Shortfalls, Explained, NoMovements, Unborn, Idle
<1>2. BatchTypeOK /\ Stages /\ BatchInv /\ Shortfalls /\ [BatchNext]_batchVars => Shortfalls'
  <2> SUFFICES ASSUME BatchTypeOK, Stages, BatchInv, Shortfalls, [BatchNext]_batchVars
               PROVE  Shortfalls'
    OBVIOUS
  <2>1. CASE UNCHANGED batchVars
    BY <2>1 DEF batchVars, Shortfalls
  <2>2. ASSUME NEW t \in Tx, NEW op, NEW items, Begin(t, op, items)
        PROVE  Shortfalls'
    <3>1. /\ UNCHANGED <<batch, batchDraft, batchHolder, ledger, wrote>>
          /\ \A u \in Tx : desk'[u].touched = <<>> \/ desk'[u].touched = desk[u].touched
      BY <2>2 DEF Begin, batchTable, BatchTypeOK, Idle
    <3> QED BY <3>1, QuietKeepsShortfalls
  <2>3. ASSUME NEW t \in Tx, Receive(t)
        PROVE  Shortfalls'
    BY <2>3, ReceiveKeepsShortfalls
  <2>4. ASSUME NEW t \in Tx, NEW version, WriteRow(t, version),
               \A u \in Tx, b \in Batch : wrote'[u].drawn[b] = wrote[u].drawn[b]
        PROVE  Shortfalls'
    <3>1. /\ UNCHANGED <<batch, batchDraft, batchHolder, ledger>>
          /\ \A u \in Tx : desk'[u].touched = <<>> \/ desk'[u].touched = desk[u].touched
      BY <2>4 DEF WriteRow, batchTable, BatchTypeOK, Idle
    <3> QED BY <2>4, <3>1, QuietKeepsShortfalls
  <2>5. ASSUME NEW t \in Tx, Store(t)
        PROVE  Shortfalls'
    <3>1. \A u \in Tx, b \in Batch : wrote'[u].drawn[b] = wrote[u].drawn[b]
      <4>1. /\ \A u \in Tx : u # t => wrote'[u] = wrote[u]
            /\ wrote'[t] = [wrote[t] EXCEPT !.added[desk[t].at] = Current(t).amount] /\ wrote[t] \in Movements
        BY <2>5 DEF Store, BatchTypeOK
      <4> QED BY <4>1 DEF Movements
    <3> QED BY <2>4, <2>5, <3>1 DEF Store
  <2>6. ASSUME NEW t \in Tx, ResolveSpecificBatch(t)
        PROVE  Shortfalls'
    <3> DEFINE x == [batch |-> Current(t).batch, drawn |-> Current(t).amount,
                     remaining |-> SeenBatches(t)[Current(t).batch].remaining]
    <3>1. /\ x \in Touch /\ Resolve(t, <<x>>) /\ Stands(t, "REMOVE", "NEXT")
          /\ DrawsFrom(SeenBatches(t), Current(t).row, x)
      BY <2>6, PickIsRight
    <3> HIDE DEF x
    <3>2. <<x>> \in Seq(Touch) /\ \A n \in DOMAIN <<x>> : <<x>>[n] = x
      BY <3>1
    <3> QED BY <3>1, <3>2, ResolveKeepsShortfalls
  <2>7. ASSUME NEW t \in Tx, ResolveFifoBatches(t)
        PROVE  Shortfalls'
    <3> DEFINE draws == FifoDraws(SeenBatches(t), Current(t).row, Current(t).amount)
    <3>1. Stands(t, "REMOVE", "NEXT") /\ Resolve(t, draws.touched)
      BY <2>7 DEF ResolveFifoBatches
    <3>2. /\ draws.touched \in Seq(Touch)
          /\ \A n \in DOMAIN draws.touched : DrawsFrom(SeenBatches(t), Current(t).row, draws.touched[n])
      BY <3>1, FifoTyped DEF Stands, AfterRound
    <3> HIDE DEF draws
    <3> QED BY <3>1, <3>2, ResolveKeepsShortfalls
  <2>8. ASSUME NEW t \in Tx, Draw(t)
        PROVE  Shortfalls'
    BY <2>8, DrawKeepsShortfalls
  <2>9. ASSUME NEW t \in Tx, TakeOff(t)
        PROVE  Shortfalls'
    BY <2>4, <2>9 DEF TakeOff
  <2>10. ASSUME NEW t \in Tx, Sell(t)
         PROVE  Shortfalls'
    <3>1. \A u \in Tx, b \in Batch : wrote'[u].drawn[b] = wrote[u].drawn[b]
      <4>1. /\ \A u \in Tx : u # t => wrote'[u] = wrote[u]
            /\ wrote'[t] = [wrote[t] EXCEPT !.sold[Current(t).row] = @ + Current(t).amount] /\ wrote[t] \in Movements
        BY <2>10 DEF Sell, BatchTypeOK
      <4> QED BY <4>1 DEF Movements
    <3> QED BY <2>4, <2>10, <3>1 DEF Sell
  <2>11. ASSUME NEW t \in Tx, Commit(t)
         PROVE  Shortfalls'
    BY <2>11, CommitKeepsShortfalls
  <2>12. ASSUME NEW t \in Tx, Rollback(t)
         PROVE  Shortfalls'
    BY <2>12, RollbackKeepsShortfalls
  <2> QED BY <2>1, <2>2, <2>3, <2>5, <2>6, <2>7, <2>8, <2>9, <2>10, <2>11, <2>12
          DEF BatchNext, BeginAdd, BeginRemove
<1> QED BY <1>1, <1>2, BatchesAreTyped, BatchesAreOwned, PTL DEF BatchSpec

\* No batch is overdrawn, none is fuller than its delivery, and what is
\* missing from it is in the ledger.
THEOREM ShortfallExplainedAlways == BatchSpec => []ShortfallExplained
<1>1. BatchTypeOK /\ Shortfalls => ShortfallExplained
  <2> SUFFICES ASSUME BatchTypeOK, Shortfalls, NEW b \in Batch
               PROVE  /\ batch[b].remaining \in 0..batch[b].quantity
                      /\ batch[b].quantity - batch[b].remaining <= ledger.drawn[b]
    BY DEF ShortfallExplained
  <2>1. batch[b].remaining \in Int /\ batch[b].quantity \in Nat
    BY NumbersOf
  <2> QED BY <2>1 DEF Shortfalls, Explained
<1> QED BY <1>1, BatchesAreTyped, ShortfallsAreExplained, PTL

\* In every reachable state, for a removal of any size from any row.
THEOREM OldestFirstAlways == BatchSpec => [](OldestFirst /\ \A r \in Row, n \in Nat : TakesOldest(r, n))
<1>1. BatchTypeOK /\ Shortfalls => OldestFirst /\ \A r \in Row, n \in Nat : TakesOldest(r, n)
  <2> SUFFICES ASSUME BatchTypeOK, Shortfalls
               PROVE  OldestFirst /\ \A r \in Row, n \in Nat : TakesOldest(r, n)
    OBVIOUS
  <2>1. batch \in [Batch -> BatchRow] /\ \A b \in Batch : batch[b].remaining >= 0
    BY NumbersOf DEF BatchTypeOK, Shortfalls, Explained
  <2>2. \A r \in Row, n \in Nat : TakesOldest(r, n)
    BY <2>1, FifoTakesOldest
  <2> QED BY <2>2 DEF OldestFirst
<1> QED BY <1>1, BatchesAreTyped, ShortfallsAreExplained, PTL

-----------------------------------------------------------------------------
(* The books: stock against movements.                                     *)

\* What the movements leave of a row is a number.
LEMMA OwnedIsInt ==
    ASSUME NEW rows, NEW m \in Movements, NEW r \in Row
    PROVE  /\ \A b \in Batch : /\ Owned(rows, m, r)[b] \in Int
                               /\ Owned(rows, m, r)[b] = IF rows[b].row = r THEN m.added[b] - m.drawn[b] ELSE 0
           /\ SumFunctionOnSet(Owned(rows, m, r), Batch) \in Int
           /\ m.sold[r] \in Nat
           /\ Balance(rows, m, r) \in Int
           /\ Balance(rows, m, r) = SumFunctionOnSet(Owned(rows, m, r), Batch) - m.sold[r]
<1>1. \A b \in Batch : m.added[b] \in Nat /\ m.drawn[b] \in Nat
  BY DEF Movements
<1>2. m.sold[r] \in Nat
  BY DEF Movements
<1> DEFINE f == Owned(rows, m, r)
<1>3. \A b \in Batch : f[b] = IF rows[b].row = r THEN m.added[b] - m.drawn[b] ELSE 0
  BY DEF Owned
<1>4. Balance(rows, m, r) = SumFunctionOnSet(f, Batch) - m.sold[r]
  BY DEF Balance
<1> HIDE DEF f
<1>5. \A b \in Batch : f[b] \in Int
  BY <1>1, <1>3
<1>6. SumFunctionOnSet(f, Batch) \in Int
  BY <1>5, BatchesAreFinite, SumInt
<1> QED BY <1>2, <1>3, <1>4, <1>5, <1>6 DEF f

\* A batch's row matters only to the movements that name the batch.
LEMMA BalanceSame ==
    ASSUME NEW rows, NEW more, NEW m \in Movements, NEW r \in Row,
           \A b \in Batch : rows[b].row = more[b].row \/ m.added[b] = m.drawn[b]
    PROVE  Balance(more, m, r) = Balance(rows, m, r)
<1> DEFINE f == Owned(rows, m, r)
           g == Owned(more, m, r)
<1>1. \A b \in Batch : m.added[b] \in Nat /\ m.drawn[b] \in Nat
  BY DEF Movements
<1>2. \A b \in Batch : f[b] = g[b]
  <2> SUFFICES ASSUME NEW b \in Batch
               PROVE  f[b] = g[b]
    OBVIOUS
  <2>1. /\ f[b] = IF rows[b].row = r THEN m.added[b] - m.drawn[b] ELSE 0
        /\ g[b] = IF more[b].row = r THEN m.added[b] - m.drawn[b] ELSE 0
    BY DEF Owned
  <2> HIDE DEF f, g
  <2> QED BY <1>1, <2>1
<1>3. Balance(rows, m, r) = SumFunctionOnSet(f, Batch) - m.sold[r]
  BY DEF Balance
<1>4. Balance(more, m, r) = SumFunctionOnSet(g, Batch) - m.sold[r]
  BY DEF Balance
<1> HIDE DEF f, g
<1>5. SumFunctionOnSet(f, Batch) = SumFunctionOnSet(g, Batch)
  BY <1>2, BatchesAreFinite, SumCongruence
<1> QED BY <1>3, <1>4, <1>5

\* One more movement of batch c, of d units in (or, below zero, out).
LEMMA BalanceMoves ==
    ASSUME NEW rows, NEW m \in Movements, NEW w \in Movements, NEW r \in Row, NEW c \in Batch, NEW d \in Int,
           \A b \in Batch : w.added[b] - w.drawn[b] = m.added[b] - m.drawn[b] + (IF b = c THEN d ELSE 0),
           w.sold[r] = m.sold[r]
    PROVE  Balance(rows, w, r) = Balance(rows, m, r) + (IF rows[c].row = r THEN d ELSE 0)
<1> DEFINE f == Owned(rows, m, r)
           g == Owned(rows, w, r)
<1>1. /\ \A b \in Batch : f[b] \in Int /\ g[b] \in Int
      /\ \A b \in Batch : f[b] = IF rows[b].row = r THEN m.added[b] - m.drawn[b] ELSE 0
      /\ \A b \in Batch : g[b] = IF rows[b].row = r THEN w.added[b] - w.drawn[b] ELSE 0
      /\ Balance(rows, m, r) = SumFunctionOnSet(f, Batch) - m.sold[r]
      /\ Balance(rows, w, r) = SumFunctionOnSet(g, Batch) - w.sold[r]
      /\ m.sold[r] \in Nat
  <2>1. /\ \A b \in Batch : /\ f[b] \in Int
                            /\ f[b] = IF rows[b].row = r THEN m.added[b] - m.drawn[b] ELSE 0
        /\ SumFunctionOnSet(f, Batch) \in Int /\ m.sold[r] \in Nat
        /\ Balance(rows, m, r) = SumFunctionOnSet(f, Batch) - m.sold[r]
    BY OwnedIsInt
  <2>2. /\ \A b \in Batch : /\ g[b] \in Int
                            /\ g[b] = IF rows[b].row = r THEN w.added[b] - w.drawn[b] ELSE 0
        /\ SumFunctionOnSet(g, Batch) \in Int /\ w.sold[r] \in Nat
        /\ Balance(rows, w, r) = SumFunctionOnSet(g, Batch) - w.sold[r]
    BY OwnedIsInt
  <2> HIDE DEF f, g
  <2> QED BY <2>1, <2>2
<1>2. \A b \in Batch : m.added[b] \in Nat /\ m.drawn[b] \in Nat /\ w.added[b] \in Nat /\ w.drawn[b] \in Nat
  BY DEF Movements
<1> HIDE DEF f, g
<1>3. \A b \in Batch \ {c} : f[b] = g[b]
  BY <1>1, <1>2
<1>4. g[c] = f[c] + (IF rows[c].row = r THEN d ELSE 0)
  BY <1>1, <1>2
<1>5. /\ SumFunctionOnSet(f, Batch) \in Int
      /\ SumFunctionOnSet(g, Batch) = SumFunctionOnSet(f, Batch) - f[c] + g[c]
  BY <1>1, <1>3, BatchesAreFinite, SumChange
<1> QED BY <1>1, <1>4, <1>5

\* A sale.
LEMMA BalanceSells ==
    ASSUME NEW rows, NEW m \in Movements, NEW w \in Movements, NEW r \in Row, NEW d \in Int,
           w.added = m.added, w.drawn = m.drawn, w.sold[r] = m.sold[r] + d
    PROVE  Balance(rows, w, r) = Balance(rows, m, r) - d
<1>1. Owned(rows, w, r) = Owned(rows, m, r)
  BY DEF Owned
<1>2. /\ SumFunctionOnSet(Owned(rows, m, r), Batch) \in Int /\ m.sold[r] \in Nat
  BY OwnedIsInt
<1> QED BY <1>1, <1>2 DEF Balance

\* Movements added to movements.
LEMMA BalanceAdds ==
    ASSUME NEW rows, NEW m \in Movements, NEW w \in Movements, NEW sum \in Movements, NEW r \in Row,
           \A b \in Batch : /\ sum.added[b] = m.added[b] + w.added[b]
                            /\ sum.drawn[b] = m.drawn[b] + w.drawn[b],
           sum.sold[r] = m.sold[r] + w.sold[r]
    PROVE  Balance(rows, sum, r) = Balance(rows, m, r) + Balance(rows, w, r)
<1> DEFINE f == Owned(rows, m, r)
           g == Owned(rows, w, r)
           h == Owned(rows, sum, r)
<1>1. /\ \A b \in Batch : f[b] = IF rows[b].row = r THEN m.added[b] - m.drawn[b] ELSE 0
      /\ \A b \in Batch : g[b] = IF rows[b].row = r THEN w.added[b] - w.drawn[b] ELSE 0
      /\ \A b \in Batch : h[b] = IF rows[b].row = r THEN sum.added[b] - sum.drawn[b] ELSE 0
  BY DEF Owned
<1>2. /\ Balance(rows, m, r) = SumFunctionOnSet(f, Batch) - m.sold[r]
      /\ Balance(rows, w, r) = SumFunctionOnSet(g, Batch) - w.sold[r]
      /\ Balance(rows, sum, r) = SumFunctionOnSet(h, Batch) - sum.sold[r]
  BY DEF Balance
<1>3. /\ \A b \in Batch : m.added[b] \in Nat /\ m.drawn[b] \in Nat /\ w.added[b] \in Nat /\ w.drawn[b] \in Nat
      /\ m.sold[r] \in Nat /\ w.sold[r] \in Nat
  BY DEF Movements
<1> HIDE DEF f, g, h
<1>4. \A b \in Batch : f[b] \in Int /\ g[b] \in Int /\ h[b] = f[b] + g[b]
  BY <1>1, <1>3
<1>5. SumFunctionOnSet(h, Batch) = SumFunctionOnSet(f, Batch) + SumFunctionOnSet(g, Batch)
  BY <1>4, BatchesAreFinite, SumAdd
<1>6. SumFunctionOnSet(f, Batch) \in Int /\ SumFunctionOnSet(g, Batch) \in Int
  BY <1>4, BatchesAreFinite, SumInt
<1> QED BY <1>2, <1>3, <1>5, <1>6

\* No movements.
LEMMA BalanceOfNone ==
    ASSUME NEW rows, NEW r \in Row
    PROVE  Balance(rows, NoMovements, r) = 0
<1> DEFINE f == Owned(rows, NoMovements, r)
<1>1. \A b \in Batch : f[b] = 0
  BY DEF Owned, NoMovements
<1>2. Balance(rows, NoMovements, r) = SumFunctionOnSet(f, Batch) - NoMovements.sold[r]
  BY DEF Balance
<1>3. NoMovements.sold[r] = 0
  BY DEF NoMovements
<1> HIDE DEF f
<1>4. SumFunctionOnSet(f, Batch) = 0
  BY <1>1, BatchesAreFinite, SumZero
<1> QED BY <1>2, <1>3, <1>4
\* What is pending is a number, and nothing unless a removal is being written.
LEMMA PendingIsInt ==
    ASSUME BatchTypeOK, BatchInv, NEW t \in Tx, NEW r \in Row
    PROVE  /\ Pending(t, r) \in Int
           /\ ~Removing(t, r) => Pending(t, r) = 0
           /\ Removing(t, r) => /\ Pending(t, r) = Current(t).amount
                                                   - SumFunctionOnSet(TakenBy(desk[t].touched), Batch)
                                /\ Current(t).amount \in Nat
                                /\ SumFunctionOnSet(TakenBy(desk[t].touched), Batch) \in Int
           /\ Change(t, r) \in Int
<1>1. ~Removing(t, r) => Pending(t, r) = 0
  BY DEF Pending
<1>2. Removing(t, r) => Pending(t, r) = Current(t).amount - SumFunctionOnSet(TakenBy(desk[t].touched), Batch)
  BY DEF Pending
<1>3. Apart(desk[t].touched)
  <2>1. CASE desk[t].touched = <<>>
    BY <2>1, TakenShort
  <2>2. CASE desk[t].touched # <<>>
    BY <2>2 DEF Touching, BatchInv
  <2> QED BY <2>1, <2>2
<1>4. desk[t].touched \in Seq(Touch)
  BY NumbersOf
<1> DEFINE f == TakenBy(desk[t].touched)
<1>5. \A b \in Batch : f[b] \in Nat
  BY <1>3, <1>4, TakenIsNat
<1> HIDE DEF f
<1>6. SumFunctionOnSet(f, Batch) \in Int
  BY <1>5, BatchesAreFinite, SumInt
<1>7. Removing(t, r) => Current(t).amount \in Nat
  BY CurrentItem DEF Removing, Stands
<1>8. Change(t, r) \in Int
  BY NumbersOf DEF Change
<1> QED BY <1>1, <1>2, <1>6, <1>7, <1>8 DEF f

\* Steps that touch neither the tables nor the movements and leave nothing
\* pending that was not.
LEMMA QuietKeepsBooks ==
    ASSUME Books, UNCHANGED <<stock, stockDraft, rowHolder, batchDraft, ledger, wrote>>,
           \A t \in Tx, r \in Row : Pending(t, r)' = Pending(t, r)
    PROVE  Books'
<1>1. ASSUME NEW r \in Row
      PROVE  /\ stock'[r].quantity = Opening[r] + Balance(batchDraft', ledger', r)
             /\ \A t \in Tx : Change(t, r)' = Balance(batchDraft', wrote'[t], r) + Pending(t, r)'
  <2>1. \A t \in Tx : Change(t, r)' = Change(t, r)
    BY DEF Change
  <2>2. /\ stock[r].quantity = Opening[r] + Balance(batchDraft, ledger, r)
        /\ \A t \in Tx : Change(t, r) = Balance(batchDraft, wrote[t], r) + Pending(t, r)
    BY DEF Books
  <2> QED BY <2>1, <2>2
<1> QED BY <1>1 DEF Books

LEMMA BeginKeepsBooks ==
    ASSUME BatchTypeOK, BatchInv, Books, NEW t \in Tx, NEW op, NEW items, Begin(t, op, items)
    PROVE  Books'
<1>1. /\ UNCHANGED <<stock, stockDraft, rowHolder, batchDraft, ledger, wrote>>
      /\ desk[t].stage = "NEXT" /\ desk'[t].stage = "NEXT"
      /\ \A u \in Tx : u # t => desk'[u] = desk[u]
  BY DEF Begin, stockTable, batchTable, Idle, BatchTypeOK
<1>2. ASSUME NEW u \in Tx, NEW r \in Row
      PROVE  Pending(u, r)' = Pending(u, r)
  <2>1. CASE u = t
    BY <1>1, <2>1 DEF Pending, Removing, Stands
  <2>2. CASE u # t
    BY <1>1, <2>2 DEF Pending, Removing, Stands, Current
  <2> QED BY <2>1, <2>2
<1> QED BY <1>1, <1>2, QuietKeepsBooks

LEMMA ResolveKeepsBooks ==
    ASSUME BatchTypeOK, BatchInv, Books, NEW t \in Tx, Stands(t, "REMOVE", "NEXT"),
           NEW touched \in Seq(Touch), Resolve(t, touched),
           SumFunctionOnSet(TakenBy(touched), Batch) = Current(t).amount
    PROVE  Books'
<1>1. /\ UNCHANGED <<stock, stockDraft, rowHolder, batchDraft, ledger, wrote>>
      /\ desk[t].stage = "NEXT" /\ desk'[t].touched = touched /\ desk'[t].items = desk[t].items
      /\ \A u \in Tx : u # t => desk'[u] = desk[u]
  <2>1. desk'[t] = [desk[t] EXCEPT !.stage = "WRITE", !.touched = touched] /\ desk[t] \in Request
    BY DEF Resolve, BatchTypeOK
  <2>2. desk'[t].touched = touched /\ desk'[t].items = desk[t].items
    BY <2>1 DEF Request
  <2> QED BY <2>2 DEF Resolve, stockTable, batchTable, BatchTypeOK, Stands
<1>2. ASSUME NEW u \in Tx, NEW r \in Row
      PROVE  Pending(u, r)' = Pending(u, r)
  <2>1. CASE u = t
    <3>1. Pending(u, r) = 0
      BY <1>1, <2>1 DEF Pending, Removing, Stands
    <3>2. Current(t)' = Current(t) /\ Current(t).amount \in Nat
      BY <1>1, CurrentItem DEF Current, Stands
    <3>3. Pending(u, r)' = 0
      BY <1>1, <2>1, <3>2 DEF Pending
    <3> QED BY <3>1, <3>3
  <2>2. CASE u # t
    BY <1>1, <2>2 DEF Pending, Removing, Stands, Current
  <2> QED BY <2>1, <2>2
<1> QED BY <1>1, <1>2, QuietKeepsBooks

LEMMA ReceiveKeepsBooks ==
    ASSUME BatchTypeOK, Stages, BatchInv, Books, NEW t \in Tx, Receive(t)
    PROVE  Books'
<1> DEFINE b == lastBatch + 1
<1>1. /\ b \in Batch /\ ledger.added[b] = 0 /\ ledger.drawn[b] = 0
      /\ \A u \in Tx : wrote[u].added[b] = 0 /\ wrote[u].drawn[b] = 0
  BY NextIsFresh DEF Receive
<1>2. /\ \A c \in Batch : c # b => batchDraft'[c] = batchDraft[c]
      /\ UNCHANGED <<stock, stockDraft, rowHolder, ledger, wrote>>
      /\ desk[t].op = "ADD" /\ desk'[t].op = "ADD"
      /\ \A u \in Tx : u # t => desk'[u] = desk[u]
  <2>1. UNCHANGED <<stock, stockDraft, rowHolder, ledger, wrote>>
    BY DEF Receive, stockTable
  <2>2. \A c \in Batch : c # b => batchDraft'[c] = batchDraft[c]
    BY DEF Receive, BatchTypeOK
  <2>3. /\ desk[t].op = "ADD" /\ desk'[t].op = "ADD"
        /\ \A u \in Tx : u # t => desk'[u] = desk[u]
    <3>1. /\ desk'[t] = [desk[t] EXCEPT !.stage = "WRITE", !.at = b, !.seen = ReadForCost(t, Current(t).row)]
          /\ desk[t] \in Request /\ desk[t].op = "ADD"
          /\ \A u \in Tx : u # t => desk'[u] = desk[u]
      BY DEF Receive, BatchTypeOK, Stands
    <3> QED BY <3>1 DEF Request
  <2> QED BY <2>1, <2>2, <2>3
<1> HIDE DEF b
<1>3. ASSUME NEW m \in Movements, NEW r \in Row, m.added[b] = 0, m.drawn[b] = 0
      PROVE  Balance(batchDraft', m, r) = Balance(batchDraft, m, r)
  <2>1. \A c \in Batch : batchDraft[c].row = batchDraft'[c].row \/ m.added[c] = m.drawn[c]
    BY <1>2, <1>3
  <2> QED BY <2>1, BalanceSame
<1>4. ASSUME NEW r \in Row
      PROVE  /\ stock'[r].quantity = Opening[r] + Balance(batchDraft', ledger', r)
             /\ \A u \in Tx : Change(u, r)' = Balance(batchDraft', wrote'[u], r) + Pending(u, r)'
  <2>1. Balance(batchDraft', ledger, r) = Balance(batchDraft, ledger, r)
    BY <1>1, <1>3 DEF BatchTypeOK
  <2>2. \A u \in Tx : Balance(batchDraft', wrote[u], r) = Balance(batchDraft, wrote[u], r)
    BY <1>1, <1>3 DEF BatchTypeOK
  <2>3. \A u \in Tx : Change(u, r)' = Change(u, r)
    BY <1>2 DEF Change
  <2>4. ASSUME NEW u \in Tx
        PROVE  Pending(u, r)' = Pending(u, r)
    <3>1. CASE u = t
      BY <1>2, <3>1 DEF Pending, Removing, Stands
    <3>2. CASE u # t
      BY <1>2, <3>2 DEF Pending, Removing, Stands, Current
    <3> QED BY <3>1, <3>2
  <2>5. /\ stock[r].quantity = Opening[r] + Balance(batchDraft, ledger, r)
        /\ \A u \in Tx : Change(u, r) = Balance(batchDraft, wrote[u], r) + Pending(u, r)
    BY DEF Books
  <2>6. stock' = stock /\ ledger' = ledger /\ wrote' = wrote
    BY <1>2
  <2>7. \A u \in Tx : Change(u, r)' = Balance(batchDraft', wrote[u], r) + Pending(u, r)'
    BY <2>2, <2>3, <2>4, <2>5
  <2>8. stock[r].quantity = Opening[r] + Balance(batchDraft', ledger, r)
    BY <2>1, <2>5
  <2> QED BY <2>6, <2>7, <2>8
<1> QED BY <1>4 DEF Books

\* A row's new version settles what was pending and books d units more.
LEMMA WriteKeepsBooks ==
    ASSUME BatchTypeOK, BatchInv, Books, NEW t \in Tx, desk[t].items # <<>>,
           NEW version, WriteRow(t, version), NEW d \in Int,
           version.quantity = stockDraft[Current(t).row].quantity + d,
           \A u \in Tx : u # t => wrote'[u] = wrote[u],
           \A r \in Row : Balance(batchDraft, wrote'[t], r) =
                             Balance(batchDraft, wrote[t], r) + Pending(t, r)
                             + (IF r = Current(t).row THEN d ELSE 0)
    PROVE  Books'
<1> DEFINE s == Current(t).row
<1>1. s \in Row /\ t # NoTx
  BY CurrentItem, NoTxAssumption
<1>2. /\ rowHolder[s] \in {NoTx, t}
      /\ stockDraft'[s] = version /\ rowHolder'[s] = t
      /\ \A r \in Row : r # s => stockDraft'[r] = stockDraft[r] /\ rowHolder'[r] = rowHolder[r]
      /\ desk'[t].stage = "NEXT"
      /\ \A u \in Tx : u # t => desk'[u] = desk[u]
      /\ UNCHANGED <<stock, batchDraft, ledger>>
  <2>1. desk'[t].stage = "NEXT" /\ \A u \in Tx : u # t => desk'[u] = desk[u]
    BY DEF WriteRow, Idle, BatchTypeOK
  <2>2. /\ rowHolder[s] \in {NoTx, t}
        /\ stockDraft'[s] = version /\ rowHolder'[s] = t
        /\ \A r \in Row : r # s => stockDraft'[r] = stockDraft[r] /\ rowHolder'[r] = rowHolder[r]
    BY <1>1 DEF WriteRow, Free, Lock, BatchTypeOK
  <2> QED BY <2>1, <2>2 DEF WriteRow, batchTable
<1>3. rowHolder[s] = NoTx => stockDraft[s] = stock[s]
  BY <1>1 DEF Numbered, DraftsAreHeld, BatchInv, BatchTypeOK
<1>4. ASSUME NEW r \in Row
      PROVE  Change(t, r)' = Change(t, r) + (IF r = s THEN d ELSE 0)
  <2>1. stock[r].quantity \in Int /\ stockDraft[r].quantity \in Int
    BY NumbersOf
  <2>2. CASE r = s
    <3>1. Change(t, r)' = stockDraft[r].quantity + d - stock[r].quantity
      <4>1. rowHolder'[r] = t /\ stockDraft'[r].quantity = stockDraft[r].quantity + d
        BY <1>2, <2>2
      <4>2. stock'[r].quantity = stock[r].quantity
        BY <1>2
      <4>3. Change(t, r)' = stockDraft'[r].quantity - stock'[r].quantity
        BY <4>1 DEF Change
      <4>4. Change(t, r)' = (stockDraft[r].quantity + d) - stock[r].quantity
        BY <4>1, <4>2, <4>3, Zenon
      <4> QED BY <2>1, <4>4
    <3>2. Change(t, r) = stockDraft[r].quantity - stock[r].quantity
      BY <1>1, <1>2, <1>3, <2>1, <2>2 DEF Change
    <3> QED BY <2>1, <2>2, <3>1, <3>2
  <2>3. CASE r # s
    <3>1. Change(t, r)' = Change(t, r)
      BY <1>2, <2>3 DEF Change
    <3>2. Change(t, r) \in Int
      BY PendingIsInt
    <3> QED BY <2>3, <3>1, <3>2
  <2> QED BY <2>2, <2>3
<1>5. ASSUME NEW u \in Tx, u # t, NEW r \in Row
      PROVE  Change(u, r)' = Change(u, r) /\ Pending(u, r)' = Pending(u, r)
  <2>1. Pending(u, r)' = Pending(u, r)
    BY <1>2, <1>5 DEF Pending, Removing, Stands, Current
  <2>2. u # NoTx
    BY NoTxAssumption
  <2> QED BY <1>2, <1>5, <2>1, <2>2 DEF Change
<1>6. \A r \in Row : Pending(t, r)' = 0
  BY <1>2 DEF Pending, Removing, Stands
<1>7. ASSUME NEW r \in Row
      PROVE  /\ stock'[r].quantity = Opening[r] + Balance(batchDraft', ledger', r)
             /\ \A u \in Tx : Change(u, r)' = Balance(batchDraft', wrote'[u], r) + Pending(u, r)'
  <2>1. /\ stock[r].quantity = Opening[r] + Balance(batchDraft, ledger, r)
        /\ \A u \in Tx : Change(u, r) = Balance(batchDraft, wrote[u], r) + Pending(u, r)
    BY DEF Books
  <2>2. Change(t, r)' = Balance(batchDraft, wrote'[t], r) + Pending(t, r)'
    <3>1. /\ Balance(batchDraft, wrote[t], r) \in Int /\ Pending(t, r) \in Int
      BY OwnedIsInt, PendingIsInt DEF BatchTypeOK
    <3>2. Balance(batchDraft, wrote'[t], r) = Balance(batchDraft, wrote[t], r) + Pending(t, r)
                                              + (IF r = s THEN d ELSE 0)
      OBVIOUS
    <3>3. Change(t, r)' = Balance(batchDraft, wrote[t], r) + Pending(t, r) + (IF r = s THEN d ELSE 0)
      BY <1>4, <2>1
    <3>4. Balance(batchDraft, wrote'[t], r) \in Int
      BY <3>1, <3>2
    <3> QED BY <1>6, <3>2, <3>3, <3>4
  <2>3. \A u \in Tx : u # t => Change(u, r)' = Balance(batchDraft, wrote'[u], r) + Pending(u, r)'
    BY <1>5, <2>1
  <2>4. stock' = stock /\ batchDraft' = batchDraft /\ ledger' = ledger
    BY <1>2
  <2> QED BY <2>1, <2>2, <2>3, <2>4
<1> QED BY <1>7 DEF Books
LEMMA DrawKeepsBooks ==
    ASSUME BatchTypeOK, Stages, BatchInv, Books, BatchTypeOK', NEW t \in Tx, Draw(t)
    PROVE  Books'
<1> DEFINE x == Head(desk[t].touched)
           s == Current(t).row
<1>1. /\ x \in Touch /\ x.batch \in Batch /\ x.drawn \in Nat
      /\ desk[t].touched # <<>> /\ desk[t].touched \in Seq(Touch) /\ Apart(desk[t].touched)
      /\ batch[x.batch] # Unborn /\ batch[x.batch].row = s
      /\ \A c \in Batch : batchDraft'[c].row = batchDraft[c].row
      /\ desk'[t].op = "REMOVE" /\ desk'[t].stage = "WRITE" /\ desk'[t].items = desk[t].items
      /\ desk[t].op = "REMOVE" /\ desk[t].stage = "WRITE" /\ desk[t].items # <<>>
      /\ desk'[t].touched = Tail(desk[t].touched)
      /\ \A u \in Tx : u # t => desk'[u] = desk[u] /\ wrote'[u] = wrote[u]
      /\ wrote'[t].added = wrote[t].added /\ wrote'[t].sold = wrote[t].sold
      /\ wrote'[t].drawn = [wrote[t].drawn EXCEPT ![x.batch] = @ + x.drawn]
      /\ UNCHANGED <<stock, stockDraft, rowHolder, ledger>>
  BY DrawChanges
<1>2. /\ wrote[t] \in Movements /\ wrote'[t] \in Movements /\ ledger \in Movements
      /\ \A u \in Tx : wrote[u] \in Movements
  BY DEF BatchTypeOK
<1>3. Current(t)' = Current(t) /\ s \in Row /\ Current(t).amount \in Nat
  BY <1>1, CurrentItem DEF Current
<1>4. SumFunctionOnSet(TakenBy(Tail(desk[t].touched)), Batch) =
         SumFunctionOnSet(TakenBy(desk[t].touched), Batch) - x.drawn
  <2> DEFINE f == TakenBy(desk[t].touched)
             g == TakenBy(Tail(desk[t].touched))
  <2>1. /\ f[x.batch] = x.drawn
        /\ \A b \in Batch : g[b] = IF b = x.batch THEN 0 ELSE f[b]
    BY <1>1, TakenTail
  <2>2. \A b \in Batch : f[b] \in Nat
    BY <1>1, TakenIsNat
  <2> HIDE DEF f, g, x
  <2>3. \A b \in Batch : f[b] \in Int /\ g[b] \in Int
    BY <2>1, <2>2
  <2>4. \A b \in Batch \ {x.batch} : f[b] = g[b]
    BY <2>1
  <2>5. /\ SumFunctionOnSet(f, Batch) \in Int
        /\ SumFunctionOnSet(g, Batch) = SumFunctionOnSet(f, Batch) - f[x.batch] + g[x.batch]
    BY <1>1, <2>3, <2>4, BatchesAreFinite, SumChange
  <2>6. SumFunctionOnSet(g, Batch) = SumFunctionOnSet(f, Batch) - x.drawn
    BY <1>1, <2>1, <2>5
  <2> QED BY <2>6 DEF f, g, x
<1> HIDE DEF x
<1>5. batchDraft[x.batch].row = s
  BY <1>1 DEF Numbered, BatchInv
<1>6. \A m \in Movements, r \in Row : Balance(batchDraft', m, r) = Balance(batchDraft, m, r)
  BY <1>1, BalanceSame
<1>7. ASSUME NEW r \in Row
      PROVE  Balance(batchDraft, wrote'[t], r) = Balance(batchDraft, wrote[t], r)
                                                 + (IF r = s THEN -x.drawn ELSE 0)
  <2> DEFINE m == wrote[t]
             w == wrote'[t]
             c == x.batch
             d == -x.drawn
  <2>1. m.drawn \in [Batch -> Nat] /\ m.added \in [Batch -> Nat]
    BY <1>2 DEF Movements
  <2>2. /\ m \in Movements /\ w \in Movements /\ c \in Batch /\ x.drawn \in Nat
        /\ w.added = m.added /\ w.sold[r] = m.sold[r]
        /\ w.drawn = [m.drawn EXCEPT ![c] = @ + x.drawn]
    BY <1>1, <1>2
  <2>3. d \in Int /\ d = -x.drawn
    BY <2>2
  <2>4. (IF batchDraft[c].row = r THEN d ELSE 0) = (IF r = s THEN -x.drawn ELSE 0)
    BY <1>5
  <2>5. Balance(batchDraft, wrote'[t], r) = Balance(batchDraft, w, r) /\ Balance(batchDraft, wrote[t], r) = Balance(batchDraft, m, r)
    OBVIOUS
  <2> HIDE DEF m, w, c, d
  <2>6. \A b \in Batch : w.drawn[b] = IF b = c THEN m.drawn[b] + x.drawn ELSE m.drawn[b]
    BY <2>1, <2>2
  <2>7. ASSUME NEW b \in Batch
        PROVE  w.added[b] - w.drawn[b] = m.added[b] - m.drawn[b] + (IF b = c THEN d ELSE 0)
    <3>1. m.added[b] \in Nat /\ m.drawn[b] \in Nat /\ w.added[b] = m.added[b]
      BY <2>1, <2>2
    <3>2. w.drawn[b] = IF b = c THEN m.drawn[b] + x.drawn ELSE m.drawn[b]
      BY <2>6
    <3>3. CASE b = c
      BY <2>2, <2>3, <3>1, <3>2, <3>3
    <3>4. CASE b # c
      BY <3>1, <3>2, <3>4
    <3> QED BY <3>3, <3>4
  <2>8. Balance(batchDraft, w, r) = Balance(batchDraft, m, r) + (IF batchDraft[c].row = r THEN d ELSE 0)
    <3>1. /\ m \in Movements /\ w \in Movements /\ c \in Batch /\ d \in Int /\ w.sold[r] = m.sold[r]
      BY <2>2, <2>3
    <3>2. \A b \in Batch : w.added[b] - w.drawn[b] = m.added[b] - m.drawn[b] + (IF b = c THEN d ELSE 0)
      BY <2>7
    <3> QED BY <1>7, <3>1, <3>2, BalanceMoves
  <2> QED BY <2>4, <2>5, <2>8
<1>8. ASSUME NEW r \in Row
      PROVE  Pending(t, r)' = Pending(t, r) + (IF r = s THEN x.drawn ELSE 0)
  <2>1. Removing(t, r) <=> r = s
    BY <1>1 DEF Removing, Stands
  <2>2. Removing(t, r)' <=> r = s
    BY <1>1, <1>3 DEF Removing, Stands
  <2>3. CASE r = s
    <3>1. /\ Pending(t, r) = Current(t).amount - SumFunctionOnSet(TakenBy(desk[t].touched), Batch)
          /\ SumFunctionOnSet(TakenBy(desk[t].touched), Batch) \in Int
      BY <2>1, <2>3, PendingIsInt
    <3>2. Pending(t, r)' = Current(t)'.amount - SumFunctionOnSet(TakenBy(desk'[t].touched), Batch)
      <4>1. Pending(t, r)' = IF Removing(t, r)' THEN Current(t)'.amount - SumFunctionOnSet(TakenBy(desk'[t].touched), Batch) ELSE 0
        BY DEF Pending
      <4> QED BY <2>2, <2>3, <4>1
    <3>3. Pending(t, r)' = Current(t).amount - (SumFunctionOnSet(TakenBy(desk[t].touched), Batch) - x.drawn)
      BY <1>1, <1>3, <1>4, <3>2
    <3> QED BY <1>1, <1>3, <2>3, <3>1, <3>3
  <2>4. CASE r # s
    <3>1. Pending(t, r) = 0
      BY <2>1, <2>4 DEF Pending
    <3>2. Pending(t, r)' = 0
      BY <2>2, <2>4 DEF Pending
    <3> QED BY <2>4, <3>1, <3>2
  <2> QED BY <2>3, <2>4
<1>9. ASSUME NEW r \in Row
      PROVE  /\ stock'[r].quantity = Opening[r] + Balance(batchDraft', ledger', r)
             /\ \A u \in Tx : Change(u, r)' = Balance(batchDraft', wrote'[u], r) + Pending(u, r)'
  <2>1. /\ stock[r].quantity = Opening[r] + Balance(batchDraft, ledger, r)
        /\ \A u \in Tx : Change(u, r) = Balance(batchDraft, wrote[u], r) + Pending(u, r)
    BY DEF Books
  <2>2. \A u \in Tx : Change(u, r)' = Change(u, r)
    BY <1>1 DEF Change
  <2>3. Change(t, r)' = Balance(batchDraft', wrote'[t], r) + Pending(t, r)'
    <3>1. Balance(batchDraft, wrote[t], r) \in Int /\ Pending(t, r) \in Int
      BY <1>2, OwnedIsInt, PendingIsInt
    <3>2. /\ Balance(batchDraft, wrote'[t], r) = Balance(batchDraft, wrote[t], r) + (IF r = s THEN -x.drawn ELSE 0)
          /\ Pending(t, r)' = Pending(t, r) + (IF r = s THEN x.drawn ELSE 0)
      BY <1>7, <1>8
    <3>3. Balance(batchDraft, wrote'[t], r) + Pending(t, r)' = Balance(batchDraft, wrote[t], r) + Pending(t, r)
      BY <1>1, <3>1, <3>2
    <3>4. Balance(batchDraft', wrote'[t], r) = Balance(batchDraft, wrote'[t], r)
      BY <1>2, <1>6
    <3> QED BY <2>1, <2>2, <3>3, <3>4
  <2>4. ASSUME NEW u \in Tx, u # t
        PROVE  Change(u, r)' = Balance(batchDraft', wrote'[u], r) + Pending(u, r)'
    <3>1. Pending(u, r)' = Pending(u, r)
      BY <1>1, <2>4 DEF Pending, Removing, Stands, Current
    <3>2. Balance(batchDraft', wrote'[u], r) = Balance(batchDraft, wrote[u], r)
      BY <1>1, <1>2, <1>6, <2>4
    <3> QED BY <2>1, <2>2, <3>1, <3>2
  <2>5. Balance(batchDraft', ledger', r) = Balance(batchDraft, ledger, r)
    BY <1>1, <1>2, <1>6
  <2>6. stock' = stock
    BY <1>1
  <2> QED BY <2>1, <2>3, <2>4, <2>5, <2>6
<1> QED BY <1>9 DEF Books

\* What the end of a transaction means for the books of the others.
LEMMA OthersGoOn ==
    ASSUME BatchTypeOK, NEW t \in Tx, Close(t), NEW u \in Tx, u # t, NEW r \in Row,
           rowHolder[r] = u => stockDraft'[r] = stockDraft[r] /\ stock'[r] = stock[r]
    PROVE  Change(u, r)' = Change(u, r) /\ Pending(u, r)' = Pending(u, r)
<1>1. /\ desk'[u] = desk[u] /\ u # NoTx
      /\ rowHolder'[r] = IF rowHolder[r] = t THEN NoTx ELSE rowHolder[r]
  BY CloseLeaves, NoTxAssumption
<1>2. Pending(u, r)' = Pending(u, r)
  BY <1>1 DEF Pending, Removing, Stands, Current
<1>3. Change(u, r)' = Change(u, r)
  BY <1>1 DEF Change
<1> QED BY <1>2, <1>3

LEMMA ClosedIsEven ==
    ASSUME BatchTypeOK, NEW t \in Tx, Close(t), NEW r \in Row, NEW rows
    PROVE  /\ Change(t, r)' = 0 /\ Pending(t, r)' = 0
           /\ Balance(rows, wrote'[t], r) = 0
<1>1. /\ desk'[t].op = "IDLE" /\ wrote'[t] = NoMovements
      /\ rowHolder'[r] # t
  BY CloseLeaves, NoTxAssumption
<1>2. Pending(t, r)' = 0
  BY <1>1 DEF Pending, Removing, Stands
<1>3. Change(t, r)' = 0
  BY <1>1 DEF Change
<1> QED BY <1>1, <1>2, <1>3, BalanceOfNone

LEMMA CommitKeepsBooks ==
    ASSUME BatchTypeOK, Stages, BatchInv, Books, BatchTypeOK', NEW t \in Tx, Commit(t)
    PROVE  Books'
<1>1. /\ Close(t) /\ desk[t].items = <<>>
      /\ \A b \in Batch : /\ ledger'.added[b] = ledger.added[b] + wrote[t].added[b]
                          /\ ledger'.drawn[b] = ledger.drawn[b] + wrote[t].drawn[b]
      /\ \A r \in Row : /\ stock'[r] = IF rowHolder[r] = t THEN stockDraft[r] ELSE stock[r]
                        /\ ledger'.sold[r] = ledger.sold[r] + wrote[t].sold[r]
      /\ batchDraft' = batchDraft /\ stockDraft' = stockDraft
  BY CommitPublishes
<1>2. ledger \in Movements /\ ledger' \in Movements /\ \A u \in Tx : wrote[u] \in Movements
  BY DEF BatchTypeOK
<1>3. ASSUME NEW r \in Row
      PROVE  /\ stock'[r].quantity = Opening[r] + Balance(batchDraft', ledger', r)
             /\ \A u \in Tx : Change(u, r)' = Balance(batchDraft', wrote'[u], r) + Pending(u, r)'
  <2>1. /\ stock[r].quantity = Opening[r] + Balance(batchDraft, ledger, r)
        /\ \A u \in Tx : Change(u, r) = Balance(batchDraft, wrote[u], r) + Pending(u, r)
    BY DEF Books
  <2>2. Pending(t, r) = 0
    BY <1>1 DEF Pending, Removing, Stands
  <2>3. Balance(batchDraft, ledger', r) = Balance(batchDraft, ledger, r) + Balance(batchDraft, wrote[t], r)
    BY <1>1, <1>2, BalanceAdds
  <2>4. /\ Balance(batchDraft, ledger, r) \in Int /\ Balance(batchDraft, wrote[t], r) \in Int
        /\ Opening[r] \in Nat /\ stock[r].quantity \in Int /\ stockDraft[r].quantity \in Int
    BY <1>2, OwnedIsInt, NumbersOf, BatchAssumption
  <2>5. stock'[r].quantity = Opening[r] + Balance(batchDraft', ledger', r)
    <3>1. CASE rowHolder[r] = t
      <4>1. Change(t, r) = stockDraft[r].quantity - stock[r].quantity /\ stock'[r] = stockDraft[r]
        BY <1>1, <3>1 DEF Change
      <4>2. stockDraft[r].quantity = Opening[r] + (Balance(batchDraft, ledger, r) + Balance(batchDraft, wrote[t], r))
        BY <2>1, <2>2, <2>4, <4>1
      <4> QED BY <1>1, <2>3, <4>1, <4>2
    <3>2. CASE rowHolder[r] # t
      <4>1. Change(t, r) = 0 /\ stock'[r] = stock[r]
        BY <1>1, <3>2 DEF Change
      <4>2. Balance(batchDraft, wrote[t], r) = 0
        BY <2>1, <2>2, <2>4, <4>1
      <4>3. Balance(batchDraft, ledger', r) = Balance(batchDraft, ledger, r)
        BY <2>3, <2>4, <4>2
      <4> QED BY <1>1, <2>1, <4>1, <4>3
    <3> QED BY <3>1, <3>2
  <2>6. Change(t, r)' = Balance(batchDraft', wrote'[t], r) + Pending(t, r)'
    BY <1>1, ClosedIsEven
  <2>7. ASSUME NEW u \in Tx, u # t
        PROVE  Change(u, r)' = Balance(batchDraft', wrote'[u], r) + Pending(u, r)'
    <3>1. wrote'[u] = wrote[u]
      BY <1>1, <2>7, CloseLeaves
    <3>2. rowHolder[r] = u => stockDraft'[r] = stockDraft[r] /\ stock'[r] = stock[r]
      BY <1>1, <2>7
    <3>3. Change(u, r)' = Change(u, r) /\ Pending(u, r)' = Pending(u, r)
      BY <1>1, <2>7, <3>2, OthersGoOn
    <3> QED BY <1>1, <2>1, <3>1, <3>3
  <2> QED BY <2>5, <2>6, <2>7
<1> QED BY <1>3 DEF Books

LEMMA RollbackKeepsBooks ==
    ASSUME BatchTypeOK, Stages, BatchInv, Books, NEW t \in Tx, Rollback(t)
    PROVE  Books'
<1>1. /\ Close(t)
      /\ \A b \in Batch : batchDraft'[b] = IF batchHolder[b] = t THEN batch[b] ELSE batchDraft[b]
      /\ \A r \in Row : stockDraft'[r] = IF rowHolder[r] = t THEN stock[r] ELSE stockDraft[r]
      /\ UNCHANGED <<stock, batch, ledger>>
  BY RollbackForgets
<1>2. ledger \in Movements /\ \A u \in Tx : wrote[u] \in Movements
  BY DEF BatchTypeOK
\* Only a batch that goes unborn again changes its row, and nothing else has
\* moved it.
<1>3. ASSUME NEW b \in Batch, batchDraft[b].row # batchDraft'[b].row
      PROVE  /\ ledger.added[b] = 0 /\ ledger.drawn[b] = 0
             /\ \A u \in Tx : u # t => wrote[u].added[b] = 0 /\ wrote[u].drawn[b] = 0
  <2>1. batchHolder[b] = t /\ batch[b] = Unborn
    BY <1>1, <1>3 DEF Numbered, BatchInv
  <2>2. ledger.added[b] = 0 /\ ledger.drawn[b] = 0
    BY <2>1, RowsAreBorn DEF Numbered, Sized, BatchInv
  <2> QED BY <2>1, <2>2 DEF OwnMoves, BatchInv
<1>4. ASSUME NEW r \in Row
      PROVE  /\ stock'[r].quantity = Opening[r] + Balance(batchDraft', ledger', r)
             /\ \A u \in Tx : Change(u, r)' = Balance(batchDraft', wrote'[u], r) + Pending(u, r)'
  <2>1. /\ stock[r].quantity = Opening[r] + Balance(batchDraft, ledger, r)
        /\ \A u \in Tx : Change(u, r) = Balance(batchDraft, wrote[u], r) + Pending(u, r)
    BY DEF Books
  <2>2. Balance(batchDraft', ledger, r) = Balance(batchDraft, ledger, r)
    <3>1. \A b \in Batch : batchDraft[b].row = batchDraft'[b].row \/ ledger.added[b] = ledger.drawn[b]
      BY <1>3
    <3> QED BY <1>2, <3>1, BalanceSame
  <2>3. Change(t, r)' = Balance(batchDraft', wrote'[t], r) + Pending(t, r)'
    BY <1>1, ClosedIsEven
  <2>4. ASSUME NEW u \in Tx, u # t
        PROVE  Change(u, r)' = Balance(batchDraft', wrote'[u], r) + Pending(u, r)'
    <3>1. wrote'[u] = wrote[u]
      BY <1>1, <2>4, CloseLeaves
    <3>2. rowHolder[r] = u => stockDraft'[r] = stockDraft[r] /\ stock'[r] = stock[r]
      BY <1>1, <2>4
    <3>3. Change(u, r)' = Change(u, r) /\ Pending(u, r)' = Pending(u, r)
      BY <1>1, <2>4, <3>2, OthersGoOn
    <3>4. Balance(batchDraft', wrote[u], r) = Balance(batchDraft, wrote[u], r)
      <4>1. \A b \in Batch : batchDraft[b].row = batchDraft'[b].row \/ wrote[u].added[b] = wrote[u].drawn[b]
        BY <1>3, <2>4
      <4> QED BY <1>2, <4>1, BalanceSame
    <3> QED BY <2>1, <3>1, <3>3, <3>4
  <2>5. stock' = stock /\ ledger' = ledger
    BY <1>1
  <2> QED BY <2>1, <2>2, <2>3, <2>4, <2>5
<1> QED BY <1>4 DEF Books
\* An intake's increment is its movement.
LEMMA StoreKeepsBooks ==
    ASSUME BatchTypeOK, Stages, BatchInv, Books, BatchTypeOK', NEW t \in Tx, Store(t)
    PROVE  Books'
<1> DEFINE i == Current(t)
           b == desk[t].at
           version == [Shifted(stockDraft[i.row], i.amount) EXCEPT !.basis = Blended(desk[t].seen, b)]
<1>1. /\ WriteRow(t, version) /\ desk[t].items # <<>> /\ Received(t)
      /\ desk[t].op = "ADD" /\ b \in Batch
      /\ wrote' = [wrote EXCEPT ![t].added[b] = i.amount]
  BY DEF Store, Stands, Received, Stages
<1>2. i.row \in Row /\ i.amount \in Nat
  BY <1>1, CurrentItem
<1>3. version.quantity = stockDraft[i.row].quantity + i.amount
  <2>1. stockDraft[i.row] \in StockRow
    BY <1>2 DEF BatchTypeOK
  <2> QED BY <1>2, <2>1 DEF Shifted, StockRow
<1>4. /\ wrote[t] \in Movements /\ wrote'[t] \in Movements
      /\ \A u \in Tx : u # t => wrote'[u] = wrote[u]
      /\ wrote[t].added \in [Batch -> Nat] /\ wrote[t].drawn \in [Batch -> Nat]
      /\ wrote'[t].added = [wrote[t].added EXCEPT ![b] = i.amount]
      /\ wrote'[t].drawn = wrote[t].drawn /\ wrote'[t].sold = wrote[t].sold
  BY <1>1 DEF BatchTypeOK, Movements
<1>5. wrote[t].added[b] = 0 /\ batchDraft[b].row = i.row
  BY <1>1 DEF Arrivals, BatchInv
<1>6. \A r \in Row : Pending(t, r) = 0
  BY <1>1 DEF Pending, Removing, Stands
<1>7. ASSUME NEW r \in Row
      PROVE  Balance(batchDraft, wrote'[t], r) = Balance(batchDraft, wrote[t], r) + Pending(t, r)
                                                 + (IF r = i.row THEN i.amount ELSE 0)
  <2> DEFINE m == wrote[t]
             w == wrote'[t]
             d == i.amount
  <2>1. Balance(batchDraft, wrote[t], r) = Balance(batchDraft, m, r) /\ Balance(batchDraft, m, r) \in Int
    BY <1>4, <1>7, OwnedIsInt
  <2>2. Balance(batchDraft, wrote'[t], r) = Balance(batchDraft, w, r)
    OBVIOUS
  <2>3. /\ m \in Movements /\ w \in Movements /\ b \in Batch /\ d \in Int /\ d \in Nat
        /\ w.sold[r] = m.sold[r] /\ w.drawn = m.drawn
        /\ m.added \in [Batch -> Nat] /\ m.drawn \in [Batch -> Nat]
        /\ w.added = [m.added EXCEPT ![b] = d] /\ m.added[b] = 0
    BY <1>1, <1>2, <1>4, <1>5
  <2> HIDE DEF m, w, b
  <2>4. (IF batchDraft[b].row = r THEN d ELSE 0) = (IF r = i.row THEN i.amount ELSE 0)
    BY <1>5
  <2> HIDE DEF d
  <2>5. ASSUME NEW c \in Batch
        PROVE  w.added[c] - w.drawn[c] = m.added[c] - m.drawn[c] + (IF c = b THEN d ELSE 0)
    <3>1. m.added[c] \in Nat /\ m.drawn[c] \in Nat /\ w.drawn[c] = m.drawn[c]
      BY <2>3
    <3>2. w.added[c] = IF c = b THEN d ELSE m.added[c]
      BY <2>3
    <3>3. CASE c = b
      BY <2>3, <3>1, <3>2, <3>3
    <3>4. CASE c # b
      BY <3>1, <3>2, <3>4
    <3> QED BY <3>3, <3>4
  <2>6. Balance(batchDraft, w, r) = Balance(batchDraft, m, r) + (IF batchDraft[b].row = r THEN d ELSE 0)
    <3>1. /\ m \in Movements /\ w \in Movements /\ b \in Batch /\ d \in Int /\ w.sold[r] = m.sold[r]
      BY <2>3
    <3>2. \A c \in Batch : w.added[c] - w.drawn[c] = m.added[c] - m.drawn[c] + (IF c = b THEN d ELSE 0)
      BY <2>5
    <3> QED BY <1>7, <3>1, <3>2, BalanceMoves
  <2>7. Balance(batchDraft, m, r) + Pending(t, r) = Balance(batchDraft, m, r)
    BY <1>6, <1>7, <2>1
  <2> QED BY <2>1, <2>2, <2>4, <2>6, <2>7
<1> DEFINE d == i.amount
<1> HIDE DEF version
<1>8. \A r \in Row : Balance(batchDraft, wrote'[t], r) = Balance(batchDraft, wrote[t], r) + Pending(t, r)
                                                         + (IF r = Current(t).row THEN d ELSE 0)
  BY <1>7 DEF d, i
<1>9. /\ desk[t].items # <<>> /\ WriteRow(t, version) /\ d \in Int
      /\ version.quantity = stockDraft[Current(t).row].quantity + d
      /\ \A u \in Tx : u # t => wrote'[u] = wrote[u]
  BY <1>1, <1>2, <1>3, <1>4 DEF d
<1> HIDE DEF d, i
<1> QED BY <1>8, <1>9, WriteKeepsBooks

\* A removal's decrement is what its draws left pending.
LEMMA TakeOffKeepsBooks ==
    ASSUME BatchTypeOK, Stages, BatchInv, Books, NEW t \in Tx, TakeOff(t)
    PROVE  Books'
<1> DEFINE i == Current(t)
           version == Shifted(stockDraft[i.row], -i.amount)
<1>1. /\ WriteRow(t, version) /\ desk[t].items # <<>> /\ wrote' = wrote
      /\ Stands(t, "REMOVE", "WRITE") /\ desk[t].touched = <<>>
  BY DEF TakeOff, Stands
<1>2. i.row \in Row /\ i.amount \in Nat /\ -i.amount \in Int
  BY <1>1, CurrentItem
<1>3. version.quantity = stockDraft[i.row].quantity + (-i.amount)
  <2>1. stockDraft[i.row] \in StockRow
    BY <1>2 DEF BatchTypeOK
  <2>2. Shifted(stockDraft[i.row], -i.amount) = [quantity |-> stockDraft[i.row].quantity + (-i.amount),
                                                 basis |-> stockDraft[i.row].basis]
    BY <1>2, <2>1, VersionTyped
  <2> QED BY <2>2
<1>4. SumFunctionOnSet(TakenBy(<<>>), Batch) = 0
  BY TakenShort, BatchesAreFinite, SumZero
<1>5. ASSUME NEW r \in Row
      PROVE  Balance(batchDraft, wrote'[t], r) = Balance(batchDraft, wrote[t], r) + Pending(t, r)
                                                 + (IF r = i.row THEN -i.amount ELSE 0)
  <2>1. Balance(batchDraft, wrote[t], r) \in Int /\ wrote'[t] = wrote[t]
    BY <1>1, <1>5, OwnedIsInt DEF BatchTypeOK
  <2>2. Pending(t, r) = IF r = i.row THEN i.amount ELSE 0
    <3>1. Removing(t, r) <=> r = i.row
      BY <1>1 DEF Removing
    <3>2. Pending(t, r) = IF r = i.row THEN i.amount - 0 ELSE 0
      BY <1>1, <1>4, <3>1 DEF Pending
    <3> QED BY <1>2, <3>2
  <2> HIDE DEF i
  <2>3. Pending(t, r) + (IF r = i.row THEN -i.amount ELSE 0) = 0
    BY <1>2, <2>2
  <2>4. Pending(t, r) \in Int
    BY <1>2, <2>2
  <2> QED BY <1>2, <2>1, <2>3, <2>4
<1> HIDE DEF version
<1> QED BY <1>1, <1>2, <1>3, <1>5, WriteKeepsBooks

\* A sale's decrement is its movement.
LEMMA SellKeepsBooks ==
    ASSUME BatchTypeOK, Stages, BatchInv, Books, BatchTypeOK', NEW t \in Tx, Sell(t)
    PROVE  Books'
<1> DEFINE i == Current(t)
           version == Shifted(stockDraft[i.row], -i.amount)
<1>1. /\ WriteRow(t, version) /\ desk[t].items # <<>> /\ desk[t].op = "SALE"
      /\ wrote' = [wrote EXCEPT ![t].sold[i.row] = @ + i.amount]
  BY DEF Sell, Stands
<1>2. i.row \in Row /\ i.amount \in Nat /\ -i.amount \in Int
  BY <1>1, CurrentItem
<1>3. version.quantity = stockDraft[i.row].quantity + (-i.amount)
  <2>1. stockDraft[i.row] \in StockRow
    BY <1>2 DEF BatchTypeOK
  <2>2. Shifted(stockDraft[i.row], -i.amount) = [quantity |-> stockDraft[i.row].quantity + (-i.amount),
                                                 basis |-> stockDraft[i.row].basis]
    BY <1>2, <2>1, VersionTyped
  <2> QED BY <2>2
<1>4. /\ wrote[t] \in Movements /\ wrote'[t] \in Movements
      /\ \A u \in Tx : u # t => wrote'[u] = wrote[u]
      /\ wrote[t].sold \in [Row -> Nat]
      /\ wrote'[t].sold = [wrote[t].sold EXCEPT ![i.row] = @ + i.amount]
      /\ wrote'[t].drawn = wrote[t].drawn /\ wrote'[t].added = wrote[t].added
  BY <1>1 DEF BatchTypeOK, Movements
<1>5. \A r \in Row : Pending(t, r) = 0
  BY <1>1 DEF Pending, Removing, Stands
<1>6. ASSUME NEW r \in Row
      PROVE  Balance(batchDraft, wrote'[t], r) = Balance(batchDraft, wrote[t], r) + Pending(t, r)
                                                 + (IF r = i.row THEN -i.amount ELSE 0)
  <2> DEFINE m == wrote[t]
             w == wrote'[t]
             d == IF r = i.row THEN i.amount ELSE 0
  <2>1. Balance(batchDraft, wrote[t], r) = Balance(batchDraft, m, r) /\ Balance(batchDraft, m, r) \in Int
    BY <1>4, <1>6, OwnedIsInt
  <2>2. Balance(batchDraft, wrote'[t], r) = Balance(batchDraft, w, r)
    OBVIOUS
  <2>3. /\ m \in Movements /\ w \in Movements /\ w.added = m.added /\ w.drawn = m.drawn
        /\ m.sold \in [Row -> Nat] /\ w.sold = [m.sold EXCEPT ![i.row] = @ + i.amount]
    BY <1>4
  <2> HIDE DEF m, w, i
  <2>4. d \in Int /\ w.sold[r] = m.sold[r] + d
    BY <1>2, <1>6, <2>3
  <2> HIDE DEF d
  <2>5. Balance(batchDraft, w, r) = Balance(batchDraft, m, r) - d
    BY <1>6, <2>3, <2>4, BalanceSells
  <2>6. /\ (IF r = i.row THEN -i.amount ELSE 0) \in Int
        /\ (IF r = i.row THEN -i.amount ELSE 0) = -d
    BY <1>2 DEF d
  <2>7. Pending(t, r) = 0
    BY <1>5, <1>6
  <2> QED BY <2>1, <2>2, <2>4, <2>5, <2>6, <2>7
<1> DEFINE d == -i.amount
<1> HIDE DEF version
<1>8. \A r \in Row : Balance(batchDraft, wrote'[t], r) = Balance(batchDraft, wrote[t], r) + Pending(t, r)
                                                         + (IF r = Current(t).row THEN d ELSE 0)
  BY <1>6 DEF d, i
<1>9. /\ desk[t].items # <<>> /\ WriteRow(t, version) /\ d \in Int
      /\ version.quantity = stockDraft[Current(t).row].quantity + d
      /\ \A u \in Tx : u # t => wrote'[u] = wrote[u]
  BY <1>1, <1>2, <1>3, <1>4 DEF d
<1> HIDE DEF d, i
<1> QED BY <1>8, <1>9, WriteKeepsBooks

\* The double entry: every unit that left or came to a row is a movement of
\* the ledger or of an open transaction, or pending in a removal.
THEOREM BooksBalance == BatchSpec => []Books
<1>1. BatchInit => Books
  <2> SUFFICES ASSUME BatchInit, NEW r \in Row
               PROVE  /\ stock[r].quantity = Opening[r] + Balance(batchDraft, ledger, r)
                      /\ \A t \in Tx : Change(t, r) = Balance(batchDraft, wrote[t], r) + Pending(t, r)
    BY DEF Books
  <2>1. /\ stock[r].quantity = Opening[r] /\ Opening[r] \in Nat /\ ledger = NoMovements
    BY BatchAssumption DEF BatchInit
  <2>2. Balance(batchDraft, NoMovements, r) = 0
    BY BalanceOfNone
  <2>3. \A t \in Tx : wrote[t] = NoMovements /\ Change(t, r) = 0 /\ Pending(t, r) = 0
    BY NoTxAssumption DEF BatchInit, Change, Pending, Removing, Stands, Idle
  <2> QED BY <2>1, <2>2, <2>3
<1>2. BatchTypeOK /\ Stages /\ BatchInv /\ Books /\ BatchTypeOK' /\ [BatchNext]_batchVars => Books'
  <2> SUFFICES ASSUME BatchTypeOK, Stages, BatchInv, Books, BatchTypeOK', [BatchNext]_batchVars
               PROVE  Books'
    OBVIOUS
  <2>1. CASE UNCHANGED batchVars
    <3>1. /\ UNCHANGED <<stock, stockDraft, rowHolder, batchDraft, ledger, wrote>>
          /\ \A t \in Tx, r \in Row : Pending(t, r)' = Pending(t, r)
      BY <2>1 DEF batchVars, Pending, Removing, Stands, Current
    <3> QED BY <3>1, QuietKeepsBooks
  <2>2. ASSUME NEW t \in Tx, NEW op, NEW items, Begin(t, op, items)
        PROVE  Books'
    BY <2>2, BeginKeepsBooks
  <2>3. ASSUME NEW t \in Tx, Receive(t)
        PROVE  Books'
    BY <2>3, ReceiveKeepsBooks
  <2>4. ASSUME NEW t \in Tx, Store(t)
        PROVE  Books'
    BY <2>4, StoreKeepsBooks
  <2>5. ASSUME NEW t \in Tx, ResolveSpecificBatch(t)
        PROVE  Books'
    <3> DEFINE x == [batch |-> Current(t).batch, drawn |-> Current(t).amount,
                     remaining |-> SeenBatches(t)[Current(t).batch].remaining]
    <3>1. /\ x \in Touch /\ Resolve(t, <<x>>) /\ Stands(t, "REMOVE", "NEXT")
          /\ SumFunctionOnSet(TakenBy(<<x>>), Batch) = Current(t).amount
      BY <2>5, PickIsRight
    <3> HIDE DEF x
    <3>2. <<x>> \in Seq(Touch)
      BY <3>1
    <3> QED BY <3>1, <3>2, ResolveKeepsBooks
  <2>6. ASSUME NEW t \in Tx, ResolveFifoBatches(t)
        PROVE  Books'
    <3> DEFINE draws == FifoDraws(SeenBatches(t), Current(t).row, Current(t).amount)
    <3>1. Stands(t, "REMOVE", "NEXT") /\ Resolve(t, draws.touched) /\ draws.left = 0 /\ desk[t].items # <<>>
      BY <2>6 DEF ResolveFifoBatches, Stands
    <3>2. AfterRound(SeenBatches(t), Current(t).row, Current(t).amount, draws, MaxBatch)
      BY <3>1, FifoTyped
    <3>3. BatchTypeOK => Current(t).amount \in Nat
      BY <3>1, CurrentItem
    <3> HIDE DEF draws
    <3>4. /\ draws.touched \in Seq(Touch) /\ Apart(draws.touched)
          /\ SumFunctionOnSet(TakenBy(draws.touched), Batch) + draws.left = Current(t).amount
      BY <3>2 DEF AfterRound
    <3>5. SumFunctionOnSet(TakenBy(draws.touched), Batch) \in Int
      <4> DEFINE f == TakenBy(draws.touched)
      <4>1. \A b \in Batch : f[b] \in Nat
        BY <3>4, TakenIsNat
      <4> HIDE DEF f
      <4>2. SumFunctionOnSet(f, Batch) \in Int
        BY <4>1, BatchesAreFinite, SumInt
      <4> QED BY <4>2 DEF f
    <3>6. SumFunctionOnSet(TakenBy(draws.touched), Batch) = Current(t).amount
      BY <3>1, <3>4, <3>5
    <3> QED BY <3>1, <3>4, <3>6, ResolveKeepsBooks
  <2>7. ASSUME NEW t \in Tx, Draw(t)
        PROVE  Books'
    BY <2>7, DrawKeepsBooks
  <2>8. ASSUME NEW t \in Tx, TakeOff(t)
        PROVE  Books'
    BY <2>8, TakeOffKeepsBooks
  <2>9. ASSUME NEW t \in Tx, Sell(t)
        PROVE  Books'
    BY <2>9, SellKeepsBooks
  <2>10. ASSUME NEW t \in Tx, Commit(t)
         PROVE  Books'
    BY <2>10, CommitKeepsBooks
  <2>11. ASSUME NEW t \in Tx, Rollback(t)
         PROVE  Books'
    BY <2>11, RollbackKeepsBooks
  <2> QED BY <2>1, <2>2, <2>3, <2>4, <2>5, <2>6, <2>7, <2>8, <2>9, <2>10, <2>11
          DEF BatchNext, BeginAdd, BeginRemove
<1> QED BY <1>1, <1>2, BatchesAreTyped, BatchesAreOwned, PTL DEF BatchSpec

\* The stock of a row is what the committed movements say, whatever raced and
\* whatever was rolled back.
THEOREM StockIsLedgerAlways == BatchSpec => []StockIsLedger
<1>1. BatchTypeOK /\ BatchInv /\ Books => StockIsLedger
  <2> SUFFICES ASSUME BatchTypeOK, BatchInv, Books
               PROVE  StockIsLedger
    OBVIOUS
  <2>1. \A b \in Batch : ledger.added[b] = batch[b].quantity
    BY DEF Sized, BatchInv
  <2>2. ASSUME NEW r \in Row
        PROVE  stock[r].quantity =
                  Opening[r] + SumFunctionOnSet(ledger.added, OwnBatches(r))
                             - SumFunctionOnSet(ledger.drawn, OwnBatches(r)) - ledger.sold[r]
    <3> DEFINE own == OwnBatches(r)
               f == Owned(batch, ledger, r)
               g == ledger.added
               h == ledger.drawn
    <3>1. Balance(batchDraft, ledger, r) = Balance(batch, ledger, r)
      <4>1. ASSUME NEW b \in Batch
            PROVE  batch[b].row = batchDraft[b].row \/ ledger.added[b] = ledger.drawn[b]
        <5>1. CASE batch[b] = Unborn
          BY <2>1, <5>1, RowsAreBorn DEF Numbered, BatchInv
        <5>2. CASE batch[b] # Unborn
          BY <5>2 DEF Numbered, BatchInv
        <5> QED BY <5>1, <5>2
      <4> QED BY <2>2, <4>1, BalanceSame DEF BatchTypeOK
    <3>2. /\ Balance(batch, ledger, r) = SumFunctionOnSet(f, Batch) - ledger.sold[r]
          /\ \A b \in Batch : /\ f[b] \in Int
                              /\ f[b] = IF batch[b].row = r THEN g[b] - h[b] ELSE 0
          /\ ledger.sold[r] \in Nat
      BY <2>2, OwnedIsInt DEF BatchTypeOK
    <3>3. own \subseteq Batch /\ \A b \in Batch : b \in own <=> batch[b].row = r
      BY <2>2, BatchAssumption, OwnBatchesNameTheRow
    <3>4. \A b \in Batch : g[b] \in Nat /\ h[b] \in Nat
      BY NumbersOf
    <3>5. stock[r].quantity = Opening[r] + Balance(batchDraft, ledger, r) /\ Opening[r] \in Nat
      BY <2>2, BatchAssumption DEF Books
    <3> HIDE DEF own, f, g, h
    <3>6. IsFiniteSet(own)
      BY <3>3, BatchesAreFinite, FS_Subset
    <3>7. SumFunctionOnSet(f, Batch) = SumFunctionOnSet(f, own)
      BY <3>2, <3>3, BatchesAreFinite, SumSupport
    <3>8. \A b \in own : f[b] \in Int /\ h[b] \in Int /\ g[b] = f[b] + h[b]
      BY <3>2, <3>3, <3>4
    <3>9. SumFunctionOnSet(g, own) = SumFunctionOnSet(f, own) + SumFunctionOnSet(h, own)
      BY <3>6, <3>8, SumAdd
    <3>10. SumFunctionOnSet(f, own) \in Int /\ SumFunctionOnSet(h, own) \in Int
      BY <3>6, <3>8, SumInt
    <3>11. stock[r].quantity = Opening[r] + SumFunctionOnSet(g, own) - SumFunctionOnSet(h, own) - ledger.sold[r]
      BY <3>1, <3>2, <3>5, <3>7, <3>9, <3>10
    <3> QED BY <3>11 DEF own, g, h
  <2> QED BY <2>1, <2>2 DEF StockIsLedger
<1> QED BY <1>1, BatchesAreTyped, BatchesAreOwned, BooksBalance, PTL
-----------------------------------------------------------------------------
(* What an intake weighs.                                                  *)

\* A batch that t has booked is t's draft, and so is its row.
LEMMA BookedIsHeld ==
    ASSUME BatchTypeOK, BatchInv, Weighing, NEW t \in Tx, NEW b \in Batch, wrote[t].added[b] # 0
    PROVE  /\ batchHolder[b] = t /\ batchDraft[b].row \in Row /\ rowHolder[batchDraft[b].row] = t
           /\ desk[t].op = "ADD"
           /\ b \in stockDraft[batchDraft[b].row].basis /\ stockDraft[batchDraft[b].row].quantity > 0
<1>1. batchHolder[b] = t /\ t # NoTx
  BY NoTxAssumption DEF OwnMoves, BatchInv
<1> QED BY <1>1 DEF Numbered, OwnMoves, BatchInv, Weighing

\* Steps that touch no stock and book nothing.
LEMMA QuietKeepsWeighing ==
    ASSUME BatchTypeOK, BatchInv, Weighing, UNCHANGED <<stock, stockDraft, rowHolder>>,
           \A t \in Tx, b \in Batch : wrote'[t].added[b] # 0 =>
               wrote[t].added[b] # 0 /\ batchDraft'[b].row = batchDraft[b].row,
           \A t \in Tx : Received(t)' /\ rowHolder[Current(t)'.row] = t =>
               desk'[t].seen = stockDraft[Current(t)'.row]
    PROVE  Weighing'
<1>1. ASSUME NEW t \in Tx, NEW b \in Batch, wrote'[t].added[b] # 0
      PROVE  /\ rowHolder[batchDraft'[b].row] = t
             /\ b \in stockDraft[batchDraft'[b].row].basis
             /\ stockDraft[batchDraft'[b].row].quantity > 0
  BY <1>1, BookedIsHeld
<1> QED BY <1>1 DEF Weighing

LEMMA ReceiveKeepsWeighing ==
    ASSUME BatchTypeOK, Stages, BatchInv, Weighing, NEW t \in Tx, Receive(t)
    PROVE  Weighing'
<1> DEFINE b == lastBatch + 1
<1>1. b \in Batch /\ \A u \in Tx : wrote[u].added[b] = 0
  BY NextIsFresh DEF Receive
<1>2. /\ \A c \in Batch : c # b => batchDraft'[c] = batchDraft[c]
      /\ UNCHANGED <<stock, stockDraft, rowHolder, wrote>>
      /\ desk'[t].items = desk[t].items /\ desk'[t].seen = SeenStock(t)[Current(t).row]
      /\ desk[t].items # <<>>
      /\ \A u \in Tx : u # t => desk'[u] = desk[u]
  <2>1. \A c \in Batch : c # b => batchDraft'[c] = batchDraft[c]
    BY DEF Receive, BatchTypeOK
  <2>2. /\ desk'[t] = [desk[t] EXCEPT !.stage = "WRITE", !.at = b, !.seen = ReadForCost(t, Current(t).row)]
        /\ desk[t] \in Request /\ desk[t].items # <<>>
        /\ \A u \in Tx : u # t => desk'[u] = desk[u]
    BY DEF Receive, BatchTypeOK, Stands
  <2>3. desk'[t].items = desk[t].items /\ desk'[t].seen = SeenStock(t)[Current(t).row]
    BY <2>2 DEF Request, ReadForCost
  <2> QED BY <2>1, <2>2, <2>3 DEF Receive, stockTable
<1> HIDE DEF b
<1>3. ASSUME NEW u \in Tx, Received(u)', rowHolder[Current(u)'.row] = u
      PROVE  desk'[u].seen = stockDraft[Current(u)'.row]
  <2>1. CASE u = t
    <3>1. Current(t)' = Current(t) /\ Current(t).row \in Row
      BY <1>2, CurrentItem DEF Current
    <3>2. SeenStock(t)[Current(t).row] = stockDraft[Current(t).row]
      BY <1>3, <2>1, <3>1 DEF SeenStock, View, BatchTypeOK
    <3> QED BY <1>2, <2>1, <3>1, <3>2
  <2>2. CASE u # t
    <3>1. Received(u) /\ Current(u)' = Current(u) /\ desk'[u] = desk[u]
      BY <1>2, <1>3, <2>2 DEF Received, Stands, Current
    <3> QED BY <1>3, <3>1 DEF Weighing
  <2> QED BY <2>1, <2>2
<1>4. \A u \in Tx, c \in Batch : wrote'[u].added[c] # 0 =>
         wrote[u].added[c] # 0 /\ batchDraft'[c].row = batchDraft[c].row
  BY <1>1, <1>2
<1> QED BY <1>2, <1>3, <1>4, QuietKeepsWeighing

\* A row's new version: it weighs what t has booked of the row.
LEMMA WriteKeepsWeighing ==
    ASSUME BatchTypeOK, BatchInv, Weighing, NEW t \in Tx, desk[t].items # <<>>,
           NEW version, WriteRow(t, version), version.quantity >= 0,
           \A u \in Tx : u # t => wrote'[u] = wrote[u],
           \A b \in Batch : wrote'[t].added[b] # 0 =>
               /\ wrote[t].added[b] # 0 \/ batchDraft[b].row = Current(t).row
               /\ batchDraft[b].row = Current(t).row => b \in version.basis /\ version.quantity > 0
    PROVE  Weighing'
<1> DEFINE s == Current(t).row
<1>1. s \in Row /\ t # NoTx
  BY CurrentItem, NoTxAssumption
<1>2. /\ rowHolder[s] \in {NoTx, t}
      /\ stockDraft'[s] = version /\ rowHolder'[s] = t
      /\ \A r \in Row : r # s => stockDraft'[r] = stockDraft[r] /\ rowHolder'[r] = rowHolder[r]
  BY <1>1 DEF WriteRow, Free, Lock, BatchTypeOK
<1>3. /\ desk'[t].stage = "NEXT"
      /\ \A u \in Tx : u # t => desk'[u] = desk[u]
      /\ UNCHANGED <<stock, batchDraft>>
  <2>1. desk'[t].stage = "NEXT" /\ \A u \in Tx : u # t => desk'[u] = desk[u]
    BY DEF WriteRow, Idle, BatchTypeOK
  <2> QED BY <2>1 DEF WriteRow, batchTable
<1>4. \A r \in Row : stock'[r].quantity >= 0 /\ stockDraft'[r].quantity >= 0
  BY <1>2, <1>3 DEF Weighing
<1>5. ASSUME NEW u \in Tx, NEW b \in Batch, wrote'[u].added[b] # 0
      PROVE  /\ rowHolder'[batchDraft[b].row] = u
             /\ b \in stockDraft'[batchDraft[b].row].basis
             /\ stockDraft'[batchDraft[b].row].quantity > 0
  <2>1. CASE u = t
    <3>1. CASE batchDraft[b].row = s
      BY <1>2, <1>5, <2>1, <3>1
    <3>2. CASE batchDraft[b].row # s
      <4>1. wrote[t].added[b] # 0
        BY <1>5, <2>1, <3>2
      <4> QED BY <1>2, <2>1, <3>2, <4>1, BookedIsHeld
    <3> QED BY <3>1, <3>2
  <2>2. CASE u # t
    <3>1. /\ batchDraft[b].row \in Row /\ rowHolder[batchDraft[b].row] = u
          /\ b \in stockDraft[batchDraft[b].row].basis /\ stockDraft[batchDraft[b].row].quantity > 0
      BY <1>5, <2>2, BookedIsHeld
    <3>2. batchDraft[b].row # s
      BY <1>2, <2>2, <3>1, NoTxAssumption
    <3> QED BY <1>2, <3>1, <3>2
  <2> QED BY <2>1, <2>2
<1>6. ASSUME NEW u \in Tx, Received(u)', rowHolder'[Current(u)'.row] = u
      PROVE  desk'[u].seen = stockDraft'[Current(u)'.row]
  <2>1. u # t
    BY <1>3, <1>6 DEF Received, Stands
  <2>2. Received(u) /\ Current(u)' = Current(u) /\ desk'[u] = desk[u] /\ desk[u].items # <<>>
    BY <1>3, <1>6, <2>1 DEF Received, Stands, Current
  <2>3. Current(u).row \in Row
    BY <2>2, CurrentItem
  <2>4. Current(u).row # s
    BY <1>2, <1>6, <2>1, <2>2
  <2> QED BY <1>2, <1>6, <2>2, <2>3, <2>4 DEF Weighing
<1> QED BY <1>3, <1>4, <1>5, <1>6 DEF Weighing

\* An intake that finds its row drafted by itself has read that draft.
LEMMA StoreKeepsWeighing ==
    ASSUME BatchTypeOK, Stages, BatchInv, Weighing, NEW t \in Tx, Store(t)
    PROVE  Weighing'
<1> DEFINE i == Current(t)
           b == desk[t].at
           version == [Shifted(stockDraft[i.row], i.amount) EXCEPT !.basis = Blended(desk[t].seen, b)]
<1>1. /\ WriteRow(t, version) /\ desk[t].items # <<>> /\ Received(t)
      /\ desk[t].op = "ADD" /\ b \in Batch
      /\ wrote' = [wrote EXCEPT ![t].added[b] = i.amount]
  BY DEF Store, Stands, Received, Stages
<1>2. i.row \in Row /\ i.amount \in Nat /\ i.amount > 0
  BY <1>1, CurrentItem
<1>3. /\ version.quantity = stockDraft[i.row].quantity + i.amount
      /\ version.basis = Blended(desk[t].seen, b)
  <2>1. stockDraft[i.row] \in StockRow
    BY <1>2 DEF BatchTypeOK
  <2> QED BY <1>2, <2>1 DEF Shifted, StockRow
<1>4. /\ \A u \in Tx : u # t => wrote'[u] = wrote[u]
      /\ \A c \in Batch : c # b => wrote'[t].added[c] = wrote[t].added[c]
  BY <1>1 DEF BatchTypeOK, Movements
<1>5. batchDraft[b].row = i.row
  BY <1>1 DEF Arrivals, BatchInv
<1>6. version.quantity > 0
  <2>1. stockDraft[i.row].quantity \in Int /\ stockDraft[i.row].quantity >= 0
    BY <1>2, NumbersOf DEF Weighing
  <2> HIDE DEF version, i
  <2> QED BY <1>2, <1>3, <2>1
<1>7. b \in version.basis
  BY <1>3 DEF Blended
<1>8. ASSUME NEW c \in Batch, wrote'[t].added[c] # 0
      PROVE  /\ wrote[t].added[c] # 0 \/ batchDraft[c].row = i.row
             /\ batchDraft[c].row = i.row => c \in version.basis /\ version.quantity > 0
  <2>1. CASE c = b
    BY <1>5, <1>6, <1>7, <2>1
  <2>2. CASE c # b
    <3>1. wrote[t].added[c] # 0
      BY <1>4, <1>8, <2>2
    <3>2. ASSUME batchDraft[c].row = i.row
          PROVE  c \in version.basis
      <4>1. rowHolder[i.row] = t /\ c \in stockDraft[i.row].basis /\ stockDraft[i.row].quantity > 0
        BY <3>1, <3>2, BookedIsHeld
      <4>2. desk[t].seen = stockDraft[i.row]
        BY <1>1, <4>1 DEF Weighing
      <4>3. stockDraft[i.row].quantity # 0
        BY <1>2, <4>1, NumbersOf
      <4> QED BY <1>3, <4>1, <4>2, <4>3 DEF Blended
    <3> QED BY <1>6, <3>1, <3>2
  <2> QED BY <2>1, <2>2
<1>9. version.quantity >= 0
  <2>1. stockDraft[i.row].quantity \in Int
    BY <1>2, NumbersOf
  <2> HIDE DEF version, i
  <2> QED BY <1>2, <1>3, <1>6, <2>1
<1> HIDE DEF version
<1>10. \A c \in Batch : wrote'[t].added[c] # 0 =>
          /\ wrote[t].added[c] # 0 \/ batchDraft[c].row = Current(t).row
          /\ batchDraft[c].row = Current(t).row => c \in version.basis /\ version.quantity > 0
  BY <1>8
<1> QED BY <1>1, <1>4, <1>9, <1>10, WriteKeepsWeighing

\* Removals and sales have booked no intake.
LEMMA DecrementKeepsWeighing ==
    ASSUME BatchTypeOK, Stages, BatchInv, Weighing, NEW t \in Tx, desk[t].op # "ADD", desk[t].items # <<>>,
           NEW version, WriteRow(t, version), version.quantity >= 0,
           \A u \in Tx : u # t => wrote'[u] = wrote[u],
           wrote'[t].added = wrote[t].added
    PROVE  Weighing'
<1>1. \A b \in Batch : wrote'[t].added[b] = 0
  BY BookedIsHeld
<1> QED BY <1>1, WriteKeepsWeighing

LEMMA CommitKeepsWeighing ==
    ASSUME BatchTypeOK, Stages, BatchInv, Weighing, NEW t \in Tx, Commit(t)
    PROVE  Weighing'
<1>1. /\ Close(t)
      /\ \A r \in Row : stock'[r] = IF rowHolder[r] = t THEN stockDraft[r] ELSE stock[r]
      /\ batchDraft' = batchDraft /\ stockDraft' = stockDraft
  BY CommitPublishes
<1>2. /\ \A u \in Tx : u # t => /\ desk'[u] = desk[u] /\ wrote'[u] = wrote[u]
                                /\ Received(u)' = Received(u) /\ Current(u)' = Current(u)
      /\ \A b \in Batch : wrote'[t].added[b] = 0
      /\ \A r \in Row : rowHolder'[r] = IF rowHolder[r] = t THEN NoTx ELSE rowHolder[r]
      /\ ~Received(t)'
  BY <1>1, CloseLeaves
<1>3. \A r \in Row : stock'[r].quantity >= 0 /\ stockDraft'[r].quantity >= 0
  BY <1>1 DEF Weighing
<1>4. ASSUME NEW u \in Tx, NEW b \in Batch, wrote'[u].added[b] # 0
      PROVE  /\ rowHolder'[batchDraft[b].row] = u
             /\ b \in stockDraft[batchDraft[b].row].basis
             /\ stockDraft[batchDraft[b].row].quantity > 0
  <2>1. u # t /\ wrote[u].added[b] # 0
    BY <1>2, <1>4
  <2> QED BY <1>2, <2>1, BookedIsHeld
<1>5. ASSUME NEW u \in Tx, Received(u)', rowHolder'[Current(u)'.row] = u
      PROVE  desk'[u].seen = stockDraft[Current(u)'.row]
  <2>1. u # t /\ u # NoTx
    BY <1>2, <1>5, NoTxAssumption
  <2>2. Received(u) /\ Current(u)' = Current(u) /\ desk'[u] = desk[u] /\ desk[u].items # <<>>
    BY <1>2, <1>5, <2>1 DEF Received, Stands
  <2>3. Current(u).row \in Row
    BY <2>2, CurrentItem
  <2>4. rowHolder[Current(u).row] = u
    BY <1>2, <1>5, <2>1, <2>2, <2>3
  <2> QED BY <2>2, <2>4 DEF Weighing
<1> QED BY <1>1, <1>3, <1>4, <1>5 DEF Weighing

LEMMA RollbackKeepsWeighing ==
    ASSUME BatchTypeOK, Stages, BatchInv, Weighing, NEW t \in Tx, Rollback(t)
    PROVE  Weighing'
<1>1. /\ Close(t)
      /\ \A b \in Batch : batchDraft'[b] = IF batchHolder[b] = t THEN batch[b] ELSE batchDraft[b]
      /\ \A r \in Row : stockDraft'[r] = IF rowHolder[r] = t THEN stock[r] ELSE stockDraft[r]
      /\ stock' = stock
  BY RollbackForgets
<1>2. /\ \A u \in Tx : u # t => /\ desk'[u] = desk[u] /\ wrote'[u] = wrote[u]
                                /\ Received(u)' = Received(u) /\ Current(u)' = Current(u)
      /\ \A b \in Batch : wrote'[t].added[b] = 0
      /\ \A r \in Row : rowHolder'[r] = IF rowHolder[r] = t THEN NoTx ELSE rowHolder[r]
      /\ ~Received(t)'
  BY <1>1, CloseLeaves
<1>3. \A r \in Row : stock'[r].quantity >= 0 /\ stockDraft'[r].quantity >= 0
  BY <1>1 DEF Weighing
<1>4. ASSUME NEW u \in Tx, NEW b \in Batch, wrote'[u].added[b] # 0
      PROVE  /\ rowHolder'[batchDraft'[b].row] = u
             /\ b \in stockDraft'[batchDraft'[b].row].basis
             /\ stockDraft'[batchDraft'[b].row].quantity > 0
  <2>1. u # t /\ wrote[u].added[b] # 0
    BY <1>2, <1>4
  <2>2. /\ batchHolder[b] = u /\ batchDraft[b].row \in Row /\ rowHolder[batchDraft[b].row] = u
        /\ b \in stockDraft[batchDraft[b].row].basis /\ stockDraft[batchDraft[b].row].quantity > 0
    BY <2>1, BookedIsHeld
  <2>3. batchDraft'[b] = batchDraft[b]
    BY <1>1, <2>1, <2>2
  <2> QED BY <1>1, <1>2, <2>1, <2>2, <2>3
<1>5. ASSUME NEW u \in Tx, Received(u)', rowHolder'[Current(u)'.row] = u
      PROVE  desk'[u].seen = stockDraft'[Current(u)'.row]
  <2>1. u # t /\ u # NoTx
    BY <1>2, <1>5, NoTxAssumption
  <2>2. Received(u) /\ Current(u)' = Current(u) /\ desk'[u] = desk[u] /\ desk[u].items # <<>>
    BY <1>2, <1>5, <2>1 DEF Received, Stands
  <2>3. Current(u).row \in Row
    BY <2>2, CurrentItem
  <2>4. rowHolder[Current(u).row] = u
    BY <1>2, <1>5, <2>1, <2>2, <2>3
  <2>5. stockDraft'[Current(u).row] = stockDraft[Current(u).row]
    BY <1>1, <2>1, <2>3, <2>4
  <2> QED BY <2>2, <2>4, <2>5 DEF Weighing
<1> QED BY <1>3, <1>4, <1>5 DEF Weighing

\* An intake reads what it has itself written of the row before it writes the
\* next version, so none of its deliveries is dropped from the average.
THEOREM IntakesAreWeighed == BatchSpec => []Weighing
<1>1. BatchInit => Weighing
  <2> SUFFICES ASSUME BatchInit
               PROVE  Weighing
    OBVIOUS
  <2>1. \A r \in Row : stock[r].quantity >= 0 /\ stockDraft[r].quantity >= 0
    BY BatchAssumption DEF BatchInit
  <2>2. /\ \A t \in Tx, b \in Batch : wrote[t].added[b] = 0
        /\ \A t \in Tx : ~Received(t)
    BY DEF BatchInit, NoMovements, Received, Stands, Idle
  <2> QED BY <2>1, <2>2 DEF Weighing
<1>2. BatchTypeOK /\ Stages /\ BatchInv /\ Weighing /\ [BatchNext]_batchVars => Weighing'
  <2> SUFFICES ASSUME BatchTypeOK, Stages, BatchInv, Weighing, [BatchNext]_batchVars
               PROVE  Weighing'
    OBVIOUS
  <2>1. CASE UNCHANGED batchVars
    BY <2>1 DEF batchVars, Weighing, Received, Stands, Current
  <2>2. ASSUME UNCHANGED <<stock, stockDraft, rowHolder, batchDraft, wrote>>, NEW t \in Tx,
               desk'[t].stage = "NEXT" \/ desk'[t].op = "REMOVE",
               \A u \in Tx : u # t => desk'[u] = desk[u]
        PROVE  Weighing'
    <3>1. ASSUME NEW u \in Tx, Received(u)', rowHolder[Current(u)'.row] = u
          PROVE  desk'[u].seen = stockDraft[Current(u)'.row]
      <4>1. u # t
        BY <2>2, <3>1 DEF Received, Stands
      <4>2. Received(u) /\ Current(u)' = Current(u) /\ desk'[u] = desk[u]
        BY <2>2, <3>1, <4>1 DEF Received, Stands, Current
      <4> QED BY <3>1, <4>2 DEF Weighing
    <3> QED BY <2>2, <3>1, QuietKeepsWeighing
  <2>3. ASSUME NEW t \in Tx, NEW op, NEW items, Begin(t, op, items)
        PROVE  Weighing'
    <3>1. /\ UNCHANGED <<stock, stockDraft, rowHolder, batchDraft, wrote>>
          /\ desk'[t].stage = "NEXT" /\ \A u \in Tx : u # t => desk'[u] = desk[u]
      BY <2>3 DEF Begin, stockTable, batchTable, Idle, BatchTypeOK
    <3> QED BY <2>2, <3>1
  <2>4. ASSUME NEW t \in Tx, Receive(t)
        PROVE  Weighing'
    BY <2>4, ReceiveKeepsWeighing
  <2>5. ASSUME NEW t \in Tx, Store(t)
        PROVE  Weighing'
    BY <2>5, StoreKeepsWeighing
  <2>6. ASSUME NEW t \in Tx, NEW touched, Stands(t, "REMOVE", "NEXT"), Resolve(t, touched)
        PROVE  Weighing'
    <3>1. /\ UNCHANGED <<stock, stockDraft, rowHolder, batchDraft, wrote>>
          /\ desk'[t].op = "REMOVE" /\ \A u \in Tx : u # t => desk'[u] = desk[u]
      <4>1. desk'[t] = [desk[t] EXCEPT !.stage = "WRITE", !.touched = touched] /\ desk[t] \in Request
        BY <2>6 DEF Resolve, BatchTypeOK
      <4>2. desk'[t].op = "REMOVE"
        BY <2>6, <4>1 DEF Request, Stands
      <4> QED BY <2>6, <4>2 DEF Resolve, stockTable, batchTable, BatchTypeOK
    <3> QED BY <2>2, <3>1
  <2>7. ASSUME NEW t \in Tx, Draw(t)
        PROVE  Weighing'
    <3>1. /\ \A c \in Batch : batchDraft'[c].row = batchDraft[c].row
          /\ desk'[t].op = "REMOVE"
          /\ \A u \in Tx : u # t => desk'[u] = desk[u] /\ wrote'[u] = wrote[u]
          /\ wrote'[t].added = wrote[t].added
          /\ UNCHANGED <<stock, stockDraft, rowHolder>>
      BY <2>7, DrawChanges
    <3>2. ASSUME NEW u \in Tx, Received(u)', rowHolder[Current(u)'.row] = u
          PROVE  desk'[u].seen = stockDraft[Current(u)'.row]
      <4>1. u # t
        BY <3>1, <3>2 DEF Received, Stands
      <4>2. Received(u) /\ Current(u)' = Current(u) /\ desk'[u] = desk[u]
        BY <3>1, <3>2, <4>1 DEF Received, Stands, Current
      <4> QED BY <3>2, <4>2 DEF Weighing
    <3>3. \A u \in Tx, b \in Batch : wrote'[u].added[b] # 0 =>
             wrote[u].added[b] # 0 /\ batchDraft'[b].row = batchDraft[b].row
      BY <3>1
    <3> QED BY <3>1, <3>2, <3>3, QuietKeepsWeighing
  <2>8. ASSUME NEW t \in Tx, TakeOff(t)
        PROVE  Weighing'
    <3> DEFINE version == Shifted(stockDraft[Current(t).row], -Current(t).amount)
    <3>1. /\ WriteRow(t, version) /\ desk[t].op # "ADD" /\ desk[t].items # <<>> /\ wrote' = wrote
          /\ version.quantity >= 0
      BY <2>8 DEF TakeOff, Stands, PassesCheck
    <3> HIDE DEF version
    <3> QED BY <3>1, DecrementKeepsWeighing
  <2>9. ASSUME NEW t \in Tx, Sell(t)
        PROVE  Weighing'
    <3> DEFINE i == Current(t)
               version == Shifted(stockDraft[i.row], -i.amount)
    <3>1. /\ WriteRow(t, version) /\ desk[t].op # "ADD" /\ desk[t].items # <<>>
          /\ stockDraft[i.row].quantity >= i.amount
      BY <2>9 DEF Sell, Stands
    <3>2. /\ \A u \in Tx : u # t => wrote'[u] = wrote[u]
          /\ wrote'[t].added = wrote[t].added
      BY <2>9 DEF Sell, BatchTypeOK, Movements
    <3>3. version.quantity >= 0
      <4>1. i.row \in Row /\ i.amount \in Nat /\ -i.amount \in Int /\ stockDraft[i.row] \in StockRow
        BY <3>1, CurrentItem DEF BatchTypeOK
      <4>2. version = [quantity |-> stockDraft[i.row].quantity + (-i.amount), basis |-> stockDraft[i.row].basis]
        BY <4>1, VersionTyped
      <4>3. stockDraft[i.row].quantity \in Int
        BY <4>1, NumbersOf
      <4>4. version.quantity = stockDraft[i.row].quantity + (-i.amount)
        BY <4>2
      <4> HIDE DEF version, i
      <4> QED BY <3>1, <4>1, <4>3, <4>4
    <3> HIDE DEF version
    <3> QED BY <3>1, <3>2, <3>3, DecrementKeepsWeighing
  <2>10. ASSUME NEW t \in Tx, Commit(t)
         PROVE  Weighing'
    BY <2>10, CommitKeepsWeighing
  <2>11. ASSUME NEW t \in Tx, Rollback(t)
         PROVE  Weighing'
    BY <2>11, RollbackKeepsWeighing
  <2> QED BY <2>1, <2>3, <2>4, <2>5, <2>6, <2>7, <2>8, <2>9, <2>10, <2>11
          DEF BatchNext, BeginAdd, BeginRemove, ResolveSpecificBatch, ResolveFifoBatches
<1> QED BY <1>1, <1>2, BatchesAreTyped, BatchesAreOwned, PTL DEF BatchSpec

\* A delivery weighs in the cost price of its row as soon as it is committed.
THEOREM IntakesWeighAlways == BatchSpec => IntakesWeigh
<1> DEFINE Weighs == \A b \in Batch : ledger.added[b] # ledger'.added[b] =>
                        b \in stock'[batch'[b].row].basis
<1>1. BatchTypeOK /\ BatchInv /\ Weighing /\ [BatchNext]_batchVars => [Weighs]_batchVars
  <2> SUFFICES ASSUME BatchTypeOK, BatchInv, Weighing, [BatchNext]_batchVars, ledger' # ledger
               PROVE  Weighs
    BY DEF batchVars
  <2>1. PICK t \in Tx : Commit(t)
    <3>1. BatchNext
      BY DEF batchVars
    <3> QED BY <3>1 DEF BatchNext, BeginAdd, BeginRemove, Begin, Receive, Store, ResolveSpecificBatch,
               ResolveFifoBatches, Resolve, Draw, TakeOff, Sell, WriteRow, Rollback
  <2>2. ASSUME NEW b \in Batch, ledger.added[b] # ledger'.added[b]
        PROVE  b \in stock'[batch'[b].row].basis
    <3>1. /\ batch'[b] = IF batchHolder[b] = t THEN batchDraft[b] ELSE batch[b]
          /\ ledger'.added[b] = ledger.added[b] + wrote[t].added[b]
          /\ \A r \in Row : stock'[r] = IF rowHolder[r] = t THEN stockDraft[r] ELSE stock[r]
      BY <2>1, CommitPublishes
    <3>2. wrote[t].added[b] # 0
      BY <2>2, <3>1, NumbersOf
    <3>3. /\ batchHolder[b] = t /\ batchDraft[b].row \in Row /\ rowHolder[batchDraft[b].row] = t
          /\ b \in stockDraft[batchDraft[b].row].basis
      BY <3>2, BookedIsHeld
    <3> QED BY <3>1, <3>3
  <2> QED BY <2>2
<1> QED BY <1>1, BatchesAreTyped, BatchesAreOwned, IntakesAreWeighed, PTL DEF BatchSpec, IntakesWeigh
=============================================================================
