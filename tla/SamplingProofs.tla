--------------------------- MODULE SamplingProofs ---------------------------
(***************************************************************************)
(* What the counters and the scaling decision keep for any number of       *)
(* goroutines, any word size and any configuration.                        *)
(*                                                                         *)
(* What happens between two ticks is bounded, not what happens over the    *)
(* life of the client: that no counter overflows rests on each reading     *)
(* taking off what was there when it was loaded.  What is left is the      *)
(* waits under way at that time and what came since (WordSound,            *)
(* AmountSound), and a load under way takes no more than is there, so that *)
(* no subtraction borrows.                                                 *)
(*                                                                         *)
(* The evaluation keeps what it needs of the samples: how long the last    *)
(* streak is (Streak), and the last samples in a ring with their sum       *)
(* (Ring), which does not overflow because every reading is bounded.       *)
(***************************************************************************)
EXTENDS Sampling, FiniteSetTheorems, TLAPS

LEMMA Division ==
    ASSUME NEW x \in Nat, NEW y \in Nat \ {0}
    PROVE  /\ x \div y \in Nat /\ x % y \in 0..(y - 1)
           /\ x = (x \div y) * y + (x % y)
<1>1. x \div y \in Nat /\ x % y \in 0..(y - 1)
  OBVIOUS
<1>2. x = (x \div y) * y + (x % y)
  OBVIOUS
<1> QED
  BY <1>1, <1>2

USE ConfigAssumption, BoundsAssumption DEF ConfigAssumption, BoundsAssumption

-----------------------------------------------------------------------------
(* Sums *)

\* The members of the set whose size is the sum.
Units(f, S) == {u \in S \X (1..Full) : u[2] <= f[u[1]]}

LEMMA FullType == Full \in Nat \ {0} /\ Half <= Full
  BY DEF Full

LEMMA TotalType ==
    ASSUME NEW S, IsFiniteSet(S), NEW f
    PROVE  /\ IsFiniteSet(Units(f, S)) /\ Total(f, S) \in Nat
           /\ Total(f, S) = Cardinality(Units(f, S))
<1>1. 1 \in Int /\ Full \in Int
  BY FullType
<1>2. IsFiniteSet(1..Full)
  BY <1>1, FS_Interval, ZenonT(20)
<1>3. IsFiniteSet(S \X (1..Full))
  BY <1>2, FS_Product
<1>4. Units(f, S) \subseteq S \X (1..Full)
  BY DEF Units
<1>5. IsFiniteSet(Units(f, S))
  BY <1>3, <1>4, FS_Subset
<1>6. Total(f, S) = Cardinality(Units(f, S))
  BY DEF Total, Units
<1> QED
  BY <1>5, <1>6, FS_CardinalityType

\* The sum depends only on the values of the function on the set.
LEMMA TotalSame ==
    ASSUME NEW S, NEW f, NEW h, \A x \in S : f[x] = h[x]
    PROVE  Total(f, S) = Total(h, S)
  BY DEF Total

LEMMA TotalEmpty == \A f : Total(f, {}) = 0
<1>1. ASSUME NEW f PROVE Total(f, {}) = 0
  <2>1. Units(f, {}) = {}
    BY DEF Units
  <2>2. Total(f, {}) = Cardinality(Units(f, {}))
    BY DEF Total, Units
  <2> QED
    BY <2>1, <2>2, FS_EmptySet
<1> QED
  BY <1>1

\* The units of one member.
LEMMA ColumnSize ==
    ASSUME NEW x, NEW n \in 0..Full
    PROVE  IsFiniteSet({x} \X (1..n)) /\ Cardinality({x} \X (1..n)) = n
<1>1. 1 \in Int /\ n \in Int
  BY FullType
<1>2. IsFiniteSet(1..n)
  BY <1>1, FS_Interval, ZenonT(20)
<1>3. Cardinality(1..n) = n
  BY <1>1, FullType, FS_Interval
<1>4. IsFiniteSet({x}) /\ Cardinality({x}) = 1
  BY FS_Singleton
<1>5. /\ IsFiniteSet({x} \X (1..n))
      /\ Cardinality({x} \X (1..n)) = Cardinality({x}) * Cardinality(1..n)
  BY <1>2, <1>4, FS_Product
<1> QED
  BY <1>1, <1>3, <1>4, <1>5

\* A new member adds its value.
LEMMA TotalAdd ==
    ASSUME NEW S, IsFiniteSet(S), NEW x, x \notin S, NEW f, f[x] \in 0..Full
    PROVE  Total(f, S \cup {x}) = Total(f, S) + f[x]
<1> DEFINE column == {x} \X (1..f[x])
<1>1. IsFiniteSet(S \cup {x})
  BY FS_AddElement
<1>2. Units(f, S \cup {x}) = Units(f, S) \cup column
  BY FullType DEF Units
<1>3. Units(f, S) \cap column = {}
  BY DEF Units
<1>4. IsFiniteSet(column) /\ Cardinality(column) = f[x]
  BY ColumnSize
<1>5. /\ IsFiniteSet(Units(f, S)) /\ Total(f, S) \in Nat
      /\ Total(f, S) = Cardinality(Units(f, S))
      /\ Total(f, S \cup {x}) = Cardinality(Units(f, S \cup {x}))
  BY <1>1, TotalType
<1>6. Cardinality(Units(f, S) \cup column)
        = Cardinality(Units(f, S)) + Cardinality(column)
            - Cardinality(Units(f, S) \cap column)
  BY <1>4, <1>5, FS_Union
<1>7. Cardinality(Units(f, S) \cap column) = 0
  BY <1>3, FS_EmptySet
<1> HIDE DEF column
<1>8. Total(f, S \cup {x}) = Total(f, S) + f[x] - 0
  BY <1>2, <1>4, <1>5, <1>6, <1>7, Zenon
<1>9. f[x] \in Int
  BY FullType
<1> QED
  BY <1>5, <1>8, <1>9

LEMMA TotalBound ==
    ASSUME NEW S, IsFiniteSet(S), NEW n \in Nat, NEW f,
           \A x \in S : f[x] \in 0..n
    PROVE  Total(f, S) <= Cardinality(S) * n
<1>1. 1 \in Int /\ n \in Int
  OBVIOUS
<1>2. IsFiniteSet(1..n)
  BY <1>1, FS_Interval, ZenonT(20)
<1>3. Cardinality(1..n) = n
  BY <1>1, FS_Interval
<1>4. Units(f, S) \subseteq S \X (1..n)
  BY FullType DEF Units
<1>5. IsFiniteSet(S \X (1..n)) /\ Cardinality(S \X (1..n)) = Cardinality(S) * n
  BY <1>2, <1>3, FS_Product
<1> QED
  BY <1>4, <1>5, TotalType, FS_Subset

-----------------------------------------------------------------------------
(* Words *)

LEMMA Unpacked ==
    ASSUME NEW x \in 0..(Full - 1)
    PROVE  /\ x = Ticks(x) * Half + Tocks(x)
           /\ Ticks(x) \in 0..(Half - 1) /\ Tocks(x) \in 0..(Half - 1)
<1>1. /\ x = Half * (x \div Half) + (x % Half)
      /\ x % Half \in 0..(Half - 1) /\ x \div Half \in Nat
  BY FullType
<1>2. x \div Half < Half
  <2>1. SUFFICES ASSUME x \div Half >= Half PROVE FALSE
    BY <1>1
  <2>2. Half * (x \div Half) >= Half * Half
    BY <1>1, <2>1
  <2> QED
    BY <1>1, <2>2, FullType DEF Full
<1> QED
  BY <1>1, <1>2 DEF Ticks, Tocks

LEMMA Packed ==
    ASSUME NEW a \in 0..(Half - 1), NEW b \in 0..(Half - 1)
    PROVE  /\ a * Half + b \in 0..(Full - 1)
           /\ Ticks(a * Half + b) = a /\ Tocks(a * Half + b) = b
<1>1. a * Half + b \in 0..(Full - 1)
  <2>1. a * Half <= (Half - 1) * Half /\ a * Half \in Nat
    OBVIOUS
  <2> QED
    BY <2>1 DEF Full
<1>2. (a * Half + b) \div Half = a /\ (a * Half + b) % Half = b
  OBVIOUS
<1> QED
  BY <1>1, <1>2 DEF Ticks, Tocks

LEMMA NoWrap == \A x \in 0..(Full - 1) : x % Full = x
  BY FullType

\* A Tick counts in the upper half of the word only, as long as that does not
\* overflow.
LEMMA TickWord ==
    ASSUME NEW x \in 0..(Full - 1), Ticks(x) + 1 < Half
    PROVE  /\ Add(x, Half) \in 0..(Full - 1)
           /\ Ticks(Add(x, Half)) = Ticks(x) + 1
           /\ Tocks(Add(x, Half)) = Tocks(x)
<1> DEFINE a == Ticks(x)
           b == Tocks(x)
<1>1. x = a * Half + b /\ a \in 0..(Half - 1) /\ b \in 0..(Half - 1)
  BY Unpacked
<1> HIDE DEF a, b
<1>2. a + 1 \in 0..(Half - 1)
  BY <1>1 DEF a
<1>3. x + Half = (a + 1) * Half + b
  BY <1>1
<1>4. /\ x + Half \in 0..(Full - 1)
      /\ Ticks(x + Half) = a + 1 /\ Tocks(x + Half) = b
  BY <1>1, <1>2, <1>3, Packed
<1>5. Add(x, Half) = x + Half
  BY <1>4, NoWrap DEF Add
<1> QED
  BY <1>4, <1>5 DEF a, b

LEMMA TockWord ==
    ASSUME NEW x \in 0..(Full - 1), Tocks(x) + 1 < Half
    PROVE  /\ Add(x, 1) \in 0..(Full - 1)
           /\ Ticks(Add(x, 1)) = Ticks(x)
           /\ Tocks(Add(x, 1)) = Tocks(x) + 1
<1> DEFINE a == Ticks(x)
           b == Tocks(x)
<1>1. x = a * Half + b /\ a \in 0..(Half - 1) /\ b \in 0..(Half - 1)
  BY Unpacked
<1> HIDE DEF a, b
<1>2. b + 1 \in 0..(Half - 1)
  BY <1>1 DEF b
<1>3. x + 1 = a * Half + (b + 1)
  BY <1>1
<1>4. /\ x + 1 \in 0..(Full - 1)
      /\ Ticks(x + 1) = a /\ Tocks(x + 1) = b + 1
  <2>1. PICK y \in 0..(Half - 1) : y = b + 1
    BY <1>2
  <2>2. /\ a * Half + y \in 0..(Full - 1)
        /\ Ticks(a * Half + y) = a /\ Tocks(a * Half + y) = y
    BY <1>1, Packed, Zenon
  <2> QED
    BY <1>3, <2>1, <2>2, Zenon
<1>5. Add(x, 1) = x + 1
  BY <1>4, NoWrap DEF Add
<1> QED
  BY <1>4, <1>5 DEF a, b

\* Fold takes as many ticks as tocks and borrows nothing.
LEMMA FoldWord ==
    ASSUME NEW x \in 0..(Full - 1), NEW t \in Nat,
           t <= Tocks(x), Tocks(x) <= Ticks(x)
    PROVE  /\ Sub(x, t * (Half + 1)) \in 0..(Full - 1)
           /\ Ticks(Sub(x, t * (Half + 1))) = Ticks(x) - t
           /\ Tocks(Sub(x, t * (Half + 1))) = Tocks(x) - t
<1> DEFINE a == Ticks(x)
           b == Tocks(x)
           y == x - t * (Half + 1)
<1>1. x = a * Half + b /\ a \in 0..(Half - 1) /\ b \in 0..(Half - 1)
  BY Unpacked
<1>2. t <= b /\ b <= a
  OBVIOUS
<1> HIDE DEF a, b
<1>3. a - t \in 0..(Half - 1) /\ b - t \in 0..(Half - 1)
  BY <1>1, <1>2
<1>4. y = (a - t) * Half + (b - t)
  BY <1>1
<1> HIDE DEF y
<1>5. y \in 0..(Full - 1) /\ Ticks(y) = a - t /\ Tocks(y) = b - t
  BY <1>3, <1>4, Packed
<1>6. Sub(x, t * (Half + 1)) = y
  BY <1>5, NoWrap DEF Sub, y
<1> QED
  BY <1>5, <1>6 DEF a, b

-----------------------------------------------------------------------------
(* The inductive invariant of the counters *)

CounterType ==
    /\ word \in [Names -> 0..(Full - 1)]
    /\ pc \in [Goroutines -> {"idle", "sending", "waiting"}]
    /\ at \in 1..(Reads + 1)
    /\ loaded = -1 \/ (loaded \in 0..(Full - 1) /\ at \in 1..Reads)
    /\ sample \in [Names -> 0..(Full - 1)]
    /\ burst \in [Names -> Nat] /\ sent \in [Names -> Nat]
    /\ hist \in Seq([Names -> 0..(Full - 1)])

\* The counter c is loaded and not yet subtracted from.
Loading(c) == loaded # -1 /\ Counters[at] = c

\* The ticks of a counter are ahead of its tocks by the goroutines that wait; they
\* are at most the waits that were under way at the last fold and those begun
\* since.  A fold under way takes no more tocks than there are, and leaves the
\* waits that were under way when it loaded.
WordSound(c) ==
    /\ Ticks(word[c]) - Tocks(word[c]) = Waiting(c)
    /\ burst[c] <= MaxWaits
    /\ ~Loading(c) => Ticks(word[c]) <= Cardinality(Goroutines) + burst[c]
    /\ Loading(c) => /\ Tocks(loaded) <= Tocks(word[c])
                     /\ Ticks(word[c]) <= Ticks(loaded) + burst[c]
                     /\ Ticks(loaded) <= Tocks(loaded) + Cardinality(Goroutines)
                     /\ Ticks(loaded) <= Cardinality(Goroutines) + MaxWaits

\* What was added was read or is in the counter, which holds what was added since
\* the last draw, and no reading is more than the bound.
AmountSound(c) ==
    /\ Read(c) + word[c] = sent[c]
    /\ burst[c] <= MaxAmount /\ sample[c] <= MaxAmount
    /\ \A i \in 1..Len(hist) : hist[i][c] <= MaxAmount
    /\ ~Loading(c) => word[c] = burst[c]
    /\ Loading(c) => loaded <= MaxAmount /\ word[c] = loaded + burst[c]

WaitNames == {"in", "out"}
AmountNames == {c \in {"rate", "size"} : Drawn(c)}

CounterInv ==
    /\ CounterType
    /\ \A c \in WaitNames : WordSound(c)
    /\ \A c \in AmountNames : AmountSound(c)

\* What RoomAssumption gives: halves and words that do not overflow.
LEMMA Room ==
    /\ MinSust \in Nat
    /\ Cardinality(Goroutines) \in Nat
    /\ Cardinality(Goroutines) + 2 * MaxWaits < Half
    /\ \A x, y \in 0..MaxAmount : x + y \in 0..(Full - 1)
<1>1. MinSust \in Nat
  BY DEF MinSust, minSustainPollPeriods
<1>2. Cardinality(Goroutines) \in Nat
  BY FS_CardinalityType DEF Goroutines
<1>3. 2 * MaxAmount < Full
  <2>1. (MinSust + 2) * MaxAmount = MinSust * MaxAmount + 2 * MaxAmount
    BY <1>1
  <2>2. MinSust * MaxAmount \in Nat
    BY <1>1
  <2> QED
    BY <2>1, <2>2, RoomAssumption, FullType DEF RoomAssumption
<1>4. \A x, y \in 0..MaxAmount : x + y \in 0..(Full - 1)
  BY <1>3, FullType
<1> QED
  BY <1>1, <1>2, <1>4, RoomAssumption DEF RoomAssumption

LEMMA CountersAt ==
    /\ Counters[1] = "in" /\ Counters[2] = "rate"
    /\ Counters[3] = "out" /\ Counters[4] = "size"
    /\ \A i \in 1..4 : Counters[i] \in Names
    /\ \A i, j \in 1..4 : Counters[i] = Counters[j] => i = j
<1>1. /\ Counters[1] = "in" /\ Counters[2] = "rate"
      /\ Counters[3] = "out" /\ Counters[4] = "size"
  BY DEF Counters
<1>2. \A i \in 1..4 : i = 1 \/ i = 2 \/ i = 3 \/ i = 4
  OBVIOUS
<1>3. \A i \in 1..4 : Counters[i] \in Names
  BY <1>1, <1>2 DEF Names
<1>4. \A i, j \in 1..4 : Counters[i] = Counters[j] => i = j
  BY <1>1, <1>2
<1> QED
  BY <1>1, <1>3, <1>4

\* The counters that are read are those of the waits and the amounts drawn.
LEMMA ReadsAll ==
    /\ Reads \in 3..4
    /\ \A i \in 1..Reads : Counters[i] \in WaitNames \cup AmountNames
    /\ \A c \in AmountNames : \E i \in 1..Reads : Counters[i] = c
    /\ WaitNames \cup AmountNames \subseteq Names /\ WaitNames \cap AmountNames = {}
<1>1. Reads \in 3..4 /\ (Reads = 4 <=> shouldSize)
  BY DEF Reads
<1>2. \A i \in 1..Reads : i = 1 \/ i = 2 \/ i = 3 \/ (i = 4 /\ shouldSize)
  BY <1>1
<1>3. \A c \in AmountNames : c = "rate" \/ (c = "size" /\ shouldSize)
  BY DEF AmountNames, Drawn
<1>4. "rate" \in AmountNames /\ (shouldSize => "size" \in AmountNames)
  BY DEF AmountNames, Drawn
<1>5. \A i \in 1..Reads : Counters[i] \in WaitNames \cup AmountNames
  BY <1>2, <1>4, CountersAt DEF WaitNames
<1>6. ASSUME NEW c \in AmountNames PROVE \E i \in 1..Reads : Counters[i] = c
  <2>1. CASE c = "rate"
    <3>1. 2 \in 1..Reads
      BY <1>1
    <3> QED
      BY <2>1, <3>1, CountersAt
  <2>2. CASE c = "size" /\ shouldSize
    <3>1. 4 \in 1..Reads
      BY <1>1, <2>2
    <3> QED
      BY <2>2, <3>1, CountersAt
  <2> QED
    BY <1>3, <2>1, <2>2
<1> QED
  BY <1>1, <1>5, <1>6 DEF WaitNames, AmountNames, Names

-----------------------------------------------------------------------------
(* Goroutines that wait *)

Waiters(c) == {g \in Goroutines : Waits(g) = c /\ pc[g] = "waiting"}

LEMMA WaitingType ==
    \A c : /\ IsFiniteSet(Waiters(c)) /\ Waiting(c) = Cardinality(Waiters(c))
           /\ Waiting(c) \in Nat /\ Waiting(c) <= Cardinality(Goroutines)
<1>1. ASSUME NEW c
      PROVE  /\ IsFiniteSet(Waiters(c)) /\ Waiting(c) = Cardinality(Waiters(c))
             /\ Waiting(c) \in Nat /\ Waiting(c) <= Cardinality(Goroutines)
  <2>1. Waiters(c) \subseteq Goroutines /\ IsFiniteSet(Goroutines)
    BY DEF Waiters, Goroutines
  <2>2. IsFiniteSet(Waiters(c)) /\ Cardinality(Waiters(c)) <= Cardinality(Goroutines)
    BY <2>1, FS_Subset
  <2>3. Waiting(c) = Cardinality(Waiters(c))
    BY DEF Waiting, Waiters
  <2> QED
    BY <2>2, <2>3, FS_CardinalityType
<1> QED
  BY <1>1

LEMMA WaitingKept ==
    ASSUME \A g \in Goroutines : pc'[g] = "waiting" <=> pc[g] = "waiting"
    PROVE  \A c : Waiting(c)' = Waiting(c)
  BY DEF Waiting

LEMMA WaitBegins ==
    ASSUME NEW g \in Goroutines, pc[g] # "waiting", pc'[g] = "waiting",
           \A h \in Goroutines \ {g} : pc'[h] = pc[h]
    PROVE  /\ Waiting(Waits(g))' = Waiting(Waits(g)) + 1
           /\ \A c : c # Waits(g) => Waiting(c)' = Waiting(c)
<1> PICK w : w = Waits(g)
  OBVIOUS
<1>1. Waiters(w)' = Waiters(w) \cup {g} /\ g \notin Waiters(w)
  BY DEF Waiters
<1>2. Cardinality(Waiters(w) \cup {g}) = Cardinality(Waiters(w)) + 1
  BY <1>1, WaitingType, FS_AddElement
<1>3. Waiting(w)' = Cardinality(Waiters(w)')
  BY DEF Waiting, Waiters
<1>4. \A c : c # w => Waiting(c)' = Waiting(c)
  <2>1. ASSUME NEW c, c # w PROVE Waiters(c)' = Waiters(c)
    BY <2>1 DEF Waiters
  <2> QED
    BY <2>1 DEF Waiting, Waiters
<1> QED
  BY <1>1, <1>2, <1>3, <1>4, WaitingType

LEMMA WaitEnds ==
    ASSUME NEW g \in Goroutines, pc[g] = "waiting", pc'[g] # "waiting",
           \A h \in Goroutines \ {g} : pc'[h] = pc[h]
    PROVE  /\ Waiting(Waits(g))' = Waiting(Waits(g)) - 1
           /\ Waiting(Waits(g)) >= 1
           /\ \A c : c # Waits(g) => Waiting(c)' = Waiting(c)
<1> PICK w : w = Waits(g)
  OBVIOUS
<1>1. Waiters(w)' = Waiters(w) \ {g} /\ g \in Waiters(w)
  BY DEF Waiters
<1>2. Cardinality(Waiters(w) \ {g}) = Cardinality(Waiters(w)) - 1
  BY <1>1, WaitingType, FS_RemoveElement
<1>3. Waiting(w)' = Cardinality(Waiters(w)')
  BY DEF Waiting, Waiters
<1>4. \A c : c # w => Waiting(c)' = Waiting(c)
  <2>1. ASSUME NEW c, c # w PROVE Waiters(c)' = Waiters(c)
    BY <2>1 DEF Waiters
  <2> QED
    BY <2>1 DEF Waiting, Waiters
<1>5. Waiting(w) # 0
  BY <1>1, WaitingType, FS_EmptySet
<1> QED
  BY <1>1, <1>2, <1>3, <1>4, <1>5, WaitingType

-----------------------------------------------------------------------------
(* Steps of the goroutines that send *)

LEMMA Roles ==
    ASSUME NEW g \in Goroutines
    PROVE  /\ Waits(g) \in WaitNames /\ Amounts(g) \in {"rate", "size"}
           /\ Counts(g) \subseteq Nat
  BY SizesAssumption DEF SizesAssumption, Waits, Amounts, WaitNames, Counts

LEMMA ReadType ==
    ASSUME CounterType, NEW c \in Names
    PROVE  Read(c) \in Nat
<1>1. 1 \in Int /\ Len(hist) \in Int
  BY DEF CounterType
<1>2. IsFiniteSet(1..Len(hist))
  BY <1>1, FS_Interval, ZenonT(20)
<1>3. Total(Readings(c), 1..Len(hist)) \in Nat
  BY <1>2, TotalType
<1>4. sample[c] \in Nat
  BY FullType DEF CounterType
<1> QED
  BY <1>3, <1>4 DEF Read

\* The numbers of a wait counter, in the integers.
LEMMA WordNumbers ==
    ASSUME CounterType, NEW c \in WaitNames
    PROVE  /\ word[c] \in 0..(Full - 1) /\ burst[c] \in Nat
           /\ Ticks(word[c]) \in 0..(Half - 1) /\ Tocks(word[c]) \in 0..(Half - 1)
           /\ loaded # -1 => /\ Ticks(loaded) \in 0..(Half - 1)
                             /\ Tocks(loaded) \in 0..(Half - 1)
<1>1. word[c] \in 0..(Full - 1) /\ burst[c] \in Nat
  BY DEF CounterType, WaitNames, Names
<1> QED
  BY <1>1, Unpacked DEF CounterType

\* A step of a goroutine that leaves a counter alone keeps what is said of it.
LEMMA WordKept ==
    ASSUME NEW c \in WaitNames, WordSound(c), UNCHANGED govVars,
           word'[c] = word[c], burst'[c] = burst[c], Waiting(c)' = Waiting(c)
    PROVE  WordSound(c)'
  BY DEF WordSound, Loading, govVars

LEMMA AmountKept ==
    ASSUME NEW c \in AmountNames, AmountSound(c), UNCHANGED govVars,
           word'[c] = word[c], burst'[c] = burst[c], sent'[c] = sent[c]
    PROVE  AmountSound(c)'
<1>1. Read(c)' = Read(c)
  BY DEF Read, Readings, govVars
<1> QED
  BY <1>1 DEF AmountSound, Loading, govVars

LEMMA SendsStep ==
    ASSUME CounterInv, NEW g \in Goroutines, NEW n \in Counts(g), Sends(g, n)
    PROVE  CounterInv'
<1> PICK d \in {"rate", "size"} : d = Amounts(g)
  BY Roles
<1>0. CounterType /\ n \in Nat /\ d \in Names
  BY Roles DEF CounterInv, Names
<1>1. /\ pc[g] = "idle" /\ pc' = [pc EXCEPT ![g] = "sending"]
      /\ word' = [word EXCEPT ![d] = Add(word[d], n)]
      /\ UNCHANGED govVars
      /\ \/ /\ Drawn(d) /\ burst[d] + n <= MaxAmount
            /\ burst' = [burst EXCEPT ![d] = burst[d] + n]
            /\ sent' = [sent EXCEPT ![d] = sent[d] + n]
         \/ ~Drawn(d) /\ UNCHANGED <<burst, sent>>
  BY <1>0 DEF Sends, Moves, CounterType
<1>2. /\ word[d] \in 0..(Full - 1) /\ burst[d] \in Nat /\ sent[d] \in Nat
      /\ \A e \in Names \ {d} : /\ word'[e] = word[e] /\ burst'[e] = burst[e]
                                /\ sent'[e] = sent[e]
      /\ word'[d] = Add(word[d], n)
  BY <1>0, <1>1 DEF CounterType
<1>3. Add(word[d], n) \in 0..(Full - 1)
  BY <1>0, <1>2, FullType DEF Add
<1>4. CounterType'
  <2>1. word' \in [Names -> 0..(Full - 1)]
    BY <1>0, <1>1, <1>3 DEF CounterType
  <2>2. burst' \in [Names -> Nat] /\ sent' \in [Names -> Nat]
    <3>1. burst \in [Names -> Nat] /\ sent \in [Names -> Nat]
      BY <1>0 DEF CounterType
    <3>2. burst[d] + n \in Nat /\ sent[d] + n \in Nat
      BY <1>0, <1>2
    <3> QED
      BY <1>0, <1>1, <3>1, <3>2
  <2> QED
    BY <1>0, <1>1, <2>1, <2>2 DEF CounterType, govVars
<1>5. ASSUME NEW c \in WaitNames PROVE WordSound(c)'
  <2>1. word'[c] = word[c] /\ burst'[c] = burst[c]
    BY <1>2 DEF WaitNames, Names
  <2>2. Waiting(c)' = Waiting(c)
    BY <1>0, <1>1, WaitingKept DEF CounterType
  <2> QED
    BY <1>1, <2>1, <2>2, WordKept DEF CounterInv
<1>6. ASSUME NEW c \in AmountNames, c # d PROVE AmountSound(c)'
  <2>1. c \in Names
    BY ReadsAll
  <2> QED
    BY <1>1, <1>2, <1>6, <2>1, AmountKept DEF CounterInv
<1>7. ASSUME d \in AmountNames PROVE AmountSound(d)'
  <2>1. AmountSound(d) /\ Drawn(d)
    BY <1>7 DEF CounterInv, AmountNames
  <2>2. /\ burst'[d] = burst[d] + n /\ sent'[d] = sent[d] + n
        /\ burst[d] + n <= MaxAmount
    BY <1>0, <1>1, <2>1 DEF CounterType
  <2>3. word[d] + n \in 0..(Full - 1)
    <3>1. CASE Loading(d)
      <4>0. loaded \in 0..(Full - 1) /\ loaded <= MaxAmount
        BY <1>0, <2>1, <3>1 DEF AmountSound, Loading, CounterType
      <4>1. loaded \in 0..MaxAmount /\ burst[d] + n \in 0..MaxAmount
        BY <1>0, <1>2, <2>2, <4>0, FullType
      <4>2. word[d] + n = loaded + (burst[d] + n)
        BY <1>0, <1>2, <2>1, <3>1, <4>1 DEF AmountSound
      <4> QED
        BY <4>1, <4>2, Room
    <3>2. CASE ~Loading(d)
      <4>1. burst[d] + n \in 0..MaxAmount /\ 0 \in 0..MaxAmount
        BY <1>0, <1>2, <2>2
      <4>2. word[d] + n = 0 + (burst[d] + n)
        BY <1>0, <1>2, <2>1, <3>2 DEF AmountSound
      <4> QED
        BY <4>1, <4>2, Room
    <3> QED
      BY <3>1, <3>2
  <2>4. word'[d] = word[d] + n
    BY <1>2, <2>3, NoWrap DEF Add
  <2>5. Read(d)' = Read(d) /\ Read(d) \in Nat
    BY <1>0, <1>1, ReadType DEF Read, Readings, govVars
  <2>6. Read(d)' + word'[d] = sent'[d]
    <3>1. Read(d) + word[d] = sent[d]
      BY <2>1 DEF AmountSound
    <3> QED
      BY <1>0, <1>2, <2>2, <2>4, <2>5, <3>1, FullType
  <2>7. loaded \in Int /\ UNCHANGED <<loaded, at, sample, hist>>
    BY <1>0, <1>1, FullType DEF CounterType, govVars
  <2>8. ~Loading(d)' => word'[d] = burst'[d]
    BY <1>0, <1>2, <2>1, <2>2, <2>4, <2>7 DEF AmountSound, Loading
  <2>9. Loading(d)' => loaded' <= MaxAmount /\ word'[d] = loaded' + burst'[d]
    BY <1>0, <1>2, <2>1, <2>2, <2>4, <2>7 DEF AmountSound, Loading
  <2> QED
    BY <2>1, <2>2, <2>6, <2>7, <2>8, <2>9 DEF AmountSound
<1> QED
  BY <1>4, <1>5, <1>6, <1>7 DEF CounterInv

LEMMA PassesStep ==
    ASSUME CounterInv, NEW g \in Goroutines, Passes(g)
    PROVE  CounterInv'
<1>0. CounterType
  BY DEF CounterInv
<1>1. /\ pc[g] = "sending" /\ pc' = [pc EXCEPT ![g] = "idle"]
      /\ UNCHANGED govVars /\ UNCHANGED <<word, burst, sent>>
  BY DEF Passes, Moves
<1>2. CounterType'
  BY <1>0, <1>1 DEF CounterType, govVars
<1>3. \A c : Waiting(c)' = Waiting(c)
  BY <1>0, <1>1, WaitingKept DEF CounterType
<1> QED
  BY <1>1, <1>2, <1>3, WordKept, AmountKept DEF CounterInv

LEMMA TickStep ==
    ASSUME CounterInv, NEW g \in Goroutines, Tick(g)
    PROVE  CounterInv'
<1> PICK c \in WaitNames : c = Waits(g)
  BY Roles
<1>0. CounterType /\ WordSound(c) /\ c \in Names
  BY DEF CounterInv, WaitNames, Names
<1>1. /\ pc[g] = "sending" /\ pc' = [pc EXCEPT ![g] = "waiting"]
      /\ burst[c] < MaxWaits
      /\ word' = [word EXCEPT ![c] = Add(word[c], Half)]
      /\ burst' = [burst EXCEPT ![c] = burst[c] + 1]
      /\ UNCHANGED govVars /\ UNCHANGED sent
  BY <1>0 DEF Tick, Moves, CounterType
<1>2. /\ Waiting(c)' = Waiting(c) + 1
      /\ \A e : e # c => Waiting(e)' = Waiting(e)
  <2>1. /\ pc[g] # "waiting" /\ pc'[g] = "waiting"
        /\ \A h \in Goroutines \ {g} : pc'[h] = pc[h]
    BY <1>0, <1>1 DEF CounterType
  <2> QED
    BY <2>1, WaitBegins
<1>3. /\ word'[c] = Add(word[c], Half) /\ burst'[c] = burst[c] + 1
      /\ \A e \in Names \ {c} : word'[e] = word[e] /\ burst'[e] = burst[e]
  BY <1>0, <1>1 DEF CounterType
<1>4. Ticks(word[c]) + 1 < Half
  <2>1. CASE Loading(c)
    BY <1>0, <1>1, <2>1, Room, WordNumbers DEF WordSound, Loading
  <2>2. CASE ~Loading(c)
    BY <1>0, <1>1, <2>2, Room, WordNumbers DEF WordSound
  <2> QED
    BY <2>1, <2>2
<1>5. /\ word'[c] \in 0..(Full - 1) /\ Ticks(word'[c]) = Ticks(word[c]) + 1
      /\ Tocks(word'[c]) = Tocks(word[c])
  BY <1>0, <1>3, <1>4, TickWord, WordNumbers
<1>6. CounterType'
  <2>1. word' \in [Names -> 0..(Full - 1)]
    BY <1>0, <1>1, <1>3, <1>5 DEF CounterType
  <2>2. burst' \in [Names -> Nat]
    <3>1. burst \in [Names -> Nat] /\ burst[c] + 1 \in Nat
      BY <1>0 DEF CounterType
    <3> QED
      BY <1>1, <3>1
  <2> QED
    BY <1>0, <1>1, <2>1, <2>2 DEF CounterType, govVars
<1>7. ASSUME NEW d \in AmountNames PROVE AmountSound(d)'
  <2>1. d \in Names \ {c}
    BY ReadsAll
  <2> QED
    BY <1>1, <1>3, <2>1, AmountKept DEF CounterInv
<1>8. WordSound(c)'
  <2>1. loaded' = loaded /\ at' = at
    BY <1>1 DEF govVars
  <2>2. Ticks(word'[c]) - Tocks(word'[c]) = Waiting(c)'
    BY <1>0, <1>2, <1>5, WordNumbers, WaitingType DEF WordSound
  <2>3. burst'[c] <= MaxWaits
    BY <1>0, <1>1, <1>3, WordNumbers
  <2>4. ~Loading(c)' => Ticks(word'[c]) <= Cardinality(Goroutines) + burst'[c]
    BY <1>0, <1>3, <1>5, <2>1, Room, WordNumbers DEF WordSound, Loading
  <2>5. Loading(c)' => /\ Tocks(loaded') <= Tocks(word'[c])
                       /\ Ticks(word'[c]) <= Ticks(loaded') + burst'[c]
    BY <1>0, <1>3, <1>5, <2>1, WordNumbers DEF WordSound, Loading
  <2>6. Loading(c)' =>
           /\ Ticks(loaded') <= Tocks(loaded') + Cardinality(Goroutines)
           /\ Ticks(loaded') <= Cardinality(Goroutines) + MaxWaits
    BY <1>0, <2>1 DEF WordSound, Loading
  <2> QED
    BY <2>2, <2>3, <2>4, <2>5, <2>6 DEF WordSound
<1>9. ASSUME NEW e \in WaitNames, e # c PROVE WordSound(e)'
  <2>1. e \in Names \ {c}
    BY <1>9 DEF WaitNames, Names
  <2> QED
    BY <1>1, <1>2, <1>3, <1>9, <2>1, WordKept DEF CounterInv
<1> QED
  BY <1>6, <1>7, <1>8, <1>9 DEF CounterInv

LEMMA TockStep ==
    ASSUME CounterInv, NEW g \in Goroutines, Tock(g)
    PROVE  CounterInv'
<1> PICK c \in WaitNames : c = Waits(g)
  BY Roles
<1>0. CounterType /\ WordSound(c) /\ c \in Names
  BY DEF CounterInv, WaitNames, Names
<1>1. /\ pc[g] = "waiting" /\ pc' = [pc EXCEPT ![g] = "idle"]
      /\ word' = [word EXCEPT ![c] = Add(word[c], 1)]
      /\ UNCHANGED govVars /\ UNCHANGED <<burst, sent>>
  BY <1>0 DEF Tock, Moves, CounterType
<1>2. /\ Waiting(c)' = Waiting(c) - 1 /\ Waiting(c) >= 1
      /\ \A e : e # c => Waiting(e)' = Waiting(e)
  <2>1. /\ pc[g] = "waiting" /\ pc'[g] # "waiting"
        /\ \A h \in Goroutines \ {g} : pc'[h] = pc[h]
    BY <1>0, <1>1 DEF CounterType
  <2> QED
    BY <2>1, WaitEnds
<1>3. /\ word'[c] = Add(word[c], 1)
      /\ \A e \in Names \ {c} : word'[e] = word[e]
  BY <1>0, <1>1 DEF CounterType
<1>4. Tocks(word[c]) + 1 < Half
  BY <1>0, <1>2, WordNumbers, WaitingType DEF WordSound
<1>5. /\ word'[c] \in 0..(Full - 1) /\ Ticks(word'[c]) = Ticks(word[c])
      /\ Tocks(word'[c]) = Tocks(word[c]) + 1
  BY <1>0, <1>3, <1>4, TockWord, WordNumbers
<1>6. CounterType'
  <2>1. word' \in [Names -> 0..(Full - 1)]
    BY <1>0, <1>1, <1>5 DEF CounterType
  <2> QED
    BY <1>0, <1>1, <2>1 DEF CounterType, govVars
<1>7. ASSUME NEW d \in AmountNames PROVE AmountSound(d)'
  <2>1. d \in Names \ {c}
    BY ReadsAll
  <2> QED
    BY <1>1, <1>3, <2>1, AmountKept DEF CounterInv
<1>8. WordSound(c)'
  <2>1. loaded' = loaded /\ at' = at /\ burst' = burst
    BY <1>1 DEF govVars
  <2>2. Ticks(word'[c]) - Tocks(word'[c]) = Waiting(c)'
    BY <1>0, <1>2, <1>5, WordNumbers, WaitingType DEF WordSound
  <2>3. Loading(c) => Tocks(loaded) <= Tocks(word'[c])
    BY <1>0, <1>5, WordNumbers DEF WordSound, Loading
  <2> QED
    BY <1>0, <1>5, <2>1, <2>2, <2>3 DEF WordSound, Loading
<1>9. ASSUME NEW e \in WaitNames, e # c PROVE WordSound(e)'
  <2>1. e \in Names \ {c}
    BY <1>9 DEF WaitNames, Names
  <2> QED
    BY <1>1, <1>2, <1>3, <1>9, <2>1, WordKept DEF CounterInv
<1> QED
  BY <1>6, <1>7, <1>8, <1>9 DEF CounterInv

-----------------------------------------------------------------------------
(* Steps of the governor *)

LEMMA LoadStep ==
    ASSUME CounterInv, Load
    PROVE  CounterInv'
<1>0. CounterType /\ at \in 1..Reads /\ loaded = -1
  BY ReadsAll DEF CounterInv, CounterType, Load
<1> PICK d \in WaitNames \cup AmountNames : d = Counters[at]
  BY <1>0, ReadsAll
<1>1. /\ loaded' = word[d] /\ burst' = [burst EXCEPT ![d] = 0]
      /\ UNCHANGED <<word, pc, at, sample, sent, hist>>
  BY DEF Load
<1>2. /\ d \in Names /\ word[d] \in 0..(Full - 1) /\ loaded' # -1
      /\ burst'[d] = 0 /\ \A e \in Names \ {d} : burst'[e] = burst[e]
  <2>1. d \in Names
    BY ReadsAll
  <2> QED
    BY <1>0, <1>1, <2>1, FullType DEF CounterType
<1>3. CounterType'
  BY <1>0, <1>1, <1>2 DEF CounterType
<1>4. \A c : ~Loading(c) /\ (Loading(c)' <=> c = d)
  BY <1>0, <1>1, <1>2 DEF Loading
<1>5. ASSUME NEW c \in WaitNames PROVE WordSound(c)'
  <2>1. WordSound(c) /\ Waiting(c)' = Waiting(c) /\ c \in Names
    BY <1>1, ReadsAll, WaitingKept DEF CounterInv
  <2>2. CASE c = d
    <3>1. /\ Ticks(word[c]) <= Cardinality(Goroutines) + MaxWaits
          /\ Ticks(word[c]) <= Tocks(word[c]) + Cardinality(Goroutines)
          /\ Ticks(word[c]) <= Ticks(word[c]) + 0 /\ 0 <= MaxWaits
          /\ Tocks(word[c]) <= Tocks(word[c])
      BY <1>0, <1>4, <2>1, WordNumbers, WaitingType, Room DEF WordSound
    <3> QED
      BY <1>1, <1>2, <1>4, <2>1, <2>2, <3>1 DEF WordSound
  <2>3. CASE c # d
    BY <1>1, <1>2, <1>4, <2>1, <2>3 DEF WordSound
  <2> QED
    BY <2>2, <2>3
<1>6. ASSUME NEW c \in AmountNames PROVE AmountSound(c)'
  <2>1. AmountSound(c) /\ Read(c)' = Read(c) /\ c \in Names
    BY <1>1, ReadsAll DEF CounterInv, Read, Readings
  <2>2. CASE c = d
    <3>1. word[c] <= MaxAmount /\ word[c] = word[c] + 0 /\ 0 <= MaxAmount
      BY <1>2, <1>4, <2>1, <2>2, FullType DEF AmountSound
    <3> QED
      BY <1>1, <1>2, <1>4, <2>1, <2>2, <3>1 DEF AmountSound
  <2>3. CASE c # d
    BY <1>1, <1>2, <1>4, <2>1, <2>3 DEF AmountSound
  <2> QED
    BY <2>2, <2>3
<1> QED
  BY <1>3, <1>5, <1>6 DEF CounterInv

LEMMA SubtractStep ==
    ASSUME CounterInv, Subtract
    PROVE  CounterInv'
<1>0. /\ CounterType /\ loaded # -1 /\ loaded \in 0..(Full - 1)
      /\ at \in 1..Reads /\ at \in 1..4
  BY ReadsAll DEF CounterInv, CounterType, Subtract
<1> PICK d \in WaitNames \cup AmountNames : d = Counters[at]
  BY <1>0, ReadsAll
<1>1. d \in Names
  BY ReadsAll
<1>2. /\ loaded' = -1 /\ at' = at + 1
      /\ word' = [word EXCEPT ![d] = Sub(word[d], Taken(d, loaded))]
      /\ sample' = [sample EXCEPT ![d] = IF d \in {"in", "out"}
                                         THEN Ticks(loaded) ELSE loaded]
      /\ UNCHANGED <<pc, burst, sent, hist>>
  BY <1>0, <1>1 DEF Subtract, CounterType
<1>3. /\ word'[d] = Sub(word[d], Taken(d, loaded))
      /\ \A e \in Names \ {d} : word'[e] = word[e] /\ sample'[e] = sample[e]
      /\ sample'[d] = IF d \in {"in", "out"} THEN Ticks(loaded) ELSE loaded
  BY <1>0, <1>1, <1>2 DEF CounterType
<1>4. \A c : ~Loading(c)' /\ (Loading(c) <=> c = d)
  BY <1>0, <1>2 DEF Loading
<1>5. ASSUME NEW e \in AmountNames, e # d
      PROVE  AmountSound(e)'
  <2>1. PICK j \in 1..4 : e = Counters[j]
    BY ReadsAll
  <2>2. j # at
    BY <1>5, <2>1
  <2>3. ((\E i \in 1..4 : Counters[i] = e /\ i < at) <=> j < at)
        /\ ((\E i \in 1..4 : Counters[i] = e /\ i < at') <=> j < at')
    BY <2>1, CountersAt
  <2>4. j < at <=> j < at'
    BY <1>0, <1>2, <2>2
  <2>5. sample'[e] = sample[e] /\ word'[e] = word[e]
    BY <1>3, <1>5, ReadsAll
  <2>6. Read(e)' = Read(e)
    BY <1>2, <2>3, <2>4, <2>5 DEF Read, Readings
  <2> QED
    BY <1>2, <1>4, <1>5, <2>5, <2>6 DEF CounterInv, AmountSound
<1>6. ASSUME NEW e \in WaitNames
      PROVE  Waiting(e)' = Waiting(e) /\ (e # d => WordSound(e)')
  <2>1. Waiting(e)' = Waiting(e)
    BY <1>2, WaitingKept
  <2>2. e # d => word'[e] = word[e]
    BY <1>3, ReadsAll
  <2> QED
    BY <1>2, <1>4, <2>1, <2>2 DEF CounterInv, WordSound
<1>7. ASSUME word'[d] \in 0..(Full - 1), sample'[d] \in 0..(Full - 1)
      PROVE  CounterType'
  <2>1. word' \in [Names -> 0..(Full - 1)] /\ sample' \in [Names -> 0..(Full - 1)]
    BY <1>0, <1>1, <1>2, <1>3, <1>7 DEF CounterType
  <2>2. at' \in 1..(Reads + 1)
    BY <1>0, <1>2, ReadsAll
  <2> QED
    BY <1>0, <1>2, <2>1, <2>2 DEF CounterType
<1>8. CASE d \in WaitNames
  <2>1. WordSound(d) /\ Loading(d) /\ d \notin AmountNames
    BY <1>4, <1>8, ReadsAll DEF CounterInv
  <2>2. /\ Tocks(loaded) <= Tocks(word[d]) /\ Tocks(loaded) \in Nat
        /\ Ticks(loaded) \in 0..(Full - 1)
    BY <1>0, <1>8, <2>1, Unpacked, FullType DEF WordSound
  <2>3. Tocks(word[d]) <= Ticks(word[d])
    BY <1>0, <1>8, <2>1, WordNumbers, WaitingType DEF WordSound
  <2>4. word'[d] = Sub(word[d], Tocks(loaded) * (Half + 1))
    BY <1>3, <1>8 DEF Taken, WaitNames
  <2>5. /\ word'[d] \in 0..(Full - 1)
        /\ Ticks(word'[d]) = Ticks(word[d]) - Tocks(loaded)
        /\ Tocks(word'[d]) = Tocks(word[d]) - Tocks(loaded)
    BY <1>0, <1>8, <2>2, <2>3, <2>4, FoldWord, WordNumbers
  <2>6. CounterType'
    BY <1>3, <1>7, <1>8, <2>2, <2>5 DEF WaitNames
  <2>7. Ticks(word'[d]) - Tocks(word'[d]) = Waiting(d)'
    BY <1>0, <1>6, <1>8, <2>1, <2>2, <2>5, WordNumbers, WaitingType DEF WordSound
  <2>8. Ticks(word'[d]) <= Cardinality(Goroutines) + burst'[d]
    BY <1>0, <1>2, <1>8, <2>1, <2>5, WordNumbers, Room DEF WordSound
  <2>9. WordSound(d)'
    BY <1>2, <1>4, <2>1, <2>7, <2>8 DEF WordSound
  <2> QED
    BY <1>5, <1>6, <2>1, <2>6, <2>9 DEF CounterInv
<1>9. CASE d \in AmountNames
  <2>1. AmountSound(d) /\ Loading(d) /\ d \notin WaitNames
    BY <1>4, <1>9, ReadsAll DEF CounterInv
  <2>2. /\ word[d] = loaded + burst[d] /\ loaded <= MaxAmount
        /\ burst[d] \in Nat /\ word[d] \in 0..(Full - 1)
    BY <1>0, <1>1, <2>1 DEF AmountSound, CounterType
  <2>3. word[d] - loaded = burst[d] /\ burst[d] \in 0..(Full - 1)
    BY <1>0, <2>2, FullType
  <2>4. word'[d] = burst[d] /\ sample'[d] = loaded
    BY <1>3, <2>1, <2>3, NoWrap DEF Taken, Sub, WaitNames
  <2>5. CounterType'
    BY <1>0, <1>7, <2>3, <2>4
  <2>6. ~(\E i \in 1..4 : Counters[i] = d /\ i < at)
        /\ (\E i \in 1..4 : Counters[i] = d /\ i < at')
    BY <1>0, <1>2, CountersAt
  <2>7. Total(Readings(d), 1..Len(hist)) \in Nat
    <3>1. 1 \in Int /\ Len(hist) \in Int
      BY <1>0 DEF CounterType
    <3>2. IsFiniteSet(1..Len(hist))
      BY <3>1, FS_Interval, ZenonT(20)
    <3> QED
      BY <3>2, TotalType
  <2>8. Read(d)' = Read(d) + loaded /\ Read(d) \in Nat
    <3>1. Read(d) = Total(Readings(d), 1..Len(hist)) + 0
      BY <2>6 DEF Read
    <3>2. Read(d)' = Total(Readings(d), 1..Len(hist)) + loaded
      BY <1>2, <2>4, <2>6 DEF Read, Readings
    <3> QED
      BY <2>7, <3>1, <3>2
  <2>9. Read(d)' + word'[d] = sent'[d]
    <3>1. Read(d) + (loaded + burst[d]) = sent[d]
      BY <2>1, <2>2 DEF AmountSound
    <3> QED
      BY <1>0, <1>2, <2>2, <2>4, <2>8, <3>1, FullType
  <2>10. AmountSound(d)'
    BY <1>2, <1>4, <2>1, <2>2, <2>4, <2>9 DEF AmountSound
  <2> QED
    BY <1>5, <1>6, <2>1, <2>5, <2>10 DEF CounterInv
<1> QED
  BY <1>8, <1>9

LEMMA EvaluateStep ==
    ASSUME CounterInv, Evaluate
    PROVE  CounterInv'
<1>0. CounterType /\ at > Reads /\ Reads \in 3..4
  BY ReadsAll DEF CounterInv, Evaluate
<1>1. /\ at' = 1 /\ loaded = -1 /\ hist' = Append(hist, sample)
      /\ UNCHANGED <<word, pc, loaded, sample, burst, sent>>
  BY <1>0 DEF Evaluate, CounterType
<1>2. CounterType'
  BY <1>0, <1>1 DEF CounterType
<1>3. \A c : ~Loading(c) /\ ~Loading(c)'
  BY <1>1 DEF Loading
<1>4. ASSUME NEW c \in WaitNames PROVE WordSound(c)'
  <2>1. Waiting(c)' = Waiting(c)
    BY <1>1, WaitingKept
  <2> QED
    BY <1>1, <1>3, <2>1 DEF CounterInv, WordSound
<1>5. ASSUME NEW c \in AmountNames PROVE AmountSound(c)'
  <2> DEFINE n == Len(hist)
             old == Readings(c)
             new == Readings(c)'
  <2>0. c \in Names /\ AmountSound(c)
    BY ReadsAll DEF CounterInv
  <2>1. n \in Nat /\ Len(hist') = n + 1 /\ sample[c] \in 0..(Full - 1)
    <3>1. n \in Nat /\ Len(hist') = n + 1
      BY <1>0, <1>1 DEF CounterType
    <3>2. sample[c] \in 0..(Full - 1)
      BY <1>0, <2>0 DEF CounterType
    <3> QED
      BY <3>1, <3>2
  <2>2. \A i \in 1..n : hist'[i] = hist[i] /\ new[i] = old[i]
    BY <1>0, <1>1 DEF Readings, CounterType
  <2>3. hist'[n + 1] = sample /\ new[n + 1] = sample[c]
    BY <1>0, <1>1 DEF Readings, CounterType
  <2>4. ~(\E i \in 1..4 : Counters[i] = c /\ i < at')
        /\ (\E i \in 1..4 : Counters[i] = c /\ i < at)
    <3>1. PICK i \in 1..Reads : Counters[i] = c
      BY ReadsAll
    <3>2. i \in 1..4 /\ i < at
      BY <1>0 DEF CounterType
    <3> QED
      BY <1>1, <3>1, <3>2
  <2>5. Read(c) = Total(old, 1..n) + sample[c]
    BY <2>4 DEF Read
  <2>6. Read(c)' = Total(new, 1..(n + 1)) + 0
    BY <2>1, <2>4 DEF Read
  <2>7. \A i \in 1..Len(hist') : hist'[i][c] <= MaxAmount
    <3>1. \A i \in 1..(n + 1) : i \in 1..n \/ i = n + 1
      BY <2>1
    <3> QED
      BY <2>0, <2>1, <2>2, <2>3, <3>1 DEF AmountSound
  <2> HIDE DEF n, old, new
  <2>8. IsFiniteSet(1..n)
    <3>1. 1 \in Int /\ n \in Int
      BY <2>1
    <3> QED
      BY <3>1, FS_Interval, ZenonT(20)
  <2>9. 1..(n + 1) = (1..n) \cup {n + 1} /\ n + 1 \notin 1..n
    BY <2>1
  <2>10. new[n + 1] \in 0..Full
    BY <2>1, <2>3, FullType
  <2>11. Total(new, (1..n) \cup {n + 1}) = Total(new, 1..n) + new[n + 1]
    BY <2>8, <2>9, <2>10, TotalAdd
  <2>12. Total(new, 1..n) = Total(old, 1..n) /\ Total(old, 1..n) \in Nat
    BY <2>2, <2>8, TotalSame, TotalType
  <2>13. Read(c)' = Read(c)
    <3>1. Read(c)' = Total(old, 1..n) + sample[c] + 0
      BY <2>3, <2>6, <2>9, <2>11, <2>12
    <3>2. sample[c] \in Int
      BY <2>1, FullType
    <3> QED
      BY <2>5, <2>12, <3>1, <3>2
  <2> QED
    BY <1>1, <1>3, <2>0, <2>7, <2>13 DEF AmountSound
<1> QED
  BY <1>2, <1>4, <1>5 DEF CounterInv

-----------------------------------------------------------------------------
(* The theorems about the counters *)

LEMMA CounterInit ==
    ASSUME Init
    PROVE  CounterInv
<1>1. CounterType
  <2>1. word \in [Names -> 0..(Full - 1)] /\ sample \in [Names -> 0..(Full - 1)]
    BY FullType DEF Init
  <2>2. 1 \in 1..(Reads + 1)
    BY ReadsAll
  <2> QED
    BY <2>1, <2>2 DEF Init, CounterType
<1>2. \A c : ~Loading(c)
  BY DEF Init, Loading
<1>3. \A c \in Names : word[c] = 0 /\ burst[c] = 0 /\ sent[c] = 0 /\ sample[c] = 0
  BY DEF Init
<1>4. ASSUME NEW c \in WaitNames PROVE WordSound(c)
  <2>1. Waiters(c) = {}
    BY DEF Init, Waiters
  <2>2. Waiting(c) = 0
    BY <2>1, WaitingType, FS_EmptySet
  <2>3. Ticks(0) = 0 /\ Tocks(0) = 0
    BY DEF Ticks, Tocks
  <2>4. word[c] = 0 /\ burst[c] = 0
    BY <1>3, ReadsAll
  <2> QED
    BY <1>2, <2>2, <2>3, <2>4, Room DEF WordSound
<1>5. ASSUME NEW c \in AmountNames PROVE AmountSound(c)
  <2>1. word[c] = 0 /\ burst[c] = 0 /\ sent[c] = 0 /\ sample[c] = 0 /\ hist = <<>>
    BY <1>3, ReadsAll DEF Init
  <2>2. Total(Readings(c), 1..Len(hist)) = 0
    <3>1. 1..Len(hist) = {}
      BY <2>1
    <3> QED
      BY <3>1, TotalEmpty
  <2> QED
    BY <1>2, <2>1, <2>2 DEF AmountSound, Read
<1> QED
  BY <1>1, <1>4, <1>5 DEF CounterInv

LEMMA CounterStep ==
    ASSUME CounterInv, [Next]_vars
    PROVE  CounterInv'
<1>1. CASE Next
  BY <1>1, SendsStep, PassesStep, TickStep, TockStep, LoadStep, SubtractStep,
     EvaluateStep DEF Next
<1>2. CASE UNCHANGED vars
  <2>1. CounterType'
    BY <1>2 DEF CounterInv, CounterType, vars
  <2>2. \A c \in WaitNames : WordSound(c)'
    BY <1>2 DEF CounterInv, WordSound, Loading, Waiting, vars
  <2>3. \A c \in AmountNames : AmountSound(c)'
    BY <1>2 DEF CounterInv, AmountSound, Loading, Read, Readings, vars
  <2> QED
    BY <2>1, <2>2, <2>3 DEF CounterInv
<1> QED
  BY <1>1, <1>2

\* The counters keep their inductive invariant, whatever the interleaving of the
\* goroutines that count with the governor's loads and subtractions.
THEOREM CounterInvariance == Spec => []CounterInv
<1>1. Init => CounterInv
  BY CounterInit
<1>2. CounterInv /\ [Next]_vars => CounterInv'
  BY CounterStep
<1> QED
  BY <1>1, <1>2, PTL DEF Spec

\* Whatever Fold takes off a word that goroutines add to meanwhile, nothing is
\* borrowed from one half of it to the other, and neither half overflows however
\* long the client runs: the ticks are ahead of the tocks by the goroutines that
\* wait, now and once the fold under way has subtracted.
THEOREM FoldBalanced == Spec => []FoldKeepsBalance
<1>1. CounterInv => FoldKeepsBalance
  <2>1. SUFFICES ASSUME CounterInv, NEW c \in WaitNames
                 PROVE  /\ Ticks(word[c]) - Tocks(word[c]) = Waiting(c)
                        /\ Ticks(Settled(c)) - Tocks(Settled(c)) = Waiting(c)
    BY DEF FoldKeepsBalance, WaitNames
  <2>2. CounterType /\ WordSound(c)
    BY <2>1 DEF CounterInv
  <2>3. CASE ~Loading(c)
    <3>1. Settled(c) = word[c]
      BY <2>3 DEF Settled, Loading
    <3> QED
      BY <2>2, <3>1 DEF WordSound
  <2>4. CASE Loading(c)
    <3>1. Settled(c) = Sub(word[c], Tocks(loaded) * (Half + 1))
      BY <2>4 DEF Settled, Loading, Taken, WaitNames
    <3>2. Tocks(loaded) <= Tocks(word[c]) /\ Tocks(loaded) \in Nat
      BY <2>2, <2>4, WordNumbers DEF WordSound, Loading
    <3>3. Tocks(word[c]) <= Ticks(word[c])
      BY <2>2, WordNumbers, WaitingType DEF WordSound
    <3>4. /\ Ticks(Settled(c)) = Ticks(word[c]) - Tocks(loaded)
          /\ Tocks(Settled(c)) = Tocks(word[c]) - Tocks(loaded)
      BY <2>2, <3>1, <3>2, <3>3, FoldWord, WordNumbers
    <3> QED
      BY <2>2, <3>2, <3>4, WordNumbers, WaitingType DEF WordSound
  <2> QED
    BY <2>3, <2>4
<1> QED
  BY <1>1, CounterInvariance, PTL

\* Draw, which loads a counter and subtracts what it loaded later, loses nothing
\* that is added in between and reads nothing twice, however much is added over
\* the life of the client.
THEOREM DrawsLoseNothing == Spec => []DrawLosesNothing
<1>1. CounterInv => DrawLosesNothing
  BY DEF CounterInv, AmountSound, AmountNames, DrawLosesNothing
<1> QED
  BY <1>1, CounterInvariance, PTL

-----------------------------------------------------------------------------
(* The periods of MinSustain and the limits over them *)

\* The division rounded up is the least number of ticks that MinSustain takes.
LEMMA PeriodsRoundedUp ==
    Periods = MinSust /\ MinSust \in Nat /\ (MinSustain > 0 => MinSust > 0)
<1> DEFINE q == MinSustain \div PollInterval
           r == MinSustain % PollInterval
           S == {n \in 0..MinSustain : n * PollInterval >= MinSustain}
<1>1. /\ q \in Nat /\ r \in 0..(PollInterval - 1)
      /\ MinSustain = q * PollInterval + r
  <2>1. MinSustain \in Nat /\ PollInterval \in Nat \ {0}
    OBVIOUS
  <2> QED
    BY <2>1, Division
<1>2. MinSust = IF r > 0 THEN q + 1 ELSE q
  BY <1>1 DEF MinSust, minSustainPollPeriods
<1> HIDE DEF q, r
<1>3. MinSust \in Nat
  BY <1>1, <1>2
<1>4. q <= q * PollInterval /\ q * PollInterval \in Nat
  BY <1>1
<1>5. MinSust <= MinSustain
  BY <1>1, <1>2, <1>4
<1>6. MinSust * PollInterval >= MinSustain
  <2>1. (q + 1) * PollInterval = q * PollInterval + PollInterval
    BY <1>1
  <2> QED
    BY <1>1, <1>2, <1>4, <2>1
<1>7. ASSUME NEW n \in Nat, n * PollInterval >= MinSustain
      PROVE  MinSust <= n
  <2>1. SUFFICES ASSUME n < MinSust PROVE FALSE
    BY <1>3
  <2>2. CASE r > 0
    <3>1. n <= q
      BY <1>1, <1>2, <2>1, <2>2
    <3>2. n * PollInterval <= q * PollInterval /\ n * PollInterval \in Nat
      BY <1>1, <3>1
    <3> QED
      BY <1>1, <1>4, <1>7, <2>2, <3>2
  <2>3. CASE r = 0
    <3>1. n + 1 <= q
      BY <1>1, <1>2, <2>1, <2>3
    <3>2. (n + 1) * PollInterval <= q * PollInterval
      BY <1>1, <3>1
    <3>3. (n + 1) * PollInterval = n * PollInterval + PollInterval
          /\ n * PollInterval \in Nat
      OBVIOUS
    <3> QED
      BY <1>1, <1>4, <1>7, <2>3, <3>2, <3>3
  <2> QED
    BY <1>1, <2>2, <2>3
<1>8. MinSust \in S /\ \A n \in S : MinSust <= n /\ n \in Nat
  BY <1>3, <1>5, <1>6, <1>7
<1>9. Periods = CHOOSE x \in S : \A y \in S : x <= y
  BY DEF Periods, Min
<1> HIDE DEF S
<1>10. Periods \in S /\ \A y \in S : Periods <= y
  BY <1>8, <1>9
<1>11. MinSust = 0 => MinSust * PollInterval = 0
  BY <1>3
<1> QED
  BY <1>3, <1>6, <1>8, <1>10, <1>11

\* A sum is over a limit rounded down exactly if it is over the limit itself.
LEMMA OverLimit ==
    ASSUME NEW n \in Nat, NEW x \in Nat, NEW k \in Nat \ {0}
    PROVE  n > x \div k <=> n * k > x
<1> DEFINE q == x \div k
           r == x % k
<1>1. q \in Nat /\ r \in 0..(k - 1) /\ x = q * k + r /\ q * k \in Nat
  OBVIOUS
<1> HIDE DEF q, r
<1>2. ASSUME n > q PROVE n * k > x
  <2>1. n * k >= (q + 1) * k /\ (q + 1) * k = q * k + k /\ n * k \in Nat
    BY <1>1, <1>2
  <2> QED
    BY <1>1, <2>1
<1>3. ASSUME ~(n > q) PROVE ~(n * k > x)
  <2>1. n * k <= q * k /\ n * k \in Nat
    BY <1>1, <1>3
  <2> QED
    BY <1>1, <2>1
<1> QED
  BY <1>2, <1>3 DEF q

-----------------------------------------------------------------------------
(* Continuous periods *)

\* A waitCounter ctr after the samples v: the last ctr.waits of them show a wait,
\* the one before them does not, and so the other way round.
Streak(ctr, v) ==
    /\ ctr \in [waits : 0..Len(v), noWaits : 0..Len(v)]
    /\ \A i \in 1..Len(v) :
         /\ i > Len(v) - ctr.waits => v[i] > 0
         /\ i = Len(v) - ctr.waits => v[i] = 0
         /\ i > Len(v) - ctr.noWaits => v[i] = 0
         /\ i = Len(v) - ctr.noWaits => v[i] > 0

LEMMA Appended ==
    ASSUME NEW v \in Seq(Nat), NEW x \in Nat
    PROVE  /\ Len(v) \in Nat /\ Len(Append(v, x)) = Len(v) + 1
           /\ \A i \in 1..Len(v) : v[i] \in Nat /\ Append(v, x)[i] = v[i]
           /\ Append(v, x)[Len(v) + 1] = x
  OBVIOUS

LEMMA StreakKept ==
    ASSUME NEW v \in Seq(Nat), NEW x \in Nat, NEW ctr, Streak(ctr, v)
    PROVE  Streak(Acc(ctr, x), Append(v, x))
<1> DEFINE n == Len(v)
           w == Append(v, x)
<1>1. /\ n \in Nat /\ Len(w) = n + 1 /\ w[n + 1] = x
      /\ \A i \in 1..n : w[i] = v[i] /\ v[i] \in Nat
  BY Appended
<1>2. ctr.waits \in 0..n /\ ctr.noWaits \in 0..n
  BY DEF Streak
<1>3. PICK a \in 0..n, b \in 0..n : a = ctr.waits /\ b = ctr.noWaits
  BY <1>2
<1>4. \A i \in 1..n :
         /\ i > n - a => v[i] > 0
         /\ i = n - a => v[i] = 0
         /\ i > n - b => v[i] = 0
         /\ i = n - b => v[i] > 0
  BY <1>3 DEF Streak
<1> HIDE DEF n, w
<1>5. \A i \in 1..(n + 1) : i \in 1..n \/ i = n + 1
  BY <1>1
<1>6. CASE x > 0
  <2> DEFINE new == [waits |-> a + 1, noWaits |-> 0]
  <2>1. Acc(ctr, x) = new
    BY <1>3, <1>6 DEF Acc
  <2>2. new \in [waits : 0..(n + 1), noWaits : 0..(n + 1)]
    BY <1>1
  <2>3. ASSUME NEW i \in 1..(n + 1)
        PROVE  /\ i > n - a => w[i] > 0
               /\ i = n - a => w[i] = 0
               /\ i = n + 1 => w[i] > 0
    <3>1. CASE i = n + 1
      BY <1>1, <1>6, <3>1
    <3>2. CASE i \in 1..n
      <4>1. w[i] = v[i] /\ i # n + 1
        BY <1>1, <3>2
      <4> QED
        BY <1>4, <3>2, <4>1
    <3> QED
      BY <1>5, <3>1, <3>2
  <2>4. n + 1 - (a + 1) = n - a /\ n + 1 - 0 = n + 1
    BY <1>1
  <2>5. new.waits = a + 1 /\ new.noWaits = 0
    OBVIOUS
  <2> HIDE DEF new
  <2>6. Streak(new, w)
    <3>1. ASSUME NEW i \in 1..(n + 1)
          PROVE  /\ i > n + 1 - new.waits => w[i] > 0
                 /\ i = n + 1 - new.waits => w[i] = 0
                 /\ i > n + 1 - new.noWaits => w[i] = 0
                 /\ i = n + 1 - new.noWaits => w[i] > 0
      BY <1>1, <2>3, <2>4, <2>5
    <3>2. Len(w) = n + 1
      BY <1>1
    <3>3. new \in [waits : 0..Len(w), noWaits : 0..Len(w)]
      BY <2>2, <3>2, Zenon
    <3>4. ASSUME NEW i \in 1..Len(w)
          PROVE  /\ i > Len(w) - new.waits => w[i] > 0
                 /\ i = Len(w) - new.waits => w[i] = 0
                 /\ i > Len(w) - new.noWaits => w[i] = 0
                 /\ i = Len(w) - new.noWaits => w[i] > 0
      <4>1. /\ i \in 1..(n + 1) /\ Len(w) - new.waits = n + 1 - new.waits
            /\ Len(w) - new.noWaits = n + 1 - new.noWaits
        BY <1>1, <2>5
      <4> QED
        BY <3>1, <4>1
    <3> QED
      BY <3>3, <3>4, Zenon DEF Streak
  <2> QED
    BY <2>1, <2>6 DEF w
<1>7. CASE x = 0
  <2> DEFINE new == [waits |-> 0, noWaits |-> b + 1]
  <2>1. Acc(ctr, x) = new
    BY <1>3, <1>7 DEF Acc
  <2>2. new \in [waits : 0..(n + 1), noWaits : 0..(n + 1)]
    BY <1>1
  <2>3. ASSUME NEW i \in 1..(n + 1)
        PROVE  /\ i > n - b => w[i] = 0
               /\ i = n - b => w[i] > 0
               /\ i = n + 1 => w[i] = 0
    <3>1. CASE i = n + 1
      BY <1>1, <1>7, <3>1
    <3>2. CASE i \in 1..n
      <4>1. w[i] = v[i] /\ i # n + 1
        BY <1>1, <3>2
      <4> QED
        BY <1>4, <3>2, <4>1
    <3> QED
      BY <1>5, <3>1, <3>2
  <2>4. n + 1 - (b + 1) = n - b /\ n + 1 - 0 = n + 1
    BY <1>1
  <2>5. new.waits = 0 /\ new.noWaits = b + 1
    OBVIOUS
  <2> HIDE DEF new
  <2>6. Streak(new, w)
    <3>1. ASSUME NEW i \in 1..(n + 1)
          PROVE  /\ i > n + 1 - new.waits => w[i] > 0
                 /\ i = n + 1 - new.waits => w[i] = 0
                 /\ i > n + 1 - new.noWaits => w[i] = 0
                 /\ i = n + 1 - new.noWaits => w[i] > 0
      BY <1>1, <2>3, <2>4, <2>5
    <3>2. Len(w) = n + 1
      BY <1>1
    <3>3. new \in [waits : 0..Len(w), noWaits : 0..Len(w)]
      BY <2>2, <3>2, Zenon
    <3>4. ASSUME NEW i \in 1..Len(w)
          PROVE  /\ i > Len(w) - new.waits => w[i] > 0
                 /\ i = Len(w) - new.waits => w[i] = 0
                 /\ i > Len(w) - new.noWaits => w[i] = 0
                 /\ i = Len(w) - new.noWaits => w[i] > 0
      <4>1. /\ i \in 1..(n + 1) /\ Len(w) - new.waits = n + 1 - new.waits
            /\ Len(w) - new.noWaits = n + 1 - new.noWaits
        BY <1>1, <2>5
      <4> QED
        BY <3>1, <4>1
    <3> QED
      BY <3>3, <3>4, Zenon DEF Streak
  <2> QED
    BY <2>1, <2>6 DEF w
<1> QED
  BY <1>6, <1>7

\* A streak is as long as p if the last p samples agree.
LEMMA StreakLength ==
    ASSUME NEW v \in Seq(Nat), NEW ctr, Streak(ctr, v), NEW p \in Nat \ {0}
    PROVE  /\ ctr.waits >= p <=>
                 Len(v) >= p /\ \A i \in (Len(v) - p + 1)..Len(v) : v[i] > 0
           /\ ctr.noWaits >= p <=>
                 Len(v) >= p /\ \A i \in (Len(v) - p + 1)..Len(v) : v[i] = 0
<1> DEFINE n == Len(v)
<1>1. n \in Nat /\ \A i \in 1..n : v[i] \in Nat
  OBVIOUS
<1>2. /\ ctr.waits \in 0..n /\ ctr.noWaits \in 0..n
      /\ \A i \in 1..n :
           /\ i > n - ctr.waits => v[i] > 0
           /\ i = n - ctr.waits => v[i] = 0
           /\ i > n - ctr.noWaits => v[i] = 0
           /\ i = n - ctr.noWaits => v[i] > 0
  BY DEF Streak
<1> HIDE DEF n
<1>3. ASSUME ctr.waits < p, n >= p
      PROVE  \E i \in (n - p + 1)..n : ~(v[i] > 0)
  <2>1. n - ctr.waits \in (n - p + 1)..n /\ n - ctr.waits \in 1..n
    BY <1>1, <1>2, <1>3
  <2>2. v[n - ctr.waits] = 0
    BY <1>2, <2>1
  <2> QED
    BY <2>1, <2>2
<1>4. ASSUME ctr.noWaits < p, n >= p
      PROVE  \E i \in (n - p + 1)..n : ~(v[i] = 0)
  <2>1. n - ctr.noWaits \in (n - p + 1)..n /\ n - ctr.noWaits \in 1..n
    BY <1>1, <1>2, <1>4
  <2>2. v[n - ctr.noWaits] > 0
    BY <1>2, <2>1
  <2> QED
    BY <2>1, <2>2
<1>5. ASSUME ctr.waits >= p
      PROVE  n >= p /\ \A i \in (n - p + 1)..n : v[i] > 0
  <2>1. n >= p
    BY <1>1, <1>2, <1>5
  <2>2. ASSUME NEW i \in (n - p + 1)..n PROVE v[i] > 0
    <3>1. i \in 1..n /\ i > n - ctr.waits
      BY <1>1, <1>2, <1>5, <2>1
    <3> QED
      BY <1>2, <3>1
  <2> QED
    BY <2>1, <2>2
<1>6. ASSUME ctr.noWaits >= p
      PROVE  n >= p /\ \A i \in (n - p + 1)..n : v[i] = 0
  <2>1. n >= p
    BY <1>1, <1>2, <1>6
  <2>2. ASSUME NEW i \in (n - p + 1)..n PROVE v[i] = 0
    <3>1. i \in 1..n /\ i > n - ctr.noWaits
      BY <1>1, <1>2, <1>6, <2>1
    <3> QED
      BY <1>2, <3>1
  <2> QED
    BY <2>1, <2>2
<1>7. (ctr.waits >= p \/ ctr.waits < p) /\ (ctr.noWaits >= p \/ ctr.noWaits < p)
  BY <1>1, <1>2
<1>8. ctr.waits >= p <=> n >= p /\ \A i \in (n - p + 1)..n : v[i] > 0
  BY <1>3, <1>5, <1>7
<1>9. ctr.noWaits >= p <=> n >= p /\ \A i \in (n - p + 1)..n : v[i] = 0
  BY <1>4, <1>6, <1>7
<1> QED
  BY <1>8, <1>9 DEF n

-----------------------------------------------------------------------------
(* Moving sums *)

\* Where a movingAcc keeps the sample that d others came after, if pos is next.
Slot(pos, d) == IF d < pos THEN pos - 1 - d ELSE pos - 1 - d + MinSust

\* The last MinSust of n samples, or as many as there are.
Recent(n) == {i \in (n - MinSust + 1)..n : i >= 1}

\* A movingAcc a after the samples v: it holds the last of them in the order they
\* came, with zeros before the first, and their sum.
Ring(a, v) ==
    /\ a.samples \in [0..(MinSust - 1) -> 0..(Full - 1)]
    /\ a.pos \in 0..(MinSust - 1)
    /\ \A d \in 0..(MinSust - 1) :
         a.samples[Slot(a.pos, d)] = IF d < Len(v) THEN v[Len(v) - d] ELSE 0
    /\ a.sum = Total(v, Recent(Len(v)))

LEMMA NextSlot ==
    \A p \in Nat \ {0} : \A k \in 0..(p - 1) :
        (k + 1) % p = IF k + 1 = p THEN 0 ELSE k + 1
  OBVIOUS

\* The oldest sample is where the next one goes, and the others age by one.
LEMMA Slots ==
    ASSUME MinSust \in Nat \ {0}, NEW pos \in 0..(MinSust - 1), NEW next,
           next = IF pos + 1 = MinSust THEN 0 ELSE pos + 1
    PROVE  /\ next \in 0..(MinSust - 1)
           /\ Slot(pos, MinSust - 1) = pos /\ Slot(next, 0) = pos
           /\ \A d \in 1..(MinSust - 1) :
                /\ Slot(next, d) = Slot(pos, d - 1)
                /\ Slot(next, d) \in 0..(MinSust - 1) /\ Slot(next, d) # pos
<1>1. next = IF pos + 1 = MinSust THEN 0 ELSE pos + 1
  OBVIOUS
<1>2. Slot(pos, MinSust - 1) = pos
  BY DEF Slot
<1>3. Slot(next, 0) = pos
  BY <1>1 DEF Slot
<1>4. ASSUME NEW d \in 1..(MinSust - 1)
      PROVE  /\ Slot(next, d) = Slot(pos, d - 1)
             /\ Slot(next, d) \in 0..(MinSust - 1) /\ Slot(next, d) # pos
  <2>1. CASE pos + 1 = MinSust
    BY <1>1, <2>1 DEF Slot
  <2>2. CASE pos + 1 # MinSust
    BY <1>1, <2>2 DEF Slot
  <2> QED
    BY <2>1, <2>2
<1> QED
  BY <1>1, <1>2, <1>3, <1>4

LEMMA RecentFinite ==
    ASSUME MinSust \in Nat, NEW n \in Nat
    PROVE  /\ IsFiniteSet(1..n) /\ Recent(n) \subseteq 1..n
           /\ IsFiniteSet(Recent(n))
<1>1. 1 \in Int /\ n \in Int
  OBVIOUS
<1>2. IsFiniteSet(1..n)
  BY <1>1, FS_Interval, ZenonT(20)
<1>3. Recent(n) \subseteq 1..n
  BY DEF Recent
<1> QED
  BY <1>2, <1>3, FS_Subset

LEMMA RecentMembers ==
    ASSUME MinSust \in Nat, NEW n \in Nat
    PROVE  \A i : i \in Recent(n) <=> i \in 1..n /\ i >= n - MinSust + 1
  BY DEF Recent

\* The sum of the window does not overflow.
LEMMA SumBelow ==
    ASSUME MinSust \in Nat, NEW n \in Nat, NEW v, NEW x \in 0..MaxAmount,
           \A i \in 1..n : v[i] \in 0..MaxAmount
    PROVE  Total(v, Recent(n)) \in Nat /\ Total(v, Recent(n)) + x < Full
<1>1. IsFiniteSet(Recent(n)) /\ \A i \in Recent(n) : v[i] \in 0..MaxAmount
  BY RecentFinite
<1>2. Total(v, Recent(n)) <= Cardinality(Recent(n)) * MaxAmount
  BY <1>1, TotalBound
<1>3. Cardinality(Recent(n)) \in Nat /\ Cardinality(Recent(n)) <= MinSust
  <2> DEFINE last == (n - MinSust + 1)..n
  <2>1. n - MinSust + 1 \in Int /\ n \in Int
    OBVIOUS
  <2>2. IsFiniteSet(last)
    BY <2>1, FS_Interval, ZenonT(20)
  <2>3. Cardinality(last) = IF n - MinSust + 1 > n THEN 0
                            ELSE n - (n - MinSust + 1) + 1
    BY <2>1, FS_Interval, ZenonT(20)
  <2>4. Recent(n) \subseteq last
    BY DEF Recent
  <2>5. Cardinality(Recent(n)) <= Cardinality(last)
    BY <2>2, <2>4, FS_Subset
  <2> HIDE DEF last
  <2> QED
    BY <1>1, <2>3, <2>5, FS_CardinalityType
<1>4. Cardinality(Recent(n)) * MaxAmount <= MinSust * MaxAmount
  BY <1>3
<1>5. /\ (MinSust + 2) * MaxAmount = MinSust * MaxAmount + 2 * MaxAmount
      /\ MinSust * MaxAmount \in Nat /\ Cardinality(Recent(n)) * MaxAmount \in Nat
  BY <1>3
<1>6. Total(v, Recent(n)) \in Nat
  BY <1>1, TotalType
<1> QED
  BY <1>2, <1>4, <1>5, <1>6, RoomAssumption, FullType DEF RoomAssumption

\* The sample that the next one displaces.
Oldest(v) == IF MinSust - 1 < Len(v) THEN v[Len(v) - (MinSust - 1)] ELSE 0

\* The moving sum takes in the new sample and drops the oldest.
LEMMA RecentSum ==
    ASSUME MinSust \in Nat \ {0}, NEW v \in Seq(Nat), NEW x \in 0..(Full - 1),
           \A i \in 1..Len(v) : v[i] \in 0..(Full - 1)
    PROVE  /\ Total(Append(v, x), Recent(Len(v) + 1))
                 = Total(v, Recent(Len(v))) + x - Oldest(v)
           /\ Oldest(v) \in 0..(Full - 1) /\ Oldest(v) <= Total(v, Recent(Len(v)))
           /\ Total(v, Recent(Len(v))) \in Nat
<1> DEFINE n == Len(v)
           w == Append(v, x)
<1>1. /\ n \in Nat /\ w[n + 1] = x /\ x \in Nat
      /\ \A i \in 1..n : w[i] = v[i] /\ v[i] \in 0..(Full - 1)
  BY Appended, FullType
<1>2. Oldest(v) = IF MinSust - 1 < n THEN v[n - (MinSust - 1)] ELSE 0
  BY DEF Oldest
<1> HIDE DEF n, w
<1>3. IsFiniteSet(1..n) /\ Recent(n) \subseteq 1..n /\ IsFiniteSet(Recent(n))
  BY <1>1, RecentFinite
<1>4. Total(v, Recent(n)) \in Nat
  BY <1>3, TotalType
<1>5. ASSUME NEW R, R \subseteq 1..n, IsFiniteSet(R)
      PROVE  Total(w, R \cup {n + 1}) = Total(v, R) + x /\ Total(v, R) \in Nat
  <2>1. n + 1 \notin R /\ w[n + 1] \in 0..Full
    BY <1>1, <1>5, FullType
  <2>2. Total(w, R \cup {n + 1}) = Total(w, R) + w[n + 1]
    BY <1>5, <2>1, TotalAdd
  <2>3. Total(w, R) = Total(v, R)
    BY <1>1, <1>5, TotalSame
  <2> QED
    BY <1>1, <1>5, <2>2, <2>3, TotalType
<1>6. CASE MinSust - 1 < n
  <2> DEFINE o == n - (MinSust - 1)
             R == Recent(n) \ {o}
  <2>1. o \in 1..n /\ o \in Recent(n) /\ Oldest(v) = v[o]
    <3>1. o \in 1..n /\ o >= n - MinSust + 1
      BY <1>1, <1>6
    <3> QED
      BY <1>1, <1>2, <1>6, <3>1, RecentMembers
  <2>2. Recent(n + 1) = R \cup {n + 1}
    <3>1. \A i : i \in Recent(n) <=> i \in 1..n /\ i >= n - MinSust + 1
      BY <1>1, RecentMembers
    <3>2. \A i : i \in Recent(n + 1) <=>
                   i \in 1..(n + 1) /\ i >= (n + 1) - MinSust + 1
      <4>1. n + 1 \in Nat
        BY <1>1
      <4> QED
        BY <4>1, RecentMembers
    <3>3. ASSUME NEW i \in Recent(n + 1) PROVE i \in R \cup {n + 1}
      <4>1. i \in 1..(n + 1) /\ i >= (n + 1) - MinSust + 1
        BY <3>2, <3>3
      <4>2. i \in 1..n \/ i = n + 1
        BY <1>1, <4>1
      <4>3. i # o /\ i >= n - MinSust + 1
        BY <1>1, <4>1
      <4> QED
        BY <3>1, <4>2, <4>3
    <3>4. ASSUME NEW i \in R PROVE i \in Recent(n + 1)
      <4>1. i \in 1..n /\ i >= n - MinSust + 1 /\ i # o
        BY <3>1, <3>4
      <4>2. i \in 1..(n + 1) /\ i >= (n + 1) - MinSust + 1
        BY <1>1, <4>1
      <4> QED
        BY <3>2, <4>2
    <3>5. n + 1 \in 1..(n + 1) /\ n + 1 >= (n + 1) - MinSust + 1
      BY <1>1
    <3>6. n + 1 \in Recent(n + 1)
      BY <3>2, <3>5
    <3> HIDE DEF R
    <3> QED
      BY <3>3, <3>4, <3>6
  <2>3. IsFiniteSet(R) /\ R \subseteq 1..n /\ Recent(n) = R \cup {o} /\ o \notin R
    <3>1. IsFiniteSet(R)
      BY <1>3, FS_Subset
    <3> QED
      BY <1>3, <2>1, <3>1
  <2> HIDE DEF o, R
  <2>4. v[o] \in 0..(Full - 1) /\ v[o] \in 0..Full
    BY <1>1, <2>1, FullType
  <2>5. Total(v, Recent(n)) = Total(v, R) + v[o]
    BY <2>3, <2>4, TotalAdd
  <2>6. Total(w, Recent(n + 1)) = Total(v, R) + x /\ Total(v, R) \in Nat
    BY <1>5, <2>2, <2>3
  <2>7. Oldest(v) \in 0..(Full - 1) /\ Oldest(v) \in Nat
    BY <2>1, <2>4, FullType
  <2>8. Total(v, Recent(n)) = Total(v, R) + Oldest(v)
    BY <2>1, <2>5
  <2>9. /\ Total(w, Recent(n + 1)) = Total(v, Recent(n)) + x - Oldest(v)
        /\ Oldest(v) <= Total(v, Recent(n))
    BY <1>1, <2>6, <2>7, <2>8
  <2> QED
    BY <1>4, <2>7, <2>9 DEF n, w
<1>7. CASE ~(MinSust - 1 < n)
  <2>1. Recent(n + 1) = Recent(n) \cup {n + 1}
    <3>1. \A i : i \in Recent(n) <=> i \in 1..n /\ i >= n - MinSust + 1
      BY <1>1, RecentMembers
    <3>2. \A i : i \in Recent(n + 1) <=>
                   i \in 1..(n + 1) /\ i >= (n + 1) - MinSust + 1
      <4>1. n + 1 \in Nat
        BY <1>1
      <4> QED
        BY <4>1, RecentMembers
    <3>3. ASSUME NEW i \in 1..n
          PROVE  i >= n - MinSust + 1 /\ i >= (n + 1) - MinSust + 1
      BY <1>1, <1>7
    <3>4. Recent(n) = 1..n
      BY <3>1, <3>3
    <3>5. \A i : i \in 1..(n + 1) <=> i \in 1..n \/ i = n + 1
      BY <1>1
    <3>6. n + 1 >= (n + 1) - MinSust + 1
      BY <1>1
    <3>7. \A i \in 1..(n + 1) : i \in Recent(n + 1)
      BY <3>2, <3>3, <3>5, <3>6
    <3> QED
      BY <3>2, <3>4, <3>5, <3>7
  <2>2. Oldest(v) = 0
    BY <1>2, <1>7
  <2>3. Total(w, Recent(n + 1)) = Total(v, Recent(n)) + x
    BY <1>3, <1>5, <2>1
  <2>4. /\ Total(w, Recent(n + 1)) = Total(v, Recent(n)) + x - Oldest(v)
        /\ Oldest(v) <= Total(v, Recent(n)) /\ Oldest(v) \in 0..(Full - 1)
    BY <1>1, <1>4, <2>2, <2>3, FullType
  <2> QED
    BY <1>4, <2>4 DEF n, w
<1> QED
  BY <1>6, <1>7

LEMMA RingKept ==
    ASSUME MinSust \in Nat \ {0}, NEW v \in Seq(Nat), NEW x \in 0..(Full - 1),
           \A i \in 1..Len(v) : v[i] \in 0..(Full - 1), NEW a, Ring(a, v),
           x <= MaxAmount, \A i \in 1..Len(v) : v[i] <= MaxAmount
    PROVE  Ring(Accumulate(a, x), Append(v, x))
<1> DEFINE n == Len(v)
           w == Append(v, x)
<1>1. /\ n \in Nat /\ Len(w) = n + 1 /\ w[n + 1] = x /\ x \in Nat
      /\ \A i \in 1..n : w[i] = v[i]
  BY Appended, FullType
<1>2. PICK pos \in 0..(MinSust - 1), old \in 0..(Full - 1),
           slots \in [0..(MinSust - 1) -> 0..(Full - 1)] :
        pos = a.pos /\ slots = a.samples /\ old = slots[pos]
  BY DEF Ring
<1> PICK next : next = (pos + 1) % MinSust
  OBVIOUS
<1>3. next = IF pos + 1 = MinSust THEN 0 ELSE pos + 1
  BY NextSlot
<1>4. /\ next \in 0..(MinSust - 1)
      /\ Slot(pos, MinSust - 1) = pos /\ Slot(next, 0) = pos
      /\ \A d \in 1..(MinSust - 1) :
           /\ Slot(next, d) = Slot(pos, d - 1)
           /\ Slot(next, d) \in 0..(MinSust - 1) /\ Slot(next, d) # pos
  BY <1>3, Slots
<1>5. \A d \in 0..(MinSust - 1) :
         slots[Slot(pos, d)] = IF d < n THEN v[n - d] ELSE 0
  BY <1>2 DEF Ring
<1>6. old = Oldest(v)
  <2>1. MinSust - 1 \in 0..(MinSust - 1)
    OBVIOUS
  <2> QED
    BY <1>2, <1>4, <1>5, <2>1 DEF Oldest
<1>7. /\ Total(w, Recent(n + 1)) = Total(v, Recent(n)) + x - old
      /\ old <= Total(v, Recent(n)) /\ Total(v, Recent(n)) \in Nat
  BY <1>6, RecentSum
<1>8. Total(v, Recent(n)) + x < Full
  <2>1. x \in 0..MaxAmount /\ \A i \in 1..n : v[i] \in 0..MaxAmount
    BY FullType
  <2> HIDE DEF n, w
  <2> QED
    BY <1>1, <2>1, SumBelow
<1>9. a.sum = Total(v, Recent(n))
  BY DEF Ring
<1> DEFINE T == [slots EXCEPT ![pos] = x]
           sum == Sub(Add(a.sum, x), old)
<1>10. Accumulate(a, x) = [samples |-> T, sum |-> sum, pos |-> next]
  BY <1>2 DEF Accumulate
<1> HIDE DEF n, w
<1>11. sum = Total(w, Recent(n + 1))
  <2>1. PICK m \in Nat : m = Total(v, Recent(n))
    BY <1>7
  <2>2. a.sum = m /\ m + x < Full /\ old <= m
    BY <1>7, <1>8, <1>9, <2>1
  <2>3. m + x \in 0..(Full - 1) /\ m + x - old \in 0..(Full - 1)
    BY <1>1, <2>2, FullType
  <2>4. sum = m + x - old
    BY <2>2, <2>3, NoWrap DEF Add, Sub
  <2> QED
    BY <1>7, <2>1, <2>4
<1>12. ASSUME NEW d \in 0..(MinSust - 1)
       PROVE  T[Slot(next, d)] = IF d < n + 1 THEN w[n + 1 - d] ELSE 0
  <2>1. CASE d = 0
    <3>1. T[Slot(next, d)] = x
      BY <1>2, <1>4, <2>1
    <3> QED
      BY <1>1, <2>1, <3>1
  <2>2. CASE d # 0
    <3>1. d \in 1..(MinSust - 1) /\ d - 1 \in 0..(MinSust - 1)
      BY <2>2
    <3>2. T[Slot(next, d)] = slots[Slot(pos, d - 1)]
      BY <1>2, <1>4, <3>1
    <3>3. slots[Slot(pos, d - 1)] = IF d - 1 < n THEN v[n - (d - 1)] ELSE 0
      BY <1>5, <3>1
    <3>4. CASE d < n + 1
      <4>1. n + 1 - d \in 1..n /\ n - (d - 1) = n + 1 - d /\ d - 1 < n
        BY <1>1, <3>1, <3>4
      <4> QED
        BY <1>1, <3>2, <3>3, <3>4, <4>1
    <3>5. CASE ~(d < n + 1)
      <4>1. ~(d - 1 < n)
        BY <1>1, <3>1, <3>5
      <4> QED
        BY <3>2, <3>3, <3>5, <4>1
    <3> QED
      BY <3>4, <3>5
  <2> QED
    BY <2>1, <2>2
<1>13. T \in [0..(MinSust - 1) -> 0..(Full - 1)]
  OBVIOUS
<1> DEFINE new == [samples |-> T, sum |-> sum, pos |-> next]
<1>14. new.samples = T /\ new.sum = sum /\ new.pos = next
  OBVIOUS
<1> HIDE DEF T, sum, new
<1>15. Ring(new, w)
  <2>1. \A d \in 0..(MinSust - 1) :
          new.samples[Slot(new.pos, d)] = IF d < Len(w) THEN w[Len(w) - d] ELSE 0
    <3>1. PICK k : k = n + 1
      OBVIOUS
    <3>2. Len(w) = k /\ k \in Nat
      BY <1>1, <3>1
    <3>3. ASSUME NEW d \in 0..(MinSust - 1)
          PROVE  new.samples[Slot(new.pos, d)] = IF d < k THEN w[k - d] ELSE 0
      <4>1. T[Slot(next, d)] = IF d < k THEN w[k - d] ELSE 0
        <5>1. T[Slot(next, d)] = IF d < n + 1 THEN w[n + 1 - d] ELSE 0
          BY <1>12
        <5>2. n \in Nat /\ d \in Int /\ (d < k <=> d < n + 1)
          BY <1>1, <3>1
        <5>3. n + 1 - d = k - d
          BY <3>1, <5>2
        <5>4. CASE d < k
          <6>1. T[Slot(next, d)] = w[n + 1 - d]
            BY <5>1, <5>2, <5>4, Zenon
          <6>2. w[n + 1 - d] = w[k - d]
            BY <5>3, Zenon
          <6> QED
            BY <5>4, <6>1, <6>2, Zenon
        <5>5. CASE ~(d < k)
          BY <5>1, <5>2, <5>5, Zenon
        <5> QED
          BY <5>4, <5>5
      <4> QED
        BY <1>14, <4>1
    <3> QED
      BY <3>2, <3>3
  <2>2. new.sum = Total(w, Recent(Len(w)))
    BY <1>1, <1>11, <1>14
  <2> QED
    BY <1>4, <1>13, <1>14, <2>1, <2>2 DEF Ring
<1> QED
  BY <1>10, <1>15 DEF new, w

-----------------------------------------------------------------------------
(* The inductive invariant of the evaluation *)

DecisionInv ==
    MinSustain > 0 =>
        /\ Streak(inCtr, Readings("in")) /\ Streak(outCtr, Readings("out"))
        /\ MaxRate > 0 => Ring(countAcc, Readings("rate"))
        /\ MaxBandwidth > 0 => Ring(sizeAcc, Readings("size"))
        /\ hist # <<>> =>
             decision = Decide(inCtr, outCtr, countAcc.sum, sizeAcc.sum)

LEMMA ReadingsType ==
    ASSUME CounterType, NEW c \in Names
    PROVE  /\ Len(hist) \in Nat
           /\ Readings(c) \in Seq(Nat) /\ Len(Readings(c)) = Len(hist)
           /\ \A i \in 1..Len(hist) :
                Readings(c)[i] = hist[i][c] /\ Readings(c)[i] \in 0..(Full - 1)
<1>1. Len(hist) \in Nat /\ \A i \in 1..Len(hist) : hist[i] \in [Names -> 0..(Full - 1)]
  BY DEF CounterType
<1>2. \A i \in 1..Len(hist) : hist[i][c] \in 0..(Full - 1) /\ hist[i][c] \in Nat
  BY <1>1, FullType
<1> QED
  BY <1>1, <1>2 DEF Readings

LEMMA ReadingsGrow ==
    ASSUME CounterType, NEW c \in Names, hist' = Append(hist, sample)
    PROVE  Readings(c)' = Append(Readings(c), sample[c])
<1>1. /\ Len(hist) \in Nat /\ Len(hist') = Len(hist) + 1
      /\ \A i \in 1..Len(hist) : hist'[i] = hist[i]
      /\ hist'[Len(hist) + 1] = sample
  BY DEF CounterType
<1>2. Readings(c)' = [i \in 1..(Len(hist) + 1) |-> hist'[i][c]]
  BY <1>1 DEF Readings
<1>3. /\ Readings(c) \in Seq(Nat) /\ Len(Readings(c)) = Len(hist)
      /\ \A i \in 1..Len(hist) : Readings(c)[i] = hist[i][c]
  BY ReadingsType
<1>4. sample[c] \in Nat
  BY FullType DEF CounterType
<1>5. Append(Readings(c), sample[c])
        = [i \in 1..(Len(hist) + 1) |->
             IF i <= Len(hist) THEN Readings(c)[i] ELSE sample[c]]
  BY <1>1, <1>3, <1>4
<1>6. ASSUME NEW i \in 1..(Len(hist) + 1)
      PROVE  hist'[i][c] = IF i <= Len(hist) THEN Readings(c)[i] ELSE sample[c]
  BY <1>1, <1>3
<1> QED
  BY <1>2, <1>5, <1>6

LEMMA DecisionInit ==
    ASSUME Init
    PROVE  DecisionInv
<1> SUFFICES ASSUME MinSustain > 0
             PROVE  /\ Streak(inCtr, Readings("in"))
                    /\ Streak(outCtr, Readings("out"))
                    /\ Ring(countAcc, Readings("rate"))
                    /\ Ring(sizeAcc, Readings("size"))
                    /\ hist = <<>>
  BY DEF DecisionInv
<1>1. CounterType /\ hist = <<>> /\ Len(hist) = 0
  BY CounterInit DEF CounterInv, Init
<1>2. \A c \in Names : Len(Readings(c)) = 0
  BY <1>1, ReadingsType
<1>3. MinSust \in Nat \ {0}
  BY PeriodsRoundedUp
<1>4. ASSUME NEW v, Len(v) = 0
      PROVE  Streak([waits |-> 0, noWaits |-> 0], v) /\ Ring(NewAcc, v)
  <2>1. Streak([waits |-> 0, noWaits |-> 0], v)
    BY <1>4 DEF Streak
  <2>2. Recent(Len(v)) = {}
    BY <1>3, <1>4, RecentFinite
  <2>3. Total(v, Recent(Len(v))) = 0
    BY <2>2, TotalEmpty
  <2>4. \A d \in 0..(MinSust - 1) : Slot(0, d) \in 0..(MinSust - 1) /\ ~(d < Len(v))
    BY <1>3, <1>4 DEF Slot
  <2>5. /\ NewAcc.samples = [i \in 0..(MinSust - 1) |-> 0]
        /\ NewAcc.sum = 0 /\ NewAcc.pos = 0
    BY DEF NewAcc
  <2>6. NewAcc.samples \in [0..(MinSust - 1) -> 0..(Full - 1)]
    BY <2>5, FullType
  <2>7. Ring(NewAcc, v)
    <3>1. \A d \in 0..(MinSust - 1) : NewAcc.samples[Slot(NewAcc.pos, d)] = 0
      BY <2>4, <2>5
    <3>2. NewAcc.pos \in 0..(MinSust - 1)
      BY <1>3, <2>5
    <3> QED
      BY <2>3, <2>4, <2>5, <2>6, <3>1, <3>2 DEF Ring
  <2> QED
    BY <2>1, <2>7
<1>5. /\ inCtr = [waits |-> 0, noWaits |-> 0] /\ outCtr = inCtr
      /\ countAcc = NewAcc /\ sizeAcc = NewAcc
  BY DEF Init
<1> QED
  BY <1>1, <1>2, <1>4, <1>5 DEF Names

LEMMA DecisionStep ==
    ASSUME CounterInv, DecisionInv, [Next]_vars
    PROVE  DecisionInv'
<1> SUFFICES ASSUME MinSustain > 0
             PROVE  /\ Streak(inCtr, Readings("in"))'
                    /\ Streak(outCtr, Readings("out"))'
                    /\ MaxRate > 0 => Ring(countAcc, Readings("rate"))'
                    /\ MaxBandwidth > 0 => Ring(sizeAcc, Readings("size"))'
                    /\ hist' # <<>> =>
                        decision' = Decide(inCtr', outCtr', countAcc'.sum, sizeAcc'.sum)
  BY DEF DecisionInv
<1>1. /\ Streak(inCtr, Readings("in")) /\ Streak(outCtr, Readings("out"))
      /\ MaxRate > 0 => Ring(countAcc, Readings("rate"))
      /\ MaxBandwidth > 0 => Ring(sizeAcc, Readings("size"))
      /\ hist # <<>> => decision = Decide(inCtr, outCtr, countAcc.sum, sizeAcc.sum)
  BY DEF DecisionInv
<1>2. CounterType /\ MinSust \in Nat \ {0}
  BY PeriodsRoundedUp DEF CounterInv
<1>3. CASE UNCHANGED <<hist, inCtr, outCtr, countAcc, sizeAcc, decision>>
  <2>1. \A c \in Names : Readings(c)' = Readings(c)
    BY <1>3 DEF Readings
  <2> QED
    BY <1>1, <1>3, <2>1 DEF Names
<1>4. CASE Evaluate
  <2>1. \A c \in Names : Readings(c)' = Append(Readings(c), sample[c])
    BY <1>2, <1>4, ReadingsGrow DEF Evaluate
  <2>2. \A c \in Names : /\ sample[c] \in 0..(Full - 1) /\ sample[c] \in Nat
                          /\ Readings(c) \in Seq(Nat)
    BY <1>2, FullType, ReadingsType DEF CounterType
  <2>3. inCtr' = Acc(inCtr, sample["in"]) /\ outCtr' = Acc(outCtr, sample["out"])
    BY <1>4 DEF Evaluate
  <2>4. Streak(inCtr', Readings("in")') /\ Streak(outCtr', Readings("out")')
    <3>1. "in" \in Names /\ "out" \in Names
      BY DEF Names
    <3>2. Streak(Acc(inCtr, sample["in"]), Append(Readings("in"), sample["in"]))
      BY <1>1, <2>2, <3>1, StreakKept
    <3>3. Streak(Acc(outCtr, sample["out"]), Append(Readings("out"), sample["out"]))
      BY <1>1, <2>2, <3>1, StreakKept
    <3> QED
      BY <2>1, <2>3, <3>1, <3>2, <3>3
  <2>5. ASSUME NEW c \in AmountNames, NEW a, Ring(a, Readings(c))
        PROVE  Ring(Accumulate(a, sample[c]), Readings(c)')
    <3>1. c \in Names /\ AmountSound(c)
      BY ReadsAll DEF CounterInv
    <3>2. Len(Readings(c)) = Len(hist)
          /\ \A i \in 1..Len(Readings(c)) : /\ Readings(c)[i] \in 0..(Full - 1)
                                            /\ Readings(c)[i] <= MaxAmount
      BY <1>2, <3>1, ReadingsType DEF AmountSound
    <3>3. sample[c] <= MaxAmount
      BY <3>1 DEF AmountSound
    <3>4. Ring(Accumulate(a, sample[c]), Append(Readings(c), sample[c]))
      BY <1>2, <2>2, <2>5, <3>1, <3>2, <3>3, RingKept
    <3> QED
      BY <2>1, <3>1, <3>4
  <2>6. MaxRate > 0 => Ring(countAcc', Readings("rate")')
    <3>1. MaxRate > 0 => countAcc' = Accumulate(countAcc, sample["rate"])
      BY <1>2, <1>4 DEF Evaluate, shouldCount
    <3>2. "rate" \in AmountNames
      BY DEF AmountNames, Drawn
    <3> QED
      BY <1>1, <2>5, <3>1, <3>2
  <2>7. MaxBandwidth > 0 => Ring(sizeAcc', Readings("size")')
    <3>1. MaxBandwidth > 0 => sizeAcc' = Accumulate(sizeAcc, sample["size"])
      BY <1>2, <1>4 DEF Evaluate, shouldSize
    <3>2. MaxBandwidth > 0 => "size" \in AmountNames
      BY <1>2 DEF AmountNames, Drawn, shouldSize
    <3> QED
      BY <1>1, <2>5, <3>1, <3>2
  <2>8. decision' = Decide(inCtr', outCtr', countAcc'.sum, sizeAcc'.sum)
    BY <1>4 DEF Evaluate
  <2> QED
    BY <2>4, <2>6, <2>7, <2>8
<1>5. CASE Load \/ Subtract
  BY <1>3, <1>5 DEF Load, Subtract
<1>6. CASE \E g \in Goroutines : \/ \E n \in Counts(g) : Sends(g, n)
                                 \/ Passes(g) \/ Tick(g) \/ Tock(g)
  BY <1>3, <1>6 DEF Sends, Passes, Tick, Tock, Moves, govVars
<1>7. CASE UNCHANGED vars
  BY <1>3, <1>7 DEF vars
<1> QED
  BY <1>4, <1>5, <1>6, <1>7 DEF Next

-----------------------------------------------------------------------------
(* The theorem about the evaluation *)

\* The limits over the adjusted period, rounded down, refuse exactly the sums that
\* are over the configured limits.
LEMMA LimitsRounded ==
    ASSUME NEW n \in Nat
    PROVE  /\ n > maxCount <=> n * Second > MaxRate * (Periods * PollInterval)
           /\ n > maxSize <=>
                n * 8 * Second > MaxBandwidth * (Periods * PollInterval)
<1>1. MinSust \in Nat /\ Periods = MinSust
  BY PeriodsRoundedUp
<1>2. ASSUME NEW r \in Nat
      PROVE  /\ r * MinSust * PollInterval \in Nat
             /\ r * MinSust * PollInterval = r * (Periods * PollInterval)
  BY <1>1
<1>3. n > maxCount <=> n * Second > MaxRate * MinSust * PollInterval
  BY <1>2, OverLimit DEF maxCount
<1>4. 8 * Second \in Nat \ {0} /\ n * (8 * Second) = n * 8 * Second
  OBVIOUS
<1>5. n > maxSize <=> n * (8 * Second) > MaxBandwidth * MinSust * PollInterval
  BY <1>2, <1>4, OverLimit DEF maxSize
<1> QED
  BY <1>2, <1>3, <1>4, <1>5

\* With a MinSustain, what the governor decides from the counters of continuous
\* periods and the moving sums it keeps from tick to tick is what the samples of
\* the last MinSustain justify.
THEOREM DecisionsJustified == Spec => []DecisionJustified
<1>1. Init => DecisionInv
  BY DecisionInit
<1>2. CounterInv /\ DecisionInv /\ [Next]_vars => DecisionInv'
  BY DecisionStep
<1>3. CounterInv /\ DecisionInv => DecisionJustified
  <2> SUFFICES ASSUME CounterInv, DecisionInv, MinSustain > 0, hist # <<>>
               PROVE  decision = Justified
    BY DEF DecisionJustified
  <2>1. /\ Streak(inCtr, Readings("in")) /\ Streak(outCtr, Readings("out"))
        /\ MaxRate > 0 => Ring(countAcc, Readings("rate"))
        /\ MaxBandwidth > 0 => Ring(sizeAcc, Readings("size"))
        /\ decision = Decide(inCtr, outCtr, countAcc.sum, sizeAcc.sum)
    BY DEF DecisionInv
  <2>2. CounterType /\ MinSust \in Nat \ {0} /\ Periods = MinSust
    BY PeriodsRoundedUp DEF CounterInv
  <2> DEFINE n == Len(hist)
             p == MinSust
  <2>3. n \in Nat /\ Window = (n - p + 1)..n
    BY <2>2 DEF Window, CounterType
  <2>4. ASSUME NEW c \in Names, n >= p
        PROVE  \A i \in Window : i \in 1..n /\ Readings(c)[i] = hist[i][c]
    <3>1. \A i \in Window : i \in 1..n
      BY <2>2, <2>3, <2>4
    <3> QED
      BY <2>2, <3>1, ReadingsType
  <2>5. /\ inCtr.waits >= p <=> n >= p /\ \A i \in Window : hist[i]["in"] > 0
        /\ inCtr.noWaits >= p <=> n >= p /\ \A i \in Window : hist[i]["in"] = 0
    <3>1. "in" \in Names
      BY DEF Names
    <3>2. Readings("in") \in Seq(Nat) /\ Len(Readings("in")) = n
      BY <2>2, <3>1, ReadingsType
    <3>3. /\ inCtr.waits >= p <=>
                n >= p /\ \A i \in (n - p + 1)..n : Readings("in")[i] > 0
          /\ inCtr.noWaits >= p <=>
                n >= p /\ \A i \in (n - p + 1)..n : Readings("in")[i] = 0
      BY <2>1, <2>2, <3>2, StreakLength
    <3> QED
      BY <2>3, <2>4, <3>1, <3>3
  <2>6. outCtr.noWaits >= p <=> n >= p /\ \A i \in Window : hist[i]["out"] = 0
    <3>1. "out" \in Names
      BY DEF Names
    <3>2. Readings("out") \in Seq(Nat) /\ Len(Readings("out")) = n
      BY <2>2, <3>1, ReadingsType
    <3>3. outCtr.noWaits >= p <=>
            n >= p /\ \A i \in (n - p + 1)..n : Readings("out")[i] = 0
      BY <2>1, <2>2, <3>2, StreakLength
    <3> QED
      BY <2>3, <2>4, <3>1, <3>3
  <2>7. ASSUME NEW c \in Names, NEW a, Ring(a, Readings(c))
        PROVE  a.sum = SumOf(c) /\ SumOf(c) \in Nat
    <3>1. Len(Readings(c)) = n
      BY <2>2, ReadingsType
    <3>2. Recent(n) = {i \in Window : i >= 1}
      BY <2>3 DEF Recent
    <3>3. IsFiniteSet(Recent(n))
      BY <2>2, <2>3, RecentFinite
    <3> QED
      BY <2>7, <3>1, <3>2, <3>3, TotalType DEF Ring, SumOf
  <2>8. TooMuch <=> \/ shouldCount /\ countAcc.sum > maxCount
                    \/ shouldSize /\ sizeAcc.sum > maxSize
    <3>1. "rate" \in Names /\ "size" \in Names
      BY DEF Names
    <3>2. MaxRate > 0 => countAcc.sum = SumOf("rate") /\ SumOf("rate") \in Nat
      BY <2>1, <2>7, <3>1
    <3>3. MaxBandwidth > 0 => sizeAcc.sum = SumOf("size") /\ SumOf("size") \in Nat
      BY <2>1, <2>7, <3>1
    <3>4. (shouldCount <=> MaxRate > 0) /\ (shouldSize <=> MaxBandwidth > 0)
      BY <2>2 DEF shouldCount, shouldSize
    <3>5. MaxRate > 0 =>
            (countAcc.sum > maxCount <=>
               SumOf("rate") * Second > MaxRate * (Periods * PollInterval))
      BY <3>2, LimitsRounded
    <3>6. MaxBandwidth > 0 =>
            (sizeAcc.sum > maxSize <=>
               SumOf("size") * 8 * Second > MaxBandwidth * (Periods * PollInterval))
      BY <3>3, LimitsRounded
    <3> QED
      BY <3>4, <3>5, <3>6, Zenon DEF TooMuch
  <2>9. /\ n >= p /\ (\A i \in Window : hist[i]["in"] > 0 /\ hist[i]["out"] = 0)
             <=> inCtr.waits >= p /\ outCtr.noWaits >= p
    BY <2>5, <2>6, Zenon
  <2>10. decision = IF inCtr.waits >= p /\ outCtr.noWaits >= p
                    THEN IF TooMuch THEN 0 ELSE 1
                    ELSE IF inCtr.noWaits >= p THEN -1 ELSE 0
    BY <2>1, <2>8, Zenon DEF Decide
  <2>11. Justified = IF inCtr.waits >= p /\ outCtr.noWaits >= p
                     THEN IF TooMuch THEN 0 ELSE 1
                     ELSE IF inCtr.noWaits >= p THEN -1 ELSE 0
    <3>1. Len(hist) = n /\ Periods = p
      BY <2>2
    <3> HIDE DEF n, p
    <3> QED
      BY <2>5, <2>9, <3>1, Zenon DEF Justified
  <2> QED
    BY <2>10, <2>11
<1> QED
  BY <1>1, <1>2, <1>3, CounterInvariance, PTL DEF Spec

-----------------------------------------------------------------------------
(* Type correctness *)

\* The counters of periods and the positions in the moving sums stay in range
\* because a round that has begun has not been evaluated yet.
RoundInv ==
    /\ Len(hist) <= MaxSamples
    /\ at # 1 \/ loaded # -1 => Len(hist) < MaxSamples
    /\ inCtr \in [waits : 0..Len(hist), noWaits : 0..Len(hist)]
    /\ outCtr \in [waits : 0..Len(hist), noWaits : 0..Len(hist)]
    /\ {countAcc.pos, sizeAcc.pos} \subseteq 0..(MinSust - 1) \cup {0}
    /\ decision \in {-1, 0, 1}

LEMMA RoundStep ==
    ASSUME CounterInv, RoundInv, [Next]_vars
    PROVE  RoundInv'
<1>1. CounterType /\ MinSust \in Nat
  BY PeriodsRoundedUp DEF CounterInv
<1>2. CASE UNCHANGED <<hist, at, loaded, inCtr, outCtr, countAcc, sizeAcc, decision>>
  BY <1>2 DEF RoundInv
<1>3. CASE Load
  BY <1>3 DEF Load, RoundInv
<1>4. CASE Subtract
  BY <1>4 DEF Subtract, RoundInv
<1>5. CASE Evaluate
  <2>1. /\ Len(hist) \in Nat /\ Len(hist') = Len(hist) + 1
        /\ at # 1 /\ at' = 1 /\ loaded' = -1
    <3>1. hist \in Seq([Names -> 0..(Full - 1)]) /\ hist' = Append(hist, sample)
      BY <1>1, <1>5 DEF Evaluate, CounterType
    <3>2. at > Reads /\ at' = 1 /\ loaded' = loaded /\ Reads \in 3..4
      BY <1>5, ReadsAll DEF Evaluate
    <3>3. at \in 1..(Reads + 1) /\ (loaded = -1 \/ at \in 1..Reads)
      BY <1>1 DEF CounterType
    <3> QED
      BY <3>1, <3>2, <3>3
  <2>2. Len(hist') <= MaxSamples
    BY <2>1 DEF RoundInv
  <2>3. ASSUME NEW ctr \in [waits : 0..Len(hist), noWaits : 0..Len(hist)], NEW x
        PROVE  Acc(ctr, x) \in [waits : 0..Len(hist'), noWaits : 0..Len(hist')]
    BY <2>1 DEF Acc
  <2>4. inCtr' = Acc(inCtr, sample["in"]) /\ outCtr' = Acc(outCtr, sample["out"])
    BY <1>5 DEF Evaluate
  <2>5. ASSUME NEW a, MinSust > 0, NEW x, a.pos \in 0..(MinSust - 1) \cup {0}
        PROVE  Accumulate(a, x).pos \in 0..(MinSust - 1)
    <3>1. Accumulate(a, x).pos = (a.pos + 1) % MinSust
      BY DEF Accumulate
    <3>2. a.pos \in 0..(MinSust - 1)
      BY <1>1, <2>5
    <3> QED
      BY <1>1, <2>5, <3>1, <3>2
  <2>6. {countAcc'.pos, sizeAcc'.pos} \subseteq 0..(MinSust - 1) \cup {0}
    <3>1. countAcc'.pos \in 0..(MinSust - 1) \cup {0}
      BY <1>5, <2>5 DEF RoundInv, Evaluate, shouldCount
    <3>2. sizeAcc'.pos \in 0..(MinSust - 1) \cup {0}
      BY <1>5, <2>5 DEF RoundInv, Evaluate, shouldSize
    <3> QED
      BY <3>1, <3>2
  <2>7. decision' \in {-1, 0, 1}
    BY <1>5 DEF Evaluate, Decide
  <2> QED
    BY <2>1, <2>2, <2>3, <2>4, <2>6, <2>7 DEF RoundInv
<1>6. CASE \E g \in Goroutines : \/ \E n \in Counts(g) : Sends(g, n)
                                 \/ Passes(g) \/ Tick(g) \/ Tock(g)
  BY <1>2, <1>6 DEF Sends, Passes, Tick, Tock, Moves, govVars
<1>7. CASE UNCHANGED vars
  BY <1>2, <1>7 DEF vars
<1> QED
  BY <1>3, <1>4, <1>5, <1>6, <1>7 DEF Next

\* The words, the samples and the evaluation's counters stay in their ranges; no
\* position of a moving sum leaves its samples.
THEOREM TypeCorrect == Spec => []TypeOK
<1>1. Init => RoundInv
  BY DEF Init, RoundInv, NewAcc
<1>2. CounterInv /\ RoundInv /\ [Next]_vars => RoundInv'
  BY RoundStep
<1>3. CounterInv /\ RoundInv => TypeOK
  <2> SUFFICES ASSUME CounterInv, RoundInv PROVE TypeOK
    OBVIOUS
  <2>1. CounterType /\ Len(hist) \in Nat /\ Len(hist) <= MaxSamples
    <3>1. CounterType /\ Len(hist) <= MaxSamples
      BY DEF CounterInv, RoundInv
    <3>2. Len(hist) \in Nat
      BY <3>1 DEF CounterType
    <3> QED
      BY <3>1, <3>2
  <2>2. 0..Len(hist) \subseteq 0..MaxSamples
    BY <2>1
  <2>3. {inCtr, outCtr} \subseteq [waits : 0..MaxSamples, noWaits : 0..MaxSamples]
    BY <2>2 DEF RoundInv
  <2>4. loaded \in -1..(Full - 1)
    BY <2>1, FullType DEF CounterType
  <2> QED
    BY <2>1, <2>3, <2>4 DEF RoundInv, CounterType, TypeOK
<1> QED
  BY <1>1, <1>2, <1>3, CounterInvariance, PTL DEF Spec

=============================================================================
