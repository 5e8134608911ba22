---------------------------- MODULE PacingProofs ----------------------------
(***************************************************************************)
(* Proofs about Pacing, for any seeds, loads and number of draws: the      *)
(* range of the backoff window and what it says of the worker's luck, that *)
(* xorshift32 never yields 0, and that it repeats a word only after all    *)
(* words of its cycle. How long the cycles are is beyond these means.      *)
(***************************************************************************)
EXTENDS Pacing, FiniteSetTheorems, TLAPS

PacingTypeOK ==
  /\ mode \in 0..2
  /\ pc \in {"loop", "create", "try", "wait", "exited"}
  /\ rng \in SUBSET Bits
  /\ window \in BACKOFF_MIN_US..BACKOFF_MAX_US
  /\ streak \in -MaxStreak..MaxStreak

DrawsNonzero == {} \notin drawn

PacingInv == PacingTypeOK /\ BackoffFollowsStreak /\ DrawsNonzero

-----------------------------------------------------------------------------
(* The generator.                                                          *)

LEMMA ShiftsAreWords ==
  ASSUME NEW x \in SUBSET Bits, NEW k \in Nat
  PROVE  Xor(x, ShiftLeft(x, k)) \in SUBSET Bits /\ Xor(x, ShiftRight(x, k)) \in SUBSET Bits
  BY DEF Xor, ShiftLeft, ShiftRight

(* A word that equals itself shifted by k has with every one another one k *)
(* places down (or up), and there is no end to them.                       *)
LEMMA CancelledLeft ==
  ASSUME NEW x \in SUBSET Bits, NEW k \in Nat, Xor(x, ShiftLeft(x, k)) = {}, NEW i \in x
  PROVE  i - k \in x
<1>1. i \in ShiftLeft(x, k)
  BY DEF Xor
<1>2. PICK j \in x : i = j + k
  BY <1>1 DEF ShiftLeft
<1>3. i - k = j
  BY <1>2 DEF Bits
<1> QED
  BY <1>3

LEMMA CancelledRight ==
  ASSUME NEW x \in SUBSET Bits, NEW k \in Nat, Xor(x, ShiftRight(x, k)) = {}, NEW i \in x
  PROVE  i + k \in x
<1>1. i \in ShiftRight(x, k)
  BY DEF Xor
<1>2. PICK j \in x : i = j - k
  BY <1>1 DEF ShiftRight
<1>3. i + k = j
  BY <1>2 DEF Bits
<1> QED
  BY <1>3

LEMMA LeftKeepsOnes ==
  ASSUME NEW x \in SUBSET Bits, x # {}, NEW k \in {5, 13}
  PROVE  Xor(x, ShiftLeft(x, k)) # {}
<1> SUFFICES ASSUME Xor(x, ShiftLeft(x, k)) = {} PROVE FALSE
  OBVIOUS
<1>1. PICK i : i \in x
  OBVIOUS
<1>2. \A j \in x : j \in 0..31 /\ j - k \in x
  BY CancelledLeft DEF Bits
<1>3. i - k \in x /\ (i - k) - k \in x /\ ((i - k) - k) - k \in x
  BY <1>1, <1>2
<1>4. i - 3 * k \in x /\ i - 3 * k = ((i - k) - k) - k
  BY <1>1, <1>2, <1>3
<1>5. (i - 3 * k) - k \in x /\ ((i - 3 * k) - k) - k \in x /\ (((i - 3 * k) - k) - k) - k \in x
  BY <1>2, <1>4
<1>6. i - 6 * k \in x
  BY <1>1, <1>2, <1>5
<1>7. (i - 6 * k) - k \in x
  BY <1>2, <1>6
<1> QED
  BY <1>1, <1>2, <1>7

LEMMA RightKeepsOnes ==
  ASSUME NEW x \in SUBSET Bits, x # {}
  PROVE  Xor(x, ShiftRight(x, 17)) # {}
<1> SUFFICES ASSUME Xor(x, ShiftRight(x, 17)) = {} PROVE FALSE
  OBVIOUS
<1>1. PICK i : i \in x
  OBVIOUS
<1>2. \A j \in x : j \in 0..31 /\ j + 17 \in x
  BY CancelledRight DEF Bits
<1> QED
  BY <1>1, <1>2

LEMMA XorshiftNonzero ==
  ASSUME NEW state \in SUBSET Bits
  PROVE  Xorshift32(state) \in SUBSET Bits /\ Xorshift32(state) # {}
<1> DEFINE x == Nonzero(state)
           y == Xor(x, ShiftLeft(x, 13))
           z == Xor(y, ShiftRight(y, 17))
<1>1. x \in SUBSET Bits /\ x # {}
  BY DEF Nonzero, Bits
<1>2. y \in SUBSET Bits /\ y # {}
  <2> HIDE DEF x
  <2> QED
    BY <1>1, ShiftsAreWords, LeftKeepsOnes
<1>3. z \in SUBSET Bits /\ z # {}
  <2> HIDE DEF y
  <2> QED
    BY <1>2, ShiftsAreWords, RightKeepsOnes
<1>4. Xor(z, ShiftLeft(z, 5)) \in SUBSET Bits /\ Xor(z, ShiftLeft(z, 5)) # {}
  <2> HIDE DEF z
  <2> QED
    BY <1>3, ShiftsAreWords, LeftKeepsOnes
<1> QED
  BY <1>4 DEF Xorshift32

-----------------------------------------------------------------------------
(* The window.                                                             *)

(* A power of two that the provers do not look into.                       *)
TwoTo(n) == 2^n

LEMMA Powers ==
  /\ TwoTo(1) = 2 /\ TwoTo(7) = 128
  /\ \A n \in 1..7 : TwoTo(n) \in Nat
  /\ \A n \in 1..6 : TwoTo(n + 1) = 2 * TwoTo(n)
<1>1. /\ TwoTo(1) = 2 /\ TwoTo(2) = 4 /\ TwoTo(3) = 8 /\ TwoTo(4) = 16 /\ TwoTo(5) = 32
      /\ TwoTo(6) = 64 /\ TwoTo(7) = 128
  BY DEF TwoTo
<1>2. \A n \in 1..7 : n = 1 \/ n = 2 \/ n = 3 \/ n = 4 \/ n = 5 \/ n = 6 \/ n = 7
  OBVIOUS
<1>3. \A n \in 1..6 : n = 1 \/ n = 2 \/ n = 3 \/ n = 4 \/ n = 5 \/ n = 6
  OBVIOUS
<1> QED
  BY <1>1, <1>2, <1>3

Bounded(w) == w \in Int /\ BACKOFF_MIN_US <= w /\ w <= BACKOFF_MAX_US

(* BackoffFollowsStreak, of a window w and a streak n.                     *)
Follows(w, n) ==
  /\ Bounded(w)
  /\ n > 0 => w = BACKOFF_MAX_US \/ w >= BACKOFF_MIN_US * TwoTo(n)
  /\ n < 0 => w = BACKOFF_MIN_US \/ w * TwoTo(-n) <= BACKOFF_MAX_US

LEMMA BoundsAreRange == \A w : Bounded(w) <=> w \in BACKOFF_MIN_US..BACKOFF_MAX_US
<1>1. \A a, b \in Int : \A w : w \in a..b <=> w \in Int /\ a <= w /\ w <= b
  OBVIOUS
<1>2. BACKOFF_MIN_US \in Int /\ BACKOFF_MAX_US \in Int
  BY DEF BACKOFF_MIN_US, BACKOFF_MAX_US
<1> QED
  BY <1>1, <1>2, Zenon DEF Bounded

LEMMA Followed ==
  /\ BackoffFollowsStreak <=> Follows(window, streak)
  /\ BackoffFollowsStreak' <=> Follows(window', streak')
  BY BoundsAreRange, Zenon DEF BackoffFollowsStreak, Follows, TwoTo

(* One more rejection in a row. Past 2^5 the window is at its maximum.     *)
LEMMA GrownFollows ==
  ASSUME PacingInv, RandomBackoff
  PROVE  /\ Bounded(window') /\ streak' \in 1..7
         /\ window' = 8000 \/ window' >= 200 * TwoTo(streak')
<1> USE DEF Bounded, BACKOFF_MIN_US, BACKOFF_MAX_US
<1>1. /\ Bounded(window) /\ streak \in -7..7
      /\ streak > 0 => window = 8000 \/ window >= 200 * TwoTo(streak)
  BY Followed DEF Follows, PacingInv, PacingTypeOK, MaxStreak
<1>2. window' = 8000 \/ (window' = 2 * window /\ window' <= 8000)
  BY <1>1 DEF RandomBackoff, Grown
<1>3. CASE streak <= 0
  <2>1. streak' = 1
    BY <1>1, <1>3 DEF RandomBackoff, MaxStreak
  <2>2. TwoTo(streak') = 2
    BY <2>1, Powers
  <2> QED
    BY <1>1, <1>2, <2>1, <2>2
<1>4. CASE streak \in 1..6
  <2>1. streak' = streak + 1 /\ streak' \in 1..7 /\ streak \in 1..7
    BY <1>4 DEF RandomBackoff, MaxStreak
  <2>2. TwoTo(streak') = 2 * TwoTo(streak) /\ TwoTo(streak) \in Nat
    BY <1>4, <2>1, Powers, Zenon
  <2> QED
    BY <1>1, <1>2, <1>4, <2>1, <2>2
<1>5. CASE streak = 7
  <2>1. streak' = 7 /\ TwoTo(streak) = 128
    BY <1>5, Powers DEF RandomBackoff, MaxStreak
  <2>2. window = 8000
    BY <1>1, <1>5, <2>1
  <2> QED
    BY <1>2, <2>1, <2>2
<1> QED
  BY <1>1, <1>3, <1>4, <1>5

(* One more completion in a row. Past 2^5 the window is at its minimum.    *)
LEMMA RelaxedFollows ==
  ASSUME PacingInv, RelaxBackoff, mode # 0
  PROVE  /\ Bounded(window') /\ -streak' \in 1..7 /\ streak' \in -7..-1
         /\ window' = 200 \/ window' * TwoTo(-streak') <= 8000
<1> USE DEF Bounded, BACKOFF_MIN_US, BACKOFF_MAX_US
<1>1. /\ Bounded(window) /\ streak \in -7..7
      /\ streak < 0 => window = 200 \/ window * TwoTo(-streak) <= 8000
  BY Followed DEF Follows, PacingInv, PacingTypeOK, MaxStreak
<1>2. window' = 200 \/ (2 * window' <= window /\ Bounded(window'))
  BY <1>1 DEF RelaxBackoff, Relaxed
<1>3. CASE streak >= 0
  <2>1. streak' = -1 /\ -streak' = 1
    BY <1>1, <1>3 DEF RelaxBackoff, MaxStreak
  <2>2. TwoTo(-streak') = 2
    BY <2>1, Powers
  <2> QED
    BY <1>1, <1>2, <2>1, <2>2
<1>4. CASE -streak \in 1..6
  <2>1. streak' = streak - 1 /\ -streak' = -streak + 1 /\ -streak \in 1..7 /\ streak' \in -7..-1
    BY <1>1, <1>4 DEF RelaxBackoff, MaxStreak
  <2>2. TwoTo(-streak') = 2 * TwoTo(-streak) /\ TwoTo(-streak) \in Nat
    BY <1>4, <2>1, Powers, Zenon
  <2>3. ASSUME NEW v \in Int, 200 <= v, NEW q \in Nat, 2 * v <= window, window * q <= 8000
        PROVE  v * (2 * q) <= 8000
    <3>1. (2 * v) * q <= window * q /\ v * (2 * q) = (2 * v) * q
      BY <1>1, <2>3
    <3>2. v * (2 * q) \in Nat /\ window * q \in Nat
      BY <1>1, <2>3
    <3> QED
      BY <2>3, <3>1, <3>2
  <2>4. window = 200 => window' = 200
    BY <1>2
  <2>5. CASE window' # 200
    <3>1. window * TwoTo(-streak) <= 8000 /\ 2 * window' <= window /\ Bounded(window')
      BY <1>1, <1>2, <1>4, <2>4, <2>5
    <3> DEFINE v == window'
               q == TwoTo(-streak)
    <3>2. v \in Int /\ 200 <= v /\ 2 * v <= window /\ q \in Nat /\ window * q <= 8000
      BY <2>2, <3>1
    <3> HIDE DEF v, q
    <3>3. v * (2 * q) <= 8000
      BY <2>3, <3>2
    <3>4. v * (2 * q) = window' * TwoTo(-streak')
      BY <2>2 DEF v, q
    <3> QED
      BY <1>4, <2>1, <3>1, <3>3, <3>4
  <2> QED
    BY <1>4, <2>1, <2>5
<1>5. CASE -streak = 7
  <2>1. streak' = -7 /\ -streak' = 7 /\ TwoTo(-streak) = 128
    BY <1>1, <1>5, Powers DEF RelaxBackoff, MaxStreak
  <2>2. window = 200
    BY <1>1, <1>5, <2>1
  <2> QED
    BY <1>2, <2>1, <2>2
<1> QED
  BY <1>1, <1>3, <1>4, <1>5

-----------------------------------------------------------------------------
LEMMA DrawInv ==
  ASSUME PacingInv, Draw \/ Keep
  PROVE  rng' \in SUBSET Bits /\ DrawsNonzero'
<1>1. CASE Draw
  BY <1>1, XorshiftNonzero DEF Draw, PacingInv, PacingTypeOK, DrawsNonzero
<1>2. CASE Keep
  BY <1>2 DEF Keep, PacingInv, PacingTypeOK, DrawsNonzero
<1> QED
  BY <1>1, <1>2

LEMMA PacingStepInv ==
  ASSUME PacingInv, [Next]_vars
  PROVE  PacingInv'
<1>1. CASE Stop \/ LoadSleep \/ NewRequest \/ Submitted
  <2>1. Draw \/ Keep
    BY <1>1 DEF Stop, LoadSleep, NewRequest, Submitted
  <2>2. UNCHANGED <<mode, window, streak>> /\ pc' \in {"loop", "create", "try", "wait", "exited"}
    BY <1>1 DEF Stop, LoadSleep, NewRequest, Submitted
  <2> QED
    BY <2>1, <2>2, DrawInv DEF PacingInv, PacingTypeOK, BackoffFollowsStreak
<1>2. CASE RandomBackoff
  <2>1. Draw /\ UNCHANGED <<mode, pc>>
    BY <1>2 DEF RandomBackoff
  <2>2. Bounded(window') /\ streak' > 0 /\ ~(streak' < 0)
    BY <1>2, GrownFollows
  <2>3. window' = BACKOFF_MAX_US \/ window' >= BACKOFF_MIN_US * TwoTo(streak')
    BY <1>2, GrownFollows DEF BACKOFF_MAX_US, BACKOFF_MIN_US
  <2>4. BackoffFollowsStreak'
    BY <2>2, <2>3, Followed, Zenon DEF Follows
  <2> QED
    BY <1>2, <2>1, <2>4, DrawInv, GrownFollows, BoundsAreRange
       DEF PacingInv, PacingTypeOK, MaxStreak
<1>3. CASE RelaxBackoff
  <2>1. Keep /\ mode' = mode /\ pc' = "loop"
    BY <1>3 DEF RelaxBackoff
  <2>2. CASE mode = 0
    BY <1>3, <2>1, <2>2, DrawInv DEF RelaxBackoff, PacingInv, PacingTypeOK, BackoffFollowsStreak
  <2>3. CASE mode # 0
    <3>1. Bounded(window') /\ streak' < 0 /\ ~(streak' > 0)
      BY <1>3, <2>3, RelaxedFollows
    <3>2. window' = BACKOFF_MIN_US \/ window' * TwoTo(-streak') <= BACKOFF_MAX_US
      BY <1>3, <2>3, RelaxedFollows DEF BACKOFF_MAX_US, BACKOFF_MIN_US
    <3>3. BackoffFollowsStreak'
      BY <3>1, <3>2, Followed, Zenon DEF Follows
    <3> QED
      BY <1>3, <2>1, <2>3, <3>3, DrawInv, RelaxedFollows, BoundsAreRange
         DEF PacingInv, PacingTypeOK, MaxStreak
  <2> QED
    BY <2>2, <2>3
<1>4. CASE UNCHANGED vars
  BY <1>4 DEF vars, PacingInv, PacingTypeOK, BackoffFollowsStreak, DrawsNonzero
<1> QED
  BY <1>1, <1>2, <1>3, <1>4 DEF Next

(* How far a worker's window and its luck can be apart, whatever it draws. *)
THEOREM PacingInvariant == Spec => []PacingInv
<1>1. Init => PacingInv
  BY PacingAssumption DEF Init, PacingInv, PacingTypeOK, BackoffFollowsStreak, DrawsNonzero,
     MaxStreak, BACKOFF_MIN_US, BACKOFF_MAX_US
<1>2. PacingInv /\ [Next]_vars => PacingInv'
  BY PacingStepInv
<1> QED
  BY <1>1, <1>2, PTL DEF Spec

(* random_backoff and relax_backoff keep the window a modulus in 200..8000 *)
(* that follows the rejections and completions in a row, in any order.     *)
THEOREM PacingWindow == Spec => []BackoffFollowsStreak
<1>1. PacingInv => BackoffFollowsStreak
  BY DEF PacingInv
<1> QED
  BY <1>1, PacingInvariant, PTL

(* xorshift32 never yields 0, the one word that would reproduce itself,    *)
(* whatever 32 bits the generator starts from.                             *)
THEOREM PacingDrawsNonzero == Spec => []DrawsNonzero
<1>1. PacingInv => DrawsNonzero
  BY DEF PacingInv
<1> QED
  BY <1>1, PacingInvariant, PTL

-----------------------------------------------------------------------------
(* The cycle of the generator.                                             *)

(* Where the bits of a shifted word come from.                             *)
LEMMA LeftBits ==
  ASSUME NEW w \in SUBSET Bits, NEW k \in {5, 13}
  PROVE  \A i \in Bits : i \in ShiftLeft(w, k) <=> i - k \in w
<1>1. \A i : i \in ShiftLeft(w, k) <=> i \in Bits /\ \E j \in w : i = j + k
  BY Zenon DEF ShiftLeft
<1>2. \A i \in Bits : \A j \in w : i = j + k <=> j = i - k
  BY DEF Bits
<1> QED
  BY <1>1, <1>2, Zenon

LEMMA RightBits ==
  ASSUME NEW w \in SUBSET Bits
  PROVE  \A i \in Bits : i \in ShiftRight(w, 17) <=> i + 17 \in w
<1>1. \A i : i \in ShiftRight(w, 17) <=> i \in Bits /\ \E j \in w : i = j - 17
  BY Zenon DEF ShiftRight
<1>2. \A i \in Bits : \A j \in w : i = j - 17 <=> j = i + 17
  BY DEF Bits
<1> QED
  BY <1>1, <1>2, Zenon

(* Two words that agree after a step agreed before it: where they differ   *)
(* they would be a word that its shift cancels.                            *)
LEMMA LeftInjective ==
  ASSUME NEW x \in SUBSET Bits, NEW y \in SUBSET Bits, NEW k \in {5, 13},
         Xor(x, ShiftLeft(x, k)) = Xor(y, ShiftLeft(y, k))
  PROVE  x = y
<1> DEFINE d == Xor(x, y)
<1>1. \A i \in Bits : i \in ShiftLeft(x, k) <=> i - k \in x
  BY LeftBits, Zenon
<1>2. \A i \in Bits : i \in ShiftLeft(y, k) <=> i - k \in y
  BY LeftBits, Zenon
<1>3. d \in SUBSET Bits /\ \A i : i \in d <=> ~(i \in x <=> i \in y)
  BY DEF Xor
<1>4. \A i \in Bits : i \in ShiftLeft(d, k) <=> i - k \in d
  <2> HIDE DEF d
  <2> QED
    BY <1>3, LeftBits, Zenon
<1>5. \A i : (i \in x <=> i \in ShiftLeft(x, k)) <=> (i \in y <=> i \in ShiftLeft(y, k))
  BY Zenon DEF Xor
<1>6. \A i \in Bits : i \in d <=> i \in ShiftLeft(d, k)
  <2> HIDE DEF d
  <2> QED
    BY <1>1, <1>2, <1>3, <1>4, <1>5, Zenon
<1>7. Xor(d, ShiftLeft(d, k)) = {}
  <2>1. \A i \in ShiftLeft(d, k) : i \in Bits
    BY DEF ShiftLeft
  <2> HIDE DEF d
  <2> QED
    BY <1>3, <1>6, <2>1, Zenon DEF Xor
<1>8. d = {}
  <2> HIDE DEF d
  <2> QED
    BY <1>3, <1>7, LeftKeepsOnes
<1> QED
  BY <1>3, <1>8, Zenon

(* The same for the shift to the right.                                    *)
LEMMA RightInjective ==
  ASSUME NEW x \in SUBSET Bits, NEW y \in SUBSET Bits,
         Xor(x, ShiftRight(x, 17)) = Xor(y, ShiftRight(y, 17))
  PROVE  x = y
<1> DEFINE d == Xor(x, y)
<1>1. \A i \in Bits : i \in ShiftRight(x, 17) <=> i + 17 \in x
  BY RightBits, Zenon
<1>2. \A i \in Bits : i \in ShiftRight(y, 17) <=> i + 17 \in y
  BY RightBits, Zenon
<1>3. d \in SUBSET Bits /\ \A i : i \in d <=> ~(i \in x <=> i \in y)
  BY DEF Xor
<1>4. \A i \in Bits : i \in ShiftRight(d, 17) <=> i + 17 \in d
  <2> HIDE DEF d
  <2> QED
    BY <1>3, RightBits, Zenon
<1>5. \A i : (i \in x <=> i \in ShiftRight(x, 17)) <=> (i \in y <=> i \in ShiftRight(y, 17))
  BY Zenon DEF Xor
<1>6. \A i \in Bits : i \in d <=> i \in ShiftRight(d, 17)
  <2> HIDE DEF d
  <2> QED
    BY <1>1, <1>2, <1>3, <1>4, <1>5, Zenon
<1>7. Xor(d, ShiftRight(d, 17)) = {}
  <2>1. \A i \in ShiftRight(d, 17) : i \in Bits
    BY DEF ShiftRight
  <2> HIDE DEF d
  <2> QED
    BY <1>3, <1>6, <2>1, Zenon DEF Xor
<1>8. d = {}
  <2> HIDE DEF d
  <2> QED
    BY <1>3, <1>7, RightKeepsOnes
<1> QED
  BY <1>3, <1>8, Zenon

(* No two words are followed by the same one.                              *)
LEMMA XorshiftInjective ==
  ASSUME NEW a \in SUBSET Bits, NEW b \in SUBSET Bits, a # {}, b # {},
         Xorshift32(a) = Xorshift32(b)
  PROVE  a = b
<1> DEFINE first(w) == Xor(w, ShiftLeft(w, 13))
           second(w) == Xor(first(w), ShiftRight(first(w), 17))
<1>1. \A w \in SUBSET Bits : first(w) \in SUBSET Bits
  BY ShiftsAreWords
<1>2. \A w \in SUBSET Bits : second(w) \in SUBSET Bits
  <2> HIDE DEF first
  <2> QED
    BY <1>1, ShiftsAreWords
<1>3. Xorshift32(a) = Xor(second(a), ShiftLeft(second(a), 5))
  BY Zenon DEF Xorshift32, Nonzero
<1>4. Xorshift32(b) = Xor(second(b), ShiftLeft(second(b), 5))
  BY Zenon DEF Xorshift32, Nonzero
<1>5. second(a) = second(b)
  <2> HIDE DEF second
  <2>1. 5 \in {5, 13}
    OBVIOUS
  <2> QED
    BY <1>2, <1>3, <1>4, <2>1, LeftInjective, Zenon
<1>6. first(a) = first(b)
  <2> PICK p, q : p = first(a) /\ q = first(b)
    OBVIOUS
  <2>1. Xor(p, ShiftRight(p, 17)) = Xor(q, ShiftRight(q, 17))
    BY <1>5, Zenon
  <2>2. p \in SUBSET Bits /\ q \in SUBSET Bits
    BY <1>1, Zenon
  <2> HIDE DEF first
  <2>3. p = q
    BY <2>1, <2>2, RightInjective, Zenon
  <2> QED
    BY <2>3
<1>7. 13 \in {5, 13}
  OBVIOUS
<1> QED
  BY <1>6, <1>7, LeftInjective, Zenon

(* The words drawn so far follow one another from a first one. As long as  *)
(* none was drawn twice, the last has no successor among them.             *)
ChainFrom(f) ==
  /\ f \in drawn /\ rng \in drawn
  /\ \A x \in drawn \ {f} : \E y \in drawn \ {rng} : x = Xorshift32(y)
  /\ \A y \in drawn \ {rng} : Xorshift32(y) \in drawn

(* The words drawn are all those of a cycle.                               *)
WholeCycle == rng \in drawn /\ drawn = {Xorshift32(x) : x \in drawn}

ChainInv ==
  /\ draws \in Nat /\ drawn \in SUBSET (SUBSET Bits) /\ IsFiniteSet(drawn)
  /\ \/ draws = 0 /\ drawn = {}
     \/ Cardinality(drawn) = draws /\ \E f \in drawn : ChainFrom(f)
     \/ WholeCycle

(* A word is drawn again only when the generator has come round its whole  *)
(* cycle, the first word included.                                         *)
RepeatsOnlyRound == Cardinality(drawn) = draws \/ drawn = {Xorshift32(x) : x \in drawn}

(* A draw adds the successor of the last word. If that was drawn before,   *)
(* then, as no two words have one successor, it is the first.              *)
LEMMA DrawKeepsChain ==
  ASSUME PacingInv, ChainInv, Draw
  PROVE  ChainInv'
<1>1. /\ draws \in Nat /\ draws' \in Nat /\ draws' = draws + 1 /\ draws' # 0
      /\ drawn \in SUBSET (SUBSET Bits) /\ IsFiniteSet(drawn) /\ {} \notin drawn
  BY DEF Draw, ChainInv, PacingInv, DrawsNonzero
<1>2. rng' = Xorshift32(rng) /\ rng' \in SUBSET Bits /\ drawn' = drawn \cup {rng'}
  BY XorshiftNonzero DEF Draw, PacingInv, PacingTypeOK
<1>3. drawn' \in SUBSET (SUBSET Bits) /\ IsFiniteSet(drawn')
  BY <1>1, <1>2, FS_AddElement
<1>4. rng' \notin drawn => Cardinality(drawn') = Cardinality(drawn) + 1
  BY <1>1, <1>2, FS_AddElement
<1>5. CASE draws = 0 /\ drawn = {}
  <2>1. Cardinality(drawn') = draws'
    BY <1>1, <1>2, <1>4, <1>5, FS_EmptySet
  <2>2. drawn' = {rng'}
    BY <1>2, <1>5
  <2>3. (\E f \in drawn : ChainFrom(f))'
    BY <2>2 DEF ChainFrom
  <2> QED
    BY <1>1, <1>3, <2>1, <2>3 DEF ChainInv
<1>6. ASSUME Cardinality(drawn) = draws, NEW f \in drawn, ChainFrom(f)
      PROVE  ChainInv'
  <2>1. CASE rng' \notin drawn
    <3>1. Cardinality(drawn') = draws'
      BY <1>1, <1>4, <1>6, <2>1
    <3>2. \A x \in drawn' \ {f} : \E y \in drawn' \ {rng'} : x = Xorshift32(y)
      <4> TAKE x \in drawn' \ {f}
      <4>1. CASE x = rng'
        BY <1>2, <1>6, <2>1, <4>1 DEF ChainFrom
      <4>2. CASE x # rng'
        <5>1. x \in drawn \ {f}
          BY <1>2, <4>2
        <5>2. PICK y \in drawn \ {rng} : x = Xorshift32(y)
          BY <1>6, <5>1 DEF ChainFrom
        <5>3. y \in drawn' \ {rng'}
          BY <1>2, <2>1
        <5> QED
          BY <5>2, <5>3
      <4> QED
        BY <4>1, <4>2
    <3>3. \A y \in drawn' \ {rng'} : Xorshift32(y) \in drawn'
      <4> TAKE y \in drawn' \ {rng'}
      <4>1. y \in drawn
        BY <1>2
      <4> QED
        BY <1>2, <1>6, <4>1 DEF ChainFrom
    <3>4. f \in drawn' /\ rng' \in drawn'
      BY <1>2
    <3>5. (\E g \in drawn : ChainFrom(g))'
      BY <3>2, <3>3, <3>4 DEF ChainFrom
    <3> QED
      BY <1>1, <1>3, <3>1, <3>5 DEF ChainInv
  <2>2. CASE rng' \in drawn
    <3>1. drawn' = drawn
      BY <1>2, <2>2
    <3>2. rng' = f
      <4> SUFFICES ASSUME rng' # f PROVE FALSE
        OBVIOUS
      <4>1. PICK y \in drawn \ {rng} : rng' = Xorshift32(y)
        BY <1>6, <2>2 DEF ChainFrom
      <4>2. /\ y \in SUBSET Bits /\ y # {} /\ rng \in SUBSET Bits /\ rng # {}
            /\ Xorshift32(y) = Xorshift32(rng)
        BY <1>1, <1>2, <1>6, <4>1 DEF ChainFrom
      <4>3. y = rng
        BY <4>2, XorshiftInjective, Zenon
      <4> QED
        BY <4>3
    <3>3. \A x \in drawn : \E y \in drawn : x = Xorshift32(y)
      BY <1>2, <1>6, <3>2 DEF ChainFrom
    <3>4. \A y \in drawn : Xorshift32(y) \in drawn
      BY <1>2, <1>6, <2>2 DEF ChainFrom
    <3>5. drawn = {Xorshift32(x) : x \in drawn}
      BY <3>3, <3>4, Zenon
    <3>6. WholeCycle'
      BY <2>2, <3>1, <3>5 DEF WholeCycle
    <3> QED
      BY <1>1, <1>3, <3>6 DEF ChainInv
  <2> QED
    BY <2>1, <2>2
<1>7. CASE WholeCycle
  <2>1. rng' \in drawn
    BY <1>2, <1>7 DEF WholeCycle
  <2>2. drawn' = drawn
    BY <1>2, <2>1
  <2>3. WholeCycle'
    BY <1>7, <2>1, <2>2 DEF WholeCycle
  <2> QED
    BY <1>1, <1>3, <2>3 DEF ChainInv
<1> QED
  BY <1>5, <1>6, <1>7 DEF ChainInv

(* Every step of the worker draws or keeps what it has drawn.              *)
LEMMA ChainStep ==
  ASSUME PacingInv, ChainInv, [Next]_vars
  PROVE  ChainInv'
<1>1. Draw \/ Keep
  BY DEF Next, Stop, LoadSleep, NewRequest, Submitted, RandomBackoff, RelaxBackoff, Keep, vars
<1>2. CASE Keep
  BY <1>2 DEF Keep, ChainInv, ChainFrom, WholeCycle
<1> QED
  BY <1>1, <1>2, DrawKeepsChain

(* Wherever the generator of a worker starts, it never falls into a cycle  *)
(* that its first word is not on: a word is drawn twice only after every   *)
(* other word of the cycle. How long the cycles are is not said.           *)
THEOREM PacingRepeatsOnlyRound == Spec => []RepeatsOnlyRound
<1>1. Init => ChainInv
  BY FS_EmptySet DEF Init, ChainInv
<1>2. PacingInv /\ ChainInv /\ [Next]_vars => ChainInv'
  BY ChainStep
<1>3. ChainInv => RepeatsOnlyRound
  <2> SUFFICES ASSUME ChainInv PROVE RepeatsOnlyRound
    OBVIOUS
  <2>1. Cardinality({}) = 0
    BY FS_EmptySet
  <2> QED
    BY <2>1 DEF ChainInv, WholeCycle, RepeatsOnlyRound
<1> QED
  BY <1>1, <1>2, <1>3, PacingInvariant, PTL DEF Spec
=============================================================================
