------------------------------- MODULE Pacing -------------------------------
(***************************************************************************)
(* How a worker of src/worker.c paces itself, in each mode: the idle time  *)
(* of load_sleep, the backoff window of random_backoff and relax_backoff,  *)
(* and the private random generator (xorshift32 of src/utils.c) that all   *)
(* of them and every new request draw from. How long a worker sleeps is a  *)
(* draw modulo a window; what matters here is the windows and the draws.   *)
(*                                                                         *)
(* A 32-bit word is the set of the positions of its one bits. drawn and    *)
(* streak are history. Whether an attempt is rejected is left open.        *)
(***************************************************************************)
EXTENDS Integers, FiniteSets

CONSTANTS Seeds,     \* the words that args[i].rng may start from
          Loads,     \* values of cfg->load
          MaxDraws   \* bound on the draws of the worker

Bits == 0..31

ASSUME PacingAssumption ==
  Seeds \subseteq SUBSET Bits /\ Loads \subseteq 1..100 /\ MaxDraws \in Nat

BACKOFF_MIN_US == 200
BACKOFF_MAX_US == 8000

VARIABLES
  mode, load,
  pc,      \* "loop", "create", "try", "wait", "exited"
  rng,     \* args[i].rng
  window,  \* backoff_window_us
  draws,   \* how many words have been drawn,
  drawn,   \* and which
  streak   \* n rejections in a row, or -n completions; up to MaxStreak

vars == <<mode, load, pc, rng, window, draws, drawn, streak>>

MaxStreak == 7

Init ==
  /\ mode \in 0..2 /\ load \in Loads
  /\ pc = "loop"
  /\ rng \in Seeds
  /\ window = BACKOFF_MIN_US
  /\ draws = 0 /\ drawn = {}
  /\ streak = 0

-----------------------------------------------------------------------------
(* The generator.                                                          *)

Xor(x, y)        == (x \ y) \cup (y \ x)
ShiftLeft(x, k)  == {i + k : i \in x} \cap Bits
ShiftRight(x, k) == {i - k : i \in x} \cap Bits

(* Fault: the state 0 is not replaced.                                     *)
Unreplaced(state) == state

(* A state of 0 would reproduce itself.                                    *)
Nonzero(state) == IF state = {} THEN {0} ELSE state

Xorshift32(state) ==
  LET x == Nonzero(state)
      y == Xor(x, ShiftLeft(x, 13))
      z == Xor(y, ShiftRight(y, 17))
  IN  Xor(z, ShiftLeft(z, 5))

Draw ==
  /\ rng' = Xorshift32(rng)
  /\ draws' = draws + 1
  /\ drawn' = drawn \cup {rng'}

Keep == UNCHANGED <<rng, draws, drawn>>

-----------------------------------------------------------------------------
(* The worker.                                                             *)

(* stop_requested, at the head of the loops.                               *)
Stop ==
  /\ pc \in {"loop", "try"}
  /\ pc' = "exited"
  /\ Keep /\ UNCHANGED <<mode, load, window, streak>>

(* load_sleep: at full load a worker does not idle and draws nothing.      *)
LoadSleep ==
  /\ pc = "loop" /\ draws + 2 <= MaxDraws
  /\ pc' = "create"
  /\ IF load < 100 THEN Draw ELSE Keep
  /\ UNCHANGED <<mode, load, window, streak>>

(* new_request draws a word for the request, even if the allocation fails. *)
NewRequest ==
  /\ pc = "create"
  /\ pc' \in {"try", "loop"}
  /\ Draw
  /\ UNCHANGED <<mode, load, window, streak>>

Submitted ==
  /\ pc = "try"
  /\ pc' = "wait"
  /\ Keep /\ UNCHANGED <<mode, load, window, streak>>

(* Fault: the doubled window is not cut to the maximum.                    *)
DoubledWindow == IF window < BACKOFF_MAX_US THEN window * 2 ELSE window

Grown ==
  IF window < BACKOFF_MAX_US
  THEN IF window * 2 > BACKOFF_MAX_US THEN BACKOFF_MAX_US ELSE window * 2
  ELSE window

(* random_backoff after a rejection, in modes 1 and 2.                     *)
RandomBackoff ==
  /\ pc = "try" /\ mode # 0 /\ draws < MaxDraws
  /\ Draw
  /\ window' = Grown
  /\ streak' = IF streak < 0 THEN 1 ELSE IF streak < MaxStreak THEN streak + 1 ELSE streak
  /\ UNCHANGED <<mode, load, pc>>

Relaxed ==
  IF window \div 2 < BACKOFF_MIN_US THEN BACKOFF_MIN_US ELSE window \div 2

(* relax_backoff after a completion, in modes 1 and 2.                     *)
RelaxBackoff ==
  /\ pc = "wait"
  /\ pc' = "loop"
  /\ IF mode = 0
     THEN UNCHANGED <<window, streak>>
     ELSE /\ window' = Relaxed
          /\ streak' = IF streak > 0 THEN -1
                       ELSE IF streak > -MaxStreak THEN streak - 1 ELSE streak
  /\ Keep /\ UNCHANGED <<mode, load>>

Next ==
  \/ Stop \/ LoadSleep \/ NewRequest \/ Submitted \/ RandomBackoff \/ RelaxBackoff
  \/ pc = "exited" /\ UNCHANGED vars

Spec == Init /\ [][Next]_vars

-----------------------------------------------------------------------------
(* Properties.                                                             *)

(* The window follows the congestion a worker has met: n rejections in a   *)
(* row, whatever came before, widen it to at least 200 * 2^n or to 8000,   *)
(* n completions in a row bring it down to at most 8000 / 2^n or to 200,   *)
(* and in between it is a modulus that never leaves 200..8000.             *)
BackoffFollowsStreak ==
  /\ window \in BACKOFF_MIN_US..BACKOFF_MAX_US
  /\ streak > 0 => window = BACKOFF_MAX_US \/ window >= BACKOFF_MIN_US * 2^streak
  /\ streak < 0 => window = BACKOFF_MIN_US \/ window * 2^(-streak) <= BACKOFF_MAX_US

(* Whatever the seed, 0 included, and whatever order the draws are made    *)
(* in, the generator is never caught: no word of 0, none drawn twice.      *)
RngNeverStuck == {} \notin drawn /\ Cardinality(drawn) = draws
=============================================================================
