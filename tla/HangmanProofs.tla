--------------------------- MODULE HangmanProofs ---------------------------
(***************************************************************************)
(* Proofs about the hangman game, for any alphabet, any words and any      *)
(* length of a game: the loop never runs ahead of the timer, guesses are   *)
(* recorded once, the screen shows what was found, and the countdown loses *)
(* no tick.                                                                *)
(***************************************************************************)
EXTENDS Hangman, FiniteSetTheorems, TLAPS

\* The types that the proofs need.
HTypes ==
  /\ letter_pressed \in [Letters -> BOOLEAN]
  /\ tick \in Nat /\ now \in Nat /\ target \in Nat
  /\ ans \subseteq Letters
  /\ letter_known \in [Letters -> {"UNKNOWN", "IN_WORD", "OUT_WORD"}]
  /\ wrong_guess \in Seq(Letters)
  /\ found \in BOOLEAN /\ i \in 0..NR_KEY
  /\ pc \in {"init", "check", "poll", "wait", "hlt", "target", "keys", "show",
             "over"}

\* ShownIsKnown is not inductive: within a frame, what is shown is known.
ShownBelow == show_str \subseteq Known("IN_WORD")

HInv == HTypes /\ NowBehindTick /\ GuessesOnce /\ ShownBelow /\ ShownIsKnown

-----------------------------------------------------------------------------

LEMMA LettersFinite == IsFiniteSet(Letters) /\ 0 \in Letters
  BY FS_Interval, HangmanAssumption DEF Letters

\* A sequence and one more element hold what the sequence held and this one.
LEMMA AppendElements ==
  ASSUME NEW s \in Seq(Letters), NEW k \in Letters
  PROVE  /\ Append(s, k) \in Seq(Letters)
         /\ Len(Append(s, k)) = Len(s) + 1
         /\ {Append(s, k)[n] : n \in 1..Len(Append(s, k))}
              = {s[n] : n \in 1..Len(s)} \cup {k}
<1> DEFINE t == Append(s, k)
<1>1. t \in Seq(Letters) /\ Len(t) = Len(s) + 1 /\ Len(s) \in Nat
  OBVIOUS
<1>2. t[Len(s) + 1] = k /\ \A n \in 1..Len(s) : t[n] = s[n]
  OBVIOUS
<1>3. 1..Len(t) = 1..Len(s) \cup {Len(s) + 1}
  BY <1>1
<1> HIDE DEF t
<1>4. {t[n] : n \in 1..Len(t)} = {s[n] : n \in 1..Len(s)} \cup {k}
  BY <1>2, <1>3
<1> QED
  BY <1>1, <1>4 DEF t

\* Guessing letter k keeps the records of the guesses.
LEMMA GuessRecorded ==
  ASSUME HTypes, GuessesOnce, ShownBelow, NEW k \in Letters,
         letter_known[k] = "UNKNOWN", Guess(k)
  PROVE  /\ letter_known' \in [Letters -> {"UNKNOWN", "IN_WORD", "OUT_WORD"}]
         /\ wrong_guess' \in Seq(Letters) /\ found' \in BOOLEAN
         /\ GuessesOnce' /\ ShownBelow'
<1>1. letter_known' \in [Letters -> {"UNKNOWN", "IN_WORD", "OUT_WORD"}]
  BY DEF HTypes, Guess
<1>2. found' \in BOOLEAN /\ ans' = ans /\ show_str' = show_str
  BY DEF HTypes, Guess
<1>3. CASE found'
  <2>1. wrong_guess' = wrong_guess
    BY <1>3 DEF Guess
  <2>2. k \in ans => letter_known' = [letter_known EXCEPT ![k] = "IN_WORD"]
    BY DEF Guess
  <2>3. k \notin ans => letter_known' = letter_known
    BY <1>3 DEF Guess, HTypes
  <2>4. Known("OUT_WORD")' = Known("OUT_WORD")
    BY <2>2, <2>3 DEF Known, HTypes
  <2>5. /\ Known("IN_WORD") \subseteq Known("IN_WORD")'
        /\ Known("IN_WORD")' \subseteq Known("IN_WORD") \cup (ans \cap {k})
    BY <2>2, <2>3 DEF Known, HTypes
  <2> QED
    BY <1>1, <1>2, <2>1, <2>4, <2>5 DEF GuessesOnce, ShownBelow, miss, HTypes
<1>4. CASE ~found'
  <2>1. k \notin ans /\ ~found
    BY <1>4 DEF Guess, HTypes
  <2>2. /\ wrong_guess' = Append(wrong_guess, k)
        /\ letter_known' = [letter_known EXCEPT ![k] = "OUT_WORD"]
    BY <1>4, <2>1 DEF Guess
  <2>3. Known("OUT_WORD")' = Known("OUT_WORD") \cup {k} /\ k \notin Known("OUT_WORD")
    BY <2>2 DEF Known, HTypes
  <2>4. Known("IN_WORD")' = Known("IN_WORD")
    BY <2>2 DEF Known, HTypes
  <2>5. /\ wrong_guess' \in Seq(Letters) /\ miss' = miss + 1
        /\ {wrong_guess'[n] : n \in 1..miss'}
             = {wrong_guess[n] : n \in 1..miss} \cup {k}
    BY <2>2, AppendElements DEF HTypes, miss
  <2>6. Cardinality(Known("OUT_WORD")') = Cardinality(Known("OUT_WORD")) + 1
    <3>1. IsFiniteSet(Known("OUT_WORD"))
      BY LettersFinite, FS_Subset DEF Known
    <3> QED
      BY <2>3, <3>1, FS_AddElement
  <2> QED
    BY SMTT(30), <1>1, <1>2, <2>1, <2>3, <2>4, <2>5, <2>6 DEF GuessesOnce, ShownBelow
<1> QED
  BY <1>3, <1>4

-----------------------------------------------------------------------------

LEMMA InitHInv == HangmanInit => HInv
<1> SUFFICES ASSUME HangmanInit PROVE HInv
  OBVIOUS
<1>1. HTypes
  <2>1. letter_pressed \in [Letters -> BOOLEAN]
    BY DEF HangmanInit
  <2>2. letter_known \in [Letters -> {"UNKNOWN", "IN_WORD", "OUT_WORD"}]
    BY DEF HangmanInit
  <2>3. found \in BOOLEAN
    BY DEF HangmanInit
  <2>4. i \in 0..NR_KEY /\ wrong_guess \in Seq(Letters)
    BY HangmanAssumption DEF HangmanInit
  <2> QED
    BY <2>1, <2>2, <2>3, <2>4 DEF HangmanInit, HTypes
<1>4. NowBehindTick /\ ShownBelow /\ ShownIsKnown
  BY DEF HangmanInit, NowBehindTick, ShownBelow, ShownIsKnown
<1>2. Known("OUT_WORD") = {} /\ Known("IN_WORD") = {}
  BY DEF HangmanInit, Known
<1>3. miss = 0 /\ {wrong_guess[n] : n \in 1..miss} = {}
  BY DEF HangmanInit, miss
<1> QED
  BY <1>1, <1>2, <1>3, <1>4, FS_EmptySet DEF HInv, GuessesOnce

\* What a step that leaves the word alone must say of it: nothing.
LEMMA WordKept ==
  ASSUME HInv, UNCHANGED word
  PROVE  /\ GuessesOnce' /\ ShownBelow'
         /\ Known("IN_WORD")' = Known("IN_WORD") /\ show_str' = show_str
         /\ ans' \subseteq Letters
         /\ letter_known' \in [Letters -> {"UNKNOWN", "IN_WORD", "OUT_WORD"}]
         /\ wrong_guess' \in Seq(Letters)
BY DEF HInv, HTypes, word, GuessesOnce, ShownBelow, Known, miss

LEMMA HandlersHInv ==
  ASSUME HInv,
         \/ timer_event
         \/ \E k \in Letters : press_key(k)
         \/ other_interrupt
  PROVE  HInv'
<1>1. /\ UNCHANGED <<word, clock, found, i>>
      /\ WakeUp \/ (pc \in {"wait", "hlt"} /\ pc' = "check")
  BY DEF timer_event, press_key, other_interrupt
<1>2. tick' \in Nat /\ tick <= tick' /\ letter_pressed' \in [Letters -> BOOLEAN]
  <2>1. CASE timer_event
    BY <2>1 DEF timer_event, HInv, HTypes
  <2>2. CASE \E k \in Letters : press_key(k)
    BY <2>2 DEF press_key, HInv, HTypes
  <2>3. CASE other_interrupt
    BY <2>3 DEF other_interrupt, shared, HInv, HTypes
  <2> QED
    BY <2>1, <2>2, <2>3
<1>3. /\ pc' = pc \/ (pc \in {"wait", "hlt"} /\ pc' = "check")
      /\ UNCHANGED <<now, target, found, i>>
  BY <1>1 DEF WakeUp, clock
<1>4. HTypes'
  BY <1>1, <1>2, <1>3, WordKept DEF HTypes, HInv
<1>5. NowBehindTick'
  BY <1>2, <1>3 DEF NowBehindTick, HInv, HTypes
<1>6. ShownIsKnown'
  BY <1>1, <1>3, WordKept DEF ShownIsKnown, HInv, HTypes
<1> QED
  BY <1>1, <1>4, <1>5, <1>6, WordKept DEF HInv

LEMMA DealHInv ==
  ASSUME HInv, hangman_init
  PROVE  HInv'
<1>0. PICK w \in Words : \E given \in SUBSET w : Deal(w, given)
  BY DEF hangman_init
<1>1. PICK given \in SUBSET w : Deal(w, given)
  BY <1>0
<1>2. w \subseteq Letters
  BY HangmanAssumption
<1>3. /\ tick' = 0 /\ now' = 0 /\ wrong_guess' = << >> /\ pc' = "check"
      /\ UNCHANGED <<target, found, i>>
  BY DEF hangman_init
<1>4. /\ ans' = w /\ show_str' = given
      /\ letter_known' = [k \in Letters |-> IF k \in given THEN "IN_WORD" ELSE "UNKNOWN"]
      /\ letter_pressed' = [k \in Letters |-> FALSE]
  BY <1>1 DEF Deal
<1>5. Known("IN_WORD")' = given /\ Known("OUT_WORD")' = {}
  BY <1>2, <1>4 DEF Known
<1>6. miss' = 0 /\ {wrong_guess'[n] : n \in 1..miss'} = {}
  BY <1>3 DEF miss
<1>7. GuessesOnce'
  BY <1>4, <1>5, <1>6, FS_EmptySet DEF GuessesOnce
<1>8. HTypes'
  BY <1>2, <1>3, <1>4 DEF HTypes, HInv
<1>9. NowBehindTick' /\ ShownBelow' /\ ShownIsKnown'
  BY <1>3, <1>4, <1>5 DEF NowBehindTick, ShownBelow, ShownIsKnown
<1> QED
  BY <1>7, <1>8, <1>9 DEF HInv

\* The steps that only decide where to go on.
LEMMA ControlHInv ==
  ASSUME HInv, Check \/ Poll \/ Wait \/ KeysDone \/ Restart
  PROVE  HInv'
<1>1. UNCHANGED <<shared, word, clock, found, i>>
  BY DEF Check, Poll, Wait, KeysDone, Restart
<1>2. HTypes'
  <2>1. pc' \in {"init", "poll", "over", "wait", "target", "hlt", "show"}
    BY DEF Check, Poll, Wait, KeysDone, Restart
  <2> QED
    BY <1>1, <2>1, WordKept DEF HTypes, HInv, shared, clock
<1>3. NowBehindTick'
  <2>1. UNCHANGED <<tick, now, target>>
    BY <1>1 DEF shared, clock
  <2> QED
    BY <2>1 DEF Check, Poll, Wait, KeysDone, Restart, NowBehindTick, HInv, HTypes
<1>4. ShownIsKnown'
  BY <1>1, WordKept
     DEF Check, Poll, Wait, KeysDone, Restart, ShownIsKnown, HInv
<1> QED
  BY <1>1, <1>2, <1>3, <1>4, WordKept DEF HInv

LEMMA FrameHInv ==
  ASSUME HInv, BeginFrame \/ EndFrame
  PROVE  HInv'
<1>1. CASE BeginFrame
  <2>1. /\ UNCHANGED <<shared, word, now>> /\ target' = tick
        /\ i' = 0 /\ found' \in BOOLEAN /\ pc = "target" /\ pc' = "keys"
    BY <1>1 DEF BeginFrame
  <2>2. HTypes'
    BY <2>1, WordKept, HangmanAssumption DEF HTypes, HInv, shared
  <2>3. NowBehindTick' /\ ShownIsKnown'
    BY <2>1 DEF NowBehindTick, ShownIsKnown, HInv, HTypes, shared
  <2> QED
    BY <2>1, <2>2, <2>3, WordKept DEF HInv
<1>2. CASE EndFrame
  <2>1. /\ UNCHANGED <<shared, ans, letter_known, wrong_guess, target, found, i>>
        /\ show_str' = show_str \cup (ans \cap Known("IN_WORD"))
        /\ now' = target /\ pc = "show" /\ pc' = "check"
    BY <1>2 DEF EndFrame
  <2>2. HTypes'
    BY <2>1 DEF HTypes, HInv, shared
  <2>3. NowBehindTick'
    BY <2>1 DEF NowBehindTick, HInv, HTypes, shared
  <2>4. Known("IN_WORD")' = Known("IN_WORD") /\ Known("OUT_WORD")' = Known("OUT_WORD")
    BY <2>1 DEF Known
  <2>5. show_str' = Known("IN_WORD")'
    BY <2>1, <2>4 DEF ShownBelow, GuessesOnce, HInv
  <2>6. GuessesOnce'
    BY <2>1, <2>4 DEF GuessesOnce, HInv, miss
  <2> QED
    BY <2>2, <2>3, <2>5, <2>6 DEF HInv, ShownBelow, ShownIsKnown
<1> QED
  BY <1>1, <1>2

LEMMA TryKeyHInv ==
  ASSUME HInv, TryKey
  PROVE  HInv'
<1>1. /\ pc = "keys" /\ i \in Letters /\ UNCHANGED <<tick, clock>>
      /\ pc' \in {"keys", "show"}
  <2>1. pc = "keys" /\ i < NR_KEY /\ UNCHANGED <<tick, clock>>
    BY DEF TryKey
  <2>2. i \in Letters
    BY <2>1, HangmanAssumption DEF HInv, HTypes, Letters
  <2>3. pc' \in {"keys", "show"}
    BY <2>1 DEF TryKey
  <2> QED
    BY <2>1, <2>2, <2>3
<1>2. NowBehindTick' /\ ShownIsKnown'
  BY <1>1 DEF NowBehindTick, ShownIsKnown, HInv, clock
<1>3. letter_pressed' \in [Letters -> BOOLEAN] /\ i' \in 0..NR_KEY
  <2>1. \/ letter_pressed' = letter_pressed
        \/ letter_pressed' = [letter_pressed EXCEPT ![i] = FALSE]
    BY DEF TryKey
  <2>2. letter_pressed' \in [Letters -> BOOLEAN]
    BY <2>1 DEF HInv, HTypes
  <2>3. i' = i \/ i' = i + 1
    BY DEF TryKey
  <2> QED
    BY <1>1, <2>2, <2>3, HangmanAssumption DEF Letters
<1>4. /\ GuessesOnce' /\ ShownBelow' /\ found' \in BOOLEAN /\ ans' \subseteq Letters
      /\ letter_known' \in [Letters -> {"UNKNOWN", "IN_WORD", "OUT_WORD"}]
      /\ wrong_guess' \in Seq(Letters)
  <2>1. CASE UNCHANGED <<word, found>>
    BY <2>1, WordKept DEF HInv, HTypes
  <2>2. CASE letter_known[i] = "UNKNOWN" /\ Guess(i)
    BY <1>1, <2>2, GuessRecorded DEF HInv, HTypes, Guess
  <2> QED
    BY <2>1, <2>2 DEF TryKey
<1>5. HTypes'
  BY <1>1, <1>3, <1>4 DEF HTypes, HInv, clock
<1> QED
  BY <1>2, <1>4, <1>5 DEF HInv

LEMMA NextHInv == HInv /\ [HangmanNext]_hvars => HInv'
<1> SUFFICES ASSUME HInv, [HangmanNext]_hvars PROVE HInv'
  OBVIOUS
<1>1. CASE UNCHANGED hvars
  <2>1. UNCHANGED <<shared, word, now, target, found, i, pc>>
    BY <1>1 DEF hvars, clock
  <2> QED
    BY <2>1, WordKept
       DEF HInv, HTypes, NowBehindTick, ShownIsKnown, shared
<1>2. CASE LoopStep
  BY <1>2, DealHInv, ControlHInv, FrameHInv, TryKeyHInv DEF LoopStep
<1>3. CASE timer_event \/ (\E k \in Letters : press_key(k)) \/ other_interrupt
  BY <1>3, HandlersHInv
<1> QED
  BY <1>1, <1>2, <1>3 DEF HangmanNext

-----------------------------------------------------------------------------

\* The inductive invariant holds in every reachable state.
THEOREM SpecHInv == HangmanSpec => []HInv
  BY InitHInv, NextHInv, PTL DEF HangmanSpec

\* my_assert(now < tick) of main_loop never fails, whenever the timer ticks.
THEOREM SpecNowBehindTick == HangmanSpec => []NowBehindTick
<1>1. HInv => NowBehindTick
  BY DEF HInv
<1> QED
  BY <1>1, SpecHInv, PTL

\* Wrong guesses are recorded once each and agree with letter_known.
THEOREM SpecGuessesOnce == HangmanSpec => []GuessesOnce
<1>1. HInv => GuessesOnce
  BY DEF HInv
<1> QED
  BY <1>1, SpecHInv, PTL

\* wrong_guess has room for every letter of the alphabet, and needs no more.
THEOREM SpecNoOverflow == HangmanSpec => [](miss <= NR_KEY)
<1>1. HInv => miss <= NR_KEY
  <2> SUFFICES ASSUME HInv PROVE miss <= NR_KEY
    OBVIOUS
  <2>1. Known("OUT_WORD") \subseteq Letters /\ IsFiniteSet(Letters)
    BY LettersFinite DEF Known
  <2>2. Cardinality(Letters) = NR_KEY
    <3>1. /\ 0 \in Int /\ NR_KEY - 1 \in Int
          /\ (IF 0 > NR_KEY - 1 THEN 0 ELSE NR_KEY - 1 - 0 + 1) = NR_KEY
      BY HangmanAssumption
    <3> QED
      BY <3>1, FS_Interval DEF Letters
  <2>3. Cardinality(Known("OUT_WORD")) <= Cardinality(Letters)
    BY <2>1, FS_Subset
  <2> QED
    BY <2>2, <2>3 DEF HInv, GuessesOnce
<1> QED
  BY <1>1, SpecHInv, PTL

\* Between frames the screen shows the letters that were found.
THEOREM SpecShownIsKnown == HangmanSpec => []ShownIsKnown
<1>1. HInv => ShownIsKnown
  BY DEF HInv
<1> QED
  BY <1>1, SpecHInv, PTL

-----------------------------------------------------------------------------
(* The countdown.                                                          *)

LEMMA Division ==
  ASSUME NEW n \in Nat, NEW d \in Nat \ {0}
  PROVE  /\ n \div d \in Nat
         /\ n % d \in 0 .. d - 1
         /\ n = d * (n \div d) + (n % d)
  OBVIOUS

\* Every d-th number has no remainder, and no other.
LEMMA Multiple ==
  ASSUME NEW d \in Nat \ {0}, NEW k \in Nat
  PROVE  d * k \in Nat /\ (d * k) % d = 0
<1>1. d * k \in Nat
  OBVIOUS
<1> DEFINE q == (d * k) \div d
           r == (d * k) % d
<1>2. q \in Nat /\ r \in 0 .. d - 1 /\ d * k = d * q + r
  BY <1>1, Division
<1> HIDE DEF q, r
<1>3. CASE q < k
  <2>1. d * (k - q) >= d
    BY <1>2, <1>3
  <2> QED BY <1>2, <2>1
<1>4. CASE q > k
  <2>1. d * (q - k) >= d
    BY <1>2, <1>4
  <2> QED BY <1>2, <2>1
<1>5. CASE q = k
  BY <1>2, <1>5
<1>6. r = 0
  BY <1>2, <1>3, <1>4, <1>5
<1> QED BY <1>1, <1>6 DEF r

\* The multiples of HALF_SECOND below n are those with a factor below
\* HalfSecondsIn(n).
LEMMA FactorsBelow ==
  ASSUME NEW n \in Nat
  PROVE  /\ HalfSecondsIn(n) \in Nat
         /\ \A k \in Nat : HALF_SECOND * k < n <=> k < HalfSecondsIn(n)
<1> DEFINE c == HalfSecondsIn(n)
           r == (n + HALF_SECOND - 1) % HALF_SECOND
<1>1. /\ HALF_SECOND \in Nat \ {0}
      /\ n + HALF_SECOND - 1 \in Nat
  BY HangmanAssumption
<1>2. /\ c \in Nat /\ r \in 0 .. HALF_SECOND - 1
      /\ n + HALF_SECOND - 1 = HALF_SECOND * c + r
  BY <1>1, Division DEF HalfSecondsIn
<1> HIDE DEF c, r
<1>3. ASSUME NEW k \in Nat, k < c
      PROVE  HALF_SECOND * k < n
  <2>1. HALF_SECOND * (c - k) >= HALF_SECOND
    BY <1>1, <1>2, <1>3
  <2> QED BY <1>1, <1>2, <2>1
<1>4. ASSUME NEW k \in Nat, k >= c
      PROVE  ~(HALF_SECOND * k < n)
  <2>1. HALF_SECOND * (k - c) >= 0
    BY <1>1, <1>2, <1>4
  <2> QED BY <1>1, <1>2, <2>1
<1>5. \A k \in Nat : HALF_SECOND * k < n <=> k < c
  BY <1>2, <1>3, <1>4
<1> QED BY <1>2, <1>5 DEF c

\* What EndFrame counts is what HalfSecondsIn grows by.
LEMMA HalfSecondsCounted ==
  ASSUME now \in Nat, target \in Nat, now < target
  PROVE  HalfSeconds = HalfSecondsIn(target) - HalfSecondsIn(now)
<1> DEFINE a == HalfSecondsIn(now)
           b == HalfSecondsIn(target)
           Factors == a .. b - 1
           Begun == {t \in now .. target - 1 : t % HALF_SECOND = 0}
           f == [k \in Factors |-> HALF_SECOND * k]
<1>1. /\ HALF_SECOND \in Nat \ {0} /\ a \in Nat /\ b \in Nat
      /\ \A k \in Nat : HALF_SECOND * k < now <=> k < a
      /\ \A k \in Nat : HALF_SECOND * k < target <=> k < b
  BY FactorsBelow, HangmanAssumption
<1> HIDE DEF a, b
<1>2. a <= b
  <2>1. CASE b < a
    <3>1. HALF_SECOND * b \in Nat
      BY <1>1
    <3> QED BY <1>1, <2>1, <3>1
  <2> QED BY <1>1, <2>1
<1>3. ASSUME NEW k \in Factors
      PROVE  f[k] = HALF_SECOND * k /\ f[k] \in Begun
  <2>1. k \in Nat /\ ~(k < a) /\ k < b
    BY <1>1
  <2>2. HALF_SECOND * k \in Nat /\ (HALF_SECOND * k) % HALF_SECOND = 0
    BY <1>1, <2>1, Multiple
  <2>3. HALF_SECOND * k \in now .. target - 1
    BY <1>1, <2>1, <2>2
  <2> QED BY <2>2, <2>3
<1>4. ASSUME NEW t \in Begun
      PROVE  \E k \in Factors : f[k] = t
  <2>1. /\ t \in Nat /\ t >= now /\ t < target /\ t % HALF_SECOND = 0
    OBVIOUS
  <2>2. PICK k \in Nat : t = HALF_SECOND * k
    <3>1. t \div HALF_SECOND \in Nat /\ t = HALF_SECOND * (t \div HALF_SECOND) + 0
      BY <1>1, <2>1, Division
    <3> QED BY <1>1, <3>1
  <2>3. k \in Factors
    BY <1>1, <2>1, <2>2
  <2> QED BY <1>3, <2>2, <2>3
<1>5. ASSUME NEW k \in Factors, NEW m \in Factors, f[k] = f[m]
      PROVE  k = m
  <2>1. k \in Nat /\ m \in Nat /\ HALF_SECOND * k = HALF_SECOND * m
    BY <1>1, <1>3, <1>5
  <2>2. HALF_SECOND * (k - m) = 0
    BY <1>1, <2>1
  <2> QED BY <1>1, <2>1, <2>2
<1>6. f \in Bijection(Factors, Begun)
  <2>1. f \in [Factors -> Begun]
    BY <1>3
  <2> HIDE DEF f, Begun, Factors
  <2> QED BY <1>4, <1>5, <2>1 DEF Bijection, Injection, Surjection, IsInjective
<1>7. IsFiniteSet(Factors) /\ Cardinality(Factors) = b - a
  <2>1. /\ a \in Int /\ b - 1 \in Int
        /\ (IF a > b - 1 THEN 0 ELSE b - 1 - a + 1) = b - a
    BY <1>1, <1>2
  <2> QED BY <2>1, FS_Interval
<1>8. Cardinality(Begun) = b - a
  <2> HIDE DEF f, Begun, Factors
  <2> QED BY <1>6, <1>7, FS_Bijection DEF ExistsBijection
<1> QED BY <1>8 DEF HalfSeconds, a, b

LEMMA NextCountdown ==
  ASSUME HInv, CountdownIsExact, [HangmanNext]_hvars
  PROVE  CountdownIsExact'
<1>1. CASE hangman_init
  <2>1. now' = 0 /\ count_down' = COUNTDOWN
    BY <1>1 DEF hangman_init, Deal
  <2>2. HalfSecondsIn(0) = 0
    <3>1. HalfSecondsIn(0) \in Nat /\ ~(0 < HalfSecondsIn(0))
      BY FactorsBelow, HangmanAssumption
    <3> QED BY <3>1
  <2> QED BY <2>1, <2>2, HangmanAssumption DEF CountdownIsExact
<1>2. CASE EndFrame
  <2>1. /\ now \in Nat /\ target \in Nat /\ now < target /\ pc = "show"
        /\ now' = target /\ count_down' = count_down - HalfSeconds /\ ans' = ans
    BY <1>2 DEF EndFrame, HInv, HTypes, NowBehindTick
  <2>2. HalfSecondsIn(now) \in Nat /\ HalfSecondsIn(target) \in Nat
    BY <2>1, FactorsBelow
  <2>3. HalfSecondsIn(now)' = HalfSecondsIn(target)
    BY <2>1 DEF HalfSecondsIn
  <2> QED BY <2>1, <2>2, <2>3, HalfSecondsCounted, HangmanAssumption
          DEF CountdownIsExact
<1>3. CASE ~hangman_init /\ ~EndFrame
  <2>1. now' = now /\ count_down' = count_down /\ ans' = ans
    BY <1>3 DEF HangmanNext, LoopStep, Check, Poll, Wait, BeginFrame, TryKey, Guess,
       KeysDone, Restart, timer_event, press_key, other_interrupt, hvars, clock, word
  <2>2. pc' # "init" => pc # "init"
    BY <1>3 DEF HangmanNext, LoopStep, Check, Poll, Wait, BeginFrame, TryKey,
       KeysDone, Restart, timer_event, press_key, WakeUp, other_interrupt, hvars
  <2> QED BY <2>1, <2>2 DEF CountdownIsExact, HalfSecondsIn
<1> QED BY <1>1, <1>2, <1>3

(* The countdown shows the half seconds that began among the ticks the     *)
(* game has consumed, for any length of a half second and any delay of a   *)
(* frame: none is lost and none counted twice (game/game.c:61).            *)
THEOREM SpecCountdownIsExact == HangmanSpec => []CountdownIsExact
<1>1. HangmanInit => CountdownIsExact
  BY DEF HangmanInit, CountdownIsExact
<1> QED
  BY <1>1, SpecHInv, NextCountdown, PTL DEF HangmanSpec

=============================================================================
