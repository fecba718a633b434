------------------------------ MODULE Hangman ------------------------------
(***************************************************************************)
(* The hangman game: main_loop() of game/game.c, update_keypress() of      *)
(* game/effect.c, and the two handlers that interrupt them at any          *)
(* instruction, timer_event() and keyboard_event().  The kernel runs the   *)
(* handlers on behalf of the process that was interrupted; these are the   *)
(* interrupts of the process that plays.                                   *)
(*                                                                         *)
(* A step of the loop ends where the loop next looks at something that a   *)
(* handler writes (tick, letter_pressed) or waits for an interrupt.  A     *)
(* letter is its index; a word matters only as the set of its letters.     *)
(***************************************************************************)
EXTENDS Integers, Sequences, FiniteSets

CONSTANTS
  NR_KEY,       \* letters (26 in the code)
  Words,        \* sel_words: the words, each the set of its letters
  RKEY,         \* 'r' - 'a'
  COUNTDOWN,    \* half seconds of a game
  MISS_END,     \* wrong guesses that end it
  HALF_SECOND,  \* HZ / 2
  MaxLag        \* bound: ticks that the game is behind the timer, not counting
                \* the one that ends a hlt

Letters == 0 .. NR_KEY-1

ASSUME HangmanAssumption ==
  /\ NR_KEY \in Nat \ {0} /\ RKEY \in Letters
  /\ Words # {} /\ \A w \in Words : w # {} /\ w \subseteq Letters
  /\ COUNTDOWN \in Nat \ {0} /\ MISS_END \in Nat \ {0}
  /\ HALF_SECOND \in Nat \ {0} /\ MaxLag \in Nat \ {0}

VARIABLES
  tick,            \* calls of timer_event since the game began
  letter_pressed,  \* the keys that were pressed and not yet looked at
  now, target,     \* the ticks that were, and are to be, consumed
  count_down,
  ans,             \* the word
  letter_known,
  show_str,        \* the letters of the word that are shown
  wrong_guess,     \* wrong_guess[0 .. miss-1]; miss is its length
  found,           \* `bool found' of update_keypress, never initialised
  i,               \* the loop counter of update_keypress
  pc               \* the next step of main_loop

shared == <<tick, letter_pressed>>
word == <<ans, letter_known, show_str, wrong_guess>>
clock == <<now, target, count_down>>
hvars == <<shared, word, clock, found, i, pc>>

miss == Len(wrong_guess)
Known(state) == {k \in Letters : letter_known[k] = state}

HangmanInit ==
  /\ pc = "init"
  /\ tick = 0 /\ letter_pressed = [k \in Letters |-> FALSE]
  /\ now = 0 /\ target = 0 /\ count_down = 0
  /\ ans = {} /\ show_str = {} /\ wrong_guess = << >>
  /\ letter_known = [k \in Letters |-> "UNKNOWN"]
  /\ found = FALSE /\ i = 0

-----------------------------------------------------------------------------
(* The handlers.                                                           *)

\* Any interrupt ends the hlt of sys_wait_intr; the loop begins again.
WakeUp == pc' = IF pc = "hlt" THEN "check" ELSE pc

\* Mutant: the timer does not end the hlt.
timer_event_NoWakeUp ==
  /\ tick - now <= MaxLag
  /\ tick' = tick + 1
  /\ UNCHANGED <<letter_pressed, word, clock, found, i, pc>>

timer_event ==
  /\ pc = "hlt" \/ tick - now < MaxLag
  /\ tick' = tick + 1
  /\ WakeUp
  /\ UNCHANGED <<letter_pressed, word, clock, found, i>>

press_key(k) ==
  /\ letter_pressed' = [letter_pressed EXCEPT ![k] = TRUE]
  /\ WakeUp
  /\ UNCHANGED <<tick, word, clock, found, i>>

\* An interrupt that leaves the game's variables alone: a scan code that is no
\* letter's, or a tick that takes the processor away.  The kernel calls no
\* handler then, and the game goes on behind a sys_wait_intr it was in, be it
\* before the hlt.
other_interrupt ==
  /\ pc \in {"wait", "hlt"}
  /\ pc' = "check"
  /\ UNCHANGED <<shared, word, clock, found, i>>

-----------------------------------------------------------------------------
(* The loop.                                                               *)

\* What hangman_init leaves when the word is w and the letters in `given' have
\* been drawn to be shown.
Deal(w, given) ==
  /\ ans' = w
  /\ letter_known' = [k \in Letters |-> IF k \in given THEN "IN_WORD" ELSE "UNKNOWN"]
  /\ show_str' = given
  /\ count_down' = COUNTDOWN
  /\ letter_pressed' = [k \in Letters |-> FALSE]

hangman_init ==
  /\ pc = "init"
  /\ \E w \in Words : \E given \in SUBSET w : Deal(w, given)
  /\ wrong_guess' = << >>
  /\ tick' = 0 /\ now' = 0
  /\ pc' = "check"
  /\ UNCHANGED <<target, found, i>>

check_win == \A k \in ans : letter_known[k] = "IN_WORD"
Playing == ~check_win /\ count_down > 0 /\ miss < MISS_END

Check ==
  /\ pc = "check"
  /\ pc' = IF Playing THEN "poll" ELSE "over"
  /\ UNCHANGED <<shared, word, clock, found, i>>

\* Mutant: a frame is run whether or not the timer has ticked.
Poll_NoTest ==
  /\ pc = "poll"
  /\ pc' = "target"
  /\ UNCHANGED <<shared, word, clock, found, i>>

Poll ==
  /\ pc = "poll"
  /\ pc' = IF now = tick THEN "wait" ELSE "target"
  /\ UNCHANGED <<shared, word, clock, found, i>>

\* sys_wait_intr: an interrupt that comes before the hlt does not end it.
Wait ==
  /\ pc = "wait"
  /\ pc' = "hlt"
  /\ UNCHANGED <<shared, word, clock, found, i>>

\* The frame begins: it will consume the ticks up to here.  update_keypress is
\* entered, with whatever the stack holds in `found'.
BeginFrame ==
  /\ pc = "target"
  /\ target' = tick
  /\ i' = 0
  /\ found' \in BOOLEAN
  /\ pc' = "keys"
  /\ UNCHANGED <<shared, word, now, count_down>>

\* The first guess of letter k in this game.
Guess(k) ==
  /\ found' = (found \/ k \in ans)
  /\ letter_known' = [letter_known EXCEPT ![k] =
                        IF k \in ans THEN "IN_WORD"
                        ELSE IF found THEN @ ELSE "OUT_WORD"]
  /\ wrong_guess' = IF found' THEN wrong_guess ELSE Append(wrong_guess, k)
  /\ UNCHANGED <<ans, show_str>>

\* Mutant: a letter tried before is guessed again.
TryKey_Again ==
  /\ pc = "keys"
  /\ i < NR_KEY
  /\ \/ /\ ~letter_pressed[i]
        /\ UNCHANGED <<letter_pressed, word, found>>
     \/ /\ letter_pressed[i]
        /\ letter_pressed' = [letter_pressed EXCEPT ![i] = FALSE]
        /\ Guess(i)
  /\ i' = i + 1
  /\ UNCHANGED <<tick, clock, pc>>

\* One round of the loop over the keys.  A letter tried before breaks it.
TryKey ==
  /\ pc = "keys"
  /\ i < NR_KEY
  /\ \/ /\ ~letter_pressed[i]
        /\ i' = i + 1
        /\ UNCHANGED <<letter_pressed, word, found, pc>>
     \/ /\ letter_pressed[i]
        /\ letter_pressed' = [letter_pressed EXCEPT ![i] = FALSE]
        /\ \/ /\ letter_known[i] # "UNKNOWN"
              /\ pc' = "show"
              /\ UNCHANGED <<word, found, i>>
           \/ /\ letter_known[i] = "UNKNOWN"
              /\ Guess(i)
              /\ i' = i + 1
              /\ UNCHANGED pc
  /\ UNCHANGED <<tick, clock>>

KeysDone ==
  /\ pc = "keys"
  /\ i = NR_KEY
  /\ pc' = "show"
  /\ UNCHANGED <<shared, word, clock, found, i>>

\* The half seconds that begin among the ticks now .. target-1.
HalfSeconds == Cardinality({t \in now .. target-1 : t % HALF_SECOND = 0})

\* The rest of the frame: show_str, the loop that consumes the ticks, redraw.
\* Mutant: the ticks are skipped, and the half seconds among them with them.
EndFrame_Skip ==
  /\ pc = "show"
  /\ show_str' = show_str \cup (ans \cap Known("IN_WORD"))
  /\ now' = target
  /\ count_down' = IF now % HALF_SECOND = 0 THEN count_down - 1 ELSE count_down
  /\ pc' = "check"
  /\ UNCHANGED <<shared, ans, letter_known, wrong_guess, target, found, i>>

\* Mutant: a `return' in the place of the `break' leaves show_str as it is.
EndFrame_NotShown ==
  /\ pc = "show"
  /\ show_str' = IF i < NR_KEY THEN show_str
                 ELSE show_str \cup (ans \cap Known("IN_WORD"))
  /\ now' = target
  /\ count_down' = count_down - HalfSeconds
  /\ pc' = "check"
  /\ UNCHANGED <<shared, ans, letter_known, wrong_guess, target, found, i>>

EndFrame ==
  /\ pc = "show"
  /\ show_str' = show_str \cup (ans \cap Known("IN_WORD"))
  /\ now' = target
  /\ count_down' = count_down - HalfSeconds
  /\ pc' = "check"
  /\ UNCHANGED <<shared, ans, letter_known, wrong_guess, target, found, i>>

Restart ==
  /\ pc = "over"
  /\ letter_pressed[RKEY]
  /\ pc' = "init"
  /\ UNCHANGED <<shared, word, clock, found, i>>

LoopStep == \/ hangman_init \/ Check \/ Poll \/ Wait \/ BeginFrame
            \/ TryKey \/ KeysDone \/ EndFrame \/ Restart

HangmanNext ==
  \/ LoopStep
  \/ timer_event
  \/ \E k \in Letters : press_key(k)
  \/ other_interrupt

\* The program gets its share of the processor, and in its share ticks that do
\* not end it (at most one tick in SCHED_TIME_FREQ + 1 does).
HangmanSpec == /\ HangmanInit /\ [][HangmanNext]_hvars
               /\ WF_hvars(LoopStep) /\ WF_hvars(timer_event)

-----------------------------------------------------------------------------
(* Properties.                                                             *)

\* n / HALF_SECOND, rounded up: the multiples of HALF_SECOND below n.
HalfSecondsIn(n) == (n + HALF_SECOND - 1) \div HALF_SECOND

\* my_assert(now < tick) of main_loop, where it stands and until the frame
\* ends: the game never runs ahead of the timer, whenever it ticks.
NowBehindTick ==
  /\ now <= tick
  /\ pc = "target" => now < tick
  /\ pc \in {"keys", "show"} => now < target /\ target <= tick

\* No tick is lost to the countdown, however many came during a frame or
\* between looking at the timer and waiting for it.
CountdownIsExact ==
  pc # "init" /\ ans # {} => count_down = COUNTDOWN - HalfSecondsIn(now)

\* The wrong guesses are the letters marked as such, each once.  So they fit
\* into wrong_guess[26], although misses are only counted between frames.
GuessesOnce ==
  /\ {wrong_guess[n] : n \in 1..miss} = Known("OUT_WORD")
  /\ Cardinality(Known("OUT_WORD")) = miss
  /\ Known("IN_WORD") \subseteq ans
  /\ Known("OUT_WORD") \cap ans = {}

\* Between frames the word on the screen shows what the player has found, also
\* when a letter tried before has cut the loop over the keys short.
ShownIsKnown ==
  pc \notin {"init", "keys", "show"} => show_str = Known("IN_WORD")

\* Every game ends, whatever keys are pressed when and although an interrupt
\* between test and hlt is missed.
GameEnds == (pc = "check") ~> (pc = "over")

=============================================================================
