----------------------------- MODULE TapState -----------------------------
(***************************************************************************)
(* The IEEE 1149.1 TAP as src/jtag/tap_controller.cpp tabulates it, what a *)
(* word of TMS bits does to it, and computeTmsPath(), the breadth-first    *)
(* search for the word that leads from one state to another.               *)
(*                                                                         *)
(* A word is the sequence of its bits, first bit clocked first; the code   *)
(* packs it into a byte, LSB first, with its length.                       *)
(***************************************************************************)
EXTENDS Naturals, Sequences, FiniteSets

\* kTapTransitions: the next state for TMS=0 and for TMS=1.
kTapTransitions ==
  [TEST_LOGIC_RESET |-> <<"RUN_TEST_IDLE", "TEST_LOGIC_RESET">>,
   RUN_TEST_IDLE    |-> <<"RUN_TEST_IDLE", "SELECT_DR_SCAN">>,
   SELECT_DR_SCAN   |-> <<"CAPTURE_DR",    "SELECT_IR_SCAN">>,
   CAPTURE_DR       |-> <<"SHIFT_DR",      "EXIT1_DR">>,
   SHIFT_DR         |-> <<"SHIFT_DR",      "EXIT1_DR">>,
   EXIT1_DR         |-> <<"PAUSE_DR",      "UPDATE_DR">>,
   PAUSE_DR         |-> <<"PAUSE_DR",      "EXIT2_DR">>,
   EXIT2_DR         |-> <<"SHIFT_DR",      "UPDATE_DR">>,
   UPDATE_DR        |-> <<"RUN_TEST_IDLE", "SELECT_DR_SCAN">>,
   SELECT_IR_SCAN   |-> <<"CAPTURE_IR",    "TEST_LOGIC_RESET">>,
   CAPTURE_IR       |-> <<"SHIFT_IR",      "EXIT1_IR">>,
   SHIFT_IR         |-> <<"SHIFT_IR",      "EXIT1_IR">>,
   EXIT1_IR         |-> <<"PAUSE_IR",      "UPDATE_IR">>,
   PAUSE_IR         |-> <<"PAUSE_IR",      "EXIT2_IR">>,
   EXIT2_IR         |-> <<"SHIFT_IR",      "UPDATE_IR">>,
   UPDATE_IR        |-> <<"RUN_TEST_IDLE", "SELECT_DR_SCAN">>]

TapStates == DOMAIN kTapTransitions

TapNext(s, tms) == kTapTransitions[s][tms + 1]

\* The states a TAP passes through when it is clocked with a word, the first one
\* included.
Course(s, word) ==
  LET course[i \in 0 .. Len(word)] ==
        IF i = 0 THEN <<s>>
        ELSE LET c == course[i - 1] IN Append(c, TapNext(c[i], word[i]))
  IN  course[Len(word)]

After(s, word) == Course(s, word)[Len(word) + 1]

\* The longest word the search extends (new_len < 7), so that no word is longer
\* than the seven bits of one MPSSE TMS command.
MaxTms == 7

---------------------------------------------------------------------------
(* computeTmsPath()                                                        *)

\* One turn of the inner loop: the neighbour is queued unless it was visited
\* (the states in the queue are the visited ones) or the word gets too long.
\* Mutant: a limit that is one too small.
VisitShort(queue, cur, tms) ==
  LET next == TapNext(cur.state, tms)
      word == Append(cur.word, tms)
  IN  IF (\E i \in DOMAIN queue : queue[i].state = next) \/ Len(word) >= MaxTms - 1
      THEN queue ELSE Append(queue, [state |-> next, word |-> word])
Visit(queue, cur, tms) ==
  LET next == TapNext(cur.state, tms)
      word == Append(cur.word, tms)
  IN  IF (\E i \in DOMAIN queue : queue[i].state = next) \/ Len(word) >= MaxTms
      THEN queue ELSE Append(queue, [state |-> next, word |-> word])

\* The queue when the search has run dry. The search stops at the first hit;
\* what it would have queued afterwards comes later in the queue.
SearchQueue(from) ==
  LET queue[n \in 0 .. Cardinality(TapStates)] ==
        IF n = 0 THEN <<[state |-> from, word |-> <<>>]>>
        ELSE LET q == queue[n - 1]
             IN  IF n > Len(q) THEN q ELSE Visit(Visit(q, q[n], 0), q[n], 1)
  IN  queue[Cardinality(TapStates)]

\* The first hit in the order of the two loops; without one, five bits of TMS=1.
computeTmsPath(from, to) ==
  LET queue == SearchQueue(from)
      hits == {h \in (1 .. Len(queue)) \X {0, 1} : TapNext(queue[h[1]].state, h[2]) = to}
      first == CHOOSE h \in hits : \A g \in hits : 2 * h[1] + h[2] <= 2 * g[1] + g[2]
  IN  CASE from = to -> <<>>
        [] from # to /\ hits # {} -> Append(queue[first[1]].word, first[2])
        [] OTHER -> <<1, 1, 1, 1, 1>>

TmsPaths == [p \in TapStates \X TapStates |-> computeTmsPath(p[1], p[2])]

\* The states some word of n bits leads to: the reference for the search.
ReachableIn(s, n) ==
  LET set[i \in 0 .. n] == IF i = 0 THEN {s}
                           ELSE {TapNext(t, b) : t \in set[i - 1], b \in {0, 1}}
  IN  set[n]
=============================================================================
