------------------------------ MODULE PlConfig ------------------------------
(***************************************************************************)
(* PlConfig of src/config/pl_config.cpp: the configuration of the PL over  *)
(* JTAG. Every scan is a step that works, or fails before or after the PL  *)
(* has seen it; the results of the clkIdle() calls are not looked at, so a *)
(* failed one goes unnoticed. The PL, external, is what the JTAG sequence  *)
(* of UG470 makes of it.                                                   *)
(***************************************************************************)
EXTENDS Naturals, Sequences, SequencesExt

CONSTANTS Words,      \* the words of a bitstream; "bad" is one the PL refuses
          Frames,     \* the words a configuration has after its sync word
          Before,     \* devices between the PL and TDO
          After,      \* devices between TDI and the PL
          MaxPolls    \* 10: reads of the STAT register after startup

ASSUME PlAssumption == /\ MaxPolls \in Nat \ {0} /\ {Before, After} \subseteq Nat
                       /\ Frames \in Seq(Words) /\ \A i \in DOMAIN Frames : Frames[i] # "bad"

VARIABLES pc,      \* where program() is
          pl,      \* the PL: [state, locked]; DONE is high in "old" and "started"
          ir,      \* the instruction the PL's TAP holds
          bits,    \* the bitstream file: [there, words]
          poll,    \* [attempt, status, any_nonzero, read] of the DONE poll
          result,  \* what program() returned: "none", "true", "false"
          fault,   \* how many calls to the cable have failed
          late     \* the hardware took longer than the code waits

pl_vars == <<pc, pl, ir, bits, poll, result, fault, late>>

PlDone == pl.state \in {"old", "started"}

\* loadBitstream(): from the sync word on, or the whole file without one.
LoadBitstream(words) ==
  LET at == {i \in DOMAIN words : words[i] = "sync"}
  IN IF at = {} THEN words ELSE SubSeq(words, CHOOSE i \in at : \A j \in at : i <= j, Len(words))

Zeros(n) == [i \in 1 .. n |-> "0"]

\* The body, and a zero for each device in BYPASS.
Tdi(words) == LoadBitstream(words) \o Zeros(Before + After)

\* What of the bits shifted in reaches the PL: the BYPASS registers on the way
\* hold a zero each, and keep the last ones.
Received(tdi) == SubSeq(Zeros(After) \o tdi, 1, Len(tdi))

\* The configuration logic waits for a sync word and checks what follows.
Configured(stream) ==
  LET at == {i \in DOMAIN stream : stream[i] = "sync"}
      body == SubSeq(stream, (CHOOSE i \in at : \A j \in at : i <= j) + 1, Len(stream))
  IN CASE at = {} -> "short"
       [] at # {} /\ \E i \in DOMAIN body : body[i] = "bad" -> "crc"
       [] at # {} /\ IsPrefix(Frames, body) -> "loaded"
       [] OTHER -> "short"

---------------------------------------------------------------------------
(* Steps of program()                                                      *)

PlStart(file) ==
  /\ bits' = file
  /\ pc' = "load" /\ result' = "none" /\ fault' = 0 /\ late' = FALSE
  /\ poll' = [attempt |-> 0, status |-> "zero", any_nonzero |-> FALSE, read |-> FALSE]

Return(r) == result' = r /\ pc' = "returned"

\* A scan works, or it fails and program() returns false; a failed scan may
\* have reached the PL all the same.
Scan(next, effect, none) ==
  \/ effect /\ pc' = next /\ UNCHANGED <<result, fault>>
  \/ (effect \/ none) /\ Return("false") /\ fault' = fault + 1
\* clkIdle(), its result ignored
Idling(next, effect, none) ==
  /\ pc' = next /\ UNCHANGED result
  /\ \/ effect /\ UNCHANGED fault
     \/ none /\ fault' = fault + 1

Loads(op) == ir' = op
ToState(s) == pl' = [pl EXCEPT !.state = s]

Load ==
  /\ pc = "load"
  /\ IF bits.there /\ bits.words # <<>> THEN pc' = "jprogram" /\ UNCHANGED result
     ELSE Return("false")
  /\ UNCHANGED <<pl, ir, bits, poll, fault, late>>

\* JPROGRAM clears the PL, whatever it was doing.
JProgram ==
  /\ pc = "jprogram"
  /\ Scan("wait", Loads("JPROGRAM") /\ pl' = [state |-> "clearing", locked |-> FALSE],
          UNCHANGED <<ir, pl>>)
  /\ UNCHANGED <<bits, poll, late>>

\* waitInitB() only lets time pass.
WaitInitB ==
  /\ pc = "wait"
  /\ Idling("cfg_in", ToState("clear"), UNCHANGED pl)
  /\ UNCHANGED <<ir, bits, poll, late>>

\* An instruction during the clear phase interrupts the initialisation.
CfgIn ==
  /\ pc = "cfg_in"
  /\ Scan("shift", Loads("CFG_IN") /\ ToState(IF pl.state = "clearing" THEN "spoiled" ELSE pl.state),
          UNCHANGED <<ir, pl>>)
  /\ UNCHANGED <<bits, poll, late>>

ShiftBody ==
  /\ pc = "shift"
  /\ Scan("jstart",
          ToState(IF pl.state = "clear" THEN Configured(Received(Tdi(bits.words))) ELSE pl.state),
          UNCHANGED pl)
  /\ UNCHANGED <<ir, bits, poll, late>>

JStart ==
  /\ pc = "jstart"
  /\ Scan("startup", Loads("JSTART"), UNCHANGED ir)
  /\ UNCHANGED <<pl, bits, poll, late>>

StartupClocks ==
  /\ pc = "startup"
  /\ Idling("bypass", ToState(IF pl.state = "loaded" THEN "starting" ELSE pl.state), UNCHANGED pl)
  /\ UNCHANGED <<ir, bits, poll, late>>

LoadBypass ==
  /\ pc = "bypass"
  /\ Scan("poll", Loads("BYPASS"), UNCHANGED ir)
  /\ UNCHANGED <<pl, bits, poll, late>>

\* The STAT register: zero once DONE has locked the port.
Stat == IF pl.locked THEN "zero"
        ELSE CASE PlDone -> "done" [] pl.state = "crc" -> "crc" [] OTHER -> "waiting"

\* After the poll. Mutant: the last status, not DONE, decides.
PollEndLenient(p) == IF p.status = "crc" THEN "false" ELSE "true"
PollEnd(p) == IF p.status = "crc" THEN "false"
              ELSE IF ~p.any_nonzero \/ p.status = "zero" THEN "true" ELSE "false"

\* One turn of the poll: readStatus() gives the STAT register, or fails.
Poll ==
  /\ pc = "poll"
  /\ \E s \in {Stat, "unread"} :
       LET p == IF s = "unread" THEN [poll EXCEPT !.attempt = @ + 1]
                ELSE [attempt |-> poll.attempt + 1, status |-> s, read |-> TRUE,
                      any_nonzero |-> poll.any_nonzero \/ s # "zero"]
           over == s = "crc" \/ p.attempt = MaxPolls
       IN /\ poll' = p
          /\ ir' \in IF s = "unread" THEN {ir, "CFG_IN", "CFG_OUT"} ELSE {"CFG_OUT"}
          /\ fault' = IF s = "unread" THEN fault + 1 ELSE fault
          /\ late' = (over /\ pl.state = "starting")
          /\ CASE s = "done" -> Return("true")
               [] s # "done" /\ over -> Return(PollEnd(p))
               [] OTHER -> UNCHANGED <<pc, result>>
  /\ UNCHANGED <<pl, bits>>

\* The PL: startup ends, and the configuration port locks after DONE.
PlStarts == pl.state = "starting" /\ ToState("started") /\ UNCHANGED <<pc, ir, bits, poll, result, fault, late>>
PortLocks == /\ PlDone /\ ~pl.locked /\ pl' = [pl EXCEPT !.locked = TRUE]
             /\ UNCHANGED <<pc, ir, bits, poll, result, fault, late>>

PlStep == Load \/ JProgram \/ WaitInitB \/ CfgIn \/ ShiftBody \/ JStart \/ StartupClocks
          \/ LoadBypass \/ Poll
PlDevice == PlStarts \/ PortLocks

PlInit == /\ pc = "idle" /\ ir = "IDCODE" /\ result = "none" /\ fault = 0 /\ late = FALSE
          /\ pl = [state |-> "old", locked |-> FALSE]
          /\ bits = [there |-> FALSE, words |-> <<>>]
          /\ poll = [attempt |-> 0, status |-> "zero", any_nonzero |-> FALSE, read |-> FALSE]
=============================================================================
