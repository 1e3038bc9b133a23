----------------------------- MODULE StepStream -----------------------------
(***************************************************************************)
(* What a step buffer promises to the engraving goroutine: the words given *)
(* to it are executed in the order they were given, each at most once, and *)
(* once the machine has stalled nothing more is executed until the session *)
(* is given up.  What is left of a session is dropped, never executed by   *)
(* the next one.  StepRing implements this with a ring, a DMA channel and  *)
(* a PIO program.                                                          *)
(***************************************************************************)
EXTENDS Naturals

VARIABLES
  submitted,  (* number of the last word given to the buffer *)
  executed,   (* number of the last word executed or dropped *)
  engine      (* "off", "run" or "stall"                     *)

streamVars == <<submitted, executed, engine>>

StreamInit == submitted = 0 /\ executed = 0 /\ engine = "off"

Submit ==
  /\ submitted' \in Nat /\ submitted' > submitted
  /\ UNCHANGED <<executed, engine>>

Start ==
  /\ engine = "off" /\ engine' = "run"
  /\ UNCHANGED <<submitted, executed>>

(* The next word, and no other; a padded word stalls the engine as well. *)
Execute ==
  /\ engine = "run" /\ executed < submitted
  /\ executed' = executed + 1
  /\ engine' \in {"run", "stall"}
  /\ UNCHANGED submitted

(* At the end of the words, or when they come too late. *)
Stall ==
  /\ engine = "run" /\ engine' = "stall"
  /\ UNCHANGED <<submitted, executed>>

EndSession ==
  /\ engine' = "off" /\ executed' = submitted
  /\ UNCHANGED submitted

StreamNext == Submit \/ Start \/ Execute \/ Stall \/ EndSession

StreamSpec == StreamInit /\ [][StreamNext]_streamVars
=============================================================================
