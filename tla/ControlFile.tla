---------------------------- MODULE ControlFile ----------------------------
(***************************************************************************)
(* The persisted pause switch (control_state.py): one JSON file, rewritten *)
(* in place by /admin/halt, /admin/resume, /ui/halt and /ui/resume, which  *)
(* FastAPI runs on threads, and read by every order pipeline.              *)
(*                                                                         *)
(* open(path, "w") empties the file at once; json.dump's text reaches it   *)
(* when the handle is closed.  A reader sees whatever is there.            *)
(***************************************************************************)
EXTENDS FiniteSets

CONSTANT Writers      \* threads that may be inside write_control_state

ASSUME WritersAssumption == IsFiniteSet(Writers) /\ Writers # {}

VARIABLES
  content,  \* what is in the file
  writing,  \* Writers -> "none" or the state the thread is about to write
  round     \* bookkeeping: what was begun since the file was last at rest

controlVars == <<content, writing, round>>

Contents == {"absent", "empty", "clear", "halted", "corrupt"}
Commands == {"clear", "halted"}

ControlTypeOK ==
  /\ content \in Contents
  /\ writing \in [Writers -> Commands \cup {"none"}]
  /\ round \subseteq Commands \cup {"crash"}

Idle == \A w \in Writers : writing[w] = "none"

(***************************************************************************)
(* read_control_state: absent and empty files mean "not halted"; text that *)
(* is not JSON makes json.loads raise.                                     *)
(***************************************************************************)
ReadControlState ==
  CASE content = "halted"  -> "halted"
    [] content = "corrupt" -> "raises"
    [] OTHER               -> "clear"

ControlInit ==
  /\ content = "absent"
  /\ writing = [w \in Writers |-> "none"]
  /\ round = {}

(***************************************************************************)
(* What the file holds once text t is written over it from offset zero.    *)
(* The halted text is longer than the clear one (it has a timestamp and an *)
(* actor where the other has null), and two halted texts differ in length: *)
(* a shorter text leaves the tail of a longer one behind, which is not     *)
(* JSON any more.                                                          *)
(***************************************************************************)
Overwritten(t) ==
  CASE content \in {"absent", "empty"}              -> {t}
    [] content = "clear"                            -> {t}
    [] content = "halted" /\ t = "clear"            -> {"corrupt"}
    [] content \in {"halted", "corrupt"} /\ t = "halted" -> {"halted", "corrupt"}
    [] OTHER                                        -> {"corrupt"}

\* halt_trading (t = "halted") or resume_trading (t = "clear"): open(path, "w").
OpenForWrite(w, t) ==
  /\ writing[w] = "none"
  /\ content' = "empty"
  /\ writing' = [writing EXCEPT ![w] = t]
  /\ round'   = (IF Idle THEN {} ELSE round) \cup {t}

CloseWriteLostMut(w) ==
  /\ writing[w] # "none"
  /\ writing' = [writing EXCEPT ![w] = "none"]
  /\ UNCHANGED <<content, round>>

\* The with block ends: the buffered text is written and the handle closed.
CloseWrite(w) ==
  /\ writing[w] # "none"
  /\ content' \in Overwritten(writing[w])
  /\ writing' = [writing EXCEPT ![w] = "none"]
  /\ UNCHANGED round

\* The process dies; buffered text is lost, the file stays as it is.
ControlCrash ==
  /\ content' = content
  /\ writing' = [w \in Writers |-> "none"]
  /\ round'   = IF Idle THEN round ELSE round \cup {"crash"}

ControlNext ==
  \/ \E w \in Writers, t \in Commands : OpenForWrite(w, t)
  \/ \E w \in Writers : CloseWrite(w)
  \/ ControlCrash

ControlSpec == ControlInit /\ [][ControlNext]_controlVars

-----------------------------------------------------------------------------
(* Properties. *)

(* A halt has completed, nobody has resumed or is writing, no write died:  *)
(* the pause switch is standing.                                           *)
StandingHalt == Idle /\ round = {"halted"}

(* Once every write of a round of halts (and of halts only) has finished,  *)
(* a reader is told "halted" or gets an exception, never "not halted",     *)
(* however the writers interleaved; after a round of resumes alone it is   *)
(* told "not halted".  (control_state.py:36-45, read back by 20-33.)       *)
SettledFileAgrees ==
  /\ StandingHalt => content \in {"halted", "corrupt"}
  /\ Idle /\ round = {"clear"} => content = "clear"

(* A file that cannot be parsed is the work of overlapping writers, one of *)
(* them a halt: no run of resumes, crashes and restarts alone produces it. *)
CorruptionNeedsAHalt ==
  content = "corrupt" => "halted" \in round
=============================================================================
