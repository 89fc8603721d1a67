----------------------------- MODULE MCButtonLoop -----------------------------
(* The program's own command "move 200", and one command of either kind    *)
(* that Controller::setCommand may be given and the Arduino does not obey. *)
EXTENDS ButtonLoop
=============================================================================
