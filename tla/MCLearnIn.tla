------------------------------ MODULE MCLearnIn ------------------------------
(* The instance of LearnIn for TLC that lives past half of the clock.      *)
EXTENDS LearnIn

(* No request is given up while a session has time left.                   *)
MCTimeouts == {Wrap \div 2 - 1}
=============================================================================
