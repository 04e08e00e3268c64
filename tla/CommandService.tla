--------------------------- MODULE CommandService ---------------------------
(***************************************************************************)
(* What a CommandSender promises its device, without retries, packets,     *)
(* timers or cancellation flags: commands go on the air in the order they  *)
(* were accepted, only the oldest one is ever on the air, and a command    *)
(* leaves the service because it was on the air or because everything was  *)
(* cancelled.  Commands are numbered in the order of acceptance.           *)
(***************************************************************************)
EXTENDS Naturals, Sequences

VARIABLES
  pending,   \* numbers of the accepted commands that are still to be served
  onAir,     \* number of the command whose packet was last handed to the radio
  accepted,  \* how many commands have been accepted
  cancels    \* how many times everything was cancelled

vars == <<pending, onAir, accepted, cancels>>

Init == pending = <<>> /\ onAir = 0 /\ accepted = 0 /\ cancels = 0

Accept ==
  /\ accepted' = accepted + 1
  /\ pending' = Append(pending, accepted')
  /\ UNCHANGED <<onAir, cancels>>

Transmit ==
  /\ pending # <<>>
  /\ onAir' = pending[1]
  /\ UNCHANGED <<pending, accepted, cancels>>

Retire ==
  /\ pending # <<>>
  /\ onAir = pending[1]
  /\ pending' = Tail(pending)
  /\ UNCHANGED <<onAir, accepted, cancels>>

CancelAll ==
  /\ pending' = <<>>
  /\ cancels' = cancels + 1
  /\ UNCHANGED <<onAir, accepted>>

Next == Accept \/ Transmit \/ Retire \/ CancelAll

Spec == Init /\ [][Next]_vars
=============================================================================
