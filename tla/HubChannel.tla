----------------------------- MODULE HubChannel -----------------------------
(***************************************************************************)
(* The hub implements, for each of its senders, the abstract TxChannel.    *)
(***************************************************************************)
EXTENDS RadioHub

(* Every client sees a channel that answers its requests in order and at   *)
(* most once, whatever the other clients do.  It is the environment that   *)
(* module CommandSender assumes.                                           *)
Channel(c) ==
  INSTANCE TxChannel WITH
    Depth       <- TX_QUEUE + 1 + DONE_QUEUE,
    outstanding <- Outstanding(c),
    requested   <- requested[c],
    answered    <- answered[c]

ImplementsChannel ==
  /\ \A c \in Clients : Channel(c)!Init
  /\ [][\A c \in Clients : [Channel(c)!Next]_(Channel(c)!vars)]_vars
=============================================================================
