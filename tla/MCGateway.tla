----------------------------- MODULE MCGateway -----------------------------
(* Three blinds on two remotes, one of them left by version 3 of the       *)
(* firmware, in one group.  The edits rename a, disable it, save it as a   *)
(* light, move c to the remote of the others (one too many for the group), *)
(* and save a remote at b's address; b is also the stranger.               *)
EXTENDS Gateway

CONSTANTS a, b, c, q, r, blinds, n1, n2, home, none, noDevice, noGroup, noRecord, noMessage, noBackup

Saved(type, addr, src, on, name) ==
  [type |-> type, addr |-> addr, src |-> src, enabled |-> on, tilt |-> "none", name |-> name]

MCEdits == {Saved("cover", a, r, TRUE, n2), Saved("cover", a, r, FALSE, n1),
            Saved("light", a, r, TRUE, n1), Saved("cover", c, r, TRUE, n1),
            Saved("remote", b, r, TRUE, n1)}

MCMaxEdits == [broker |-> 2, browser |-> 2, store |-> 3]

MCGroupEdits == {<<blinds, <<a, b>>>>}

MCImages ==
  {[dev |-> <<noRecord,
              [ver |-> 3, cfg |-> [Saved("cover", a, r, TRUE, n1) EXCEPT !.tilt = "stale"]],
              [ver |-> 4, cfg |-> [Saved("cover", b, r, TRUE, n1) EXCEPT !.tilt = "set"]],
              [ver |-> 4, cfg |-> Saved("cover", c, q, TRUE, n1)]>>,
    grp |-> <<[id |-> blinds, members |-> {a, b, c}]>>,
    hub |-> none]}
=============================================================================
