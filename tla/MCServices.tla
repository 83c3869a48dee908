----------------------------- MODULE MCServices -----------------------------
(* Services with one setting of each kind, with the alerts' settings that an *)
(* operator may have made, zero and negative ones included, and with three   *)
(* schedules, of which a tick lists one at a time as the code lists 25 of    *)
(* more.                                                                     *)
EXTENDS Services

MCEnvs ==
  {[k \in Keys |-> "env"], [k \in Keys |-> IF k = Backend THEN Strict ELSE "env"]}
MCAttempts == {-1, 0, 1, 2, 4}

CONSTANTS s1, s2, s3
MCInterval == [s \in {s1, s2, s3} |-> IF s = s1 THEN 3 ELSE 2]
=============================================================================
