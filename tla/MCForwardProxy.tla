---------------------------- MODULE MCForwardProxy ----------------------------
(* Instances of ForwardProxyClient: two versions of the inputs, one of     *)
(* which may change the base files only, with and without the containers.  *)
EXTENDS ForwardProxyClient, TLC

CONSTANTS v1, v2, s1, s2

Listed(b, s, c) == ("base" :> b) @@ ("systemd" :> s) @@ ("containers" :> c)

MCVersion == {v1, v2}
MCWants == {Listed(v1, v1, Absent), Listed(v1, v1, v1), Listed(v2, v1, Absent),
            Listed(v2, v2, v2)}

(* What a run that disables would have rendered is read only where there   *)
(* is no marker.                                                           *)
MCRequest ==
  [enabled : {TRUE}, want : MCWants, manage : BOOLEAN, now : BOOLEAN,
   services : SUBSET Service]
  \union
  [enabled : {FALSE}, want : {Listed(v1, v1, v1)}, manage : BOOLEAN, now : BOOLEAN,
   services : SUBSET Service]
================================================================================
