------------------------------- MODULE MCIngest ------------------------------
(* Values of Ingest's constants that a cfg cannot write. *)
EXTENDS Ingest

CONSTANTS d1, d2, d3, ip1, ip2

\* Two documents of one attacker, one of another.
Addresses == d1 :> ip1 @@ d2 :> ip1 @@ d3 :> ip2
Numbers == d1 :> 1 @@ d2 :> 4 @@ d3 :> -2
Lengths == d1 :> 2 @@ d2 :> 3 @@ d3 :> 0

\* A time that stops extract and the source, or the source only; what stops extract
\* at its other places, extract of a later event, or the update of the profile.
SomeFaults ==
  { d1 :> {"time"} @@ d2 :> {} @@ d3 :> {},
    d1 :> {"zone"} @@ d2 :> {} @@ d3 :> {"number"},
    d1 :> {"list"} @@ d2 :> {} @@ d3 :> {"no_ip"},
    d1 :> {"port"} @@ d2 :> {"payload"} @@ d3 :> {"proto"} }
=============================================================================
