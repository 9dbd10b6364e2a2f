--------------------------- MODULE MCProvRequests ---------------------------
(***************************************************************************)
(* Instances of ProvRequests for TLC.                                      *)
(***************************************************************************)
EXTENDS ProvRequests, TLC

CONSTANTS c1, c2

\* In one behaviour the client configures the station, in another it scans, and
\* in those without requests the service has all its variety.
Followed == {{}, {"prov-config", "prov-ctrl"}, {"prov-scan"}}

\* Which credentials are sent makes no difference.
Symmetric == Permutations(Creds)
=============================================================================
