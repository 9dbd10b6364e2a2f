--------------------------- MODULE MCAsyncWorkers ---------------------------
(***************************************************************************)
(* Instances of AsyncWorkers and WirelessDebug for TLC: the two components *)
(* that hand work to a task through a queue. They have nothing in common,  *)
(* so that a behaviour is one of either.                                   *)
(***************************************************************************)
EXTENDS AsyncWorkers, WirelessDebug

CONSTANTS w1, w2, w3, r1, r2, r3, r4
ThreeWorkers == {w1, w2, w3}
FourRequests == {r1, r2, r3, r4}

VARIABLE component

EitherInit ==
  /\ Init /\ DebugInit
  /\ component \in {"workers", "debug"}
  /\ component = "debug" => \A w \in Workers : worker[w] = "absent"

EitherNext ==
  /\ \/ component = "workers" /\ Next /\ UNCHANGED debugVars
     \/ component = "debug" /\ DebugNext /\ UNCHANGED vars
  /\ UNCHANGED component

\* The fairness is that of the workers; nothing is claimed to happen in the
\* other component.
EitherSpec ==
  EitherInit /\ [][EitherNext]_<<component, vars, debugVars>> /\ Fairness
=============================================================================
