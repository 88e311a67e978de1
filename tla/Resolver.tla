------------------------------ MODULE Resolver ------------------------------
(***************************************************************************)
(* What a name lookup promises its caller, free of retries and callbacks:  *)
(* one name is looked up at a time, and the answer is an address for that  *)
(* very name, or none.  The address is of no use (Wild) when the resolver  *)
(* was told that the name has none.                                        *)
(***************************************************************************)
CONSTANTS
  Names,       \* what can be looked up; also stands for its address
  Wild,        \* an address that belongs to no name
  NoAddress,   \* the lookup failed
  NoName       \* nothing has been looked up yet

VARIABLES
  asked,       \* the name of the latest lookup
  answering,   \* the caller waits for its answer
  answer       \* what the latest lookup returned

vars == <<asked, answering, answer>>

Init ==
  /\ asked = NoName
  /\ answering = FALSE
  /\ answer = NoAddress

Ask(n) ==
  /\ ~ answering
  /\ asked' = n
  /\ answering' = TRUE
  /\ UNCHANGED answer

Answer ==
  /\ answering
  /\ answering' = FALSE
  /\ answer' \in {asked, Wild, NoAddress}
  /\ UNCHANGED asked

Next == (\E n \in Names : Ask(n)) \/ Answer

Spec == Init /\ [][Next]_vars
=============================================================================
