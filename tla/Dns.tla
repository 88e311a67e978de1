-------------------------------- MODULE Dns ---------------------------------
(***************************************************************************)
(* Dns::lookup (watchdog/dns.cpp): a request to lwIP, repeated while lwIP  *)
(* refuses it at once, and a callback from lwIP's background interrupt     *)
(* that ends the wait.  The watchdog looks up one server after the other   *)
(* with one Dns object, so an answer must find the lookup it belongs to.   *)
(*                                                                         *)
(* lwIP is external: it knows an address already, takes the request on and *)
(* calls back once, or refuses it.  When no server knew the name it calls  *)
(* back with no address; the callback copies the address it is given all   *)
(* the same, from address zero, and gets whatever is stored there (Wild).  *)
(***************************************************************************)
EXTENDS Naturals

CONSTANTS
  Names,       \* host names; a name also stands for its address
  Wild, NoAddress, NoName,
  max_retry    \* 5, the default of lookup

ASSUME DnsAssumption ==
  /\ NoName \notin Names
  /\ NoAddress \notin Names \cup {Wild}
  /\ max_retry \in Nat

VARIABLES
  lookup_pc,         \* "idle" or, during a lookup, "loop"
  name,              \* the address argument of lookup
  success, addr,     \* Dns::success, Dns::addr
  dns_request_sent, retry_count,
  pending,           \* the name lwIP owes a callback for
  answer             \* what the latest lookup returned

dnsVars == <<lookup_pc, name, success, addr, dns_request_sent, retry_count,
             pending, answer>>

Address == Names \cup {Wild, NoAddress}

DnsTypeOK ==
  /\ lookup_pc \in {"idle", "loop"}
  /\ name \in Names \cup {NoName}
  /\ success \in BOOLEAN
  /\ addr \in Address
  /\ dns_request_sent \in BOOLEAN
  /\ retry_count \in 0 .. max_retry
  /\ pending \in Names \cup {NoName}
  /\ answer \in Address

DnsInit ==
  /\ lookup_pc = "idle"
  /\ name = NoName
  /\ success = FALSE
  /\ addr = NoAddress
  /\ dns_request_sent = FALSE
  /\ retry_count = 0
  /\ pending = NoName
  /\ answer = NoAddress

-----------------------------------------------------------------------------
lookup(n) ==
  /\ lookup_pc = "idle"
  /\ lookup_pc' = "loop"
  /\ name' = n
  /\ success' = FALSE
  /\ dns_request_sent' = FALSE
  /\ retry_count' = 0
  /\ UNCHANGED <<addr, pending, answer>>

TriesLeft == retry_count < max_retry

\* Mutant: a request that has been sent is not waited for.
OverWithoutAnswer == success \/ dns_request_sent \/ ~ TriesLeft

(* The negated condition of the loop. *)
Over == success \/ ~ TriesLeft

(* dns_gethostbyname and what is made of its result.  The callback may come *)
(* at any moment from here on.                                              *)
request ==
  /\ lookup_pc = "loop"
  /\ ~ Over
  /\ ~ dns_request_sent
  /\ \/ /\ addr' = name            \* ERR_OK
        /\ success' = TRUE
        /\ dns_request_sent' = TRUE
        /\ UNCHANGED <<retry_count, pending>>
     \/ /\ pending' = name         \* ERR_INPROGRESS
        /\ dns_request_sent' = TRUE
        /\ UNCHANGED <<addr, success, retry_count>>
     \/ /\ retry_count' = retry_count + 1
        /\ UNCHANGED <<addr, success, dns_request_sent, pending>>
  /\ UNCHANGED <<lookup_pc, name, answer>>

found ==
  /\ pending # NoName
  /\ pending' = NoName
  /\ success' = TRUE
  /\ addr' \in {pending, Wild}
  /\ UNCHANGED <<lookup_pc, name, dns_request_sent, retry_count, answer>>

\* Mutant: it gives up only with an answer.
return_answered ==
  /\ lookup_pc = "loop"
  /\ Over
  /\ IF success THEN lookup_pc' = "idle" /\ answer' = addr /\ UNCHANGED retry_count
                ELSE retry_count' = 0 /\ UNCHANGED <<lookup_pc, answer>>
  /\ UNCHANGED <<name, success, addr, dns_request_sent, pending>>

return ==
  /\ lookup_pc = "loop"
  /\ Over
  /\ lookup_pc' = "idle"
  /\ answer' = IF success THEN addr ELSE NoAddress
  /\ UNCHANGED <<name, success, addr, dns_request_sent, retry_count, pending>>

DnsNext == (\E n \in Names : lookup(n)) \/ request \/ found \/ return

(* The processor runs; lwIP repeats its query a few times and then gives    *)
(* up, so it calls back.                                                    *)
DnsSpec ==
  /\ DnsInit /\ [][DnsNext]_dnsVars
  /\ WF_dnsVars(request) /\ WF_dnsVars(found) /\ WF_dnsVars(return)

-----------------------------------------------------------------------------
(***************************************************************************)
(* A lookup answers for the name it was called with: nothing that lwIP     *)
(* still had to say about an earlier name is taken for it, and an address  *)
(* left in the object is not returned (dns.cpp:10, 45).                    *)
(***************************************************************************)
Promise == INSTANCE Resolver WITH
  asked <- name, answering <- (lookup_pc = "loop"), answer <- answer

ImplementsResolver == Promise!Spec

(* Why: lwIP owes a callback only for the lookup that is under way, and it  *)
(* is the only thing that lookup still waits for.                           *)
OwedToThisLookup ==
  pending # NoName =>
    /\ lookup_pc = "loop" /\ pending = name
    /\ dns_request_sent /\ ~ success /\ TriesLeft

FoundForThisName == lookup_pc = "loop" /\ success => addr \in {name, Wild}

DnsInv ==
  /\ DnsTypeOK
  /\ lookup_pc = "loop" => name # NoName
  /\ OwedToThisLookup /\ FoundForThisName

(***************************************************************************)
(* Every lookup ends (dns.cpp:16): the loop is left by an answer, or by    *)
(* the limit of the retries, which a request that was taken on never       *)
(* reaches.                                                                *)
(***************************************************************************)
LookupEnds == lookup_pc = "loop" ~> lookup_pc = "idle"
=============================================================================
