--------------------------------- MODULE MCBoot ---------------------------------
(***************************************************************************)
(* Three kinds of node: one that starts three times, with requests that    *)
(* change the settings; one that starts twice, with a request, an outage   *)
(* and another connection; and one start with outages and connections.     *)
(***************************************************************************)
EXTENDS Boot

CONSTANTS r1, r2, r3

BootPlans ==
    {[requests |-> {r1, r2, r3}, boots |-> 3, repositories |-> {}, connects |-> 2, outages |-> 0],
     [requests |-> {r1}, boots |-> 2, repositories |-> {accountRepository}, connects |-> 3,
      outages |-> 1],
     [requests |-> {}, boots |-> 1, repositories |-> Repositories, connects |-> 3, outages |-> 3]}
================================================================================
