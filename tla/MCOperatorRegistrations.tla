----------------------- MODULE MCOperatorRegistrations ----------------------
(* Small instance of OperatorRegistrations: an operator registers and changes its *)
(* socket, another one registers later.                                            *)
EXTENDS OperatorRegistrations

CONSTANTS o1, o2, s1, s2

MCLogs ==
  {[id |-> 1, sub |-> "pubkeys", block |-> 1, operator |-> o1, socket |-> NoSocket],
   [id |-> 2, sub |-> "sockets", block |-> 1, operator |-> o1, socket |-> s1],
   [id |-> 3, sub |-> "sockets", block |-> 2, operator |-> o1, socket |-> s2],
   [id |-> 4, sub |-> "pubkeys", block |-> 2, operator |-> o2, socket |-> NoSocket],
   [id |-> 5, sub |-> "sockets", block |-> 2, operator |-> o2, socket |-> s1]}
=============================================================================
