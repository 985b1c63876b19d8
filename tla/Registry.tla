------------------------------ MODULE Registry ------------------------------
(***************************************************************************)
(* What napd's Server promises about the clients it serves, without the    *)
(* accept thread, the `incoming` queue, the descriptors or the dead flags: *)
(* a registry that holds at most one connection per address, the one that  *)
(* was admitted last ("if they are, honor the most recent connection",     *)
(* server.cc:119-120), until it is dropped.                                *)
(***************************************************************************)
CONSTANTS Conn,     \* the connections peers make, each made once
          Ip,       \* the addresses they come from
          IpOf      \* the address of each connection, in [Conn -> Ip]

VARIABLES registry, \* the connections served now
          admitted  \* the connections that were ever admitted

regVars == <<registry, admitted>>

RegistryInit == registry = {} /\ admitted = {}

\* A new connection takes the place of the one its address had.
Admit(c) ==
  /\ c \in Conn \ admitted
  /\ registry' = {d \in registry : IpOf[d] # IpOf[c]} \cup {c}
  /\ admitted' = admitted \cup {c}

\* A connection ends.
Drop(c) ==
  /\ c \in registry
  /\ registry' = registry \ {c}
  /\ UNCHANGED admitted

RegistryNext == \E c \in Conn : Admit(c) \/ Drop(c)

RegistrySpec == RegistryInit /\ [][RegistryNext]_regVars

\* No address has two connections in the registry (ServerProofs has the theorem).
OnePerIp == \A c, d \in registry : IpOf[c] = IpOf[d] => c = d
=============================================================================
