------------------------------ MODULE MCGateway ------------------------------
(* The number of seconds to wait is the only parameter; it is in the cfg.    *)
EXTENDS Gateway
=============================================================================
