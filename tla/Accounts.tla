------------------------------ MODULE Accounts ------------------------------
(* The addresses of a chain's accounts, and the one for which libra.move and  *)
(* libra_system.move keep minting and reconfiguring.                          *)
CONSTANTS Addresses,
          Association  \* 0xA550C18
=============================================================================
