----------------------------- MODULE MCPairingLife -----------------------------
(***************************************************************************)
(* PairingLife on a device with two receiver processes and a few keys.     *)
(***************************************************************************)
EXTENDS PairingLife

Managed   == [security |-> "managed", pairing_qr |-> TRUE, server_id |-> FALSE]
Operator  == [security |-> "psk_file", pairing_qr |-> FALSE, server_id |-> TRUE]
Plaintext == [security |-> "plaintext", pairing_qr |-> TRUE, server_id |-> FALSE]

AllLaunches == {Managed, Operator, Plaintext}
================================================================================
