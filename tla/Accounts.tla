------------------------------ MODULE Accounts ------------------------------
(***************************************************************************)
(* The 20-byte Ethereum addresses the Orbs-side contracts keep.  Contract   *)
(* state that was never written reads as the zero address, so the zero      *)
(* address is an account of its own that nobody can hold.                   *)
(***************************************************************************)
EXTENDS FiniteSets

CONSTANTS
  Address,       \* the addresses that people hold
  EmptyAddress   \* the zero address ([20]byte{} in the code)

ASSUME EmptyAddressAssumption == EmptyAddress \notin Address

(* Twenty bytes name finitely many accounts.                                *)
ASSUME AddressAssumption == IsFiniteSet(Address)

Account == Address \cup {EmptyAddress}

=============================================================================
