--------------------------- MODULE MCCustomerOrder ---------------------------
(* One table, its phones and a few portions for TLC. *)
EXTENDS CustomerOrder, TLC

CONSTANTS ann, bob, rice, soup

PhoneSymmetry == Permutations(Guests)
=============================================================================
