--------------------------------- MODULE MCNFT --------------------------------
(* NFT on a small instance; MCNFT.cfg gives the bounds. *)
EXTENDS NFT, TLC

NFTSymmetry == Permutations(Accounts) \cup Permutations(TokenIds) \cup Permutations(Drops)
=============================================================================
