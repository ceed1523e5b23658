------------------------------ MODULE MCShares ------------------------------
(* Two shares and two stream threads.  The contents: a text that fits      *)
(* every limit, and one that compresses to less than 1/512 and is larger   *)
(* than the limit a server advertises.                                     *)
EXTENDS Shares, TLC

MCContents == {
    [plain |-> 1, packed |-> 1, wire |-> 1, foreign |-> FALSE],
    [plain |-> 3000, packed |-> 3, wire |-> 4, foreign |-> FALSE]}

(* Shares and threads are interchangeable where no liveness is checked.    *)
MCSymmetry == Permutations(Share) \union Permutations(Fetcher)
=============================================================================
