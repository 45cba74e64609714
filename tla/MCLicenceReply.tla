--------------------------- MODULE MCLicenceReply ---------------------------
(* Instances of LicenceReply for TLC: all files of at most MaxLines lines. *)
EXTENDS LicenceReply, TLC

(* Trailers for up to two transactions, and one that counts a file error. *)
SmallTrailers ==
    {t \in [accepted : 0..2, rejected : 0..2, errors : {0}] : t.accepted + t.rejected <= 2}
        \cup {[accepted |-> 1, rejected |-> 0, errors |-> 1]}

RefSymmetry == Permutations(Ref)

=============================================================================
