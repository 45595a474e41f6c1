------------------------- MODULE MCRecipientIngest -------------------------
(* Model values for TLC's runs of RecipientIngest. *)
EXTENDS RecipientIngest, TLC

CONSTANTS c1, c2, k1, k2, a, b, d

TwoCallers == {c1, c2}
TwoKeys    == {k1, k2}

\* A body with an address twice, and one that shares an address with it.
Bodies == (k1 :> <<a, a, b>>) @@ (k2 :> <<b, BadLine, d>>)
=============================================================================
