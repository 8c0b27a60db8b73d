----------------------------- MODULE MCStorage -----------------------------
(* Storage on small instances. *)
EXTENDS Storage, TLC

\* Nothing, what the S3 tab requires, and the secret as well.
TestTyping == {{}, {"s3_bucket", "s3_key"}, {"s3_bucket", "s3_key", "s3_secret"}}

Symmetry == Permutations(Key) \cup Permutations(Request) \cup Permutations(Page)
=============================================================================
