-------------------------- MODULE MC_SourceDownload --------------------------
(* A zip with an expected checksum and a tar without one, of two chunks. *)
EXTENDS SourceDownload

OrderDef == <<"case1.zip", "case2.tar.gz">>
KindDef == [a \in {"case1.zip", "case2.tar.gz"} |-> IF a = "case1.zip" THEN "zip" ELSE "tar"]
ExpectedDef == [a \in {"case1.zip", "case2.tar.gz"} |-> IF a = "case1.zip" THEN 1 ELSE 0]
=============================================================================
