--------------------------- MODULE MCCredentials ----------------------------
EXTENDS Credentials, TLC

MCProcessOf == [t \in Threads |-> IF t = "other" THEN "p2" ELSE "p1"]
=============================================================================
