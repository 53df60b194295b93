---------------------------- MODULE MCDevnetSetup -----------------------------
(***************************************************************************)
(* Grants for one record: two setups of one tester, one after the other,   *)
(* and a dangerous grant, with or without an expiry of its own.            *)
(***************************************************************************)
EXTENDS DevnetSetup

MCGrant ==
    [g \in Grants |->
        IF g \in Setups THEN [roles |-> {"mint", "redeem"}, expiries |-> {Unspecified}]
        ELSE [roles |-> {"admin"}, expiries |-> {Unspecified, 9}]]

MCEarlier(f, g) == f = "first" /\ g = "again"

MCInitialRecords ==
    {NoRecord, [roles |-> {"mint"}, generation |-> 1, expiry |-> 9],
     [roles |-> {"mint"}, generation |-> 1, expiry |-> 0]}
=============================================================================
