-------------------------- MODULE MCGuardianSigning --------------------------
(* Three requests: a1 and a2 carry the same transaction (a retry), b1 a    *)
(* rival successor of the same vault.                                      *)
EXTENDS GuardianSigning

CONSTANTS a1, a2, b1

MCRequest == {a1, a2, b1}
OneVault == [r \in MCRequest |-> "vault1"]
MCDigestOf == [r \in MCRequest |-> IF r = b1 THEN "b" ELSE "a"]
=============================================================================
