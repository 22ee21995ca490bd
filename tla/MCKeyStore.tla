----------------------------- MODULE MCKeyStore -----------------------------
(* Two pods with the demo key and two more to be issued.                    *)
EXTENDS KeyStore

CONSTANTS demo_key, demo

MCSeed == <<[key |-> demo_key, tenant |-> demo, limits |-> CHOOSE l \in Limits : TRUE,
             revoked |-> FALSE]>>

NoSeed == <<>>
=============================================================================
