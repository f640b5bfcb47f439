-------------------------- MODULE CertificateHandover --------------------------
(***************************************************************************)
(* What the bootstrapper promises to the webhook server and to the API      *)
(* server: new certificates go from the secret to the server and from there *)
(* to the API server.  What is offered to the server is the pair that is    *)
(* kept, or nothing; and the API server is told to trust a CA only while    *)
(* the server can load the certificate that this CA has signed.             *)
(***************************************************************************)
CONSTANTS Key, None

VARIABLES
    kept,     \* the pair that is kept, by the keys of its CA and its certificate
    offered,  \* the pair the server can load
    served,   \* the pair the server serves with
    trusted   \* the key of the CA the API server trusts

vars == <<kept, offered, served, trusted>>

Pair == [root : Key, key : Key]

Init == kept = None /\ offered = None /\ served = None /\ trusted = None

(* Every renewal comes with a new key for the server, a new CA or not.           *)
Renew ==
    /\ kept' \in Pair
    /\ kept # None => kept'.key # kept.key
    /\ UNCHANGED <<offered, served, trusted>>

Withdraw == offered' = None /\ UNCHANGED <<kept, served, trusted>>
Offer == kept # None /\ offered' = kept /\ UNCHANGED <<kept, served, trusted>>
Serve == offered # None /\ served' = offered /\ UNCHANGED <<kept, offered, trusted>>
Stop == served' = None /\ offered' \in {offered, None} /\ UNCHANGED <<kept, trusted>>

Trust ==
    /\ kept # None /\ offered = kept /\ trusted' = kept.root
    /\ UNCHANGED <<kept, offered, served>>

Next == Renew \/ Withdraw \/ Offer \/ Serve \/ Stop \/ Trust

Spec == Init /\ [][Next]_vars

================================================================================
