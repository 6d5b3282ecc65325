------------------------------ MODULE MCSenal ------------------------------
(* Small instances of Senal for TLC.                                       *)
EXTENDS Senal

CONSTANTS main, router, listener

(* sig_handler posts to Router first.                                      *)
OrdenDos == <<router, listener>>

(* Router and Listener post to each other and wait on their own queues.    *)
PosteaDos == [t \in Hilo |-> IF t = main THEN {} ELSE Cola]

(* recv fails in either of them.                                           *)
LanzaDos == [t \in Hilo |-> IF t = main THEN {} ELSE {"SIGTERM"}]
=============================================================================
