-------------------------------- MODULE MCProbes --------------------------------
(* A thread that reads, writes, shakes hands and sets names on two connections *)
(* of libssl, and one that reads.                                              *)
EXTENDS Probes, TLC

CONSTANTS t1, t2, conn1, conn2

MCThreads == {t1, t2}
MCConns   == {conn1, conn2}
MCLengths == {2}
MCResults == {0, 2}
Symmetric == Permutations(MCConns)

OpenSSLFns   == {"SSL_read", "SSL_write", "SSL_do_handshake", "SSL_ctrl"}
OpenSSLMaps  == [fn \in OpenSSLFns |->
                   CASE fn = "SSL_do_handshake" -> "openssl_pending"
                     [] fn = "SSL_ctrl"         -> "openssl_sni_pending"
                     [] OTHER                   -> "openssl_app_data_pending"]
FullForOne   == {<<"openssl_app_data_pending", t1>>}
Handshakes   == {"SSL_do_handshake"}
Commands     == {"SSL_ctrl"}
MCDepth      == [t \in MCThreads |-> [fn \in OpenSSLFns |->
                   IF t = t1 THEN IF fn \in {"SSL_read", "SSL_ctrl"} THEN 2 ELSE 1
                   ELSE IF fn = "SSL_read" THEN 1 ELSE 0]]
===============================================================================
