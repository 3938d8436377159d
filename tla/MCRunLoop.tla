------------------------------- MODULE MCRunLoop -------------------------------
(* A small instance of RunLoop: the process reader and an OpenSSL loader whose *)
(* plaintext pump may be absent. *)
EXTENDS RunLoop

CONSTANTS process, openssl, opensslApp

MCPumps    == {process, openssl, opensslApp}
MCOptional == {opensslApp}
MCLoaders  == <<{process}, {openssl, opensslApp}>>
MCChanCap  == [p \in MCPumps |-> 1]
MCMaxReads == [p \in MCPumps |-> CASE p = process -> 1 [] p = openssl -> 2 [] OTHER -> 0]
===============================================================================
