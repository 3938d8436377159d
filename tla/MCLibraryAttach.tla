---------------------------- MODULE MCLibraryAttach ----------------------------
(* Two OpenSSL libraries, one of them not attachable, and a GnuTLS one; a      *)
(* required hook, a plaintext hook and an entry-only one.                      *)
EXTENDS LibraryAttach

CONSTANTS broken, libssl, libgnutls

MCOrder     == <<broken, libssl, libgnutls>>
MCLoaderOf  == [p \in {broken, libssl, libgnutls} |-> IF p = libgnutls THEN 2 ELSE 1]
MCSupported == {libssl, libgnutls}
MCSpecs     == <<[paired |-> TRUE,  optional |-> FALSE],
                 [paired |-> TRUE,  optional |-> TRUE],
                 [paired |-> FALSE, optional |-> TRUE]>>
===============================================================================
