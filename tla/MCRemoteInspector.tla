--------------------------- MODULE MCRemoteInspector ---------------------------
(* Small instances of RemoteInspector for TLC. *)
EXTENDS RemoteInspector

\* Functions that allocate, free or count references.
LockingCalls == Frees \cup {"SSL_get1_peer_certificate", "SSL_get1_session",
                            "BIO_new", "SSL_SESSION_print_keylog"}

Entry(library, start, offset) ==
  [library |-> library, start |-> start, offset |-> offset]

\* Text and data segments of libssl, above or below libcrypto; the data segment
\* lies higher than its offset says.  The last process has no libcrypto.
SSLSegments(a)    == <<Entry("libssl", a, 0), Entry("libssl", a + 1, 1),
                       Entry("libssl", a + 4, 2)>>
CryptoSegments(a) == <<Entry("libcrypto", a, 0), Entry("libcrypto", a + 3, 2)>>

SampleListings ==
  {SSLSegments(5) \o CryptoSegments(20),
   CryptoSegments(3) \o <<Entry("other", 10, 0)>> \o SSLSegments(30),
   SSLSegments(5)}
===============================================================================
