----------------------- MODULE MCCertificateRequests -----------------------
(* Instances of CertificateRequests for TLC. *)
EXTENDS CertificateRequests

CONSTANTS r1, p1, v1, w1, w2, u1, u2

OneVendor == [l \in Links |-> v1]
OneRetry  == <<1>>
=============================================================================
