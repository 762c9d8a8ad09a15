------------------------------ MODULE CertOffer ------------------------------
(***************************************************************************)
(* What TLS clients are promised of the serving certificate, by either     *)
(* certificate store, across renewals, failures, kills and restarts: while *)
(* the process listens it offers a certificate with its own key, and never *)
(* one older than any client was offered before.  Bundles are numbered in  *)
(* the order they came to be.                                              *)
(***************************************************************************)
EXTENDS Naturals, Sequences

VARIABLES
  offer,  \* <<certificate's bundle, key's bundle>>, or NoOffer: nobody listens
  floor   \* the oldest bundle that may yet be offered

NoOffer == <<>>

Init ==
  /\ offer = NoOffer
  /\ floor \in Nat

\* Older bundles are superseded, perhaps.
Supersedes == floor' \in Nat /\ floor <= floor'

\* The process ends.
Closes == offer' = NoOffer

\* The process offers a whole bundle, and from now on no older one.
OffersBundle == \E g \in floor .. floor' : g > 0 /\ offer' = <<g, g>>

Next == Supersedes /\ (UNCHANGED offer \/ Closes \/ OffersBundle)

Spec == Init /\ [][Next]_<<offer, floor>>
=============================================================================
