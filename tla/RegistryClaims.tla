--------------------------- MODULE RegistryClaims ---------------------------
(***************************************************************************)
(* What the repository's documentation says of the registry and the code   *)
(* does not do.                                                            *)
(***************************************************************************)
EXTENDS NicRegistry

\* README.md:122-123: a coordinator restart marks dynamic evidence
\* revalidation-required.  coordinator_restart leaves NIC records alone, so a
\* NIC stored in an earlier epoch stays AVAILABLE with no live publisher.
RestartDemotesNics ==
    \A n \in Present(nics) :
        publisher[n].epoch < epoch => nics[n].lifecycle = Revalidate
=============================================================================
