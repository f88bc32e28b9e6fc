------------------------- MODULE EvidenceAuthority -------------------------
(***************************************************************************)
(* What the registry promises about authority, without tables, records,    *)
(* generations or calls: at any moment a NIC is vouched for by one live    *)
(* worker incarnation or by nobody.  An incarnation vouches only for       *)
(* itself and only while it is live; when it leaves, nothing it vouched    *)
(* for keeps its word, and a new coordinator epoch starts with no          *)
(* incarnation and no word at all.                                         *)
(*                                                                         *)
(* NicRegistry is shown to implement this specification: see               *)
(* ImplementsAuthority there.                                              *)
(***************************************************************************)
CONSTANTS
    Workers, Boots, Nics,
    None                     \* no incarnation

VARIABLES
    live,                    \* the live boot of each worker, or None
    vouched                  \* the incarnation that vouches for each NIC

avars == <<live, vouched>>

Incarnation == [worker : Workers, boot : Boots]

AuthorityInit ==
    /\ live = [w \in Workers |-> None]
    /\ vouched = [n \in Nics |-> None]

\* A worker that has no live boot joins.
Join(i) ==
    /\ live[i.worker] = None
    /\ live' = [live EXCEPT ![i.worker] = i.boot]
    /\ UNCHANGED vouched

\* A live incarnation vouches for a NIC, whoever did so before.
Vouch(i, n) ==
    /\ live[i.worker] = i.boot
    /\ vouched' = [vouched EXCEPT ![n] = i]
    /\ UNCHANGED live

\* v keeps the word of some of the incarnations of vouched and adds nothing.
Weakens(v) == \A n \in Nics : v[n] \in {vouched[n], None}

\* A worker leaves; no word of any of its boots is kept.  What others vouched
\* for may be lost with it, but never changes hands.
Leave(w) ==
    /\ live' = [live EXCEPT ![w] = None]
    /\ vouched' \in [Nics -> Incarnation \cup {None}]
    /\ Weakens(vouched')
    /\ \A n \in Nics : vouched'[n] # None => vouched'[n].worker # w

NewEpoch ==
    /\ live' = [w \in Workers |-> None]
    /\ vouched' = [n \in Nics |-> None]

\* New evidence that vouches for nothing: it already asks for revalidation.
Withdraw(n) ==
    /\ vouched' = [vouched EXCEPT ![n] = None]
    /\ UNCHANGED live

AuthorityNext ==
    \/ \E i \in Incarnation : Join(i) \/ \E n \in Nics : Vouch(i, n)
    \/ \E w \in Workers : Leave(w)
    \/ NewEpoch
    \/ \E n \in Nics : Withdraw(n)

AuthoritySpec == AuthorityInit /\ [][AuthorityNext]_avars
=============================================================================
