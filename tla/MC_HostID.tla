----------------------------- MODULE MC_HostID -----------------------------
(* The host-ID holder for TLC: three readers, an ID of three fields. *)
EXTENDS HostID, TLC

CONSTANTS r1, r2, r3

MCReaders == {r1, r2, r3}

\* Full setter lists in both orders and the one-setter partial update of
\* TestLockedHostID.
MCSetterLists == { <<1, 2, 3>>, <<3, 1, 2>>, <<2>> }

ReaderSymmetry == Permutations(MCReaders)
=============================================================================
