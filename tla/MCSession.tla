----------------------------- MODULE MCSession -----------------------------
(* Environments and symmetry of the TLC run of Session.                    *)
EXTENDS Session, TLC

CONSTANTS p1, p2, a

\* A throwaway agent over the operator's, with the password asked for; the
\* operator's agent alone, or none at all, with the password in a file.
At(ownKey, agent, file, root) ==
  [sshKey |-> ownKey, agent |-> agent, passwordFile |-> file, root |-> root]
MCSetups == {At(TRUE, TRUE, FALSE, FALSE), At(FALSE, TRUE, TRUE, TRUE),
             At(FALSE, FALSE, TRUE, TRUE)}

Interchangeable == Permutations(Procs)
=============================================================================
