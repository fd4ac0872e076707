------------------------------- MODULE MCSite -------------------------------
(* Two nodes, one image, one PCI mapping, and how site.yml may change.     *)
EXTENDS Site, TLC

CONSTANTS n1, n2, img, gpu, p1, p2

Draft(images, nodes, mappings) ==
  [store |-> "local", images |-> images, nodes |-> nodes, mappings |-> mappings]

\* A new URL and a mapping that moves; a node that joins, and a mapping that
\* goes; a mapping on a node that is not there.
MCDrafts == {
  Draft(img :> "v1", (n1 :> TRUE), (gpu :> {n1})),
  Draft(img :> "v2", (n1 :> FALSE) @@ (n2 :> TRUE), (gpu :> {n1, n2})),
  Draft(img :> "v1", (n1 :> TRUE) @@ (n2 :> TRUE), [m \in {} |-> {}]),
  Draft(img :> "v1", (n2 :> FALSE), (gpu :> {n1}))}
=============================================================================
