------------------------------ MODULE MCBlobGC -------------------------------
(* Instances of BlobGC for TLC: an image of one layer and an index that lists  *)
(* it; one repository with two tags, or two repositories in one bucket.       *)
EXTENDS BlobGC

CONSTANTS hub, lab, image, idx, b1, t1, t2, pushA, pushB, untag, delete, pushIdx

MCLocationOf == [x \in Repos |-> hub]
MCBlobsOf == [x \in Manifests |-> IF x = image THEN {b1} ELSE {}]
MCChildrenOf == [x \in Manifests |-> IF x = idx THEN {image} ELSE {}]

J(op, r, t, x) == [op |-> op, repo |-> r, tag |-> t, manifest |-> x]

\* The image is pushed under two tags while both are deleted.
MCJobOf == [c \in Clients |->
  CASE c = pushA -> J("push", hub, t1, image) [] c = pushB -> J("push", hub, t2, image)
    [] c = untag -> J("untag", hub, t1, image) [] c = delete -> J("delete", hub, t1, image)
    [] OTHER -> J("push", hub, t1, idx)]

\* The image is pushed to two repositories and deleted from one of them.
MCSharedJobOf == [c \in Clients |->
  CASE c = pushA -> J("push", hub, t1, image) [] c = pushB -> J("push", lab, t1, image)
    [] OTHER -> J("untag", hub, t1, image)]
=============================================================================
