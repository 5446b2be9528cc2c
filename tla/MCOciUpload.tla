----------------------------- MODULE MCOciUpload -----------------------------
(* Instances of OciUpload for TLC: requests named by what they are. *)
EXTENDS OciUpload

CONSTANTS post, mono, patch, put, put2, cancel, a, b

MCKindOf == [q \in Requests |->
  CASE q = post -> "post" [] q = mono -> "mono" [] q = patch -> "patch"
    [] q \in {put, put2} -> "put" [] OTHER -> "cancel"]

\* The POST brings a and opens a session; the PATCH adds b; one PUT brings b as the
\* last chunk and asks for ab, the other has no body and asks for a.
MCBodyOf == [q \in Requests |->
  CASE q \in {post, mono} -> <<a>> [] q \in {patch, put} -> <<b>> [] OTHER -> <<>>]

MCDigests == {<<a>>, <<a, b>>}
MCDigestOf == [q \in Requests |-> IF q = put THEN <<a, b>> ELSE <<a>>]
=============================================================================
