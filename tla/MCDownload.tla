----------------------------- MODULE MCDownload -----------------------------
(* Instances of Download for TLC: a laptop in full, and a phone that is    *)
(* known through what it uploads.                                          *)
EXTENDS Download, TLC

CONSTANTS laptop, phone,           \* devices
          ann, ben,                \* members
          p1, p2, l1,              \* updates
          first, second            \* data keys

MCUpdates == {p1, p2, l1}
MCAuthors == [u \in Updates |-> IF u = l1 THEN laptop ELSE phone]

\* The laptop is ben's, the phone ann's.
MCMembers == laptop :> ben @@ phone :> ann

\* No rotation, or the phone's second update sealed under the next key.
MCOneKey  == [u \in Updates |-> first]
MCRotated == [u \in Updates |-> IF u = p2 THEN second ELSE first]
=============================================================================
