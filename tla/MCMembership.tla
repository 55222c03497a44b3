---------------------------- MODULE MCMembership ----------------------------
EXTENDS Membership, TLC

CONSTANTS u1, u2, u3, e1, e2, e3, r1, r2, i1, i2

MCUser    == {u1, u2, u3}
MCEmail   == {e1, e2, e3}
MCRequest == {r1, r2}
MCInvite  == {i1, i2}

\* The first hour's users, and one of a later hour.
MCSlot == [u \in MCUser |-> IF u = u3 THEN 1 ELSE 0]

MCOperations == {"delete", "permissions", "invites", "sso", "accounts", "profile", "digest"}
MCWorkloads  == {{"delete", "permissions"}, {"delete", "invites", "sso"},
                 {"invites", "accounts"}, {"delete", "digest"},
                 {"profile", "digest"}}

Symmetry == Permutations(MCEmail) \cup Permutations(MCRequest) \cup Permutations(MCInvite)
            \cup Permutations({u1, u2})
=============================================================================
